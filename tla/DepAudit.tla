-------------------------------- MODULE DepAudit --------------------------------
(***************************************************************************)
(* The dependency audit (src/scripts/dep_audit.py): every dependency that  *)
(* pyproject.toml declares is to be pinned with "==" and to be old enough, *)
(* and every tool of .trunk/trunk.yaml is to be pinned.  A requirement is  *)
(* the structure that PEP 508 gives it; the audit sees its text, here the  *)
(* sequence of the tokens it looks for.  What PyPI knows is fixed during   *)
(* an audit, but any of its answers can fail to come.                      *)
(***************************************************************************)
EXTENDS Integers, Sequences, SequencesExt, FiniteSetsExt

CONSTANTS
  Versions,    \* of the one package there is, and of ruff
  Names,       \* what packages are called
  Newer,       \* <<v, w>> where v is a later version than w
  Projects,    \* what pyproject.toml may hold; NotList where a list was expected
  NotList,
  TrunkFiles,  \* the entries .trunk/trunk.yaml may hold; none without the file
  Releases,    \* what PyPI may hold: by version, the ages of its files in days
  NoDate,      \* ... of a file whose upload time is missing
  MinAge       \* --min-age-days

\* What the text of a requirement is punctuated with.
Punctuation == {"==", ">=", "!=", ".*", "comma", "semicolon", "[", "]", "@"}

\* ">=" stands for every comparison but "==" and "!=".
Clause == [op : {"==", ">=", "!="}, version : Versions, star : BOOLEAN]
Requirement ==
  [name : Seq(Names), extras : BOOLEAN, url : BOOLEAN, marker : BOOLEAN,
   clauses : Seq(Clause)]
Declared == Seq(Requirement) \cup {NotList}
Entry == [tool : STRING, version : STRING]

ASSUME AuditAssumption ==
  /\ (Names \cup Versions) \cap Punctuation = {}
  /\ Newer \subseteq Versions \X Versions
  /\ NotList \notin Seq(Requirement)
  /\ Projects \subseteq [table : BOOLEAN, deps : Declared, groups : Seq(Declared)]
  /\ TrunkFiles \subseteq Seq(Entry)
  /\ NoDate \notin Int /\ MinAge \in Int
  /\ Releases \subseteq [Versions -> SUBSET (Int \cup {NoDate})]
  /\ \A known \in Releases : \A v \in Versions : IsFiniteSet(known[v])

VARIABLES
  pyproject, trunk, offline, released,  \* what is audited, and how
  phase,    \* "start", "pyproject", "trunk", "exited", or "traceback"
  at,       \* the requirement or entry that is next
  reports,  \* the violations, one record per line of the report
  exit      \* the exit code

vars == <<pyproject, trunk, offline, released, phase, at, reports, exit>>

-----------------------------------------------------------------------------
\* What is audited.  An operator marked "Mutant" is a plausible bug that only
\* the mutation runs use.

\* Every declared requirement; what is not a list declares none.
CollectDependencies(p) ==
  LET list(x) == IF x = NotList THEN <<>> ELSE x
  IN  list(p.deps) \o FlattenSeq([n \in DOMAIN p.groups |-> list(p.groups[n])])

\* The text of a requirement: name[extra] op version, ... ; marker, or
\* name[extra] @ url, where the clauses are part of the url.
Tokens(r) ==
  LET clause(n) == (IF n > 1 THEN <<"comma">> ELSE <<>>) \o <<r.clauses[n].op, r.clauses[n].version>>
                   \o (IF r.clauses[n].star THEN <<".*">> ELSE <<>>)
  IN  r.name \o (IF r.extras THEN <<"[", "extra", "]">> ELSE <<>>)
      \o (IF r.url THEN <<"@", "url">> ELSE <<>>)
      \o FlattenSeq([n \in DOMAIN r.clauses |-> clause(n)])
      \o (IF r.marker THEN <<"semicolon", "python", "==", "3">> ELSE <<>>)

Before(t, token) ==
  IF token \in Range(t) THEN SubSeq(t, 1, SelectInSeq(t, LAMBDA x : x = token) - 1) ELSE t

RangeTokens == {"comma", ">=", ".*", "!="}

\* The name and the exact version of a requirement, or why it has none.
SplitRequirement(t) ==
  LET spec == Before(t, "semicolon")
      name == Before(Before(spec, "=="), "[")
      version == SubSeq(spec, SelectInSeq(spec, LAMBDA x : x = "==") + 1, Len(spec))
  IN  [pinned |-> /\ "==" \in Range(spec) /\ name # <<>> /\ version # <<>>
                  /\ Range(version) \cap RangeTokens = {},
       name |-> name, version |-> version]

\* An entry that names no version has the version "", an empty value is read as
\* "None"; whatever is there counts as a pin.
TrunkPin(e) ==
  [pinned |-> e.version # "", name |-> <<e.tool>>, version |-> <<e.version>>]

Items == IF phase = "pyproject" THEN CollectDependencies(pyproject) ELSE trunk
Pin ==
  IF phase = "pyproject" THEN SplitRequirement(Tokens(Items[at])) ELSE TrunkPin(Items[at])

\* Of the tools only ruff is on PyPI.
Dated == ~offline /\ (phase = "trunk" => Items[at].tool = "ruff")

\* The age of a version is that of its earliest file.
\* Mutant: of its latest.
AgeOfLatest(v) == Min(released[v] \ {NoDate})
Age(v) == Max(released[v] \ {NoDate})

\* PyPI has the version, with a dated file.
Found(pin) ==
  /\ pin.name \in {<<"pkg">>, <<"ruff">>} /\ Head(pin.version) \in Versions
  /\ released[Head(pin.version)] \ {NoDate} # {}

\* Mutant: the floor is one day too low.
TooYoungLessOne(v) == Age(v) + 1 < MinAge
TooYoung(v) == Age(v) < MinAge

-----------------------------------------------------------------------------
Init ==
  /\ pyproject \in Projects
  /\ trunk \in TrunkFiles
  /\ offline \in BOOLEAN
  /\ released \in Releases
  /\ phase = "start" /\ at = 1
  /\ reports = <<>> /\ exit = 2

\* main: no such file, or no [project] table in it.
UsageError ==
  /\ phase = "start"
  /\ ~pyproject.table
  /\ phase' = "exited"
  /\ UNCHANGED <<pyproject, trunk, offline, released, at, reports, exit>>

Start ==
  /\ phase = "start"
  /\ pyproject.table
  /\ phase' = "pyproject"
  /\ UNCHANGED <<pyproject, trunk, offline, released, at, reports, exit>>

Auditing == phase \in {"pyproject", "trunk"} /\ at \in DOMAIN Items

Advance(lines) ==
  /\ at' = at + 1
  /\ reports' = reports \o [n \in DOMAIN lines |-> [file |-> phase, at |-> at, why |-> lines[n]]]
  /\ UNCHANGED <<pyproject, trunk, offline, released, phase, exit>>

ReportUnpinned == Auditing /\ ~Pin.pinned /\ Advance(<<"unpinned">>)

AcceptPin == Auditing /\ Pin.pinned /\ ~Dated /\ Advance(<<>>)

\* PyPI does not answer, or does not know the version or its date.
ReportUnresolved == Auditing /\ Pin.pinned /\ Dated /\ Advance(<<"unresolved">>)

CheckAge ==
  /\ Auditing /\ Pin.pinned /\ Dated /\ Found(Pin)
  /\ Advance(IF TooYoung(Head(Pin.version)) THEN <<"young">> ELSE <<>>)

\* An answer that is cut off or no JSON is not caught.
FetchRaises ==
  /\ Auditing /\ Pin.pinned /\ Dated
  /\ phase' = "traceback" /\ exit' = 1
  /\ UNCHANGED <<pyproject, trunk, offline, released, at, reports>>

AuditTrunk ==
  /\ phase = "pyproject" /\ at > Len(Items)
  /\ phase' = "trunk" /\ at' = 1
  /\ UNCHANGED <<pyproject, trunk, offline, released, reports, exit>>

Exit ==
  /\ phase = "trunk" /\ at > Len(Items)
  /\ phase' = "exited"
  /\ exit' = IF reports = <<>> THEN 0 ELSE 1
  /\ UNCHANGED <<pyproject, trunk, offline, released, at, reports>>

Next ==
  \/ UsageError \/ Start \/ AuditTrunk \/ Exit
  \/ ReportUnpinned \/ AcceptPin \/ ReportUnresolved \/ CheckAge \/ FetchRaises

Spec == Init /\ [][Next]_vars

-----------------------------------------------------------------------------
\* Properties.  The requirements are judged by their structure, not by the text
\* the audit takes apart.

Requirements == CollectDependencies(pyproject)

OldEnough(v) == \E age \in released[v] \ {NoDate} : age >= MinAge

\* name==version, with or without extras and a marker.
ExactPin(r) ==
  /\ r.name # <<>> /\ ~r.url
  /\ Len(r.clauses) = 1 /\ r.clauses[1].op = "==" /\ ~r.clauses[1].star

\* The versions the clauses of a requirement admit.
Allowed(r) ==
  {v \in Versions : \A n \in DOMAIN r.clauses :
     LET c == r.clauses[n]
     IN  CASE c.op = "==" -> c.star \/ v = c.version
           [] c.op = ">=" -> v = c.version \/ <<v, c.version>> \in Newer
           [] c.op = "!=" -> v # c.version}

\* An audit that exits 0 online has seen to it that what gets installed is old
\* enough: whatever its form, a requirement on the index admits one version at
\* most, and that version has passed the floor; and so has ruff.
OkMeansOldEnough ==
  phase = "exited" /\ exit = 0 /\ ~offline =>
    /\ \A n \in DOMAIN Requirements : ~Requirements[n].url =>
         \E v \in Versions : Allowed(Requirements[n]) \subseteq {v} /\ OldEnough(v)
    /\ \A n \in DOMAIN trunk : trunk[n].tool = "ruff" => OldEnough(trunk[n].version)

\* The report has one line for each violation and none for anything else, for
\* every requirement that is a name with at most one clause, in every group: no
\* pin, too young by its earliest file, or not to be found.
ReportsAreRight ==
  phase = "exited" /\ exit # 2 =>
    /\ \A n, m \in DOMAIN reports : n < m => reports[n].file # reports[m].file
                                             \/ reports[n].at < reports[m].at
    /\ \A n \in DOMAIN Requirements :
         LET r == Requirements[n]
             whys == {l.why : l \in {l \in Range(reports) : l.file = "pyproject" /\ l.at = n}}
         IN  ~r.url /\ Len(r.clauses) <= 1 =>
               CASE ~ExactPin(r) -> whys = {"unpinned"}
                 [] ExactPin(r) /\ offline -> whys = {}
                 [] OTHER -> LET v == r.clauses[1].version
                             IN  whys \in {{"unresolved"}, IF OldEnough(v) THEN {} ELSE {"young"}}

\* dep_audit.py, _split_requirement: "Accepts only exact name==version pins.
\* Anything else raises": a range or a URL does not pass an audit.
OkMeansExactPins ==
  phase = "exited" /\ exit = 0 => \A n \in DOMAIN Requirements : ExactPin(Requirements[n])
=============================================================================
