------------------------------- MODULE MCDepAudit -------------------------------
\* Small inputs for DepAudit.
EXTENDS DepAudit

MCVersions == {"1", "2"}
MCNames == {"pkg"}
MCNewer == {<<"2", "1">>}

Clauses == [op : {"==", ">=", "!="}, version : MCVersions, star : BOOLEAN]
PlainClauses == {c \in Clauses : ~c.star}
MCRequirements ==
  [name : {<<"pkg">>, <<>>}, extras : BOOLEAN, url : BOOLEAN, marker : BOOLEAN,
   clauses : {<<>>} \cup {<<c>> : c \in Clauses}]
  \cup [name : {<<"pkg">>}, extras : BOOLEAN, url : BOOLEAN, marker : {FALSE},
        clauses : PlainClauses \X PlainClauses]
\* A few of them, for the lists of several.
Few == {r \in MCRequirements :
          r.name # <<>> /\ ~r.url /\ ~r.extras /\ ~r.marker
          /\ Len(r.clauses) = 1 /\ ~r.clauses[1].star}

Table(deps, groups) == [table |-> TRUE, deps |-> deps, groups |-> groups]
MCProjects ==
  {[table |-> FALSE, deps |-> <<>>, groups |-> <<>>]}
  \cup {Table(<<r>>, <<>>) : r \in MCRequirements}
  \cup {Table(deps, <<NotList, <<r, s>>>>) : deps \in {NotList, <<>>}, r \in Few, s \in Few}

NoTrunk == <<>>
Pinned(tool, version) == [tool |-> tool, version |-> version]
MCTrunkFiles ==
  {NoTrunk} \cup {<<Pinned("cli", v), Pinned("ruff", w)>> : v \in {"1", ""}, w \in {"1", "latest"}}

\* A file a day too young, one just old enough, none, and none with a date.
MCReleases ==
  {f \in [MCVersions -> {{}, {NoDate}, {13}, {14}, {13, 14, NoDate}}] : f["2"] \in {{13}, {14}}}
=============================================================================
