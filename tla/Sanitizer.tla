------------------------------- MODULE Sanitizer -------------------------------
(***************************************************************************)
(* ToolSanitizer.sanitize (src/app/tools/sanitize/sanitizer.py): the four  *)
(* steps that make a tool's output fit to re-enter the conversation.  A    *)
(* text is a sequence of atoms, one for each thing the regular expressions *)
(* tell apart.  A trigger verb is two atoms, so that a hidden character    *)
(* can stand inside it; an atom counts as one character of the window in   *)
(* which the verb looks for its object.                                    *)
(***************************************************************************)
EXTENDS Naturals, Sequences, SequencesExt

CONSTANTS
  Outputs,  \* what tools return: texts, and NotText
  NotText,  \* an output that is no string
  Window,   \* how far a verb looks for its object (40 characters)
  FenceOn   \* ToolSanitizer(fence=...)

\* "ig" "nore" is the verb of "ins"tructions, "over" "ride" that of "prompt";
\* "system" is a role; "hidden" any format or control character but the
\* structural ones, of which there are "newline" and "blank".
WordAtoms == {"ig", "nore", "ins", "over", "ride", "prompt", "system"}
Atoms == WordAtoms \cup {"newline", "blank", "hidden", ":"}

\* What the steps write around words.
Marks == {"(defanged-role:", ")", "[", "]"}

\* The imperatives, in the order in which they are replaced; the second may have
\* one of its qualifiers before the object.
InjectionRes ==
  <<[verb |-> <<"ig", "nore">>, qualifiers |-> {}, object |-> "ins"],
    [verb |-> <<"over", "ride">>, qualifiers |-> {"system"}, object |-> "prompt"]>>

ASSUME SanitizerAssumption ==
  /\ Outputs \ {NotText} \subseteq Seq(Atoms)
  /\ Window \in Nat
  /\ FenceOn \in BOOLEAN

VARIABLES
  output,  \* what the tool returned
  state,   \* "pending", "done" or "TypeError"
  text     \* of the SanitizedToolOutput: what re-enters the context

vars == <<output, state, text>>

-----------------------------------------------------------------------------
\* The steps.  An operator marked "Mutant" is a plausible bug that only the
\* mutation runs use.

Without(t, dropped) ==
  FlattenSeq([n \in DOMAIN t |-> IF t[n] \in dropped THEN <<>> ELSE <<t[n]>>])

\* Mutant: newlines are control characters too.
StripAllControl(t) == Without(t, {"hidden", "newline"})
StripHiddenChars(t) == Without(t, {"hidden"})

\* A role token that opens a line: blanks, a role, blanks, a colon.
ForgedRole(t, i, j) ==
  /\ i = 1 \/ t[i - 1] = "newline"
  /\ i < j /\ t[j] = ":"
  /\ \E k \in i..(j - 1) :
       /\ t[k] = "system"
       /\ \A n \in i..(j - 1) \ {k} : t[n] = "blank"

\* It is rewritten as a whole; the role stays readable.
\* Mutant: only at the start of the text.
DefuseFirstLine(t) ==
  IF \E j \in DOMAIN t : ForgedRole(t, 1, j)
  THEN LET j == CHOOSE j \in DOMAIN t : ForgedRole(t, 1, j)
       IN  <<"(defanged-role:", "system", ")">> \o SubSeq(t, j + 1, Len(t))
  ELSE t
DefuseForgedRoles(t) ==
  LET ends == {j \in DOMAIN t : \E i \in 1..j : ForgedRole(t, i, j)}
      gone == {n \in DOMAIN t : \E j \in ends, i \in 1..n : n <= j /\ ForgedRole(t, i, j)}
      piece(n) == CASE n \in ends -> <<"(defanged-role:", "system", ")">>
                    [] n \in gone \ ends -> <<>>
                    [] OTHER -> <<t[n]>>
  IN  FlattenSeq([n \in DOMAIN t |-> piece(n)])

Boundary(t, left, right) ==
  left = 0 \/ right > Len(t) \/ t[left] \notin WordAtoms \/ t[right] \notin WordAtoms

\* A trigger verb as a word of its own, and within the window the object as one,
\* or a qualifier, blanks and the object.
Object(t, re, n) ==
  \E m \in DOMAIN t :
    /\ t[m] = re.object
    /\ Boundary(t, n - 1, n) /\ Boundary(t, m, m + 1)
    /\ \/ m = n
       \/ /\ n + 1 < m /\ t[n] \in re.qualifiers
          /\ \A k \in (n + 1)..(m - 1) : t[k] \in {"blank", "newline"}
Trigger(t, re, n) ==
  /\ n + 1 \in DOMAIN t /\ <<t[n], t[n + 1]>> = re.verb
  /\ Boundary(t, n - 1, n) /\ Boundary(t, n + 1, n + 2)
  /\ \E d \in 0..Window : Object(t, re, n + 2 + d)

\* Every one is put in brackets where it stands.
\* Mutant: whether or not its object follows.
BracketVerbs(t, re) ==
  LET verb(n) == n + 1 \in DOMAIN t /\ <<t[n], t[n + 1]>> = re.verb
      piece(n) == (IF verb(n) THEN <<"[">> ELSE <<>>) \o <<t[n]>>
                  \o (IF n > 1 /\ verb(n - 1) THEN <<"]">> ELSE <<>>)
  IN  FlattenSeq([n \in DOMAIN t |-> piece(n)])
Bracket(t, re) ==
  LET piece(n) == (IF Trigger(t, re, n) THEN <<"[">> ELSE <<>>) \o <<t[n]>>
                  \o (IF n > 1 /\ Trigger(t, re, n - 1) THEN <<"]">> ELSE <<>>)
  IN  FlattenSeq([n \in DOMAIN t |-> piece(n)])

NeutralizeInjections(t) == Bracket(Bracket(t, InjectionRes[1]), InjectionRes[2])

Fence(t) ==
  IF FenceOn THEN <<"FENCE_OPEN", "newline">> \o t \o <<"newline", "FENCE_CLOSE">> ELSE t

\* Mutant: hidden characters are stripped last.
CleanStripLast(t) == StripHiddenChars(NeutralizeInjections(DefuseForgedRoles(t)))
Clean(t) == NeutralizeInjections(DefuseForgedRoles(StripHiddenChars(t)))

-----------------------------------------------------------------------------
Init ==
  /\ output \in Outputs
  /\ state = "pending"
  /\ text = <<>>

Sanitize ==
  /\ state = "pending"
  /\ output # NotText
  /\ text' = Fence(Clean(output))
  /\ state' = "done"
  /\ UNCHANGED output

\* A payload that is no string is a wiring bug, and fails fast.
RejectPayload ==
  /\ state = "pending"
  /\ output = NotText
  /\ state' = "TypeError"
  /\ UNCHANGED <<output, text>>

Next == Sanitize \/ RejectPayload

Spec == Init /\ [][Next]_vars

-----------------------------------------------------------------------------
\* Properties

\* The text between the fences.
Body == IF FenceOn THEN SubSeq(text, 3, Len(text) - 2) ELSE text

\* No step undoes or hides from another: in the text that re-enters the context
\* no hidden character is left, no line opens with a role, and every trigger
\* verb that still has its object within the window is in brackets.
OutputIsDefanged ==
  state = "done" =>
    /\ \A n \in DOMAIN text : text[n] # "hidden"
    /\ \A i, j \in DOMAIN text : ~ForgedRole(text, i, j)
    /\ \A n \in DOMAIN Body, m \in DOMAIN InjectionRes :
         Trigger(Body, InjectionRes[m], n) =>
           n > 1 /\ Body[n - 1] = "[" /\ Body[n + 2] = "]"

\* The text stays auditable: its words and its lines are those of the output
\* ("the text stays human-readable", "surrounding text is preserved").
WordsAndLines(t) == Without(t, Marks \cup {"blank", "hidden", ":"})
TextIsPreserved == state = "done" => WordsAndLines(Body) = WordsAndLines(output)

\* A payload without hidden characters, forged roles and imperatives reads
\* identically afterwards: a verb without its object, a role inside a line and
\* a role without a colon are left alone.
Harmless(t) ==
  /\ \A n \in DOMAIN t : t[n] # "hidden"
  /\ \A i, j \in DOMAIN t : ~ForgedRole(t, i, j)
  /\ \A n \in DOMAIN t, m \in DOMAIN InjectionRes : ~Trigger(t, InjectionRes[m], n)
CleanTextIsKept == state = "done" /\ Harmless(output) => Body = output
=============================================================================
