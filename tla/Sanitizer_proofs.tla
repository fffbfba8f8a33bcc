---------------------------- MODULE Sanitizer_proofs ----------------------------
(***************************************************************************)
(* The sanitizer keeps what it promises for every output, of any length,   *)
(* and for every window.  Each of its steps takes a text apart into its    *)
(* atoms and puts a few atoms, or none, in the place of each; so most      *)
(* lemmas go along the pieces from the left.                               *)
(***************************************************************************)
EXTENDS Sanitizer, SequenceLemmas

\* A text as it passes through the steps, its fences included.
Glyphs == Atoms \cup Marks \cup {"FENCE_OPEN", "FENCE_CLOSE"}

-----------------------------------------------------------------------------
\* Without.

\* The pieces of Without.
Rest(t, dropped) == [n \in DOMAIN t |-> IF t[n] \in dropped THEN <<>> ELSE <<t[n]>>]

LEMMA RestType ==
  ASSUME NEW S, NEW t \in Seq(S), NEW dropped
  PROVE  /\ Rest(t, dropped) \in Seq(Seq(S)) /\ Len(Rest(t, dropped)) = Len(t)
         /\ Without(t, dropped) = FlattenSeq(Rest(t, dropped))
         /\ Without(t, dropped) \in Seq(S)
<1>1. Len(t) \in Nat /\ DOMAIN t = 1..Len(t) /\ \A n \in 1..Len(t) : t[n] \in S
  OBVIOUS
<1>2. \A n \in 1..Len(t) : (IF t[n] \in dropped THEN <<>> ELSE <<t[n]>>) \in Seq(S)
  BY <1>1
<1>3. Rest(t, dropped) \in Seq(Seq(S)) /\ Len(Rest(t, dropped)) = Len(t)
  BY <1>1, <1>2 DEF Rest
<1>4. Without(t, dropped) = FlattenSeq(Rest(t, dropped))
  BY Zenon DEF Without, Rest
<1>. QED
  BY <1>3, <1>4, FlattenType

LEMMA WithoutConcat ==
  ASSUME NEW S, NEW s \in Seq(S), NEW t \in Seq(S), NEW dropped
  PROVE  Without(Join(s, t), dropped) = Join(Without(s, dropped), Without(t, dropped))
<1>1. Join(s, t) \in Seq(S) /\ Follows(Join(s, t), s, t)
  BY ConcatFollows DEF Join
<1>2. ASSUME NEW u \in Seq(S), Follows(u, s, t)
      PROVE  Without(u, dropped) = Join(Without(s, dropped), Without(t, dropped))
  <2>1. /\ Len(s) \in Nat /\ Len(t) \in Nat /\ Len(u) = Len(s) + Len(t)
        /\ DOMAIN s = 1..Len(s) /\ DOMAIN t = 1..Len(t) /\ DOMAIN u = 1..Len(u)
    BY <1>2 DEF Follows
  <2>2. /\ \A n \in 1..Len(s) : Rest(s, dropped)[n] = IF s[n] \in dropped THEN <<>> ELSE <<s[n]>>
        /\ \A n \in 1..Len(t) : Rest(t, dropped)[n] = IF t[n] \in dropped THEN <<>> ELSE <<t[n]>>
        /\ \A n \in 1..Len(u) : Rest(u, dropped)[n] = IF u[n] \in dropped THEN <<>> ELSE <<u[n]>>
    BY <2>1 DEF Rest
  <2>3. /\ Rest(s, dropped) \in Seq(Seq(S)) /\ Len(Rest(s, dropped)) = Len(s)
        /\ Rest(t, dropped) \in Seq(Seq(S)) /\ Len(Rest(t, dropped)) = Len(t)
        /\ Rest(u, dropped) \in Seq(Seq(S)) /\ Len(Rest(u, dropped)) = Len(u)
        /\ Without(s, dropped) = FlattenSeq(Rest(s, dropped))
        /\ Without(t, dropped) = FlattenSeq(Rest(t, dropped))
        /\ Without(u, dropped) = FlattenSeq(Rest(u, dropped))
    BY RestType
  <2>4. Follows(Rest(u, dropped), Rest(s, dropped), Rest(t, dropped))
    <3>1. \A n \in 1..Len(s) : n \in 1..Len(u) /\ u[n] = s[n]
      BY <1>2, <2>1 DEF Follows
    <3>2. \A n \in 1..Len(t) : Len(s) + n \in 1..Len(u) /\ u[Len(s) + n] = t[n]
      BY <1>2, <2>1 DEF Follows
    <3>. QED
      BY <2>1, <2>2, <2>3, <3>1, <3>2 DEF Follows
  <2>5. FlattenSeq(Rest(u, dropped)) = Join(FlattenSeq(Rest(s, dropped)), FlattenSeq(Rest(t, dropped)))
    BY <2>3, <2>4, FlattenConcat, Zenon DEF Join
  <2>. QED
    BY <2>3, <2>5, Zenon
<1>. QED
  BY <1>1, <1>2, Zenon

\* The same for texts.
LEMMA WithoutJoin ==
  ASSUME NEW dropped
  PROVE  \A s, t \in Seq(Glyphs) :
           Without(Join(s, t), dropped) = Join(Without(s, dropped), Without(t, dropped))
BY WithoutConcat

LEMMA WithoutSingle ==
  ASSUME NEW a, NEW dropped
  PROVE  /\ Without(<<>>, dropped) = <<>>
         /\ Without(<<a>>, dropped) = IF a \in dropped THEN <<>> ELSE <<a>>
<1> DEFINE piece == IF a \in dropped THEN <<>> ELSE <<a>>
           H == [n \in 0..1 |-> IF n = 0 THEN <<>> ELSE piece]
<1>1. Without(<<>>, dropped) = <<>>
  <2>1. Rest(<<>>, dropped) \in Seq(Seq({})) /\ Len(Rest(<<>>, dropped)) = 0
        /\ Without(<<>>, dropped) = FlattenSeq(Rest(<<>>, dropped))
    <3>1. <<>> \in Seq({}) /\ Len(<<>>) = 0
      OBVIOUS
    <3>. QED
      BY <3>1, RestType, Zenon
  <2>2. PICK F \in [0..0 -> Seq({})] : F[0] = <<>> /\ FlattenSeq(Rest(<<>>, dropped)) = F[0]
    BY <2>1, Flattened
  <2>. QED
    BY <2>1, <2>2
<1>2. Without(<<a>>, dropped) = piece
  <2>1. /\ Rest(<<a>>, dropped) \in Seq(Seq({a})) /\ Len(Rest(<<a>>, dropped)) = 1
        /\ Without(<<a>>, dropped) = FlattenSeq(Rest(<<a>>, dropped))
    <3>1. <<a>> \in Seq({a}) /\ Len(<<a>>) = 1
      OBVIOUS
    <3>. QED
      BY <3>1, RestType, Zenon
  <2>2. Rest(<<a>>, dropped)[1] = piece
    BY DEF Rest
  <2>3. piece = Join(<<>>, piece)
    <3>1. <<a>> \in Seq({a}) /\ <<>> \in Seq({a})
      OBVIOUS
    <3>2. piece \in Seq({a})
      BY <3>1, Zenon
    <3> HIDE DEF piece
    <3>. QED
      BY <3>2, JoinFacts, Zenon
  <2> HIDE DEF piece
  <2>4. H[1] = Join(H[0], piece) /\ H[0] = <<>> /\ H[1] = piece
    BY <2>3
  <2> HIDE DEF H
  <2>5. \A n \in 1..Len(Rest(<<a>>, dropped)) : H[n] = Join(H[n - 1], Rest(<<a>>, dropped)[n])
    BY <2>1, <2>2, <2>4
  <2>6. FlattenSeq(Rest(<<a>>, dropped)) = H[Len(Rest(<<a>>, dropped))]
    BY <2>1, <2>4, <2>5, FlattenIs, Zenon DEF Join
  <2>. QED
    BY <2>1, <2>4, <2>6
<1>. QED
  BY <1>1, <1>2

\* What is dropped from a text of pieces is dropped from each.
LEMMA WithoutFlatten ==
  ASSUME NEW S, NEW p \in Seq(Seq(S)), NEW dropped
  PROVE  Without(FlattenSeq(p), dropped) = FlattenSeq([n \in DOMAIN p |-> Without(p[n], dropped)])
<1>1. PICK F \in [0..Len(p) -> Seq(S)] :
           /\ F[0] = <<>>
           /\ \A n \in 1..Len(p) : F[n] = F[n - 1] \o p[n]
           /\ FlattenSeq(p) = F[Len(p)]
  BY Flattened
<1> DEFINE q == [n \in DOMAIN p |-> Without(p[n], dropped)]
           H == [n \in 0..Len(p) |-> Without(F[n], dropped)]
<1>2. Len(p) \in Nat /\ DOMAIN p = 1..Len(p) /\ \A n \in 1..Len(p) : p[n] \in Seq(S)
  OBVIOUS
<1>3. \A n \in 1..Len(p) : Without(p[n], dropped) \in Seq(S)
  BY <1>2, RestType
<1>4. q \in Seq(Seq(S)) /\ Len(q) = Len(p) /\ \A n \in 1..Len(p) : q[n] = Without(p[n], dropped)
  BY <1>2, <1>3
<1>5. H[0] = <<>>
  <2>1. Without(<<>>, dropped) = <<>>
    BY WithoutSingle, Zenon
  <2>2. H[0] = Without(F[0], dropped)
    BY <1>2
  <2>. QED
    BY <1>1, <2>1, <2>2, Zenon
<1>6. ASSUME NEW n \in 1..Len(q) PROVE H[n] = Join(H[n - 1], q[n])
  <2>1. F[n - 1] \in Seq(S) /\ p[n] \in Seq(S) /\ F[n] = Join(F[n - 1], p[n])
    <3>1. n \in 1..Len(p) /\ n - 1 \in 0..Len(p)
      BY <1>4
    <3>. QED
      BY <1>1, <1>2, <3>1 DEF Join
  <2>2. Without(F[n], dropped) = Join(Without(F[n - 1], dropped), Without(p[n], dropped))
    <3>1. Without(Join(F[n - 1], p[n]), dropped)
            = Join(Without(F[n - 1], dropped), Without(p[n], dropped))
      <4>1. \A u, v \in Seq(S) : Without(Join(u, v), dropped)
                                 = Join(Without(u, dropped), Without(v, dropped))
        BY WithoutConcat
      <4>. QED
        BY <2>1, <4>1
    <3>. QED
      BY <2>1, <3>1
  <2>. QED
    BY <1>2, <1>4, <2>2
<1>7. FlattenSeq(q) = H[Len(q)]
  <2> HIDE DEF q, H
  <2>. QED
    BY <1>4, <1>5, <1>6, FlattenIs, Zenon DEF Join
<1>. QED
  BY <1>1, <1>2, <1>4, <1>7

\* Pieces that leave the same of their atoms leave the same of the text.
LEMMA WithoutPieces ==
  ASSUME NEW S, NEW t \in Seq(S), NEW p \in Seq(Seq(S)), NEW dropped, Len(p) = Len(t),
         \A n \in 1..Len(t) : Without(p[n], dropped) = IF t[n] \in dropped THEN <<>> ELSE <<t[n]>>
  PROVE  Without(FlattenSeq(p), dropped) = Without(t, dropped)
<1>1. DOMAIN p = 1..Len(t) /\ DOMAIN t = 1..Len(t)
  OBVIOUS
<1>2. [n \in DOMAIN p |-> Without(p[n], dropped)] = Rest(t, dropped)
  BY <1>1 DEF Rest
<1>. QED
  BY <1>2, WithoutFlatten, RestType

-----------------------------------------------------------------------------
\* StripHiddenChars.

LEMMA StripType ==
  ASSUME NEW t \in Seq(Glyphs)
  PROVE  StripHiddenChars(t) \in Seq(Glyphs)
BY RestType DEF StripHiddenChars

LEMMA StripKeeps ==
  ASSUME NEW t \in Seq(Glyphs), NEW dropped, "hidden" \in dropped
  PROVE  Without(StripHiddenChars(t), dropped) = Without(t, dropped)
<1> DEFINE p == Rest(t, {"hidden"})
<1>1. p \in Seq(Seq(Glyphs)) /\ Len(p) = Len(t) /\ StripHiddenChars(t) = FlattenSeq(p)
  BY RestType DEF StripHiddenChars
<1>2. ASSUME NEW n \in 1..Len(t)
      PROVE  Without(p[n], dropped) = IF t[n] \in dropped THEN <<>> ELSE <<t[n]>>
  <2>1. p[n] = IF t[n] \in {"hidden"} THEN <<>> ELSE <<t[n]>>
    <3>1. n \in DOMAIN t
      OBVIOUS
    <3>. QED
      BY <3>1, Zenon DEF Rest
  <2>2. CASE t[n] = "hidden"
    BY <2>1, <2>2, WithoutSingle
  <2>3. CASE t[n] # "hidden"
    BY <2>1, <2>3, WithoutSingle
  <2>. QED
    BY <2>2, <2>3
<1> HIDE DEF p
<1>. QED
  BY <1>1, <1>2, WithoutPieces

-----------------------------------------------------------------------------
\* Bracket.

\* An atom between the brackets it may get.
Opening(o) == IF o THEN <<"[">> ELSE <<>>
Closing(c) == IF c THEN <<"]">> ELSE <<>>
Braced(a, o, c) == Join(Join(Opening(o), <<a>>), Closing(c))
Opens(t, re, n) == Trigger(t, re, n)
Closes(t, re, n) == n > 1 /\ Trigger(t, re, n - 1)
Bracings(t, re) == [n \in DOMAIN t |-> Braced(t[n], Opens(t, re, n), Closes(t, re, n))]

LEMMA BracedType ==
  ASSUME NEW a \in Glyphs, NEW o, NEW c
  PROVE  /\ Opening(o) \in Seq(Glyphs) /\ Closing(c) \in Seq(Glyphs) /\ <<a>> \in Seq(Glyphs)
         /\ Braced(a, o, c) \in Seq(Glyphs)
<1>1. "[" \in Glyphs /\ "]" \in Glyphs
  BY DEF Glyphs, Marks
<1>2. <<>> \in Seq(Glyphs) /\ <<"[">> \in Seq(Glyphs) /\ <<"]">> \in Seq(Glyphs) /\ <<a>> \in Seq(Glyphs)
  BY <1>1
<1>3. Opening(o) \in Seq(Glyphs) /\ Closing(c) \in Seq(Glyphs)
  BY <1>2, Zenon DEF Opening, Closing
<1>. QED
  BY <1>2, <1>3, JoinFacts, Zenon DEF Braced

LEMMA BracingsType ==
  ASSUME NEW t \in Seq(Glyphs), NEW re
  PROVE  /\ Bracings(t, re) \in Seq(Seq(Glyphs)) /\ Len(Bracings(t, re)) = Len(t)
         /\ \A n \in 1..Len(t) :
              Bracings(t, re)[n] = Braced(t[n], Opens(t, re, n), Closes(t, re, n))
         /\ Bracket(t, re) = FlattenSeq(Bracings(t, re))
         /\ Bracket(t, re) \in Seq(Glyphs)
<1>1. Len(t) \in Nat /\ DOMAIN t = 1..Len(t) /\ \A n \in 1..Len(t) : t[n] \in Glyphs
  OBVIOUS
<1>2. \A n \in 1..Len(t) : Braced(t[n], Opens(t, re, n), Closes(t, re, n)) \in Seq(Glyphs)
  BY <1>1, BracedType
<1>3. /\ Bracings(t, re) \in Seq(Seq(Glyphs)) /\ Len(Bracings(t, re)) = Len(t)
      /\ \A n \in 1..Len(t) :
           Bracings(t, re)[n] = Braced(t[n], Opens(t, re, n), Closes(t, re, n))
  BY <1>1, <1>2 DEF Bracings
<1>4. Bracket(t, re) = FlattenSeq(Bracings(t, re))
  BY Zenon DEF Bracket, Bracings, Braced, Opening, Closing, Join, Opens, Closes
<1>. QED
  BY <1>3, <1>4, FlattenType

LEMMA BracketKeeps ==
  ASSUME NEW t \in Seq(Glyphs), NEW re, NEW dropped, "[" \in dropped, "]" \in dropped
  PROVE  Without(Bracket(t, re), dropped) = Without(t, dropped)
<1>1. ASSUME NEW a \in Glyphs, NEW o, NEW c
      PROVE  Without(Braced(a, o, c), dropped) = IF a \in dropped THEN <<>> ELSE <<a>>
  <2>1. /\ Opening(o) \in Seq(Glyphs) /\ Closing(c) \in Seq(Glyphs) /\ <<a>> \in Seq(Glyphs)
        /\ Join(Opening(o), <<a>>) \in Seq(Glyphs)
    <3>1. Opening(o) \in Seq(Glyphs) /\ Closing(c) \in Seq(Glyphs) /\ <<a>> \in Seq(Glyphs)
      BY BracedType, Zenon
    <3>. QED
      BY <3>1, JoinFacts
  <2>2. Without(Opening(o), dropped) = <<>> /\ Without(Closing(c), dropped) = <<>>
    BY WithoutSingle DEF Opening, Closing
  <2>3. Without(Braced(a, o, c), dropped) = Join(Join(<<>>, Without(<<a>>, dropped)), <<>>)
    <3>1. Without(Join(Opening(o), <<a>>), dropped)
            = Join(Without(Opening(o), dropped), Without(<<a>>, dropped))
      BY <2>1, WithoutJoin
    <3>2. Without(Join(Join(Opening(o), <<a>>), Closing(c)), dropped)
            = Join(Without(Join(Opening(o), <<a>>), dropped), Without(Closing(c), dropped))
      BY <2>1, WithoutJoin
    <3>. QED
      BY <2>2, <3>1, <3>2 DEF Braced
  <2>4. Without(<<a>>, dropped) \in Seq(Glyphs)
    BY <2>1, RestType, Zenon
  <2>5. Without(Braced(a, o, c), dropped) = Without(<<a>>, dropped)
    BY <2>3, <2>4, JoinFacts
  <2>. QED
    BY <2>5, WithoutSingle, Zenon
<1>2. \A n \in 1..Len(t) : t[n] \in Glyphs
  OBVIOUS
<1>3. \A n \in 1..Len(t) :
        Without(Bracings(t, re)[n], dropped) = IF t[n] \in dropped THEN <<>> ELSE <<t[n]>>
  BY <1>1, <1>2, BracingsType
<1>. QED
  BY <1>3, BracingsType, WithoutPieces

-----------------------------------------------------------------------------
\* DefuseForgedRoles.

\* Where forged roles end, what they cover, and what is put in the place of each atom.
Ends(t) == {j \in DOMAIN t : \E i \in 1..j : ForgedRole(t, i, j)}
Gone(t) == {n \in DOMAIN t : \E j \in Ends(t), i \in 1..n : n <= j /\ ForgedRole(t, i, j)}
Defanged == <<"(defanged-role:", "system", ")">>
Defusing(t, n) ==
  IF n \in Ends(t) THEN Defanged ELSE IF n \in Gone(t) THEN <<>> ELSE <<t[n]>>
Defusings(t) == [n \in DOMAIN t |-> Defusing(t, n)]

LEMMA DefusingsType ==
  ASSUME NEW t \in Seq(Glyphs)
  PROVE  /\ Defusings(t) \in Seq(Seq(Glyphs)) /\ Len(Defusings(t)) = Len(t)
         /\ \A n \in 1..Len(t) : Defusings(t)[n] = Defusing(t, n)
         /\ DefuseForgedRoles(t) = FlattenSeq(Defusings(t))
         /\ DefuseForgedRoles(t) \in Seq(Glyphs)
<1>1. Len(t) \in Nat /\ DOMAIN t = 1..Len(t) /\ \A n \in 1..Len(t) : t[n] \in Glyphs
  OBVIOUS
<1>2. Defanged \in Seq(Glyphs)
  BY DEF Defanged, Glyphs, Marks, Atoms, WordAtoms
<1>3. \A n \in 1..Len(t) : Defusing(t, n) \in Seq(Glyphs)
  BY <1>1, <1>2 DEF Defusing
<1>4. /\ Defusings(t) \in Seq(Seq(Glyphs)) /\ Len(Defusings(t)) = Len(t)
      /\ \A n \in 1..Len(t) : Defusings(t)[n] = Defusing(t, n)
  BY <1>1, <1>3 DEF Defusings
<1>5. DefuseForgedRoles(t) = FlattenSeq(Defusings(t))
  <2> DEFINE piece(n) == CASE n \in Ends(t) -> Defanged
                           [] n \in Gone(t) \ Ends(t) -> <<>>
                           [] OTHER -> <<t[n]>>
  <2>1. DefuseForgedRoles(t) = FlattenSeq([n \in DOMAIN t |-> piece(n)])
    BY Zenon DEF DefuseForgedRoles, Ends, Gone, Defanged
  <2>2. \A n \in DOMAIN t : piece(n) = Defusing(t, n)
    BY DEF Defusing
  <2> HIDE DEF piece
  <2>. QED
    BY <2>1, <2>2 DEF Defusings
<1>. QED
  BY <1>4, <1>5, FlattenType

\* A forged role, atom by atom.
LEMMA RoleAtoms ==
  ASSUME NEW t \in Seq(Glyphs), NEW i \in 1..Len(t), NEW j \in 1..Len(t), ForgedRole(t, i, j)
  PROVE  /\ i < j /\ t[j] = ":"
         /\ \A n \in i..(j - 1) : t[n] = "blank" \/ t[n] = "system"
         /\ \E k \in i..(j - 1) : t[k] = "system"
         /\ \A n, k \in i..(j - 1) : t[n] = "system" /\ t[k] = "system" => n = k
BY DEF ForgedRole

LEMMA WhereGone ==
  ASSUME NEW t \in Seq(Glyphs)
  PROVE  /\ \A j : j \in Ends(t) <=> j \in 1..Len(t) /\ \E i \in 1..Len(t) : ForgedRole(t, i, j)
         /\ \A n : n \in Gone(t) <=> /\ n \in 1..Len(t)
                                    /\ \E i, j \in 1..Len(t) : ForgedRole(t, i, j) /\ i <= n /\ n <= j
         /\ Ends(t) \subseteq Gone(t)
<1>0. Len(t) \in Nat /\ DOMAIN t = 1..Len(t)
  OBVIOUS
<1>1. \A i, j : ForgedRole(t, i, j) => i < j
  BY DEF ForgedRole
<1>2. \A j : j \in Ends(t) <=> j \in 1..Len(t) /\ \E i \in 1..Len(t) : ForgedRole(t, i, j)
  <2>1. \A j : j \in Ends(t) <=> j \in 1..Len(t) /\ \E i \in 1..j : ForgedRole(t, i, j)
    BY <1>0, Zenon DEF Ends
  <2> SUFFICES ASSUME NEW j \in 1..Len(t)
               PROVE (\E i \in 1..j : ForgedRole(t, i, j)) <=> (\E i \in 1..Len(t) : ForgedRole(t, i, j))
    BY <2>1
  <2>2. \A i \in 1..j : i \in 1..Len(t)
    BY <1>0
  <2>3. \A i \in 1..Len(t) : ForgedRole(t, i, j) => i \in 1..j
    BY <1>0, <1>1
  <2>. QED
    BY <2>2, <2>3, Zenon
<1>3. \A n : n \in Gone(t) <=> n \in 1..Len(t) /\ \E j \in Ends(t), i \in 1..n : n <= j /\ ForgedRole(t, i, j)
  BY <1>0, Zenon DEF Gone
<1>4. ASSUME NEW n \in 1..Len(t)
      PROVE  (\E j \in Ends(t), i \in 1..n : n <= j /\ ForgedRole(t, i, j))
               <=> \E i, j \in 1..Len(t) : ForgedRole(t, i, j) /\ i <= n /\ n <= j
  <2>1. \A i : i \in 1..n <=> i \in 1..Len(t) /\ i <= n
    BY <1>0
  <2>. QED
    BY <1>2, <2>1, Zenon
<1>5. Ends(t) \subseteq Gone(t)
  <2> SUFFICES ASSUME NEW j \in Ends(t) PROVE j \in Gone(t)
    OBVIOUS
  <2>1. j \in 1..Len(t)
    BY <1>2
  <2>2. PICK i \in 1..Len(t) : ForgedRole(t, i, j)
    BY <1>2
  <2>3. i <= j /\ j <= j
    BY <1>0, <1>1, <2>1, <2>2
  <2>. QED
    BY <1>3, <1>4, <2>1, <2>2, <2>3
<1>. QED
  BY <1>2, <1>3, <1>4, <1>5

LEMMA TwoAtoms ==
  ASSUME NEW a, NEW b
  PROVE  Join(<<a>>, <<b>>) = <<a, b>>
<1> DEFINE S == {a, b}
<1>1. <<a>> \in Seq(S) /\ <<b>> \in Seq(S) /\ <<a, b>> \in Seq(S)
  OBVIOUS
<1>2. <<a>> \o <<b>> \in Seq(S) /\ Len(<<a>> \o <<b>>) = 2
      /\ (<<a>> \o <<b>>)[1] = a /\ (<<a>> \o <<b>>)[2] = b
  BY <1>1, ConcatProperties
<1>3. Len(<<a, b>>) = 2 /\ <<a, b>>[1] = a /\ <<a, b>>[2] = b
  OBVIOUS
<1>4. \A i \in 1..2 : i = 1 \/ i = 2
  OBVIOUS
<1>5. \A i \in 1..Len(<<a, b>>) : (<<a>> \o <<b>>)[i] = <<a, b>>[i]
  BY <1>2, <1>3, <1>4
<1>. QED
  BY <1>1, <1>2, <1>3, <1>5, SeqEqual DEF Join

LEMMA ThreeAtoms ==
  ASSUME NEW a, NEW b, NEW c
  PROVE  Join(Join(<<a>>, <<b>>), <<c>>) = <<a, b, c>>
<1> DEFINE S == {a, b, c}
<1>1. <<c>> \in Seq(S) /\ <<a, b>> \in Seq(S) /\ <<a, b, c>> \in Seq(S)
  OBVIOUS
<1>2. <<a, b>> \o <<c>> \in Seq(S) /\ Len(<<a, b>> \o <<c>>) = 3
      /\ (<<a, b>> \o <<c>>)[1] = a /\ (<<a, b>> \o <<c>>)[2] = b /\ (<<a, b>> \o <<c>>)[3] = c
  BY <1>1, ConcatProperties
<1>3. Len(<<a, b, c>>) = 3 /\ <<a, b, c>>[1] = a /\ <<a, b, c>>[2] = b /\ <<a, b, c>>[3] = c
  OBVIOUS
<1>4. \A i \in 1..3 : i = 1 \/ i = 2 \/ i = 3
  OBVIOUS
<1>5. \A i \in 1..Len(<<a, b, c>>) : (<<a, b>> \o <<c>>)[i] = <<a, b, c>>[i]
  BY <1>2, <1>3, <1>4
<1>6. <<a, b>> \o <<c>> = <<a, b, c>>
  BY <1>1, <1>2, <1>3, <1>5, SeqEqual
<1>. QED
  BY <1>6, TwoAtoms, Zenon DEF Join

\* From its role to its colon, n is inside a forged role.
Inside(t, n) ==
  \E i, j \in 1..Len(t) :
    /\ ForgedRole(t, i, j) /\ i <= n /\ n < j
    /\ \E k \in i..n : t[k] = "system"

\* Inside a forged role its word has been taken, and is put back at its colon.
LEMMA DefuseKeeps ==
  ASSUME NEW t \in Seq(Glyphs), NEW dropped, Marks \cup {"blank", ":"} \subseteq dropped,
         "system" \notin dropped
  PROVE  Without(DefuseForgedRoles(t), dropped) = Without(t, dropped)
<1> DEFINE p == Defusings(t)
           q == Rest(t, dropped)
           pending(n) == IF Inside(t, n) THEN <<"system">> ELSE <<>>
<1>1. /\ p \in Seq(Seq(Glyphs)) /\ Len(p) = Len(t) /\ \A n \in 1..Len(t) : p[n] = Defusing(t, n)
      /\ DefuseForgedRoles(t) = FlattenSeq(p)
  BY DefusingsType
<1>2. /\ q \in Seq(Seq(Glyphs)) /\ Len(q) = Len(t) /\ Without(t, dropped) = FlattenSeq(q)
      /\ Len(t) \in Nat /\ DOMAIN t = 1..Len(t) /\ \A n \in 1..Len(t) : t[n] \in Glyphs
      /\ \A n \in 1..Len(t) : q[n] = IF t[n] \in dropped THEN <<>> ELSE <<t[n]>>
  <2>1. DOMAIN t = 1..Len(t)
    OBVIOUS
  <2>2. \A n \in 1..Len(t) : q[n] = IF t[n] \in dropped THEN <<>> ELSE <<t[n]>>
    BY <2>1, Zenon DEF Rest
  <2>. QED
    BY <2>1, <2>2, RestType
<1> HIDE DEF p, q
<1>3. PICK P \in [0..Len(p) -> Seq(Glyphs)] :
           /\ P[0] = <<>>
           /\ \A n \in 1..Len(p) : P[n] = P[n - 1] \o p[n]
           /\ FlattenSeq(p) = P[Len(p)]
  BY <1>1, Flattened
<1>4. PICK Q \in [0..Len(q) -> Seq(Glyphs)] :
           /\ Q[0] = <<>>
           /\ \A n \in 1..Len(q) : Q[n] = Q[n - 1] \o q[n]
           /\ FlattenSeq(q) = Q[Len(q)]
  BY <1>2, Flattened
<1>5. /\ \A n \in 1..Len(t) : P[n] = Join(P[n - 1], p[n]) /\ Q[n] = Join(Q[n - 1], q[n])
      /\ \A n \in 0..Len(t) : P[n] \in Seq(Glyphs) /\ Q[n] \in Seq(Glyphs)
      /\ \A n \in 1..Len(t) : p[n] \in Seq(Glyphs) /\ q[n] \in Seq(Glyphs)
  <2>1. \A n \in 1..Len(t) : P[n] = Join(P[n - 1], p[n]) /\ Q[n] = Join(Q[n - 1], q[n])
    BY <1>1, <1>2, <1>3, <1>4, Zenon DEF Join
  <2>2. \A n \in 0..Len(t) : P[n] \in Seq(Glyphs) /\ Q[n] \in Seq(Glyphs)
    <3>1. Len(p) \in Nat /\ Len(q) \in Nat
      BY <1>1, <1>2
    <3>. QED
      BY <1>1, <1>2, <3>1, ValueIn, Zenon
  <2>3. \A n \in 1..Len(t) : p[n] \in Seq(Glyphs) /\ q[n] \in Seq(Glyphs)
    BY <1>1, <1>2, ElementOfSeq, Zenon
  <2>. QED
    BY <2>1, <2>2, <2>3, Zenon
<1> DEFINE G == {n \in 0..Len(t) : Q[n] = Join(Without(P[n], dropped), pending(n))}
<1>6. 0 \in G
  <2>1. ~Inside(t, 0)
    BY DEF Inside
  <2>2. Without(<<>>, dropped) = <<>> /\ <<>> \in Seq(Glyphs)
    BY WithoutSingle
  <2>3. Join(<<>>, <<>>) = <<>>
    BY <2>2, JoinFacts
  <2>. QED
    BY <1>2, <1>3, <1>4, <2>1, <2>2, <2>3
<1>7. ASSUME NEW n \in 1..Len(t), Q[n - 1] = Join(Without(P[n - 1], dropped), pending(n - 1))
      PROVE  Q[n] = Join(Without(P[n], dropped), pending(n))
  <2> DEFINE before == Without(P[n - 1], dropped)
  <2>1. before \in Seq(Glyphs) /\ P[n - 1] \in Seq(Glyphs)
    <3>1. n - 1 \in 0..Len(t)
      BY <1>2
    <3>. QED
      BY <1>5, <3>1, RestType
  <2>2. Without(P[n], dropped) = Join(before, Without(p[n], dropped))
    <3>1. P[n] = Join(P[n - 1], p[n]) /\ p[n] \in Seq(Glyphs)
      BY <1>5
    <3>2. Without(Join(P[n - 1], p[n]), dropped) = Join(before, Without(p[n], dropped))
      BY <2>1, <3>1, WithoutJoin
    <3>. QED
      BY <3>1, <3>2
  <2>3. Q[n] = Join(Join(before, pending(n - 1)), q[n])
    BY <1>5, <1>7
  <2>4. /\ <<>> \in Seq(Glyphs) /\ <<"system">> \in Seq(Glyphs) /\ <<t[n]>> \in Seq(Glyphs)
        /\ p[n] = Defusing(t, n) /\ q[n] = IF t[n] \in dropped THEN <<>> ELSE <<t[n]>>
        /\ Without(<<t[n]>>, dropped) = q[n] /\ Without(<<>>, dropped) = <<>>
        /\ q[n] \in Seq(Glyphs)
    <3>1. "system" \in Glyphs
      BY DEF Glyphs, Atoms, WordAtoms
    <3>2. Without(<<t[n]>>, dropped) = (IF t[n] \in dropped THEN <<>> ELSE <<t[n]>>)
          /\ Without(<<>>, dropped) = <<>>
      BY WithoutSingle
    <3>. QED
      BY <1>1, <1>2, <3>1, <3>2
  <2>5. Join(before, <<>>) = before /\ Join(before, q[n]) \in Seq(Glyphs)
        /\ Join(Join(before, q[n]), <<>>) = Join(before, q[n])
    BY <2>1, <2>4, JoinFacts
  <2> HIDE DEF before
  <2>6. CASE n \notin Gone(t)
    <3>1. n \notin Ends(t)
      BY <1>2, <2>6, WhereGone
    <3>2. ~Inside(t, n) /\ ~Inside(t, n - 1)
      <4>1. \A i, j \in 1..Len(t) : ForgedRole(t, i, j) /\ i <= n => ~(n <= j)
        BY <1>2, <2>6, WhereGone
      <4>. QED
        BY <1>2, <4>1 DEF Inside
    <3>3. p[n] = <<t[n]>>
      BY <2>4, <2>6, <3>1 DEF Defusing
    <3>. QED
      BY <2>2, <2>3, <2>4, <2>5, <3>2, <3>3
  <2>7. CASE n \in Gone(t) /\ n \notin Ends(t)
    <3>1. PICK i, j \in 1..Len(t) : ForgedRole(t, i, j) /\ i <= n /\ n < j
      BY <1>2, <2>7, WhereGone
    <3>2. p[n] = <<>>
      BY <2>4, <2>7 DEF Defusing
    <3>3. \A x, y \in 1..Len(t) : ForgedRole(t, x, y) /\ x <= n - 1 /\ n - 1 < y => x <= n /\ n < y
      <4> SUFFICES ASSUME NEW x \in 1..Len(t), NEW y \in 1..Len(t), ForgedRole(t, x, y),
                          x <= n - 1, n - 1 < y
                   PROVE  x <= n /\ n < y
        BY Zenon
      <4>1. y # n
        BY <2>7, WhereGone
      <4>. QED
        BY <1>2, <4>1
    <3>4. t[n] = "blank" \/ t[n] = "system"
      BY <1>2, <3>1, RoleAtoms
    <3>5. CASE t[n] = "blank"
      <4>1. q[n] = <<>>
        BY <2>4, <3>5
      <4>2. Inside(t, n) => Inside(t, n - 1)
        <5> SUFFICES ASSUME NEW x \in 1..Len(t), NEW y \in 1..Len(t), ForgedRole(t, x, y), x <= n, n < y,
                            NEW k \in x..n, t[k] = "system"
                     PROVE Inside(t, n - 1)
          BY DEF Inside
        <5>0. k # n
          BY <3>5
        <5>1. k \in x..(n - 1) /\ x <= n - 1 /\ n - 1 < y
          BY <5>0
        <5>. QED
          BY <5>1 DEF Inside
      <4>3. Inside(t, n - 1) => Inside(t, n)
        <5> SUFFICES ASSUME NEW x \in 1..Len(t), NEW y \in 1..Len(t), ForgedRole(t, x, y), x <= n - 1, n - 1 < y,
                            NEW k \in x..(n - 1), t[k] = "system"
                     PROVE Inside(t, n)
          BY DEF Inside
        <5>1. k \in x..n /\ x <= n /\ n < y
          BY <1>2, <3>3
        <5>. QED
          BY <5>1 DEF Inside
      <4>4. pending(n - 1) \in Seq(Glyphs)
        BY <2>4
      <4>5. Join(Join(before, pending(n - 1)), <<>>) = Join(before, pending(n - 1))
        BY <2>1, <4>4, JoinFacts DEF before
      <4>. QED
        BY <2>2, <2>3, <2>4, <2>5, <3>2, <4>1, <4>2, <4>3, <4>5
    <3>6. CASE t[n] = "system"
      <4>1. q[n] = <<"system">>
        BY <2>4, <3>6
      <4>2. Inside(t, n)
        <5>1. n \in i..n
          BY <3>1
        <5>. QED
          BY <3>1, <3>6, <5>1 DEF Inside
      <4>3. ~Inside(t, n - 1)
        <5> SUFFICES ASSUME NEW x \in 1..Len(t), NEW y \in 1..Len(t), ForgedRole(t, x, y), x <= n - 1, n - 1 < y,
                            NEW k \in x..(n - 1), t[k] = "system"
                     PROVE FALSE
          BY DEF Inside
        <5>1. n \in x..(y - 1) /\ k \in x..(y - 1) /\ n # k
          BY <1>2, <3>3
        <5>. QED
          BY <3>6, <5>1, RoleAtoms
      <4>. QED
        BY <2>2, <2>3, <2>4, <2>5, <3>2, <4>1, <4>2, <4>3
    <3>. QED
      BY <3>4, <3>5, <3>6
  <2>8. CASE n \in Ends(t)
    <3>1. PICK i \in 1..Len(t) : ForgedRole(t, i, n)
      BY <1>2, <2>8, WhereGone
    <3>2. PICK k \in i..(n - 1) : t[k] = "system"
      BY <3>1, RoleAtoms
    <3>3. i < n /\ t[n] = ":"
      BY <3>1, RoleAtoms
    <3>4. Inside(t, n - 1)
      <4>1. i <= n - 1 /\ n - 1 < n
        BY <3>3
      <4>. QED
        BY <3>1, <3>2, <4>1 DEF Inside
    <3>5. ~Inside(t, n)
      <4> SUFFICES ASSUME NEW x \in 1..Len(t), NEW y \in 1..Len(t), ForgedRole(t, x, y), x <= n, n < y
                   PROVE FALSE
        BY DEF Inside
      <4>1. n \in x..(y - 1)
        BY <1>2
      <4>. QED
        BY <3>3, <4>1, RoleAtoms
    <3>6. q[n] = <<>>
      BY <2>4, <3>3
    <3>7. Without(p[n], dropped) = <<"system">>
      <4> DEFINE a == <<"(defanged-role:">>
                 b == <<"system">>
                 c == <<")">>
      <4>1. "(defanged-role:" \in Glyphs /\ ")" \in Glyphs /\ "(defanged-role:" \in dropped /\ ")" \in dropped
        BY DEF Glyphs, Marks
      <4>2. a \in Seq(Glyphs) /\ b \in Seq(Glyphs) /\ c \in Seq(Glyphs)
        BY <2>4, <4>1
      <4>3. Without(a, dropped) = <<>> /\ Without(b, dropped) = b /\ Without(c, dropped) = <<>>
        BY <4>1, WithoutSingle
      <4>4. p[n] = Join(Join(a, b), c)
        <5>1. Join(Join(a, b), c) = Defanged
          BY ThreeAtoms DEF Defanged
        <5>. QED
          BY <2>4, <2>8, <5>1 DEF Defusing
      <4> HIDE DEF a, b, c
      <4>5. Join(a, b) \in Seq(Glyphs) /\ Join(<<>>, b) = b /\ Join(b, <<>>) = b
        BY <4>2, JoinFacts
      <4>6. Without(Join(a, b), dropped) = b
        <5>1. Without(Join(a, b), dropped) = Join(Without(a, dropped), Without(b, dropped))
          BY <4>2, WithoutJoin
        <5>. QED
          BY <4>3, <4>5, <5>1
      <4>7. Without(Join(Join(a, b), c), dropped) = Join(Without(Join(a, b), dropped), Without(c, dropped))
        BY <4>2, <4>5, WithoutJoin
      <4>. QED
        BY <4>3, <4>4, <4>5, <4>6, <4>7 DEF b
    <3>8. Join(before, <<"system">>) \in Seq(Glyphs)
          /\ Join(Join(before, <<"system">>), <<>>) = Join(before, <<"system">>)
      BY <2>1, <2>4, JoinFacts DEF before
    <3>. QED
      BY <2>2, <2>3, <3>4, <3>5, <3>6, <3>7, <3>8
  <2>. QED
    BY <2>6, <2>7, <2>8
<1>8. \A n \in 0..Len(t) : n \in G
  <2>1. \A n \in 1..Len(t) : n - 1 \in G => n \in G
    BY <1>2, <1>7
  <2> HIDE DEF G
  <2>. QED
    BY <1>2, <1>6, <2>1, Upwards
<1>9. ~Inside(t, Len(t))
  BY <1>2 DEF Inside
<1>10. Q[Len(t)] = Join(Without(P[Len(t)], dropped), <<>>)
  BY <1>2, <1>8, <1>9
<1>11. P[Len(t)] \in Seq(Glyphs)
  <2>1. Len(t) \in 0..Len(t)
    BY <1>2
  <2>. QED
    BY <1>5, <2>1
<1>12. Without(P[Len(t)], dropped) \in Seq(Glyphs)
  BY <1>11, RestType
<1>. QED
  BY <1>1, <1>2, <1>3, <1>4, <1>10, <1>12, JoinFacts

-----------------------------------------------------------------------------
\* All the steps.

\* What is between the fences is what was put there.
LEMMA BetweenFences ==
  ASSUME NEW t \in Seq(Glyphs), FenceOn
  PROVE  /\ Fence(t) \in Seq(Glyphs) /\ Len(Fence(t)) = Len(t) + 4
         /\ Fence(t)[1] = "FENCE_OPEN" /\ Fence(t)[2] = "newline"
         /\ \A n \in 1..Len(t) : Fence(t)[n + 2] = t[n]
         /\ Fence(t)[Len(t) + 3] = "newline" /\ Fence(t)[Len(t) + 4] = "FENCE_CLOSE"
         /\ SubSeq(Fence(t), 3, Len(Fence(t)) - 2) = t
<1> DEFINE a == <<"FENCE_OPEN", "newline">>
           c == <<"newline", "FENCE_CLOSE">>
<1>1. /\ a \in Seq(Glyphs) /\ Len(a) = 2 /\ a[1] = "FENCE_OPEN" /\ a[2] = "newline"
      /\ c \in Seq(Glyphs) /\ Len(c) = 2 /\ c[1] = "newline" /\ c[2] = "FENCE_CLOSE"
  BY DEF Glyphs, Atoms
<1>2. Fence(t) = (a \o t) \o c
  BY DEF Fence
<1> HIDE DEF a, c
<1>3. /\ a \o t \in Seq(Glyphs) /\ Len(a \o t) = Len(t) + 2 /\ Len(t) \in Nat
      /\ \A n \in 1..(Len(t) + 2) : (a \o t)[n] = IF n <= 2 THEN a[n] ELSE t[n - 2]
  <2>1. a \in Seq(Glyphs) /\ t \in Seq(Glyphs)
    BY <1>1
  <2>2. /\ a \o t \in Seq(Glyphs) /\ Len(a \o t) = Len(a) + Len(t)
        /\ \A n \in 1..(Len(a) + Len(t)) : (a \o t)[n] = IF n <= Len(a) THEN a[n] ELSE t[n - Len(a)]
    BY <2>1, ConcatProperties
  <2>3. Len(a) = 2 /\ Len(t) \in Nat /\ Len(a) + Len(t) = Len(t) + 2
    BY <1>1
  <2>. QED
    BY <2>2, <2>3
<1> DEFINE b == a \o t
<1> HIDE DEF b
<1>4. /\ b \o c \in Seq(Glyphs) /\ Len(b \o c) = Len(t) + 4
      /\ \A n \in 1..(Len(t) + 4) : (b \o c)[n] = IF n <= Len(t) + 2 THEN b[n] ELSE c[n - (Len(t) + 2)]
  BY <1>1, <1>3, ConcatProperties DEF b
<1> DEFINE u == Fence(t)
<1>5. /\ u \in Seq(Glyphs) /\ Len(u) = Len(t) + 4
      /\ \A n \in 1..(Len(t) + 4) : u[n] = IF n <= Len(t) + 2 THEN b[n] ELSE c[n - (Len(t) + 2)]
      /\ \A n \in 1..(Len(t) + 2) : b[n] = IF n <= 2 THEN a[n] ELSE t[n - 2]
  BY <1>2, <1>3, <1>4 DEF b
<1> HIDE DEF u
<1>6. /\ u[1] = "FENCE_OPEN" /\ u[2] = "newline"
      /\ \A n \in 1..Len(t) : u[n + 2] = t[n]
      /\ u[Len(t) + 3] = "newline" /\ u[Len(t) + 4] = "FENCE_CLOSE"
  <2>1. /\ 1 \in 1..(Len(t) + 2) /\ 2 \in 1..(Len(t) + 2)
        /\ 1 \in 1..(Len(t) + 4) /\ 2 \in 1..(Len(t) + 4)
        /\ Len(t) + 3 \in 1..(Len(t) + 4) /\ Len(t) + 4 \in 1..(Len(t) + 4)
    BY <1>3
  <2>2. u[1] = "FENCE_OPEN" /\ u[2] = "newline"
    BY <1>1, <1>3, <1>5, <2>1
  <2>3. u[Len(t) + 3] = "newline" /\ u[Len(t) + 4] = "FENCE_CLOSE"
    BY <1>1, <1>3, <1>5, <2>1
  <2>4. ASSUME NEW n \in 1..Len(t) PROVE u[n + 2] = t[n]
    <3>1. n + 2 \in 1..(Len(t) + 2) /\ n + 2 \in 1..(Len(t) + 4) /\ (n + 2) - 2 = n /\ ~(n + 2 <= 2)
      BY <1>3
    <3>. QED
      BY <1>5, <3>1
  <2>. QED
    BY <2>2, <2>3, <2>4
<1>7. SubSeq(u, 3, Len(u) - 2) = t
  <2>1. \A i \in 3..(Len(u) - 2) : u[i] \in Glyphs
    BY <1>5
  <2>2. /\ SubSeq(u, 3, Len(u) - 2) \in Seq(Glyphs)
        /\ Len(SubSeq(u, 3, Len(u) - 2)) = Len(t)
        /\ \A i \in 1..Len(t) : SubSeq(u, 3, Len(u) - 2)[i] = u[i + 2]
    BY <1>3, <1>5, <2>1, SubSeqProperties
  <2>. QED
    BY <1>6, <2>2, SeqEqual
<1>. QED
  BY <1>5, <1>6, <1>7 DEF u

LEMMA CleanType ==
  ASSUME NEW t \in Seq(Atoms)
  PROVE  /\ t \in Seq(Glyphs)
         /\ StripHiddenChars(t) \in Seq(Glyphs)
         /\ DefuseForgedRoles(StripHiddenChars(t)) \in Seq(Glyphs)
         /\ Bracket(DefuseForgedRoles(StripHiddenChars(t)), InjectionRes[1]) \in Seq(Glyphs)
         /\ Clean(t) \in Seq(Glyphs)
<1>1. t \in Seq(Glyphs)
  <2>1. Atoms \subseteq Glyphs
    BY DEF Glyphs
  <2>. QED
    BY <2>1, SeqMonotonic
<1>2. StripHiddenChars(t) \in Seq(Glyphs)
  BY <1>1, StripType
<1>3. DefuseForgedRoles(StripHiddenChars(t)) \in Seq(Glyphs)
  BY <1>2, DefusingsType
<1>4. Bracket(DefuseForgedRoles(StripHiddenChars(t)), InjectionRes[1]) \in Seq(Glyphs)
  BY <1>3, BracingsType
<1>5. Clean(t) \in Seq(Glyphs)
  BY <1>4, BracingsType, Zenon DEF Clean, NeutralizeInjections
<1>. QED
  BY <1>1, <1>2, <1>3, <1>4, <1>5

LEMMA CleanKeeps ==
  ASSUME NEW t \in Seq(Atoms)
  PROVE  WordsAndLines(Clean(t)) = WordsAndLines(t)
<1> DEFINE dropped == Marks \cup {"blank", "hidden", ":"}
<1>1. /\ "hidden" \in dropped /\ "[" \in dropped /\ "]" \in dropped /\ "system" \notin dropped
      /\ Marks \cup {"blank", ":"} \subseteq dropped
  BY DEF Marks
<1> HIDE DEF dropped
<1> DEFINE u == StripHiddenChars(t)
           v == DefuseForgedRoles(u)
           w == Bracket(v, InjectionRes[1])
<1>2. /\ t \in Seq(Glyphs) /\ u \in Seq(Glyphs) /\ v \in Seq(Glyphs) /\ w \in Seq(Glyphs)
      /\ Clean(t) = Bracket(w, InjectionRes[2])
  BY CleanType, Zenon DEF Clean, NeutralizeInjections
<1>3. Without(u, dropped) = Without(t, dropped)
  BY <1>1, <1>2, StripKeeps
<1> HIDE DEF u
<1>4. Without(v, dropped) = Without(u, dropped)
  BY <1>1, <1>2, DefuseKeeps
<1> HIDE DEF v
<1>5. Without(w, dropped) = Without(v, dropped)
  BY <1>1, <1>2, BracketKeeps
<1> HIDE DEF w
<1>6. Without(Clean(t), dropped) = Without(w, dropped)
  BY <1>1, <1>2, BracketKeeps
<1>. QED
  BY <1>3, <1>4, <1>5, <1>6 DEF WordsAndLines, dropped

LEMMA HarmlessIsKept ==
  ASSUME NEW t \in Seq(Atoms), Harmless(t)
  PROVE  Clean(t) = t
<1> DEFINE singles == [n \in DOMAIN t |-> <<t[n]>>]
<1>0. /\ t \in Seq(Glyphs) /\ Len(t) \in Nat /\ DOMAIN t = 1..Len(t)
      /\ \A n \in 1..Len(t) : t[n] \in Glyphs
  <2>1. t \in Seq(Glyphs)
    BY CleanType
  <2>. QED
    BY <2>1
<1>1. FlattenSeq(singles) = t
  BY <1>0, FlattenSingles
<1>2. StripHiddenChars(t) = t
  <2>1. \A n \in DOMAIN t : (IF t[n] \in {"hidden"} THEN <<>> ELSE <<t[n]>>) = <<t[n]>>
    BY DEF Harmless
  <2>2. StripHiddenChars(t) = FlattenSeq([n \in DOMAIN t |-> IF t[n] \in {"hidden"} THEN <<>> ELSE <<t[n]>>])
    BY Zenon DEF StripHiddenChars, Without
  <2>. QED
    BY <1>1, <2>1, <2>2
<1>3. DefuseForgedRoles(t) = t
  <2>1. \A n \in 1..Len(t) : n \notin Ends(t) /\ n \notin Gone(t)
    BY <1>0, WhereGone DEF Harmless
  <2>2. Defusings(t) = singles
    BY <1>0, <2>1 DEF Defusings, Defusing
  <2>. QED
    BY <1>0, <1>1, <2>2, DefusingsType
<1>4. ASSUME NEW m \in 1..2 PROVE Bracket(t, InjectionRes[m]) = t
  <2> DEFINE re == InjectionRes[m]
  <2>1. \A n \in 1..Len(t) : ~Trigger(t, re, n)
    BY <1>0 DEF Harmless, InjectionRes
  <2>2. \A n \in 1..Len(t) : ~Opens(t, re, n) /\ ~Closes(t, re, n)
    BY <1>0, <2>1 DEF Opens, Closes
  <2>3. \A n \in 1..Len(t) : Braced(t[n], FALSE, FALSE) = <<t[n]>>
    <3>1. \A n \in 1..Len(t) : <<t[n]>> \in Seq(Glyphs)
      BY <1>0
    <3>. QED
      BY <3>1, JoinFacts DEF Braced, Opening, Closing
  <2> HIDE DEF re
  <2>4. \A n \in 1..Len(t) : Braced(t[n], Opens(t, re, n), Closes(t, re, n)) = <<t[n]>>
    BY <2>2, <2>3 DEF Braced, Opening, Closing
  <2>5. Bracings(t, re) = singles
    BY <1>0, <2>4 DEF Bracings
  <2>6. Bracket(t, re) = t
    BY <1>0, <1>1, <2>5, BracingsType
  <2>. QED
    BY <2>6 DEF re
<1>. QED
  BY <1>2, <1>3, <1>4 DEF Clean, NeutralizeInjections

-----------------------------------------------------------------------------
\* The inductive invariant: what re-enters the context is the output after all
\* the steps, with its fences.
CleanInv ==
  /\ output \in Outputs
  /\ state = "done" => output # NotText /\ text = Fence(Clean(output))

THEOREM CleanInvariance == Spec => []CleanInv
<1>1. Init => CleanInv
  BY DEF Init, CleanInv
<1>2. CleanInv /\ [Next]_vars => CleanInv'
  <2> SUFFICES ASSUME CleanInv, [Next]_vars PROVE CleanInv'
    OBVIOUS
  <2>1. CASE Sanitize
    BY <2>1 DEF Sanitize, CleanInv
  <2>2. CASE RejectPayload
    BY <2>2 DEF RejectPayload, CleanInv
  <2>3. CASE UNCHANGED vars
    BY <2>3 DEF vars, CleanInv
  <2>. QED
    BY <2>1, <2>2, <2>3 DEF Next
<1>. QED
  BY <1>1, <1>2, PTL DEF Spec

LEMMA BodyIsClean ==
  ASSUME CleanInv, state = "done"
  PROVE  /\ output \in Seq(Atoms) /\ Clean(output) \in Seq(Glyphs)
         /\ text = Fence(Clean(output)) /\ Body = Clean(output)
<1>1. output \in Seq(Atoms)
  BY SanitizerAssumption DEF CleanInv
<1>2. Clean(output) \in Seq(Glyphs)
  BY <1>1, CleanType
<1>3. text = Fence(Clean(output))
  BY DEF CleanInv
<1>4. Body = Clean(output)
  <2>1. CASE FenceOn
    BY <1>2, <1>3, <2>1, BetweenFences DEF Body
  <2>2. CASE ~FenceOn
    BY <1>3, <2>2 DEF Body, Fence
  <2>. QED
    BY <2>1, <2>2
<1>. QED
  BY <1>1, <1>2, <1>3, <1>4

\* The words and the lines of a text that re-enters the context are those of the
\* tool's output, in their order: defusing and bracketing only add marks.
THEOREM WordsAreKept == Spec => []TextIsPreserved
<1>1. CleanInv => TextIsPreserved
  BY BodyIsClean, CleanKeeps DEF TextIsPreserved
<1>. QED
  BY <1>1, CleanInvariance, PTL

\* An output with nothing to defang re-enters the context as it is.
THEOREM HarmlessKept == Spec => []CleanTextIsKept
<1>1. CleanInv => CleanTextIsKept
  BY BodyIsClean, HarmlessIsKept DEF CleanTextIsKept
<1>. QED
  BY <1>1, CleanInvariance, PTL

-----------------------------------------------------------------------------
\* origins holds <<n, k>> when the k-th atom of u is the n-th of t, and no atom
\* has come between two that stood, or come to stand, side by side.
Carries(t, u, origins) ==
  /\ \A n, k : <<n, k>> \in origins => n \in 1..Len(t) /\ k \in 1..Len(u) /\ t[n] = u[k]
  /\ \A n, m, k : <<n, k>> \in origins /\ <<m, k + 1>> \in origins => m = n + 1
  /\ \A n : <<n, 1>> \in origins => n = 1

\* The atoms of a forged role, one by one.
RoleAt(t, i, j, k) ==
  /\ i = 1 \/ t[i - 1] = "newline"
  /\ i \in Nat /\ j \in Nat /\ i < j /\ t[j] = ":"
  /\ k \in i..(j - 1) /\ t[k] = "system"
  /\ \A n \in i..(j - 1) \ {k} : t[n] = "blank"

LEMMA RoleIsAt ==
  ASSUME NEW t, NEW i \in Nat, NEW j \in Nat
  PROVE  ForgedRole(t, i, j) <=> \E k : RoleAt(t, i, j, k)
BY DEF ForgedRole, RoleAt

\* The same role, d atoms to the left.
LEMMA RoleMoved ==
  ASSUME NEW t, NEW u, NEW i, NEW j, NEW k, RoleAt(u, i, j, k), NEW d \in Int,
         i - d \in Nat, \A n \in i..j : t[n - d] = u[n],
         i - d = 1 \/ t[(i - d) - 1] = "newline"
  PROVE  RoleAt(t, i - d, j - d, k - d)
<1>1. i \in Nat /\ j \in Nat /\ i < j /\ k \in i..(j - 1)
  BY DEF RoleAt
<1>2. i - d \in Nat /\ j - d \in Nat /\ i - d < j - d /\ k - d \in (i - d)..((j - d) - 1)
  BY <1>1
<1>3. j \in i..j /\ k \in i..j /\ u[j] = ":" /\ u[k] = "system"
  BY <1>1 DEF RoleAt
<1>4. t[j - d] = ":" /\ t[k - d] = "system"
  BY <1>3
<1>5. ASSUME NEW n \in ((i - d)..((j - d) - 1)) \ {k - d} PROVE t[n] = "blank"
  <2> DEFINE m == n + d
  <2>1. m \in i..(j - 1) /\ m # k /\ m \in i..j /\ m - d = n
    BY <1>1
  <2> HIDE DEF m
  <2>2. u[m] = "blank"
    BY <2>1 DEF RoleAt
  <2>. QED
    BY <2>1, <2>2
<1>. QED
  BY <1>2, <1>4, <1>5 DEF RoleAt

\* A forged role in the text that a step returns was there before, in the atoms
\* that its own atoms are from.
LEMMA RoleCarried ==
  ASSUME NEW t \in Seq(Glyphs), NEW u \in Seq(Glyphs), NEW origins, Carries(t, u, origins),
         NEW i \in 1..Len(u), NEW j \in 1..Len(u), ForgedRole(u, i, j),
         \A k \in i..j : \E n : <<n, k>> \in origins,
         i > 1 => \E n : <<n, i - 1>> \in origins
  PROVE  \E a, b \in 1..Len(t) : ForgedRole(t, a, b) /\ <<a, i>> \in origins
<1> DEFINE src == [k \in i..j |-> CHOOSE n : <<n, k>> \in origins]
<1>1. \A k \in i..j : <<src[k], k>> \in origins
  OBVIOUS
<1> HIDE DEF src
<1>2. PICK x : RoleAt(u, i, j, x)
  BY RoleIsAt
<1>3. /\ i \in Nat /\ j \in Nat /\ i < j /\ 1 <= i /\ Len(t) \in Nat /\ i \in i..j /\ j \in i..j
      /\ \A k \in i..j : src[k] \in 1..Len(t) /\ t[src[k]] = u[k]
  <2>1. i < j /\ i \in Nat /\ j \in Nat /\ 1 <= i
    BY <1>2 DEF RoleAt
  <2>2. \A k \in i..j : src[k] \in 1..Len(t) /\ t[src[k]] = u[k]
    BY <1>1, Zenon DEF Carries
  <2>3. Len(t) \in Nat
    OBVIOUS
  <2>. QED
    BY <2>1, <2>2, <2>3
<1> DEFINE G == {e \in 0..(j - i) : src[i + e] = src[i] + e}
<1>4. 0 \in G
  BY <1>3
<1>5. ASSUME NEW e \in 1..(j - i), e - 1 \in G PROVE e \in G
  <2>1. i + e \in i..j /\ i + (e - 1) \in i..j /\ (i + (e - 1)) + 1 = i + e
    BY <1>3
  <2>2. <<src[i + (e - 1)], i + (e - 1)>> \in origins
        /\ <<src[i + e], (i + (e - 1)) + 1>> \in origins
    BY <1>1, <2>1
  <2>3. src[i + e] = src[i + (e - 1)] + 1
    BY <2>2 DEF Carries
  <2>4. src[i] \in 1..Len(t)
    BY <1>3
  <2>. QED
    BY <1>3, <1>5, <2>3, <2>4
<1>6. \A e \in 0..(j - i) : src[i + e] = src[i] + e
  <2>1. j - i \in Nat
    BY <1>3
  <2>2. \A e \in 0..(j - i) : e \in G
    <3> HIDE DEF G
    <3>. QED
      BY <2>1, <1>4, <1>5, Upwards
  <2>. QED
    BY <2>2
<1> DEFINE d == i - src[i]
<1>7. d \in Int /\ i - d = src[i] /\ src[i] \in 1..Len(t) /\ src[j] \in 1..Len(t)
  BY <1>3
<1>8. \A k \in i..j : k - d = src[k]
  <2> SUFFICES ASSUME NEW k \in i..j PROVE k - d = src[k]
    OBVIOUS
  <2>1. k - i \in 0..(j - i) /\ i + (k - i) = k
    BY <1>3
  <2>2. src[k] = src[i] + (k - i)
    BY <1>6, <2>1
  <2>3. src[i] \in Int /\ k \in Int /\ i \in Int
    BY <1>3
  <2>. QED
    BY <2>2, <2>3
<1> HIDE DEF d
<1>9. \A k \in i..j : t[k - d] = u[k]
  BY <1>3, <1>8
<1>10. i - d = 1 \/ t[(i - d) - 1] = "newline"
  <2>1. <<src[i], i>> \in origins
    BY <1>1, <1>3
  <2>2. CASE i = 1
    BY <1>7, <2>1, <2>2 DEF Carries
  <2>3. CASE i # 1
    <3>1. u[i - 1] = "newline"
      BY <1>2, <2>3 DEF RoleAt
    <3>2. PICK n : <<n, i - 1>> \in origins
      <4>1. i > 1
        BY <1>3, <2>3
      <4>. QED
        BY <4>1, Zenon
    <3>3. (i - 1) + 1 = i /\ n \in 1..Len(t) /\ t[n] = u[i - 1]
      BY <1>3, <3>2 DEF Carries
    <3>4. src[i] = n + 1
      BY <2>1, <3>2, <3>3 DEF Carries
    <3>. QED
      BY <1>7, <3>1, <3>3, <3>4
  <2>. QED
    BY <2>2, <2>3
<1>11. RoleAt(t, i - d, j - d, x - d)
  <2>1. i - d \in Nat
    BY <1>7
  <2>. QED
    BY <1>2, <1>7, <1>9, <1>10, <2>1, RoleMoved, Zenon
<1>12. i - d = src[i] /\ j - d = src[j] /\ src[i] \in Nat /\ src[j] \in Nat
  BY <1>3, <1>7, <1>8
<1>13. ForgedRole(t, src[i], src[j])
  BY <1>11, <1>12, RoleIsAt
<1>. QED
  BY <1>1, <1>3, <1>7, <1>13, Zenon

-----------------------------------------------------------------------------
\* No line opens with a role after DefuseForgedRoles.

LEMMA DefusedRoles ==
  ASSUME NEW t \in Seq(Glyphs), NEW i \in 1..Len(DefuseForgedRoles(t)),
         NEW j \in 1..Len(DefuseForgedRoles(t))
  PROVE  ~ForgedRole(DefuseForgedRoles(t), i, j)
<1> DEFINE p == Defusings(t)
           u == DefuseForgedRoles(t)
           N == Len(t)
<1>1. /\ p \in Seq(Seq(Glyphs)) /\ Len(p) = N /\ \A n \in 1..N : p[n] = Defusing(t, n)
      /\ u = FlattenSeq(p) /\ u \in Seq(Glyphs) /\ N \in Nat
      /\ i \in 1..Len(u) /\ j \in 1..Len(u)
  <2>1. N \in Nat
    OBVIOUS
  <2>. QED
    BY <2>1, DefusingsType
<1> SUFFICES ASSUME ForgedRole(u, i, j) PROVE FALSE
  OBVIOUS
<1> HIDE DEF p, u
<1>2. PICK at : Stands(p, u, at)
  BY <1>1, Standing
<1>3. /\ \A n, m \in 0..N : n <= m => at[n] <= at[m]
      /\ \A n \in 0..N : at[n] \in Nat
      /\ at[0] = 0 /\ Len(u) = at[N] /\ Len(u) \in Nat
  <2>1. \A n \in 0..N : at[n] \in Nat
    BY <1>1, <1>2, ValueIn, Zenon DEF Stands
  <2>2. \A n, m \in 0..N : n <= m => at[n] <= at[m]
    BY <1>1, <1>2, StandsInOrder
  <2>3. at[0] = 0 /\ Len(u) = at[N]
    BY <1>1, <1>2, Zenon DEF Stands
  <2>4. N \in 0..N
    BY <1>1
  <2>. QED
    BY <2>1, <2>2, <2>3, <2>4
<1>3a. ASSUME NEW n \in 1..N
       PROVE  /\ p[n] = Defusing(t, n) /\ at[n] = at[n - 1] + Len(p[n])
              /\ \A m \in 1..Len(p[n]) :
                   at[n - 1] + m \in 1..Len(u) /\ u[at[n - 1] + m] = p[n][m]
  <2>1. n \in 1..Len(p)
    BY <1>1
  <2>. QED
    BY <1>1, <1>2, <2>1, Zenon DEF Stands
<1>3b. ASSUME NEW k \in 1..Len(u)
       PROVE  \E n \in 1..N : \E m \in 1..Len(p[n]) : k = at[n - 1] + m
  <2>1. \E n \in 1..Len(p) : \E m \in 1..Len(p[n]) : k = at[n - 1] + m
    BY <1>2, Zenon DEF Stands
  <2>2. Len(p) = N
    BY <1>1
  <2>. QED
    BY <2>1, <2>2
\* The atoms that stay, those that go, and the marked role at the end of each.
<1>4. ASSUME NEW n \in 1..N, n \notin Gone(t)
      PROVE  at[n] = at[n - 1] + 1 /\ at[n] \in 1..Len(u) /\ u[at[n]] = t[n]
  <2>1. n \notin Ends(t)
    BY <1>4, WhereGone
  <2>2. p[n] = <<t[n]>>
    BY <1>3a, <1>4, <2>1, Zenon DEF Defusing
  <2>3. Len(p[n]) = 1 /\ p[n][1] = t[n] /\ 1 \in 1..Len(p[n])
    BY <2>2
  <2>. QED
    <3>1. at[n - 1] + 1 \in 1..Len(u) /\ u[at[n - 1] + 1] = p[n][1]
      BY <1>3a, <2>3, Zenon
    <3>2. at[n] = at[n - 1] + Len(p[n])
      BY <1>3a, Zenon
    <3>. QED
      BY <2>3, <3>1, <3>2
<1>5. ASSUME NEW n \in Ends(t)
      PROVE  /\ n \in 1..N /\ at[n] = at[n - 1] + 3
             /\ u[at[n - 1] + 1] = "(defanged-role:" /\ u[at[n - 1] + 2] = "system"
             /\ u[at[n - 1] + 3] = ")"
  <2>1. n \in 1..N
    BY WhereGone
  <2>2. p[n] = Defanged
    BY <1>3a, <1>5, <2>1, Zenon DEF Defusing
  <2>3. /\ Len(p[n]) = 3 /\ p[n][1] = "(defanged-role:" /\ p[n][2] = "system" /\ p[n][3] = ")"
        /\ 1 \in 1..Len(p[n]) /\ 2 \in 1..Len(p[n]) /\ 3 \in 1..Len(p[n])
    BY <2>2 DEF Defanged
  <2>. QED
    BY <1>3a, <2>1, <2>3
\* Whatever goes stands before its end, and everything up to there goes with it.
<1>6. ASSUME NEW n \in 1..N, at[n] = at[n - 1]
      PROVE  \E e \in Ends(t) : n < e /\ \A m \in n..e : m \in Gone(t)
  <2>1. n \in Gone(t)
    BY <1>3, <1>4, <1>6
  <2>2. n \notin Ends(t)
    <3>1. n - 1 \in 0..N
      BY <1>1
    <3>. QED
      BY <1>3, <1>5, <1>6, <3>1
  <2>3. PICK x, y \in 1..N : ForgedRole(t, x, y) /\ x <= n /\ n <= y
    BY <2>1, WhereGone
  <2>4. y \in Ends(t)
    BY <2>3, WhereGone
  <2>5. n < y
    BY <2>2, <2>3, <2>4
  <2>6. ASSUME NEW m \in n..y PROVE m \in Gone(t)
    <3>1. m \in 1..N /\ x <= m /\ m <= y
      BY <2>3
    <3>. QED
      BY <2>3, <3>1, WhereGone
  <2>. QED
    BY <2>4, <2>5, <2>6
\* So what has nothing between it stands side by side.
<1>7. ASSUME NEW n \in 0..N, NEW m \in 1..N, m \notin Gone(t), n < m, at[m - 1] = at[n]
      PROVE  m = n + 1
  <2> SUFFICES ASSUME n + 1 < m PROVE FALSE
    BY <1>1, <1>7
  <2>1. n + 1 \in 1..N /\ n + 1 \in 0..N /\ m - 1 \in 0..N /\ (n + 1) - 1 = n
    BY <1>1
  <2>2. at[n] <= at[n + 1] /\ at[n + 1] <= at[m - 1] /\ at[n] \in Nat /\ at[n + 1] \in Nat
    BY <1>1, <1>3, <2>1
  <2>3. at[n + 1] = at[(n + 1) - 1]
    BY <1>7, <2>1, <2>2
  <2>4. PICK e \in Ends(t) : n + 1 < e /\ \A k \in (n + 1)..e : k \in Gone(t)
    BY <1>6, <2>1, <2>3
  <2>5. e \in 1..N /\ at[e] = at[e - 1] + 3
    BY <1>5
  <2>6. e <= m - 1
    <3>1. ~(m \in (n + 1)..e)
      BY <1>7, <2>4
    <3>. QED
      BY <2>1, <2>5, <3>1
  <2>7. e - 1 \in 0..N /\ e \in 0..N /\ n <= e - 1
    BY <1>1, <2>4, <2>5
  <2>8. at[n] <= at[e - 1] /\ at[e] <= at[m - 1] /\ at[e - 1] \in Nat
    BY <1>3, <2>1, <2>6, <2>7
  <2>. QED
    BY <1>7, <2>2, <2>5, <2>8
<1> DEFINE origins == {o \in (1..N) \X (1..Len(u)) : o[1] \notin Gone(t) /\ o[2] = at[o[1]]}
<1>8. \A n, k : <<n, k>> \in origins <=> n \in 1..N /\ n \notin Gone(t) /\ k = at[n] /\ k \in 1..Len(u)
  OBVIOUS
<1> HIDE DEF origins
<1>9. Carries(t, u, origins)
  <2>1. \A n, k : <<n, k>> \in origins => n \in 1..N /\ k \in 1..Len(u) /\ t[n] = u[k]
    BY <1>4, <1>8
  <2>2. ASSUME NEW n, NEW m, NEW k, <<n, k>> \in origins, <<m, k + 1>> \in origins
        PROVE  m = n + 1
    <3>1. /\ n \in 1..N /\ m \in 1..N /\ m \notin Gone(t) /\ k = at[n] /\ k + 1 = at[m]
          /\ n \in 0..N /\ m \in 0..N /\ m - 1 \in 0..N
      BY <1>1, <1>8, <2>2
    <3>2. at[m] = at[m - 1] + 1 /\ at[n] \in Nat /\ at[m - 1] \in Nat
      BY <1>3, <1>4, <3>1
    <3>3. n < m
      BY <1>3, <3>1, <3>2
    <3>4. at[m - 1] = at[n]
      BY <3>1, <3>2
    <3>. QED
      BY <1>7, <3>1, <3>3, <3>4
  <2>3. ASSUME NEW n, <<n, 1>> \in origins PROVE n = 1
    <3>1. n \in 1..N /\ n \notin Gone(t) /\ at[n] = 1
      BY <1>8, <2>3
    <3>2. 0 \in 0..N /\ 0 < n /\ n - 1 \in 0..N
      BY <1>1, <3>1
    <3>3. at[n - 1] = at[0]
      BY <1>3, <1>4, <3>1, <3>2
    <3>. QED
      BY <1>7, <3>1, <3>2, <3>3
  <2>. QED
    BY <2>1, <2>2, <2>3, Zenon DEF Carries
\* Where there is no mark, and no role before one, the atom has stayed.
<1>10. ASSUME NEW k \in 1..Len(u), u[k] \notin Marks,
              u[k] = "system" => k + 1 \in 1..Len(u) /\ u[k + 1] # ")"
       PROVE  \E n : <<n, k>> \in origins
  <2>1. PICK n \in 1..N : \E m \in 1..Len(p[n]) : k = at[n - 1] + m
    BY <1>3b, Zenon
  <2>2. PICK m \in 1..Len(p[n]) : k = at[n - 1] + m
    BY <2>1
  <2>3. CASE n \in Ends(t)
    <3>1. Len(p[n]) = 3
      <4>1. p[n] = Defanged
        BY <1>3a, <2>3, Zenon DEF Defusing
      <4>. QED
        BY <4>1 DEF Defanged
    <3>2. m = 1 \/ m = 2 \/ m = 3
      BY <3>1
    <3>3. n - 1 \in 0..N /\ at[n - 1] \in Nat
      BY <1>1, <1>3
    <3>. QED
      <4>1. /\ u[at[n - 1] + 1] = "(defanged-role:" /\ u[at[n - 1] + 2] = "system"
            /\ u[at[n - 1] + 3] = ")"
        BY <1>5, <2>3
      <4>2. CASE m = 1
        BY <1>10, <2>2, <4>1, <4>2 DEF Marks
      <4>3. CASE m = 2
        <5>1. k + 1 = at[n - 1] + 3 /\ u[k] = "system"
          BY <2>2, <3>3, <4>1, <4>3
        <5>. QED
          BY <1>10, <4>1, <5>1
      <4>4. CASE m = 3
        BY <1>10, <2>2, <4>1, <4>4 DEF Marks
      <4>. QED
        BY <3>2, <4>2, <4>3, <4>4
  <2>4. CASE n \notin Ends(t) /\ n \in Gone(t)
    <3>1. Len(p[n]) = 0
      <4>1. p[n] = <<>>
        BY <1>3a, <2>4, Zenon DEF Defusing
      <4>. QED
        BY <4>1
    <3>. QED
      BY <2>2, <3>1
  <2>5. CASE n \notin Ends(t) /\ n \notin Gone(t)
    <3>1. Len(p[n]) = 1
      <4>1. p[n] = <<t[n]>>
        BY <1>3a, <2>5, Zenon DEF Defusing
      <4>. QED
        BY <4>1
    <3>2. k = at[n]
      BY <1>4, <2>2, <2>5, <3>1
    <3>. QED
      BY <1>8, <2>5, <3>2
  <2>. QED
    BY <2>3, <2>4, <2>5
<1>11. PICK x : RoleAt(u, i, j, x)
  BY RoleIsAt
<1>12. ASSUME NEW k \in i..j PROVE \E n : <<n, k>> \in origins
  <2>1. k \in 1..Len(u) /\ Len(u) \in Nat
    BY <1>1, <1>3
  <2>2. u[k] \in {"blank", "system", ":"}
    BY <1>11 DEF RoleAt
  <2>3. u[k] = "system" => k + 1 \in 1..Len(u) /\ u[k + 1] # ")"
    <3> SUFFICES ASSUME u[k] = "system" PROVE k + 1 \in 1..Len(u) /\ u[k + 1] # ")"
      OBVIOUS
    <3>1. k # j
      BY <1>11 DEF RoleAt
    <3>2. k + 1 \in i..j /\ k + 1 \in 1..Len(u)
      BY <1>1, <1>3, <2>1, <3>1
    <3>3. u[k + 1] \in {"blank", "system", ":"}
      BY <1>11, <3>2 DEF RoleAt
    <3>. QED
      BY <3>2, <3>3
  <2>. QED
    BY <1>10, <2>1, <2>2, <2>3 DEF Marks
<1>13. i > 1 => \E n : <<n, i - 1>> \in origins
  <2> SUFFICES ASSUME i > 1 PROVE \E n : <<n, i - 1>> \in origins
    OBVIOUS
  <2>1. u[i - 1] = "newline"
    BY <1>11 DEF RoleAt
  <2>2. i - 1 \in 1..Len(u)
    BY <1>1, <1>3
  <2>. QED
    BY <1>10, <2>1, <2>2 DEF Marks
<1>14. PICK a, b \in 1..N : ForgedRole(t, a, b) /\ <<a, i>> \in origins
  <2>1. t \in Seq(Glyphs) /\ u \in Seq(Glyphs) /\ i \in 1..Len(u) /\ j \in 1..Len(u)
        /\ ForgedRole(u, i, j)
    BY <1>1
  <2>. QED
    BY <1>9, <1>12, <1>13, <2>1, RoleCarried
<1>15. a <= a /\ a <= b
  BY <1>14, RoleAtoms
<1>16. a \in Gone(t)
  BY <1>14, <1>15, WhereGone
<1>. QED
  BY <1>8, <1>14, <1>16

-----------------------------------------------------------------------------
\* Where Bracket leaves the atoms of a text.

\* The n-th atom of t is the pos[n]-th of u, with the brackets next to it.
Brackets == {"[", "]"}
Placed(t, re, u, pos) ==
  /\ pos \in [1..Len(t) -> 1..Len(u)]
  /\ \A n \in 1..Len(t) : u[pos[n]] = t[n]
  /\ \A n \in 1..Len(t) : Opens(t, re, n) => pos[n] - 1 \in 1..Len(u) /\ u[pos[n] - 1] = "["
  /\ \A n \in 1..Len(t) : Closes(t, re, n) => pos[n] + 1 \in 1..Len(u) /\ u[pos[n] + 1] = "]"
  /\ \A n \in 2..Len(t) : pos[n - 1] < pos[n]
  /\ \A n \in 2..Len(t) : ~Opens(t, re, n) /\ ~Closes(t, re, n - 1) => pos[n] = pos[n - 1] + 1
  /\ 1 \in 1..Len(t) /\ ~Opens(t, re, 1) => pos[1] = 1
  /\ Len(t) \in 1..Len(t) /\ ~Closes(t, re, Len(t)) => pos[Len(t)] = Len(u)
  /\ \A k \in 1..Len(u) : u[k] \notin Brackets => \E n \in 1..Len(t) : k = pos[n]

LEMMA BracedAtoms ==
  ASSUME NEW a, NEW o, NEW c, NEW b, b = Braced(a, o, c)
  PROVE  /\ o /\ c => Len(b) = 3 /\ b[1] = "[" /\ b[2] = a /\ b[3] = "]"
         /\ o /\ ~c => Len(b) = 2 /\ b[1] = "[" /\ b[2] = a
         /\ ~o /\ c => Len(b) = 2 /\ b[1] = a /\ b[2] = "]"
         /\ ~o /\ ~c => Len(b) = 1 /\ b[1] = a
<1> DEFINE S == {a, "[", "]"}
<1>1. /\ <<a>> \in Seq(S) /\ <<"[">> \in Seq(S) /\ <<"]">> \in Seq(S) /\ <<>> \in Seq(S)
      /\ Len(<<a>>) = 1 /\ <<a>>[1] = a
  OBVIOUS
<1> HIDE DEF S
<1>2. Join(<<>>, <<a>>) = <<a>> /\ Join(<<a>>, <<>>) = <<a>>
  BY <1>1, JoinFacts
<1>3. Join(<<"[">>, <<a>>) = <<"[", a>> /\ Join(<<a>>, <<"]">>) = <<a, "]">>
  BY TwoAtoms
<1>4. Join(Join(<<"[">>, <<a>>), <<"]">>) = <<"[", a, "]">>
  BY ThreeAtoms
<1>5. Join(<<"[", a>>, <<>>) = <<"[", a>>
  <2>1. Join(<<"[">>, <<a>>) \in Seq(S)
    BY <1>1, JoinFacts
  <2>. QED
    BY <1>3, <2>1, JoinFacts
<1>6. b = IF o THEN (IF c THEN <<"[", a, "]">> ELSE <<"[", a>>)
               ELSE (IF c THEN <<a, "]">> ELSE <<a>>)
  BY <1>2, <1>3, <1>4, <1>5, Zenon DEF Braced, Opening, Closing
<1>7. /\ Len(<<"[", a, "]">>) = 3 /\ <<"[", a, "]">>[1] = "[" /\ <<"[", a, "]">>[2] = a
      /\ <<"[", a, "]">>[3] = "]"
      /\ Len(<<"[", a>>) = 2 /\ <<"[", a>>[1] = "[" /\ <<"[", a>>[2] = a
      /\ Len(<<a, "]">>) = 2 /\ <<a, "]">>[1] = a /\ <<a, "]">>[2] = "]"
  OBVIOUS
<1>. QED
  BY <1>1, <1>6, <1>7, Zenon

LEMMA BracketPlaces ==
  ASSUME NEW t \in Seq(Glyphs), NEW re, NEW u, u = Bracket(t, re)
  PROVE  u \in Seq(Glyphs) /\ \E pos : Placed(t, re, u, pos)
<1> DEFINE p == Bracings(t, re)
           N == Len(t)
           O(n) == Opens(t, re, n)
           C(n) == Closes(t, re, n)
<1>1. /\ p \in Seq(Seq(Glyphs)) /\ Len(p) = N /\ N \in Nat
      /\ \A n \in 1..N : p[n] = Braced(t[n], O(n), C(n))
      /\ u = FlattenSeq(p) /\ u \in Seq(Glyphs)
  <2>1. N \in Nat
    OBVIOUS
  <2>. QED
    BY <2>1, BracingsType
<1> HIDE DEF p
<1>2. PICK at : Stands(p, u, at)
  BY <1>1, Standing
<1>3. /\ \A n \in 0..N : at[n] \in Nat
      /\ at[0] = 0 /\ Len(u) = at[N] /\ Len(u) \in Nat
  <2>1. \A n \in 0..N : at[n] \in Nat
    BY <1>1, <1>2, ValueIn, Zenon DEF Stands
  <2>2. at[0] = 0 /\ Len(u) = at[N]
    BY <1>1, <1>2, Zenon DEF Stands
  <2>3. N \in 0..N
    BY <1>1
  <2>. QED
    BY <2>1, <2>2, <2>3
<1>4. ASSUME NEW n \in 1..N
      PROVE  /\ p[n] = Braced(t[n], O(n), C(n)) /\ at[n] = at[n - 1] + Len(p[n])
             /\ \A m \in 1..Len(p[n]) :
                  at[n - 1] + m \in 1..Len(u) /\ u[at[n - 1] + m] = p[n][m]
  <2>1. n \in 1..Len(p)
    BY <1>1
  <2>. QED
    BY <1>1, <1>2, <2>1, Zenon DEF Stands
<1>5. ASSUME NEW k \in 1..Len(u)
      PROVE  \E n \in 1..N : \E m \in 1..Len(p[n]) : k = at[n - 1] + m
  <2>1. \E n \in 1..Len(p) : \E m \in 1..Len(p[n]) : k = at[n - 1] + m
    BY <1>2, Zenon DEF Stands
  <2>2. Len(p) = N
    BY <1>1
  <2>. QED
    BY <2>1, <2>2
<1> HIDE DEF O, C
<1> DEFINE pos == [n \in 1..N |-> IF O(n) THEN at[n - 1] + 2 ELSE at[n - 1] + 1]
<1>6. \A n \in 1..N : pos[n] = IF O(n) THEN at[n - 1] + 2 ELSE at[n - 1] + 1
  OBVIOUS
<1>7. \A n \in 1..N : n - 1 \in 0..N /\ n \in 0..N /\ at[n - 1] \in Nat /\ at[n] \in Nat
  BY <1>1, <1>3
<1>8. pos = [n \in 1..N |-> pos[n]]
  OBVIOUS
<1> HIDE DEF pos
\* Each piece, with the brackets that it has.
<1>9. ASSUME NEW n \in 1..N
      PROVE  /\ pos[n] \in 1..Len(u) /\ u[pos[n]] = t[n]
             /\ O(n) => pos[n] = at[n - 1] + 2 /\ u[at[n - 1] + 1] = "["
                        /\ at[n - 1] + 1 \in 1..Len(u)
             /\ ~O(n) => pos[n] = at[n - 1] + 1
             /\ C(n) => at[n] = pos[n] + 1 /\ at[n] \in 1..Len(u) /\ u[at[n]] = "]"
             /\ ~C(n) => at[n] = pos[n]
             /\ \A m \in 1..Len(p[n]) : u[at[n - 1] + m] \in Brackets \/ at[n - 1] + m = pos[n]
  <2> DEFINE q == p[n]
  <2>1. /\ at[n] = at[n - 1] + Len(q) /\ at[n - 1] \in Nat
        /\ \A m \in 1..Len(q) : at[n - 1] + m \in 1..Len(u) /\ u[at[n - 1] + m] = q[m]
        /\ pos[n] = IF O(n) THEN at[n - 1] + 2 ELSE at[n - 1] + 1
    BY <1>4, <1>6, <1>7
  <2>2. q = Braced(t[n], O(n), C(n))
    BY <1>4
  <2>3. /\ O(n) /\ C(n) => Len(q) = 3 /\ q[1] = "[" /\ q[2] = t[n] /\ q[3] = "]"
        /\ O(n) /\ ~C(n) => Len(q) = 2 /\ q[1] = "[" /\ q[2] = t[n]
        /\ ~O(n) /\ C(n) => Len(q) = 2 /\ q[1] = t[n] /\ q[2] = "]"
        /\ ~O(n) /\ ~C(n) => Len(q) = 1 /\ q[1] = t[n]
    BY <2>2, BracedAtoms
  <2>4. /\ \A m \in 1..Len(p[n]) : u[at[n - 1] + m] \in Brackets \/ at[n - 1] + m = pos[n]
        <=> \A m \in 1..Len(q) : u[at[n - 1] + m] \in Brackets \/ at[n - 1] + m = pos[n]
    OBVIOUS
  <2> DEFINE x == at[n - 1]
  <2> HIDE DEF q, x
  <2>5. CASE O(n) /\ C(n)
    <3>1. Len(q) = 3 /\ q[1] = "[" /\ q[2] = t[n] /\ q[3] = "]"
      BY <2>3, <2>5, Zenon
    <3>2. pos[n] = x + 2
      BY <2>1, <2>5, Zenon DEF x
    <3>3. at[n] = x + 3 /\ x \in Nat /\ x + 1 \in 1..Len(u) /\ x + 2 \in 1..Len(u) /\ x + 3 \in 1..Len(u)
      BY <2>1, <3>1 DEF x
    <3>4. u[x + 1] = "[" /\ u[x + 2] = t[n] /\ u[x + 3] = "]"
      BY <2>1, <3>1 DEF x
    <3>5. \A m \in 1..Len(q) : u[x + m] \in Brackets \/ x + m = pos[n]
      BY <3>1, <3>2, <3>4 DEF Brackets
    <3>. QED
      <4>1. pos[n] \in 1..Len(u) /\ u[pos[n]] = t[n] /\ at[n] = pos[n] + 1 /\ u[at[n]] = "]" /\ at[n] \in 1..Len(u)
        BY <3>2, <3>3, <3>4
      <4>. QED
        BY <2>4, <2>5, <3>2, <3>3, <3>4, <3>5, <4>1, Zenon DEF x
  <2>6. CASE O(n) /\ ~C(n)
    <3>1. Len(q) = 2 /\ q[1] = "[" /\ q[2] = t[n]
      BY <2>3, <2>6, Zenon
    <3>2. pos[n] = x + 2
      BY <2>1, <2>6, Zenon DEF x
    <3>3. at[n] = x + 2 /\ x \in Nat /\ x + 1 \in 1..Len(u) /\ x + 2 \in 1..Len(u)
      BY <2>1, <3>1 DEF x
    <3>4. u[x + 1] = "[" /\ u[x + 2] = t[n]
      BY <2>1, <3>1 DEF x
    <3>5. \A m \in 1..Len(q) : u[x + m] \in Brackets \/ x + m = pos[n]
      BY <3>1, <3>2, <3>4 DEF Brackets
    <3>. QED
      <4>1. pos[n] \in 1..Len(u) /\ u[pos[n]] = t[n] /\ at[n] = pos[n]
        BY <3>2, <3>3, <3>4
      <4>. QED
        BY <2>4, <2>6, <3>2, <3>3, <3>4, <3>5, <4>1, Zenon DEF x
  <2>7. CASE ~O(n) /\ C(n)
    <3>1. Len(q) = 2 /\ q[1] = t[n] /\ q[2] = "]"
      BY <2>3, <2>7, Zenon
    <3>2. pos[n] = x + 1
      BY <2>1, <2>7, Zenon DEF x
    <3>3. at[n] = x + 2 /\ x \in Nat /\ x + 1 \in 1..Len(u) /\ x + 2 \in 1..Len(u)
      BY <2>1, <3>1 DEF x
    <3>4. u[x + 1] = t[n] /\ u[x + 2] = "]"
      BY <2>1, <3>1 DEF x
    <3>5. \A m \in 1..Len(q) : u[x + m] \in Brackets \/ x + m = pos[n]
      BY <3>1, <3>2, <3>4 DEF Brackets
    <3>. QED
      <4>1. pos[n] \in 1..Len(u) /\ u[pos[n]] = t[n] /\ at[n] = pos[n] + 1 /\ u[at[n]] = "]" /\ at[n] \in 1..Len(u)
        BY <3>2, <3>3, <3>4
      <4>. QED
        BY <2>4, <2>7, <3>2, <3>3, <3>4, <3>5, <4>1, Zenon DEF x
  <2>8. CASE ~O(n) /\ ~C(n)
    <3>1. Len(q) = 1 /\ q[1] = t[n]
      BY <2>3, <2>8, Zenon
    <3>2. pos[n] = x + 1
      BY <2>1, <2>8, Zenon DEF x
    <3>3. at[n] = x + 1 /\ x \in Nat /\ x + 1 \in 1..Len(u)
      BY <2>1, <3>1 DEF x
    <3>4. u[x + 1] = t[n]
      BY <2>1, <3>1 DEF x
    <3>5. \A m \in 1..Len(q) : u[x + m] \in Brackets \/ x + m = pos[n]
      BY <3>1, <3>2, <3>4 DEF Brackets
    <3>. QED
      <4>1. pos[n] \in 1..Len(u) /\ u[pos[n]] = t[n] /\ at[n] = pos[n]
        BY <3>2, <3>3, <3>4
      <4>. QED
        BY <2>4, <2>8, <3>2, <3>3, <3>4, <3>5, <4>1, Zenon DEF x
  <2>. QED
    BY <2>5, <2>6, <2>7, <2>8, Zenon
<1>10. pos \in [1..N -> 1..Len(u)]
  BY <1>8, <1>9
<1>11. ASSUME NEW n \in 1..N, O(n) PROVE pos[n] - 1 \in 1..Len(u) /\ u[pos[n] - 1] = "["
  <2>1. pos[n] - 1 = at[n - 1] + 1
    BY <1>7, <1>9, <1>11
  <2>. QED
    BY <1>9, <1>11, <2>1
<1>12. ASSUME NEW n \in 1..N, C(n) PROVE pos[n] + 1 \in 1..Len(u) /\ u[pos[n] + 1] = "]"
  BY <1>9, <1>12
<1>13. ASSUME NEW n \in 2..N
       PROVE  /\ n \in 1..N /\ n - 1 \in 1..N /\ pos[n - 1] < pos[n]
              /\ ~O(n) /\ ~C(n - 1) => pos[n] = pos[n - 1] + 1
  <2>1. n \in 1..N /\ n - 1 \in 1..N
    BY <1>1
  <2>2. at[n - 1] = pos[n - 1] \/ at[n - 1] = pos[n - 1] + 1
    BY <1>9, <2>1
  <2>3. pos[n] = at[n - 1] + 1 \/ pos[n] = at[n - 1] + 2
    BY <1>9, <2>1
  <2>4. ~O(n) /\ ~C(n - 1) => pos[n] = at[n - 1] + 1 /\ at[n - 1] = pos[n - 1]
    BY <1>9, <2>1
  <2>5. pos[n - 1] \in Nat /\ pos[n] \in Nat /\ at[n - 1] \in Nat
    BY <1>7, <1>9, <2>1
  <2>. QED
    BY <2>1, <2>2, <2>3, <2>4, <2>5
<1>14. 1 \in 1..N /\ ~O(1) => pos[1] = 1
  BY <1>3, <1>9
<1>15. N \in 1..N /\ ~C(N) => pos[N] = Len(u)
  BY <1>3, <1>9
<1>16. ASSUME NEW k \in 1..Len(u), u[k] \notin Brackets PROVE \E n \in 1..N : k = pos[n]
  <2>1. PICK n \in 1..N : \E m \in 1..Len(p[n]) : k = at[n - 1] + m
    BY <1>5, Zenon
  <2>2. PICK m \in 1..Len(p[n]) : k = at[n - 1] + m
    BY <2>1
  <2>3. u[at[n - 1] + m] \in Brackets \/ at[n - 1] + m = pos[n]
    BY <1>9, Zenon
  <2>. QED
    BY <1>16, <2>2, <2>3, Zenon
<1>17. Placed(t, re, u, pos)
  BY <1>9, <1>10, <1>11, <1>12, <1>13, <1>14, <1>15, <1>16, Zenon DEF Placed, O, C, N
<1>. QED
  BY <1>1, <1>17, Zenon

LEMMA PlacedInOrder ==
  ASSUME NEW t \in Seq(Glyphs), NEW re, NEW u \in Seq(Glyphs), NEW pos, Placed(t, re, u, pos)
  PROVE  \A n, m \in 1..Len(t) : n <= m => pos[m] - pos[n] >= m - n
<1>1. /\ Len(t) \in Nat /\ Len(u) \in Nat
      /\ \A n \in 1..Len(t) : pos[n] \in 1..Len(u)
      /\ \A n \in 2..Len(t) : pos[n - 1] < pos[n]
  BY DEF Placed
<1> SUFFICES ASSUME NEW n \in 1..Len(t)
             PROVE  \A m \in 1..Len(t) : n <= m => pos[m] - pos[n] >= m - n
  OBVIOUS
<1> DEFINE G == {d \in 0..(Len(t) - n) : pos[n + d] - pos[n] >= d}
<1>2. 0 \in G
  BY <1>1
<1>3. ASSUME NEW d \in 1..(Len(t) - n), d - 1 \in G PROVE d \in G
  <2>1. /\ n + d \in 2..Len(t) /\ (n + d) - 1 = n + (d - 1)
        /\ n + d \in 1..Len(t) /\ n + (d - 1) \in 1..Len(t)
    BY <1>1
  <2>2. pos[n + (d - 1)] < pos[n + d] /\ pos[n + (d - 1)] - pos[n] >= d - 1
    BY <1>1, <1>3, <2>1
  <2>3. pos[n + (d - 1)] \in Nat /\ pos[n + d] \in Nat /\ pos[n] \in Nat
    BY <1>1, <2>1
  <2>. QED
    BY <2>2, <2>3
<1>4. Len(t) - n \in Nat /\ \A d \in 0..(Len(t) - n) : d \in G
  <2>1. Len(t) - n \in Nat
    BY <1>1
  <2> HIDE DEF G
  <2>. QED
    BY <1>2, <1>3, <2>1, Upwards
<1>5. ASSUME NEW m \in 1..Len(t), n <= m PROVE pos[m] - pos[n] >= m - n
  <2>1. m - n \in 0..(Len(t) - n) /\ n + (m - n) = m
    BY <1>1, <1>5
  <2>. QED
    BY <1>4, <2>1
<1>. QED
  BY <1>5

LEMMA PlacedApart ==
  ASSUME NEW t \in Seq(Glyphs), NEW re, NEW u \in Seq(Glyphs), NEW pos, Placed(t, re, u, pos)
  PROVE  /\ \A n, m \in 1..Len(t) : n < m <=> pos[n] < pos[m]
         /\ \A n, m \in 1..Len(t) : pos[m] = pos[n] + 1 => m = n + 1
         /\ \A n \in 1..Len(t) : n <= pos[n]
<1>1. /\ Len(t) \in Nat /\ Len(u) \in Nat
      /\ \A n \in 1..Len(t) : pos[n] \in 1..Len(u)
  BY DEF Placed
<1>2. \A n, m \in 1..Len(t) : n <= m => pos[m] - pos[n] >= m - n
  BY PlacedInOrder
<1>3. \A n, m \in 1..Len(t) : n < m <=> pos[n] < pos[m]
  <2> SUFFICES ASSUME NEW n \in 1..Len(t), NEW m \in 1..Len(t) PROVE n < m <=> pos[n] < pos[m]
    OBVIOUS
  <2>1. n <= m => pos[m] - pos[n] >= m - n
    BY <1>2
  <2>2. m <= n => pos[n] - pos[m] >= n - m
    BY <1>2
  <2>3. pos[n] \in Nat /\ pos[m] \in Nat /\ n \in Nat /\ m \in Nat
    BY <1>1
  <2>. QED
    BY <2>1, <2>2, <2>3
<1>4. \A n, m \in 1..Len(t) : pos[m] = pos[n] + 1 => m = n + 1
  <2> SUFFICES ASSUME NEW n \in 1..Len(t), NEW m \in 1..Len(t), pos[m] = pos[n] + 1
               PROVE  m = n + 1
    OBVIOUS
  <2>1. pos[n] \in Nat /\ pos[m] \in Nat /\ n \in Nat /\ m \in Nat
    BY <1>1
  <2>2. n < m
    BY <1>3, <2>1
  <2>3. pos[m] - pos[n] >= m - n
    BY <1>2, <2>1, <2>2
  <2>. QED
    BY <2>1, <2>2, <2>3
<1>5. \A n \in 1..Len(t) : n <= pos[n]
  <2> SUFFICES ASSUME NEW n \in 1..Len(t) PROVE n <= pos[n]
    OBVIOUS
  <2>1. 1 \in 1..Len(t) /\ 1 <= n
    BY <1>1
  <2>2. pos[n] - pos[1] >= n - 1 /\ pos[1] \in 1..Len(u) /\ pos[n] \in 1..Len(u)
    BY <1>1, <1>2, <2>1
  <2>. QED
    BY <1>1, <2>2
<1>. QED
  BY <1>3, <1>4, <1>5

\* Bracketing forges no role.
LEMMA BracketedRoles ==
  ASSUME NEW t \in Seq(Glyphs), NEW re,
         \A i, j \in 1..Len(t) : ~ForgedRole(t, i, j)
  PROVE  \A i, j \in 1..Len(Bracket(t, re)) : ~ForgedRole(Bracket(t, re), i, j)
<1> DEFINE u == Bracket(t, re)
<1>1. u \in Seq(Glyphs) /\ \E pos : Placed(t, re, u, pos)
  BY BracketPlaces
<1> SUFFICES ASSUME NEW i \in 1..Len(u), NEW j \in 1..Len(u), ForgedRole(u, i, j) PROVE FALSE
  OBVIOUS
<1> HIDE DEF u
<1>2. PICK pos : Placed(t, re, u, pos)
  BY <1>1
<1>3. Len(t) \in Nat /\ Len(u) \in Nat
  BY <1>1
<1> DEFINE origins == {o \in (1..Len(t)) \X (1..Len(u)) : o[2] = pos[o[1]]}
<1>4. \A n, k : <<n, k>> \in origins <=> n \in 1..Len(t) /\ k = pos[n] /\ k \in 1..Len(u)
  OBVIOUS
<1> HIDE DEF origins
<1>5. Carries(t, u, origins)
  <2>1. \A n, k : <<n, k>> \in origins => n \in 1..Len(t) /\ k \in 1..Len(u) /\ t[n] = u[k]
    BY <1>2, <1>4 DEF Placed
  <2>2. ASSUME NEW n, NEW m, NEW k, <<n, k>> \in origins, <<m, k + 1>> \in origins
        PROVE  m = n + 1
    <3>1. n \in 1..Len(t) /\ m \in 1..Len(t) /\ pos[m] = pos[n] + 1
      BY <1>4, <2>2
    <3>. QED
      BY <1>1, <1>2, <3>1, PlacedApart
  <2>3. ASSUME NEW n, <<n, 1>> \in origins PROVE n = 1
    <3>1. n \in 1..Len(t) /\ pos[n] = 1
      BY <1>4, <2>3
    <3>2. n <= pos[n]
      BY <1>1, <1>2, <3>1, PlacedApart
    <3>. QED
      BY <3>1, <3>2
  <2>. QED
    BY <2>1, <2>2, <2>3, Zenon DEF Carries
<1>6. PICK x : RoleAt(u, i, j, x)
  <2>1. i \in Nat /\ j \in Nat
    BY <1>3
  <2>. QED
    BY <2>1, RoleIsAt, Zenon
<1>7. ASSUME NEW k \in 1..Len(u), u[k] \notin Brackets PROVE \E n : <<n, k>> \in origins
  BY <1>2, <1>4, <1>7 DEF Placed
<1>8. ASSUME NEW k \in i..j PROVE \E n : <<n, k>> \in origins
  <2>1. k \in 1..Len(u) /\ u[k] \in {"blank", "system", ":"}
    BY <1>3, <1>6 DEF RoleAt
  <2>. QED
    BY <1>7, <2>1 DEF Brackets
<1>9. i > 1 => \E n : <<n, i - 1>> \in origins
  <2> SUFFICES ASSUME i > 1 PROVE \E n : <<n, i - 1>> \in origins
    OBVIOUS
  <2>1. i - 1 \in 1..Len(u) /\ u[i - 1] = "newline"
    BY <1>3, <1>6 DEF RoleAt
  <2>. QED
    BY <1>7, <2>1 DEF Brackets
<1>. QED
  BY <1>1, <1>5, <1>8, <1>9, RoleCarried

\* The fences open and close on lines of their own.
LEMMA FencedRoles ==
  ASSUME NEW t \in Seq(Glyphs), \A i, j \in 1..Len(t) : ~ForgedRole(t, i, j)
  PROVE  \A i, j \in 1..Len(Fence(t)) : ~ForgedRole(Fence(t), i, j)
<1>1. CASE ~FenceOn
  BY <1>1 DEF Fence
<1>2. CASE FenceOn
  <2> DEFINE u == Fence(t)
             N == Len(t)
  <2>1. /\ N \in Nat /\ Len(u) = N + 4
        /\ u[1] = "FENCE_OPEN" /\ u[2] = "newline" /\ \A n \in 1..N : u[n + 2] = t[n]
        /\ u[N + 3] = "newline" /\ u[N + 4] = "FENCE_CLOSE"
    BY <1>2, BetweenFences
  <2> SUFFICES ASSUME NEW i \in 1..Len(u), NEW j \in 1..Len(u), ForgedRole(u, i, j) PROVE FALSE
    OBVIOUS
  <2> HIDE DEF u
  <2>2. PICK x : RoleAt(u, i, j, x)
    <3>1. i \in Nat /\ j \in Nat
      BY <2>1
    <3>. QED
      BY <3>1, RoleIsAt, Zenon
  <2>3. /\ i \in 1..(N + 4) /\ j \in 1..(N + 4) /\ i < j /\ x \in i..(j - 1)
        /\ \A k \in i..j : u[k] \in {"blank", "system", ":"}
        /\ i = 1 \/ u[i - 1] = "newline"
    BY <2>1, <2>2 DEF RoleAt
  <2>4. 3 <= i /\ j <= N + 2
    <3>1. ~(1 \in i..j) /\ ~(2 \in i..j) /\ ~(N + 3 \in i..j) /\ ~(N + 4 \in i..j)
      BY <2>1, <2>3
    <3>. QED
      BY <2>1, <2>3, <3>1
  <2>5. \A k \in i..j : t[k - 2] = u[k]
    <3> SUFFICES ASSUME NEW k \in i..j PROVE t[k - 2] = u[k]
      OBVIOUS
    <3>1. k - 2 \in 1..N /\ (k - 2) + 2 = k
      BY <2>1, <2>3, <2>4
    <3>. QED
      BY <2>1, <3>1
  <2>6. i - 2 = 1 \/ t[(i - 2) - 1] = "newline"
    <3> SUFFICES ASSUME i - 2 # 1 PROVE t[(i - 2) - 1] = "newline"
      OBVIOUS
    <3>1. (i - 2) - 1 \in 1..N /\ ((i - 2) - 1) + 2 = i - 1
      BY <2>1, <2>3, <2>4
    <3>. QED
      BY <2>1, <2>3, <2>4, <3>1
  <2>7. RoleAt(t, i - 2, j - 2, x - 2)
    <3>1. 2 \in Int /\ i - 2 \in Nat
      BY <2>3, <2>4
    <3>. QED
      BY <2>2, <2>5, <2>6, <3>1, RoleMoved, Zenon
  <2>8. i - 2 \in 1..N /\ j - 2 \in 1..N /\ i - 2 \in Nat /\ j - 2 \in Nat
    BY <2>1, <2>3, <2>4
  <2>9. ForgedRole(t, i - 2, j - 2)
    BY <2>7, <2>8, RoleIsAt, Zenon
  <2>. QED
    BY <2>8, <2>9
<1>. QED
  BY <1>1, <1>2

-----------------------------------------------------------------------------
\* No hidden character comes back after StripHiddenChars.

Visible == Glyphs \ {"hidden"}

LEMMA StrippedVisible ==
  ASSUME NEW t \in Seq(Glyphs)
  PROVE  StripHiddenChars(t) \in Seq(Visible)
<1> DEFINE p == Rest(t, {"hidden"})
<1>1. Len(t) \in Nat /\ DOMAIN t = 1..Len(t) /\ \A n \in 1..Len(t) : t[n] \in Glyphs
  OBVIOUS
<1>2. \A n \in 1..Len(t) : (IF t[n] \in {"hidden"} THEN <<>> ELSE <<t[n]>>) \in Seq(Visible)
  <2>1. <<>> \in Seq(Visible) /\ \A a \in Visible : <<a>> \in Seq(Visible)
    OBVIOUS
  <2>2. \A n \in 1..Len(t) : t[n] \notin {"hidden"} => t[n] \in Visible
    BY <1>1 DEF Visible
  <2>. QED
    BY <2>1, <2>2, Zenon
<1>3. p \in Seq(Seq(Visible))
  BY <1>1, <1>2 DEF Rest
<1>4. StripHiddenChars(t) = FlattenSeq(p)
  BY RestType DEF StripHiddenChars
<1> HIDE DEF p
<1>. QED
  BY <1>3, <1>4, FlattenType

LEMMA DefusedVisible ==
  ASSUME NEW t \in Seq(Visible)
  PROVE  t \in Seq(Glyphs) /\ DefuseForgedRoles(t) \in Seq(Visible)
<1>0. t \in Seq(Glyphs)
  <2>1. Visible \subseteq Glyphs
    BY DEF Visible
  <2>. QED
    BY <2>1, SeqMonotonic
<1>1. Len(t) \in Nat /\ DOMAIN t = 1..Len(t) /\ \A n \in 1..Len(t) : t[n] \in Visible
  OBVIOUS
<1>2. Defanged \in Seq(Visible)
  BY DEF Defanged, Visible, Glyphs, Marks, Atoms, WordAtoms
<1>3. \A n \in 1..Len(t) : Defusing(t, n) \in Seq(Visible)
  BY <1>1, <1>2 DEF Defusing
<1>4. Defusings(t) \in Seq(Seq(Visible))
  BY <1>1, <1>3 DEF Defusings
<1>. QED
  BY <1>0, <1>4, DefusingsType, FlattenType

LEMMA BracketedVisible ==
  ASSUME NEW t \in Seq(Visible), NEW re
  PROVE  t \in Seq(Glyphs) /\ Bracket(t, re) \in Seq(Visible)
<1>0. t \in Seq(Glyphs)
  BY DefusedVisible
<1>1. Len(t) \in Nat /\ DOMAIN t = 1..Len(t) /\ \A n \in 1..Len(t) : t[n] \in Visible
  OBVIOUS
<1>2. ASSUME NEW a \in Visible, NEW o, NEW c PROVE Braced(a, o, c) \in Seq(Visible)
  <2>1. /\ <<>> \in Seq(Visible) /\ <<a>> \in Seq(Visible)
        /\ <<"[">> \in Seq(Visible) /\ <<"]">> \in Seq(Visible)
    BY DEF Visible, Glyphs, Marks
  <2>2. Opening(o) \in Seq(Visible) /\ Closing(c) \in Seq(Visible)
    BY <2>1, Zenon DEF Opening, Closing
  <2>. QED
    BY <2>1, <2>2, JoinFacts, Zenon DEF Braced
<1>3. Bracings(t, re) \in Seq(Seq(Visible))
  BY <1>1, <1>2 DEF Bracings
<1>. QED
  BY <1>0, <1>3, BracingsType, FlattenType

-----------------------------------------------------------------------------
\* After Bracket every imperative is one of before, in brackets.

\* No atom of an imperative is a bracket.
Plain(re) ==
  /\ re.verb[1] \notin Brackets /\ re.verb[2] \notin Brackets
  /\ re.verb = <<re.verb[1], re.verb[2]>>
  /\ re.object \notin Brackets /\ \A q \in re.qualifiers : q \notin Brackets

\* A word that begins, or ends, beside a bracket of Bracket's did so before.
LEMMA BoundaryBack ==
  ASSUME NEW t \in Seq(Glyphs), NEW re, NEW u \in Seq(Glyphs), NEW pos, Placed(t, re, u, pos),
         NEW n \in 0..Len(t),
         \/ n \in 1..Len(t) /\ Boundary(u, pos[n], pos[n] + 1)
         \/ n + 1 \in 1..Len(t) /\ Boundary(u, pos[n + 1] - 1, pos[n + 1])
  PROVE  Boundary(t, n, n + 1)
<1>1. Len(t) \in Nat /\ Len(u) \in Nat
  OBVIOUS
<1>2. CASE n = 0 \/ n = Len(t)
  BY <1>1, <1>2 DEF Boundary
<1>3. CASE n # 0 /\ n # Len(t)
  <2>1. n \in 1..Len(t) /\ n + 1 \in 2..Len(t) /\ n + 1 \in 1..Len(t) /\ (n + 1) - 1 = n
    BY <1>1, <1>3
  <2>2. CASE Opens(t, re, n + 1)
    BY <2>1, <2>2 DEF Opens, Trigger
  <2>3. CASE Closes(t, re, n)
    <3>1. Trigger(t, re, n - 1) /\ (n - 1) + 1 = n /\ (n - 1) + 2 = n + 1
      BY <2>1, <2>3 DEF Closes
    <3>. QED
      BY <3>1 DEF Trigger
  <2>4. CASE ~Opens(t, re, n + 1) /\ ~Closes(t, re, n)
    <3>1. /\ pos[n + 1] = pos[n] + 1 /\ pos[n] \in 1..Len(u) /\ pos[n + 1] \in 1..Len(u)
          /\ u[pos[n]] = t[n] /\ u[pos[n + 1]] = t[n + 1]
      BY <2>1, <2>4 DEF Placed
    <3>2. Boundary(u, pos[n], pos[n + 1])
      <4>1. pos[n + 1] - 1 = pos[n] /\ pos[n] + 1 = pos[n + 1]
        BY <1>1, <3>1
      <4>. QED
        BY <4>1
    <3>3. u[pos[n]] \notin WordAtoms \/ u[pos[n + 1]] \notin WordAtoms
      BY <1>1, <3>1, <3>2 DEF Boundary
    <3>. QED
      BY <3>1, <3>3 DEF Boundary
  <2>. QED
    BY <2>2, <2>3, <2>4
<1>. QED
  BY <1>2, <1>3

LEMMA ObjectBack ==
  ASSUME NEW t \in Seq(Glyphs), NEW re, NEW u \in Seq(Glyphs), NEW pos, Placed(t, re, u, pos),
         NEW rr, Plain(rr), NEW k \in Nat \ {0}, Object(u, rr, k)
  PROVE  \E n \in 1..Len(t) : k = pos[n] /\ Object(t, rr, n)
<1>1. Len(t) \in Nat /\ Len(u) \in Nat /\ DOMAIN t = 1..Len(t) /\ DOMAIN u = 1..Len(u)
  OBVIOUS
<1>2. PICK m \in 1..Len(u) :
        /\ u[m] = rr.object
        /\ Boundary(u, k - 1, k) /\ Boundary(u, m, m + 1)
        /\ \/ m = k
           \/ /\ k + 1 < m /\ u[k] \in rr.qualifiers
              /\ \A x \in (k + 1)..(m - 1) : u[x] \in {"blank", "newline"}
  BY <1>1, Zenon DEF Object
<1>3. k \in 1..Len(u) /\ u[k] \notin Brackets /\ u[m] \notin Brackets
  <2>1. u[m] \notin Brackets /\ \A q \in rr.qualifiers : q \notin Brackets
    BY <1>2, Zenon DEF Plain
  <2>2. u[k] \notin Brackets
    BY <1>2, <2>1, Zenon
  <2>. QED
    BY <1>1, <1>2, <2>1, <2>2
<1>4. PICK n \in 1..Len(t) : k = pos[n]
  BY <1>3, Zenon DEF Placed
<1>5. PICK o \in 1..Len(t) : m = pos[o]
  BY <1>2, <1>3, Zenon DEF Placed
<1>6. t[o] = rr.object
  BY <1>2, <1>5, Zenon DEF Placed
<1>7. Boundary(t, n - 1, n)
  <2>1. n - 1 \in 0..Len(t) /\ (n - 1) + 1 = n
    BY <1>1
  <2>2. (n - 1) + 1 \in 1..Len(t) /\ Boundary(u, pos[(n - 1) + 1] - 1, pos[(n - 1) + 1])
    BY <1>2, <1>4, <2>1
  <2>3. Boundary(t, n - 1, (n - 1) + 1)
    BY <2>1, <2>2, BoundaryBack
  <2>. QED
    BY <2>1, <2>3
<1>8. Boundary(t, o, o + 1)
  <2>1. o \in 0..Len(t)
    BY <1>1
  <2>. QED
    BY <1>2, <1>5, <2>1, BoundaryBack
<1>9. CASE m = k
  <2>1. o = n
    <3>1. ~(pos[n] < pos[o]) /\ ~(pos[o] < pos[n])
      BY <1>4, <1>5, <1>9
    <3>2. \A x, y \in 1..Len(t) : x < y <=> pos[x] < pos[y]
      BY PlacedApart
    <3>3. ~(n < o) /\ ~(o < n)
      BY <3>1, <3>2
    <3>. QED
      BY <3>3
  <2>. QED
    BY <1>1, <1>4, <1>6, <1>7, <1>8, <2>1, Zenon DEF Object
<1>10. CASE m # k
  <2>1. /\ k + 1 < m /\ u[k] \in rr.qualifiers
        /\ \A x \in (k + 1)..(m - 1) : u[x] \in {"blank", "newline"}
    BY <1>2, <1>10
  <2>2. t[n] \in rr.qualifiers
    BY <1>4, <2>1 DEF Placed
  <2>3. n + 1 < o
    <3>1. k + 1 \in 1..Len(u) /\ k + 1 \in (k + 1)..(m - 1)
      BY <1>1, <1>2, <2>1
    <3>2. u[k + 1] \notin Brackets
      BY <2>1, <3>1 DEF Brackets
    <3>3. PICK x \in 1..Len(t) : k + 1 = pos[x]
      BY <3>1, <3>2, Zenon DEF Placed
    <3>4. x = n + 1 /\ x < o
      <4>1. pos[x] = pos[n] + 1 /\ pos[x] < pos[o]
        BY <1>4, <1>5, <2>1, <3>3
      <4>. QED
        BY <4>1, PlacedApart
    <3>. QED
      BY <3>4
  <2>4. ASSUME NEW x \in (n + 1)..(o - 1) PROVE t[x] \in {"blank", "newline"}
    <3>1. x \in 1..Len(t) /\ n < x /\ x < o
      BY <1>1
    <3>2. pos[n] < pos[x] /\ pos[x] < pos[o] /\ pos[x] \in 1..Len(u) /\ u[pos[x]] = t[x]
      <4>1. pos[n] < pos[x] /\ pos[x] < pos[o]
        BY <3>1, PlacedApart
      <4>. QED
        BY <3>1, <4>1 DEF Placed
    <3>3. pos[x] \in (k + 1)..(m - 1)
      BY <1>1, <1>4, <1>5, <3>2
    <3>. QED
      BY <2>1, <3>2, <3>3
  <2>. QED
    BY <1>1, <1>4, <1>6, <1>7, <1>8, <2>2, <2>3, <2>4, Zenon DEF Object
<1>. QED
  BY <1>9, <1>10

LEMMA TriggerBack ==
  ASSUME NEW t \in Seq(Glyphs), NEW re, NEW u \in Seq(Glyphs), NEW pos, Placed(t, re, u, pos),
         NEW rr, Plain(rr), NEW k \in 1..Len(u), Trigger(u, rr, k)
  PROVE  \E n \in 1..Len(t) : /\ n + 1 \in 1..Len(t) /\ k = pos[n] /\ k + 1 = pos[n + 1]
                              /\ Trigger(t, rr, n)
<1>1. Len(t) \in Nat /\ Len(u) \in Nat /\ DOMAIN t = 1..Len(t) /\ DOMAIN u = 1..Len(u)
  OBVIOUS
<1>2. /\ k + 1 \in 1..Len(u) /\ <<u[k], u[k + 1]>> = rr.verb
      /\ Boundary(u, k - 1, k) /\ Boundary(u, k + 1, k + 2)
      /\ \E d \in 0..Window : Object(u, rr, k + 2 + d)
  BY <1>1, Zenon DEF Trigger
<1>3. u[k] \notin Brackets /\ u[k + 1] \notin Brackets
  <2>1. u[k] = rr.verb[1] /\ u[k + 1] = rr.verb[2]
    BY <1>2
  <2>. QED
    BY <2>1, Zenon DEF Plain
<1>4. PICK n \in 1..Len(t) : k = pos[n]
  BY <1>3, Zenon DEF Placed
<1>5. n + 1 \in 1..Len(t) /\ k + 1 = pos[n + 1]
  <2>1. PICK m \in 1..Len(t) : k + 1 = pos[m]
    BY <1>2, <1>3, Zenon DEF Placed
  <2>2. m = n + 1
    BY <1>4, <2>1, PlacedApart
  <2>. QED
    BY <2>1, <2>2
<1>6. <<t[n], t[n + 1]>> = rr.verb
  <2>1. t[n] = u[k] /\ t[n + 1] = u[k + 1]
    BY <1>4, <1>5, Zenon DEF Placed
  <2>. QED
    BY <1>2, <2>1
<1>7. Boundary(t, n - 1, n)
  <2>1. n - 1 \in 0..Len(t) /\ (n - 1) + 1 = n
    BY <1>1
  <2>2. (n - 1) + 1 \in 1..Len(t) /\ Boundary(u, pos[(n - 1) + 1] - 1, pos[(n - 1) + 1])
    BY <1>2, <1>4, <2>1
  <2>3. Boundary(t, n - 1, (n - 1) + 1)
    BY <2>1, <2>2, BoundaryBack
  <2>. QED
    BY <2>1, <2>3
<1>8. Boundary(t, n + 1, n + 2)
  <2>1. n + 1 \in 0..Len(t) /\ (n + 1) + 1 = n + 2 /\ (k + 1) + 1 = k + 2
    BY <1>1, <1>5
  <2>2. Boundary(u, pos[n + 1], pos[n + 1] + 1)
    BY <1>2, <1>5, <2>1
  <2>3. Boundary(t, n + 1, (n + 1) + 1)
    BY <1>5, <2>1, <2>2, BoundaryBack
  <2>. QED
    BY <2>1, <2>3
\* Its object has come no nearer.
<1>9. \E d \in 0..Window : Object(t, rr, n + 2 + d)
  <2>1. PICK d \in 0..Window : Object(u, rr, k + 2 + d)
    BY <1>2
  <2>2. Window \in Nat /\ k + 2 + d \in Nat \ {0}
    BY SanitizerAssumption
  <2>3. PICK o \in 1..Len(t) : k + 2 + d = pos[o] /\ Object(t, rr, o)
    BY <2>1, <2>2, ObjectBack
  <2>4. n + 1 < o
    <3>1. pos[n + 1] < pos[o]
      BY <1>5, <2>2, <2>3
    <3>. QED
      BY <1>5, <3>1, PlacedApart
  <2>5. pos[o] - pos[n] >= o - n
    BY <2>4, PlacedInOrder
  <2>6. o - (n + 2) \in 0..Window /\ n + 2 + (o - (n + 2)) = o
    <3>1. pos[o] - pos[n] = 2 + d
      BY <1>4, <2>2, <2>3
    <3>. QED
      BY <2>2, <2>4, <2>5, <3>1
  <2>. QED
    BY <2>3, <2>6
<1>10. Trigger(t, rr, n)
  BY <1>1, <1>5, <1>6, <1>7, <1>8, <1>9, Zenon DEF Trigger
<1>. QED
  BY <1>4, <1>5, <1>10

\* An imperative in brackets.
Guarded(t, k) == k > 1 /\ k + 2 \in 1..Len(t) /\ t[k - 1] = "[" /\ t[k + 2] = "]"

LEMMA BracketedTriggers ==
  ASSUME NEW t \in Seq(Glyphs), NEW re, Plain(re), NEW k \in 1..Len(Bracket(t, re)),
         Trigger(Bracket(t, re), re, k)
  PROVE  Guarded(Bracket(t, re), k)
<1> DEFINE u == Bracket(t, re)
<1>1. u \in Seq(Glyphs) /\ \E pos : Placed(t, re, u, pos)
  BY BracketPlaces
<1>2. k \in 1..Len(u) /\ Trigger(u, re, k)
  OBVIOUS
<1> SUFFICES Guarded(u, k)
  OBVIOUS
<1> HIDE DEF u
<1>3. PICK pos : Placed(t, re, u, pos)
  BY <1>1
<1>4. PICK n \in 1..Len(t) : /\ n + 1 \in 1..Len(t) /\ k = pos[n] /\ k + 1 = pos[n + 1]
                             /\ Trigger(t, re, n)
  BY <1>1, <1>2, <1>3, TriggerBack
<1>5. Opens(t, re, n) /\ Closes(t, re, n + 1)
  <2>1. n + 1 > 1 /\ (n + 1) - 1 = n
    BY <1>4
  <2>. QED
    BY <1>4, <2>1 DEF Opens, Closes
<1>6. /\ pos[n] - 1 \in 1..Len(u) /\ u[pos[n] - 1] = "["
      /\ pos[n + 1] + 1 \in 1..Len(u) /\ u[pos[n + 1] + 1] = "]"
  BY <1>3, <1>4, <1>5, Zenon DEF Placed
<1>. QED
  BY <1>2, <1>4, <1>6 DEF Guarded

\* A second Bracket, for another verb, puts nothing between an imperative and its
\* brackets.
LEMMA StillBracketed ==
  ASSUME NEW t \in Seq(Glyphs), NEW re, Plain(re), NEW rr, Plain(rr),
         \A n \in 1..Len(t) : Trigger(t, rr, n) => Guarded(t, n),
         NEW k \in 1..Len(Bracket(t, re)), Trigger(Bracket(t, re), rr, k)
  PROVE  Guarded(Bracket(t, re), k)
<1> DEFINE u == Bracket(t, re)
<1>1. u \in Seq(Glyphs) /\ \E pos : Placed(t, re, u, pos)
  BY BracketPlaces
<1>2. k \in 1..Len(u) /\ Trigger(u, rr, k)
  OBVIOUS
<1> SUFFICES Guarded(u, k)
  OBVIOUS
<1> HIDE DEF u
<1>3. PICK pos : Placed(t, re, u, pos)
  BY <1>1
<1>4. PICK n \in 1..Len(t) : /\ n + 1 \in 1..Len(t) /\ k = pos[n] /\ k + 1 = pos[n + 1]
                             /\ Trigger(t, rr, n)
  BY <1>1, <1>2, <1>3, TriggerBack
<1>5. n > 1 /\ n + 2 \in 1..Len(t) /\ t[n - 1] = "[" /\ t[n + 2] = "]"
  BY <1>4 DEF Guarded
<1>6. Len(t) \in Nat /\ Len(u) \in Nat
  BY <1>1
<1>7. n \in 2..Len(t) /\ n - 1 \in 1..Len(t) /\ pos[n - 1] \in 1..Len(u)
  <2>1. n \in 2..Len(t) /\ n - 1 \in 1..Len(t)
    BY <1>5, <1>6
  <2>. QED
    BY <1>3, <2>1 DEF Placed
<1>8. k > 1
  <2>1. pos[n - 1] < pos[n]
    BY <1>3, <1>7, Zenon DEF Placed
  <2>. QED
    BY <1>4, <1>7, <2>1
\* No verb begins, or ends, with a bracket.
<1>9. ASSUME NEW m, Trigger(t, re, m) PROVE t[m] \notin Brackets /\ t[m + 1] \notin Brackets
  <2>1. <<t[m], t[m + 1]>> = re.verb
    BY <1>9 DEF Trigger
  <2>2. t[m] = re.verb[1] /\ t[m + 1] = re.verb[2]
    BY <2>1
  <2>. QED
    BY <2>2, Zenon DEF Plain
<1>10. u[k - 1] = "["
  <2>1. CASE Opens(t, re, n)
    BY <1>3, <1>4, <2>1, Zenon DEF Placed
  <2>2. ~Closes(t, re, n - 1)
    <3> SUFFICES ASSUME Closes(t, re, n - 1) PROVE FALSE
      OBVIOUS
    <3>1. Trigger(t, re, (n - 1) - 1) /\ ((n - 1) - 1) + 1 = n - 1
      BY <1>6, <1>7 DEF Closes
    <3>2. t[n - 1] \notin Brackets
      BY <1>9, <3>1
    <3>. QED
      BY <1>5, <3>2 DEF Brackets
  <2>3. CASE ~Opens(t, re, n)
    <3>1. pos[n] = pos[n - 1] + 1 /\ u[pos[n - 1]] = t[n - 1]
      BY <1>3, <1>7, <2>2, <2>3, Zenon DEF Placed
    <3>2. pos[n - 1] = k - 1
      BY <1>4, <1>7, <3>1
    <3>. QED
      BY <1>5, <3>1, <3>2
  <2>. QED
    BY <2>1, <2>3
<1>11. k + 2 \in 1..Len(u) /\ u[k + 2] = "]"
  <2>0. (k + 1) + 1 = k + 2 /\ (n + 1) + 1 = n + 2 /\ (n + 2) - 1 = n + 1
        /\ n + 2 \in 2..Len(t)
    BY <1>4, <1>5, <1>6
  <2>1. CASE Closes(t, re, n + 1)
    <3>1. pos[n + 1] + 1 \in 1..Len(u) /\ u[pos[n + 1] + 1] = "]"
      BY <1>3, <1>4, <2>1, Zenon DEF Placed
    <3>. QED
      BY <1>4, <2>0, <3>1
  <2>2. ~Opens(t, re, n + 2)
    <3> SUFFICES ASSUME Opens(t, re, n + 2) PROVE FALSE
      OBVIOUS
    <3>1. t[n + 2] \notin Brackets
      BY <1>9 DEF Opens
    <3>. QED
      BY <1>5, <3>1 DEF Brackets
  <2>3. CASE ~Closes(t, re, n + 1)
    <3>1. /\ pos[n + 2] = pos[n + 1] + 1 /\ u[pos[n + 2]] = t[n + 2]
          /\ pos[n + 2] \in 1..Len(u)
      BY <1>3, <1>5, <2>0, <2>2, <2>3 DEF Placed
    <3>. QED
      BY <1>4, <1>5, <2>0, <3>1
  <2>. QED
    BY <2>1, <2>3
<1>. QED
  BY <1>8, <1>10, <1>11 DEF Guarded

-----------------------------------------------------------------------------
\* What the steps do together.

LEMMA ImperativesArePlain ==
  /\ DOMAIN InjectionRes = 1..2
  /\ Plain(InjectionRes[1]) /\ Plain(InjectionRes[2])
BY DEF InjectionRes, Plain, Brackets

LEMMA CleanIsDefanged ==
  ASSUME NEW t \in Seq(Atoms)
  PROVE  LET u == Clean(t)
         IN  /\ u \in Seq(Visible)
             /\ \A i, j \in 1..Len(u) : ~ForgedRole(u, i, j)
             /\ \A n \in 1..Len(u), m \in DOMAIN InjectionRes :
                  Trigger(u, InjectionRes[m], n) => Guarded(u, n)
<1> DEFINE r == StripHiddenChars(t)
           v == DefuseForgedRoles(r)
           w == Bracket(v, InjectionRes[1])
           u == Bracket(w, InjectionRes[2])
<1>0. Clean(t) = u
  BY Zenon DEF Clean, NeutralizeInjections
<1>1. t \in Seq(Glyphs)
  BY CleanType
<1>2. r \in Seq(Visible)
  BY <1>1, StrippedVisible
<1> HIDE DEF r
<1>3. r \in Seq(Glyphs) /\ v \in Seq(Visible)
  BY <1>2, DefusedVisible
<1>4. \A i, j \in 1..Len(v) : ~ForgedRole(v, i, j)
  BY <1>3, DefusedRoles
<1> HIDE DEF v
<1>5. v \in Seq(Glyphs) /\ w \in Seq(Visible)
  BY <1>3, BracketedVisible
<1>6. \A i, j \in 1..Len(w) : ~ForgedRole(w, i, j)
  BY <1>4, <1>5, BracketedRoles
<1>7. \A n \in 1..Len(w) : Trigger(w, InjectionRes[1], n) => Guarded(w, n)
  BY <1>5, ImperativesArePlain, BracketedTriggers
<1> HIDE DEF w
<1>8. w \in Seq(Glyphs) /\ u \in Seq(Visible)
  BY <1>5, BracketedVisible
<1>9. \A i, j \in 1..Len(u) : ~ForgedRole(u, i, j)
  BY <1>6, <1>8, BracketedRoles
<1>10. \A n \in 1..Len(u) : Trigger(u, InjectionRes[2], n) => Guarded(u, n)
  BY <1>8, ImperativesArePlain, BracketedTriggers
<1>11. \A n \in 1..Len(u) : Trigger(u, InjectionRes[1], n) => Guarded(u, n)
  BY <1>7, <1>8, ImperativesArePlain, StillBracketed
<1> HIDE DEF u
<1>12. \A n \in 1..Len(u), m \in DOMAIN InjectionRes :
         Trigger(u, InjectionRes[m], n) => Guarded(u, n)
  <2>1. \A m \in DOMAIN InjectionRes : m = 1 \/ m = 2
    BY ImperativesArePlain
  <2>. QED
    BY <1>10, <1>11, <2>1
<1>. QED
  BY <1>0, <1>8, <1>9, <1>12

LEMMA FencedVisible ==
  ASSUME NEW t \in Seq(Visible)
  PROVE  \A n \in DOMAIN Fence(t) : Fence(t)[n] # "hidden"
<1>1. t \in Seq(Glyphs) /\ Len(t) \in Nat /\ \A n \in 1..Len(t) : t[n] # "hidden"
  <2>1. \A n \in 1..Len(t) : t[n] \in Visible
    OBVIOUS
  <2>. QED
    BY <2>1, DefusedVisible DEF Visible
<1>2. CASE ~FenceOn
  BY <1>1, <1>2 DEF Fence
<1>3. CASE FenceOn
  <2> DEFINE u == Fence(t)
  <2>1. /\ Len(u) = Len(t) + 4 /\ DOMAIN u = 1..Len(u)
        /\ u[1] = "FENCE_OPEN" /\ u[2] = "newline" /\ \A n \in 1..Len(t) : u[n + 2] = t[n]
        /\ u[Len(t) + 3] = "newline" /\ u[Len(t) + 4] = "FENCE_CLOSE"
    <3>1. u \in Seq(Glyphs)
      BY <1>1, <1>3, BetweenFences
    <3>2. DOMAIN u = 1..Len(u)
      BY <3>1
    <3>. QED
      BY <1>1, <1>3, <3>2, BetweenFences
  <2> HIDE DEF u
  <2>2. ASSUME NEW n \in 1..(Len(t) + 4) PROVE u[n] # "hidden"
    <3>1. CASE n \in 3..(Len(t) + 2)
      <4>1. n - 2 \in 1..Len(t) /\ (n - 2) + 2 = n
        BY <1>1, <3>1
      <4>. QED
        BY <1>1, <2>1, <4>1
    <3>2. CASE n \notin 3..(Len(t) + 2)
      <4>1. n = 1 \/ n = 2 \/ n = Len(t) + 3 \/ n = Len(t) + 4
        BY <1>1, <3>2
      <4>. QED
        BY <2>1, <4>1
    <3>. QED
      BY <3>1, <3>2
  <2>3. \A n \in DOMAIN u : u[n] # "hidden"
    BY <2>1, <2>2
  <2>. QED
    BY <2>3 DEF u
<1>. QED
  BY <1>2, <1>3

\* Whatever a tool returns, its text re-enters the context with no hidden character
\* and no line that opens with a role, and every imperative that has its object in
\* reach is in brackets: no step brings back what an earlier one has removed.
THEOREM OutputDefanged == Spec => []OutputIsDefanged
<1>1. CleanInv => OutputIsDefanged
  <2> SUFFICES ASSUME CleanInv, state = "done" PROVE OutputIsDefanged
    BY DEF OutputIsDefanged
  <2> DEFINE u == Clean(output)
  <2>1. output \in Seq(Atoms) /\ u \in Seq(Glyphs) /\ text = Fence(u) /\ Body = u
    BY BodyIsClean
  <2>2. /\ u \in Seq(Visible)
        /\ \A i, j \in 1..Len(u) : ~ForgedRole(u, i, j)
        /\ \A n \in 1..Len(u), m \in DOMAIN InjectionRes :
             Trigger(u, InjectionRes[m], n) => Guarded(u, n)
    BY <2>1, CleanIsDefanged
  <2> HIDE DEF u
  <2>3. \A n \in DOMAIN text : text[n] # "hidden"
    BY <2>1, <2>2, FencedVisible
  <2>4. \A i, j \in DOMAIN text : ~ForgedRole(text, i, j)
    <3>1. \A i, j \in 1..Len(Fence(u)) : ~ForgedRole(Fence(u), i, j)
      BY <2>1, <2>2, FencedRoles
    <3>2. DOMAIN text = 1..Len(Fence(u))
      <4>1. Fence(u) \in Seq(Glyphs)
        BY <2>1, BetweenFences DEF Fence
      <4>. QED
        BY <2>1, <4>1
    <3>. QED
      BY <2>1, <3>1, <3>2
  <2>5. \A n \in DOMAIN Body, m \in DOMAIN InjectionRes :
          Trigger(Body, InjectionRes[m], n) =>
            n > 1 /\ Body[n - 1] = "[" /\ Body[n + 2] = "]"
    <3>1. DOMAIN u = 1..Len(u)
      BY <2>1
    <3>. QED
      BY <2>1, <2>2, <3>1 DEF Guarded
  <2>. QED
    BY <2>3, <2>4, <2>5, Zenon DEF OutputIsDefanged
<1>. QED
  BY <1>1, CleanInvariance, PTL
=================================================================================
