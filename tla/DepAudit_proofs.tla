---------------------------- MODULE DepAudit_proofs ----------------------------
(***************************************************************************)
(* Theorems about DepAudit, for every project, every Trunk file, whatever  *)
(* PyPI knows and whenever it fails to answer.                             *)
(*                                                                         *)
(* The audit judges the text of a requirement, the properties its          *)
(* structure.  The first part relates the two: what SplitRequirement finds *)
(* in the tokens of a requirement.  The second follows the audit along the *)
(* requirements, with what it has reported of those it has passed.         *)
(***************************************************************************)
EXTENDS DepAudit, SequenceLemmas

-----------------------------------------------------------------------------
\* Tokens

Words == Names \cup Versions
Token == Words \cup Punctuation \cup {"extra", "python", "3"}

LEMMA TokenFacts ==
  /\ {"==", ">=", "!=", ".*", "comma", "semicolon", "[", "]", "@", "extra", "python", "3"} \subseteq Token
  /\ Versions \subseteq Words /\ Names \subseteq Words /\ Words \subseteq Token
  /\ \A w \in Words : w \notin Punctuation
BY AuditAssumption DEF Words, Token, Punctuation

LEMMA OneToken ==
  ASSUME NEW S, NEW x \in S
  PROVE  <<x>> \in Seq(S) /\ Len(<<x>>) = 1 /\ <<x>>[1] = x
OBVIOUS

-----------------------------------------------------------------------------
\* The text of a requirement that is no URL: its front, its clauses and its
\* marker.

FrontText(r) == r.name \o (IF r.extras THEN <<"[", "extra", "]">> ELSE <<>>)

Piece(r, n) ==
  (IF n > 1 THEN <<"comma">> ELSE <<>>) \o <<r.clauses[n].op, r.clauses[n].version>>
  \o (IF r.clauses[n].star THEN <<".*">> ELSE <<>>)

Pieces(r) == [n \in DOMAIN r.clauses |-> Piece(r, n)]

Body(r) == FrontText(r) \o FlattenSeq(Pieces(r))

\* What a requirement is made of.
LEMMA RequirementType ==
  ASSUME NEW r \in Requirement
  PROVE  /\ r.name \in Seq(Words) /\ r.name \in Seq(Token)
         /\ Len(r.name) \in Nat /\ \A k \in 1..Len(r.name) : r.name[k] \in Words
         /\ r.extras \in BOOLEAN /\ r.url \in BOOLEAN /\ r.marker \in BOOLEAN
         /\ r.clauses \in Seq(Clause) /\ Len(r.clauses) \in Nat
         /\ DOMAIN r.clauses = 1..Len(r.clauses)
         /\ \A n \in 1..Len(r.clauses) :
              /\ r.clauses[n].op \in {"==", ">=", "!="}
              /\ r.clauses[n].version \in Versions
              /\ r.clauses[n].version \in Words
              /\ r.clauses[n].star \in BOOLEAN
<1>1. /\ r.name \in Seq(Words)
      /\ r.extras \in BOOLEAN /\ r.url \in BOOLEAN /\ r.marker \in BOOLEAN
      /\ r.clauses \in Seq(Clause)
  <2>1. r.name \in Seq(Names)
    BY DEF Requirement
  <2>2. r.name \in Seq(Words)
    BY <2>1, TokenFacts, SeqMonotonic
  <2>. QED
    BY <2>2 DEF Requirement
<1>2. r.name \in Seq(Token)
  BY <1>1, TokenFacts, SeqMonotonic
<1>3. Len(r.name) \in Nat /\ \A k \in 1..Len(r.name) : r.name[k] \in Words
  BY <1>1, ElementOfSeq, LenProperties
<1>4. Len(r.clauses) \in Nat /\ DOMAIN r.clauses = 1..Len(r.clauses)
  BY <1>1, LenProperties
<1>5. ASSUME NEW n \in 1..Len(r.clauses)
      PROVE  /\ r.clauses[n].op \in {"==", ">=", "!="}
             /\ r.clauses[n].version \in Versions
             /\ r.clauses[n].version \in Words
             /\ r.clauses[n].star \in BOOLEAN
  <2>1. r.clauses[n] \in Clause
    BY <1>1, ElementOfSeq
  <2>. QED
    BY <2>1, TokenFacts DEF Clause
<1>. QED
  BY <1>1, <1>2, <1>3, <1>4, <1>5

\* A comma before every clause but the first, the operator, the version, and
\* perhaps a star.
LEMMA PieceIs ==
  ASSUME NEW r \in Requirement, NEW n \in 1..Len(r.clauses)
  PROVE  \E b \in {0, 1} :
           /\ b = 1 <=> n > 1
           /\ Piece(r, n) \in Seq(Token)
           /\ Len(Piece(r, n)) = b + 2 + (IF r.clauses[n].star THEN 1 ELSE 0)
           /\ b = 1 => Piece(r, n)[1] = "comma"
           /\ Piece(r, n)[b + 1] = r.clauses[n].op
           /\ Piece(r, n)[b + 2] = r.clauses[n].version
           /\ r.clauses[n].star => Piece(r, n)[b + 3] = ".*"
<1> DEFINE c == r.clauses[n]
           b == IF n > 1 THEN 1 ELSE 0
           z == IF c.star THEN 1 ELSE 0
           comma == IF n > 1 THEN <<"comma">> ELSE <<>>
           pin == <<c.op, c.version>>
           star == IF c.star THEN <<".*">> ELSE <<>>
<1>1. c.op \in Token /\ c.version \in Token /\ c.star \in BOOLEAN
  <2>1. c.op \in {"==", ">=", "!="} /\ c.version \in Words /\ c.star \in BOOLEAN
    BY RequirementType, Zenon
  <2> HIDE DEF c
  <2>. QED
    BY <2>1, TokenFacts
<1>2. Piece(r, n) = Join(Join(comma, pin), star)
  BY Zenon DEF Piece, Join
<1>n. n \in Nat
  OBVIOUS
<1> HIDE DEF c
<1>t. "comma" \in Token /\ ".*" \in Token
  BY TokenFacts
<1>3. comma \in Seq(Token) /\ Len(comma) = b /\ (b = 1 => comma[1] = "comma")
  <2>1. CASE n > 1
    <3>1. comma = <<"comma">> /\ b = 1
      BY <2>1
    <3> HIDE DEF comma, b
    <3>. QED
      BY <1>t, <3>1, OneToken, Zenon
  <2>2. CASE ~(n > 1)
    <3>1. comma = <<>> /\ b = 0
      BY <2>2
    <3> HIDE DEF comma, b
    <3>. QED
      BY <3>1
  <2>. QED
    BY <2>1, <2>2
<1>4. pin \in Seq(Token) /\ Len(pin) = 2 /\ pin[1] = c.op /\ pin[2] = c.version
  BY <1>1
<1>5. star \in Seq(Token) /\ Len(star) = z /\ (z = 1 => star[1] = ".*")
  <2>1. CASE c.star
    <3>1. star = <<".*">> /\ z = 1
      BY <2>1
    <3> HIDE DEF star, z
    <3>. QED
      BY <1>t, <3>1, OneToken, Zenon
  <2>2. CASE ~c.star
    <3>1. star = <<>> /\ z = 0
      BY <2>2
    <3> HIDE DEF star, z
    <3>. QED
      BY <3>1
  <2>. QED
    BY <2>1, <2>2
<1>6. b \in {0, 1} /\ z \in {0, 1} /\ (b = 1 <=> n > 1) /\ (c.star => z = 1)
  OBVIOUS
<1> HIDE DEF b, z, comma, pin, star
<1>7. Join(comma, pin) \in Seq(Token) /\ Follows(Join(comma, pin), comma, pin)
  BY <1>3, <1>4, ConcatFollows DEF Join
<1>8. Piece(r, n) \in Seq(Token) /\ Follows(Piece(r, n), Join(comma, pin), star)
  BY <1>2, <1>5, <1>7, ConcatFollows DEF Join
<1>9. Len(Join(comma, pin)) = b + 2 /\ Len(Piece(r, n)) = b + 2 + z
  <2>1. Len(Join(comma, pin)) = b + 2
    BY <1>3, <1>4, <1>7 DEF Follows
  <2>. QED
    BY <1>5, <1>8, <2>1 DEF Follows
<1>10. \A k \in 1..(b + 2) : Piece(r, n)[k] = Join(comma, pin)[k]
  <2>1. \A k \in 1..Len(Join(comma, pin)) : Piece(r, n)[k] = Join(comma, pin)[k]
    BY <1>8 DEF Follows
  <2>2. Len(Join(comma, pin)) = b + 2
    BY <1>9
  <2>. QED
    BY <2>1, <2>2
<1>11. b = 1 => Piece(r, n)[1] = "comma"
  <2>0. b = 1 => 1 \in 1..Len(comma)
    BY <1>3
  <2>1. b = 1 => Join(comma, pin)[1] = comma[1]
    BY <1>7, <2>0, Zenon DEF Follows
  <2>2. b = 1 => Piece(r, n)[1] = Join(comma, pin)[1]
    BY <1>10
  <2>. QED
    BY <1>3, <2>1, <2>2, Zenon
<1>12. Piece(r, n)[b + 1] = c.op /\ Piece(r, n)[b + 2] = c.version
  <2>0. 1 \in 1..Len(pin) /\ 2 \in 1..Len(pin)
    BY <1>4
  <2>1. Join(comma, pin)[b + 1] = pin[1] /\ Join(comma, pin)[b + 2] = pin[2]
    BY <1>3, <1>7, <2>0, Zenon DEF Follows
  <2>2. b + 1 \in 1..(b + 2) /\ b + 2 \in 1..(b + 2)
    BY <1>6
  <2>. QED
    BY <1>4, <1>10, <2>1, <2>2
<1>13. z = 1 => Piece(r, n)[b + 3] = ".*"
  BY <1>5, <1>6, <1>8, <1>9 DEF Follows
<1>14. /\ b = 1 <=> n > 1
       /\ Len(Piece(r, n)) = b + 2 + (IF c.star THEN 1 ELSE 0)
       /\ c.star => Piece(r, n)[b + 3] = ".*"
  BY <1>6, <1>9, <1>13 DEF z
<1>. QED
  BY <1>6, <1>8, <1>11, <1>12, <1>14, Zenon DEF c

LEMMA PiecesType ==
  ASSUME NEW r \in Requirement
  PROVE  /\ Pieces(r) \in Seq(Seq(Token)) /\ Len(Pieces(r)) = Len(r.clauses)
         /\ \A n \in 1..Len(r.clauses) : Pieces(r)[n] = Piece(r, n)
         /\ FlattenSeq(Pieces(r)) \in Seq(Token)
<1>1. DOMAIN r.clauses = 1..Len(r.clauses) /\ Len(r.clauses) \in Nat
  BY RequirementType
<1>2. \A n \in 1..Len(r.clauses) : Piece(r, n) \in Seq(Token)
  BY PieceIs
<1>3. /\ Pieces(r) \in Seq(Seq(Token)) /\ Len(Pieces(r)) = Len(r.clauses)
      /\ \A n \in 1..Len(r.clauses) : Pieces(r)[n] = Piece(r, n)
  BY <1>1, <1>2 DEF Pieces
<1>. QED
  BY <1>3, FlattenType

LEMMA FrontIs ==
  ASSUME NEW r \in Requirement
  PROVE  /\ FrontText(r) \in Seq(Token)
         /\ Len(FrontText(r)) = Len(r.name) + (IF r.extras THEN 3 ELSE 0)
         /\ \A k \in 1..Len(r.name) : FrontText(r)[k] = r.name[k]
         /\ r.extras => FrontText(r)[Len(r.name) + 1] = "["
         /\ \A k \in 1..Len(FrontText(r)) : FrontText(r)[k] \notin {"==", "semicolon"}
<1> DEFINE N == Len(r.name)
           e == IF r.extras THEN <<"[", "extra", "]">> ELSE <<>>
           z == IF r.extras THEN 3 ELSE 0
<1>1. /\ r.name \in Seq(Token) /\ N \in Nat /\ r.extras \in BOOLEAN
      /\ \A k \in 1..N : r.name[k] \in Words
  BY RequirementType, Zenon
<1>t. "[" \in Token /\ "extra" \in Token /\ "]" \in Token
  BY TokenFacts
<1>2. /\ e \in Seq(Token) /\ Len(e) = z /\ z \in {0, 3} /\ (r.extras => z = 3)
      /\ z = 3 => e[1] = "[" /\ e[2] = "extra" /\ e[3] = "]"
  BY <1>t
<1>3. FrontText(r) = r.name \o e
  BY Zenon DEF FrontText
<1> HIDE DEF e, z
<1>4. FrontText(r) \in Seq(Token) /\ Follows(FrontText(r), r.name, e)
  BY <1>1, <1>2, <1>3, ConcatFollows
<1>5. Len(FrontText(r)) = N + z /\ \A k \in 1..N : FrontText(r)[k] = r.name[k]
  BY <1>2, <1>4 DEF Follows
<1>6. \A k \in 1..z : FrontText(r)[N + k] = e[k]
  BY <1>2, <1>4 DEF Follows
<1>7. ASSUME NEW k \in 1..Len(FrontText(r)) PROVE FrontText(r)[k] \notin {"==", "semicolon"}
  <2>1. CASE k <= N
    <3>1. k \in 1..N
      BY <1>1, <2>1
    <3>. QED
      BY <1>1, <1>5, <3>1, TokenFacts DEF Punctuation
  <2>2. CASE ~(k <= N)
    <3>1. k - N \in 1..z /\ k = N + (k - N)
      BY <1>1, <1>2, <1>5, <2>2
    <3>2. FrontText(r)[k] = e[k - N] /\ k - N \in {1, 2, 3} /\ z = 3
      BY <1>2, <1>6, <3>1
    <3>. QED
      BY <1>2, <3>2
  <2>. QED
    BY <2>1, <2>2
<1>8. r.extras => FrontText(r)[N + 1] = "["
  BY <1>2, <1>6
<1>. QED
  BY <1>4, <1>5, <1>7, <1>8, Zenon DEF z

-----------------------------------------------------------------------------
\* What Before and SplitRequirement find.

LEMMA CutAfter ==
  ASSUME NEW S, NEW s \in Seq(S), NEW t \in Seq(S)
  PROVE  SubSeq(s \o t, 1, Len(s)) = s
<1> DEFINE w == s \o t
           v == SubSeq(w, 1, Len(s))
<1>1. w \in Seq(S) /\ Follows(w, s, t) /\ Len(s) \in Nat /\ Len(t) \in Nat
  BY ConcatFollows, LenProperties
<1> HIDE DEF w
<1>2. \A i \in 1..Len(s) : w[i] \in S /\ w[i] = s[i]
  BY <1>1, ElementOfSeq DEF Follows
<1>3. v \in Seq(S) /\ Len(v) = Len(s) /\ \A i \in 1..Len(s) : v[i] = w[i]
  <2>1. /\ SubSeq(w, 1, Len(s)) \in Seq(S)
        /\ Len(SubSeq(w, 1, Len(s))) = IF 1 <= Len(s) THEN Len(s) - 1 + 1 ELSE 0
        /\ \A i \in 1..(Len(s) - 1 + 1) : SubSeq(w, 1, Len(s))[i] = w[1 + i - 1]
    BY <1>1, <1>2, SubSeqProperties
  <2> HIDE DEF v
  <2>. QED
    BY <1>1, <2>1 DEF v
<1> HIDE DEF v
<1>4. v = s
  BY <1>2, <1>3, SeqEqual
<1>. QED
  BY <1>4 DEF v, w

LEMMA BeforeFirst ==
  ASSUME NEW S, NEW s \in Seq(S), NEW t \in Seq(S), NEW x,
         \A n \in 1..Len(s) : s[n] # x
  PROVE  /\ Before(s, x) = s
         /\ t # <<>> /\ t[1] = x => Before(s \o t, x) = s
<1>1. Before(s, x) = s
  BY FirstPosition DEF Before
<1>2. ASSUME t # <<>>, t[1] = x PROVE Before(s \o t, x) = s
  <2> DEFINE w == s \o t
             k == First(w, x)
  <2>1. /\ w \in Seq(S) /\ Len(s) \in Nat /\ Len(t) \in Nat \ {0}
        /\ Len(w) = Len(s) + Len(t)
        /\ \A n \in 1..Len(s) : w[n] = s[n]
        /\ w[Len(s) + 1] = x
    <3>1. w \in Seq(S) /\ Follows(w, s, t) /\ Len(s) \in Nat
      BY ConcatFollows, LenProperties
    <3>2. Len(t) \in Nat \ {0} /\ 1 \in 1..Len(t)
      BY <1>2, EmptySeq
    <3> HIDE DEF w
    <3>. QED
      BY <1>2, <3>1, <3>2 DEF Follows
  <2>2. Before(w, x) = IF x \in Range(w) THEN SubSeq(w, 1, k - 1) ELSE w
    BY DEF Before, First
  <2>3. x \in Range(w) /\ k \in 1..Len(w) /\ w[k] = x /\ k <= Len(s) + 1
    <3>1. Len(s) + 1 \in 1..Len(w)
      BY <2>1
    <3> HIDE DEF w
    <3>2. x \in Range(w)
      BY <2>1, <3>1, FirstPosition, Zenon
    <3>3. k \in 1..Len(w) /\ w[k] = x /\ \A n \in 1..Len(w) : w[n] = x => k <= n
      BY <2>1, <3>2, FirstPosition, Zenon
    <3>. QED
      BY <2>1, <3>1, <3>2, <3>3, Zenon
  <2>4. k = Len(s) + 1
    <3> HIDE DEF w, k
    <3>1. k \notin 1..Len(s)
      BY <2>1, <2>3
    <3>. QED
      BY <2>1, <2>3, <3>1
  <2>5. k - 1 = Len(s)
    <3> HIDE DEF w, k
    <3>. QED
      BY <2>1, <2>4
  <2>. QED
    BY <2>2, <2>3, <2>5, CutAfter
<1>. QED
  BY <1>1, <1>2

\* The tokens of a clause: no semicolon, and after "==" the version and perhaps
\* a star.
LEMMA PieceTokens ==
  ASSUME NEW r \in Requirement, NEW n \in 1..Len(r.clauses)
  PROVE  /\ Len(Piece(r, n)) \in Nat \ {0}
         /\ n > 1 => Piece(r, n)[1] = "comma"
         /\ r.clauses[n].op = "==" => \E m \in 1..Len(Piece(r, n)) : Piece(r, n)[m] = "=="
         /\ \A m \in 1..Len(Piece(r, n)) :
              /\ Piece(r, n)[m] # "semicolon"
              /\ Piece(r, n)[m] = "==" =>
                   /\ r.clauses[n].op = "=="
                   /\ m = IF n > 1 THEN 2 ELSE 1
                   /\ Len(Piece(r, n)) = m + 1 + (IF r.clauses[n].star THEN 1 ELSE 0)
                   /\ Piece(r, n)[m + 1] = r.clauses[n].version
                   /\ r.clauses[n].star => Piece(r, n)[m + 2] = ".*"
<1> DEFINE c == r.clauses[n]
           p == Piece(r, n)
           z == IF c.star THEN 1 ELSE 0
<1>1. PICK b \in {0, 1} :
        /\ b = 1 <=> n > 1
        /\ p \in Seq(Token)
        /\ Len(p) = b + 2 + z
        /\ b = 1 => p[1] = "comma"
        /\ p[b + 1] = c.op
        /\ p[b + 2] = c.version
        /\ c.star => p[b + 3] = ".*"
  BY PieceIs
<1>2. /\ c.op \in {"==", ">=", "!="} /\ c.star \in BOOLEAN
      /\ c.version \notin Punctuation
  <2>1. c.op \in {"==", ">=", "!="} /\ c.star \in BOOLEAN /\ c.version \in Words
    BY RequirementType, Zenon
  <2>. QED
    BY <2>1, TokenFacts, Zenon
<1>3. c.op # "semicolon" /\ c.op # "comma" /\ c.version # "semicolon" /\ c.version # "=="
  <2> HIDE DEF c
  <2>. QED
    BY <1>2 DEF Punctuation
<1>4. z \in {0, 1} /\ (z = 1 => c.star)
  OBVIOUS
<1> HIDE DEF c, p, z
<1>5. ASSUME NEW m \in 1..Len(p)
      PROVE  /\ p[m] # "semicolon"
             /\ p[m] = "==" => m = b + 1 /\ c.op = "=="
  <2>1. \/ b = 1 /\ m = 1
        \/ m = b + 1
        \/ m = b + 2
        \/ m = b + 3 /\ z = 1
    BY <1>1, <1>4
  <2>. QED
    BY <1>1, <1>3, <1>4, <2>1
<1>6. b + 1 \in 1..Len(p) /\ Len(p) \in Nat \ {0}
  BY <1>1, <1>4
<1>7. b + 1 = IF n > 1 THEN 2 ELSE 1
  BY <1>1
<1>. QED
  BY <1>1, <1>5, <1>6, <1>7 DEF c, p, z

\* Body, with the clauses after the front.
LEMMA BodyIs ==
  ASSUME NEW r \in Requirement
  PROVE  /\ Body(r) \in Seq(Token) /\ Follows(Body(r), FrontText(r), FlattenSeq(Pieces(r)))
         /\ \A k \in 1..Len(Body(r)) : Body(r)[k] # "semicolon"
<1> DEFINE f == FrontText(r)
           u == FlattenSeq(Pieces(r))
           w == Body(r)
<1>1. f \in Seq(Token) /\ u \in Seq(Token) /\ Len(f) \in Nat /\ Len(u) \in Nat
      /\ \A k \in 1..Len(f) : f[k] # "semicolon"
  BY FrontIs, PiecesType, LenProperties
<1>2. w \in Seq(Token) /\ Follows(w, f, u)
  BY <1>1, ConcatFollows DEF Body
<1>3. \A k \in 1..Len(u) : u[k] # "semicolon"
  <2>1. PICK pos : Stands(Pieces(r), u, pos)
    BY PiecesType, Standing
  <2>2. ASSUME NEW k \in 1..Len(u) PROVE u[k] # "semicolon"
    <3>1. PICK n \in 1..Len(Pieces(r)) : \E m \in 1..Len(Pieces(r)[n]) : k = pos[n - 1] + m
      BY <2>1 DEF Stands
    <3>2. PICK m \in 1..Len(Pieces(r)[n]) : k = pos[n - 1] + m
      BY <3>1
    <3>3. u[k] = Pieces(r)[n][m]
      BY <2>1, <3>2 DEF Stands
    <3>4. n \in 1..Len(r.clauses) /\ Pieces(r)[n] = Piece(r, n)
      BY PiecesType
    <3>. QED
      BY <3>2, <3>3, <3>4, PieceTokens
  <2>. QED
    BY <2>2
<1>4. ASSUME NEW k \in 1..Len(w) PROVE w[k] # "semicolon"
  <2>1. CASE k <= Len(f)
    <3>1. k \in 1..Len(f)
      BY <1>1, <2>1
    <3>. QED
      BY <1>1, <1>2, <3>1 DEF Follows
  <2>2. CASE ~(k <= Len(f))
    <3>1. k - Len(f) \in 1..Len(u) /\ k = Len(f) + (k - Len(f))
      BY <1>1, <1>2, <2>2 DEF Follows
    <3>2. w[k] = u[k - Len(f)]
      BY <1>2, <3>1 DEF Follows
    <3>. QED
      BY <1>3, <3>1, <3>2
  <2>. QED
    BY <2>1, <2>2
<1>. QED
  BY <1>2, <1>4

\* The marker is cut off.
LEMMA SpecIs ==
  ASSUME NEW r \in Requirement, ~r.url
  PROVE  Before(Tokens(r), "semicolon") = Body(r)
<1> DEFINE u == FlattenSeq(Pieces(r))
           marker == IF r.marker THEN <<"semicolon", "python", "==", "3">> ELSE <<>>
<1>1. Tokens(r) = (FrontText(r) \o <<>>) \o u \o marker
  BY Zenon DEF Tokens, FrontText, Pieces, Piece
<1>2. FrontText(r) \o <<>> = FrontText(r)
  BY FrontIs, ConcatEmptySeq
<1>3. Tokens(r) = Body(r) \o marker
  BY <1>1, <1>2, Zenon DEF Body
<1>4. Body(r) \in Seq(Token) /\ \A k \in 1..Len(Body(r)) : Body(r)[k] # "semicolon"
  BY BodyIs
<1>5. CASE r.marker
  <2>1. marker \in Seq(Token) /\ marker # <<>> /\ marker[1] = "semicolon"
    <3>1. marker = <<"semicolon", "python", "==", "3">>
      BY <1>5
    <3>2. "semicolon" \in Token /\ "python" \in Token /\ "==" \in Token /\ "3" \in Token
      BY TokenFacts
    <3> HIDE DEF marker
    <3>. QED
      BY <3>1, <3>2
  <2> HIDE DEF marker
  <2>. QED
    BY <1>3, <1>4, <2>1, BeforeFirst
<1>6. CASE ~r.marker
  <2>1. marker = <<>>
    BY <1>6
  <2>2. Tokens(r) = Body(r)
    BY <1>3, <1>4, <2>1, ConcatEmptySeq
  <2>3. <<>> \in Seq(Token)
    OBVIOUS
  <2>. QED
    BY <1>4, <2>2, <2>3, BeforeFirst
<1>. QED
  BY <1>5, <1>6

VersionText(r) == SubSeq(Body(r), First(Body(r), "==") + 1, Len(Body(r)))
NameText(r) == Before(Before(Body(r), "=="), "[")

LEMMA SplitIs ==
  ASSUME NEW r \in Requirement, ~r.url
  PROVE  SplitRequirement(Tokens(r)) =
           [pinned |-> /\ "==" \in Range(Body(r)) /\ NameText(r) # <<>> /\ VersionText(r) # <<>>
                       /\ Range(VersionText(r)) \cap RangeTokens = {},
            name |-> NameText(r), version |-> VersionText(r)]
BY SpecIs, Zenon DEF SplitRequirement, VersionText, NameText, First

\* What follows the first "==": the version of its clause, its star, and the
\* comma of the next clause.
LEMMA AfterEquals ==
  ASSUME NEW r \in Requirement, "==" \in Range(Body(r))
  PROVE  \E n \in 1..Len(r.clauses) :
           LET z == IF r.clauses[n].star THEN 1 ELSE 0
           IN  /\ r.clauses[n].op = "=="
               /\ VersionText(r) \in Seq(Token)
               /\ n = Len(r.clauses) => Len(VersionText(r)) = 1 + z
               /\ n # Len(r.clauses) => "comma" \in Range(VersionText(r))
               /\ Len(VersionText(r)) >= 1 + z
               /\ VersionText(r)[1] = r.clauses[n].version
               /\ r.clauses[n].star => VersionText(r)[2] = ".*"
<1> DEFINE f == FrontText(r)
           u == FlattenSeq(Pieces(r))
           w == Body(r)
           v == VersionText(r)
           p == First(w, "==")
           q == p - Len(f)
           N == Len(r.clauses)
<1>1. f \in Seq(Token) /\ u \in Seq(Token) /\ Len(f) \in Nat /\ Len(u) \in Nat
      /\ \A k \in 1..Len(f) : f[k] # "=="
  BY FrontIs, PiecesType, LenProperties
<1>2. /\ w \in Seq(Token) /\ Len(w) = Len(f) + Len(u)
      /\ \A k \in 1..Len(f) : w[k] = f[k]
      /\ \A k \in 1..Len(u) : w[Len(f) + k] = u[k]
  BY BodyIs, Zenon DEF Follows
<1>3. p \in 1..Len(w) /\ w[p] = "=="
  BY <1>2, FirstPosition, Zenon
<1>4. q \in 1..Len(u) /\ p = Len(f) + q
  <2>1. p \notin 1..Len(f)
    <3> HIDE DEF w, f, p
    <3>. QED
      BY <1>1, <1>2, <1>3
  <2> HIDE DEF w, f, u, p
  <2>. QED
    BY <1>1, <1>2, <1>3, <2>1
<1>5. u[q] = "=="
  <2> HIDE DEF w, f, u, p, q
  <2>. QED
    BY <1>2, <1>3, <1>4
<1>6. PICK pos : Stands(Pieces(r), u, pos)
  BY PiecesType, Standing
<1>7. /\ Len(Pieces(r)) = N /\ N \in Nat
      /\ \A n \in 1..N : Pieces(r)[n] = Piece(r, n)
  BY PiecesType, RequirementType
<1>8. /\ pos \in [0..N -> Nat] /\ Len(u) = pos[N]
      /\ \A n \in 1..N : pos[n] = pos[n - 1] + Len(Piece(r, n))
      /\ \A n \in 1..N : \A m \in 1..Len(Piece(r, n)) :
           pos[n - 1] + m \in 1..Len(u) /\ u[pos[n - 1] + m] = Piece(r, n)[m]
      /\ \A k \in 1..Len(u) : \E n \in 1..N : \E m \in 1..Len(Piece(r, n)) : k = pos[n - 1] + m
  <2> DEFINE P == Pieces(r)
  <2> HIDE DEF N, u, P
  <2>1. /\ pos \in [0..Len(P) -> Nat] /\ Len(u) = pos[Len(P)]
        /\ \A n \in 1..Len(P) : pos[n] = pos[n - 1] + Len(P[n])
        /\ \A n \in 1..Len(P) : \A m \in 1..Len(P[n]) :
             pos[n - 1] + m \in 1..Len(u) /\ u[pos[n - 1] + m] = P[n][m]
        /\ \A k \in 1..Len(u) : \E n \in 1..Len(P) : \E m \in 1..Len(P[n]) : k = pos[n - 1] + m
    BY <1>6, Zenon DEF Stands, P
  <2>2. Len(P) = N /\ \A n \in 1..N : P[n] = Piece(r, n)
    BY <1>7 DEF P
  <2>3. pos \in [0..N -> Nat] /\ Len(u) = pos[N]
    BY <2>1, <2>2
  <2>4. \A n \in 1..N : pos[n] = pos[n - 1] + Len(Piece(r, n))
    BY <2>1, <2>2
  <2>5. ASSUME NEW n \in 1..N, NEW m \in 1..Len(Piece(r, n))
        PROVE  pos[n - 1] + m \in 1..Len(u) /\ u[pos[n - 1] + m] = Piece(r, n)[m]
    <3>1. n \in 1..Len(P) /\ P[n] = Piece(r, n) /\ m \in 1..Len(P[n])
      BY <2>2, Zenon
    <3>. QED
      BY <2>1, <3>1, Zenon
  <2>6. ASSUME NEW k \in 1..Len(u)
        PROVE  \E n \in 1..N : \E m \in 1..Len(Piece(r, n)) : k = pos[n - 1] + m
    <3>1. PICK n \in 1..Len(P) : \E m \in 1..Len(P[n]) : k = pos[n - 1] + m
      BY <2>1, Zenon
    <3>. QED
      BY <2>2, <3>1, Zenon
  <2>. QED
    BY <2>3, <2>4, <2>5, <2>6
<1>9. v \in Seq(Token) /\ Len(v) = Len(u) - q /\ \A i \in 1..(Len(u) - q) : v[i] = u[q + i]
  <2>1. \A i \in (p + 1)..Len(w) : w[i] \in Token
    <3>1. \A i \in 1..Len(w) : w[i] \in Token
      BY <1>2, ElementOfSeq
    <3> HIDE DEF w, p
    <3>. QED
      BY <1>1, <1>2, <1>3, <3>1
  <2>2. p + 1 \in Int /\ Len(w) \in Int
    <3> HIDE DEF w, p, f, u
    <3>. QED
      BY <1>1, <1>2, <1>3
  <2>3. /\ v \in Seq(Token)
        /\ Len(v) = IF p + 1 <= Len(w) THEN Len(w) - (p + 1) + 1 ELSE 0
        /\ \A i \in 1..(Len(w) - (p + 1) + 1) : v[i] = w[(p + 1) + i - 1]
    <3>1. v = SubSeq(w, p + 1, Len(w))
      BY DEF VersionText
    <3> HIDE DEF v, w, p
    <3>. QED
      BY <2>1, <2>2, <3>1, SubSeqProperties
  <2> HIDE DEF v, w, p, f, u, q
  <2>4. Len(w) - (p + 1) + 1 = Len(u) - q /\ Len(u) - q \in Nat /\ q \in Nat
    BY <1>1, <1>2, <1>3, <1>4
  <2>5. Len(v) = Len(u) - q
    BY <1>1, <1>2, <1>3, <1>4, <2>3
  <2>6. ASSUME NEW i \in 1..(Len(u) - q) PROVE v[i] = u[q + i]
    <3>1. (p + 1) + i - 1 = Len(f) + (q + i) /\ q + i \in 1..Len(u)
      BY <1>1, <1>3, <1>4, <2>4
    <3>. QED
      BY <1>2, <2>3, <2>4, <3>1
  <2>. QED
    BY <2>3, <2>5, <2>6
<1>10. PICK n \in 1..N : \E m \in 1..Len(Piece(r, n)) : q = pos[n - 1] + m
  <2> HIDE DEF u, q, N
  <2>. QED
    BY <1>4, <1>8
<1>11. PICK m \in 1..Len(Piece(r, n)) : q = pos[n - 1] + m
  BY <1>10
<1> DEFINE z == IF r.clauses[n].star THEN 1 ELSE 0
<1>12. /\ r.clauses[n].op = "==" /\ m \in 1..2
       /\ Len(Piece(r, n)) = m + 1 + z
       /\ Piece(r, n)[m + 1] = r.clauses[n].version
       /\ r.clauses[n].star => Piece(r, n)[m + 2] = ".*"
  <2>1. Piece(r, n)[m] = "=="
    <3> HIDE DEF u, q, N
    <3>. QED
      BY <1>5, <1>8, <1>11
  <2>. QED
    BY <2>1, PieceTokens
<1>13. z \in {0, 1} /\ pos[n - 1] \in Nat /\ pos[n] \in Nat /\ pos[n] = q + 1 + z
  <2>1. z \in {0, 1}
    OBVIOUS
  <2>2. n - 1 \in 0..N /\ n \in 0..N
    <3> HIDE DEF N
    <3>. QED
      BY <1>7
  <2>3. pos[n - 1] \in Nat /\ pos[n] \in Nat
    <3> HIDE DEF N
    <3>. QED
      BY <1>8, <2>2
  <2>4. pos[n] = pos[n - 1] + Len(Piece(r, n))
    BY <1>8
  <2> HIDE DEF z, q, N
  <2>. QED
    BY <1>11, <1>12, <2>1, <2>3, <2>4
<1>14. /\ q + 1 \in 1..Len(u) /\ u[q + 1] = r.clauses[n].version
       /\ r.clauses[n].star => q + 2 \in 1..Len(u) /\ u[q + 2] = ".*"
  <2>1. m + 1 \in 1..Len(Piece(r, n)) /\ (r.clauses[n].star => m + 2 \in 1..Len(Piece(r, n)))
    BY <1>12
  <2>2. pos[n - 1] + (m + 1) = q + 1 /\ pos[n - 1] + (m + 2) = q + 2
    <3> HIDE DEF q, N
    <3>. QED
      BY <1>11, <1>13
  <2>3. \A j \in 1..Len(Piece(r, n)) :
           pos[n - 1] + j \in 1..Len(u) /\ u[pos[n - 1] + j] = Piece(r, n)[j]
    BY <1>8
  <2> HIDE DEF q, N, u
  <2>. QED
    BY <1>12, <2>1, <2>2, <2>3
<1>15. n # N => q + 2 + z \in 1..Len(u) /\ u[q + 2 + z] = "comma"
  <2> SUFFICES ASSUME n # N PROVE q + 2 + z \in 1..Len(u) /\ u[q + 2 + z] = "comma"
    OBVIOUS
  <2>1. n + 1 \in 1..N /\ n + 1 > 1 /\ (n + 1) - 1 = n
    <3> HIDE DEF N
    <3>. QED
      BY <1>7
  <2>2. 1 \in 1..Len(Piece(r, n + 1)) /\ Piece(r, n + 1)[1] = "comma"
    BY <2>1, PieceTokens
  <2>3. pos[n] + 1 \in 1..Len(u) /\ u[pos[n] + 1] = Piece(r, n + 1)[1]
    <3> HIDE DEF N, u
    <3>. QED
      BY <1>8, <2>1, <2>2
  <2>4. pos[n] + 1 = q + 2 + z
    <3> HIDE DEF N, u, q, z
    <3>. QED
      BY <1>1, <1>4, <1>13
  <2>. QED
    BY <2>2, <2>3, <2>4
<1>16. q \in Nat /\ Len(u) \in Nat
  BY <1>1, <1>4
<1>17. n = N => Len(v) = 1 + z
  <2> HIDE DEF v, u, q, z, N
  <2>. QED
    BY <1>8, <1>9, <1>13, <1>16
<1>18. /\ v[1] = r.clauses[n].version /\ Len(v) >= 1 + z
       /\ r.clauses[n].star => v[2] = ".*"
  <2>1. 1 \in 1..(Len(u) - q) /\ v[1] = u[q + 1]
    <3> HIDE DEF v, u, q, N
    <3>. QED
      BY <1>9, <1>14, <1>16
  <2>2. r.clauses[n].star => 2 \in 1..(Len(u) - q) /\ v[2] = u[q + 2]
    <3> HIDE DEF v, u, q, N
    <3>. QED
      BY <1>9, <1>14, <1>16
  <2>3. Len(v) >= 1 + z
    <3>1. z = 1 => r.clauses[n].star
      OBVIOUS
    <3> HIDE DEF v, u, q, N, z
    <3>. QED
      BY <1>9, <1>13, <1>16, <2>1, <2>2, <3>1
  <2>. QED
    BY <1>14, <2>1, <2>2, <2>3
<1>19. n # N => "comma" \in Range(v)
  <2> SUFFICES ASSUME n # N PROVE "comma" \in Range(v)
    OBVIOUS
  <2>1. 2 + z \in 1..(Len(u) - q) /\ v[2 + z] = u[q + (2 + z)]
    <3> HIDE DEF v, u, q, N, z
    <3>. QED
      BY <1>9, <1>13, <1>15, <1>16
  <2>2. q + (2 + z) = q + 2 + z
    <3> HIDE DEF q, z
    <3>. QED
      BY <1>13, <1>16
  <2>3. v[2 + z] = "comma" /\ 2 + z \in 1..Len(v)
    BY <1>9, <1>15, <2>1, <2>2, Zenon
  <2> HIDE DEF v, z
  <2>. QED
    BY <1>9, <2>3, FirstPosition
<1>. QED
  BY <1>9, <1>12, <1>17, <1>18, <1>19

\* A pin that is accepted ends in a plain "==" clause, and its version is that
\* clause's.
LEMMA PinnedVersion ==
  ASSUME NEW r \in Requirement, ~r.url, SplitRequirement(Tokens(r)).pinned
  PROVE  /\ Len(r.clauses) \in Nat \ {0}
         /\ r.clauses[Len(r.clauses)].op = "==" /\ ~r.clauses[Len(r.clauses)].star
         /\ SplitRequirement(Tokens(r)).version = <<r.clauses[Len(r.clauses)].version>>
<1> DEFINE v == VersionText(r)
<1>1. /\ "==" \in Range(Body(r)) /\ Range(v) \cap RangeTokens = {}
      /\ SplitRequirement(Tokens(r)).version = v
  BY SplitIs
<1>2. PICK n \in 1..Len(r.clauses) :
        LET z == IF r.clauses[n].star THEN 1 ELSE 0
        IN  /\ r.clauses[n].op = "=="
            /\ v \in Seq(Token)
            /\ n = Len(r.clauses) => Len(v) = 1 + z
            /\ n # Len(r.clauses) => "comma" \in Range(v)
            /\ Len(v) >= 1 + z
            /\ v[1] = r.clauses[n].version
            /\ r.clauses[n].star => v[2] = ".*"
  BY <1>1, AfterEquals
<1> HIDE DEF v
<1>3. v \in Seq(Token) /\ Len(v) \in Nat
  BY <1>2, LenProperties
<1>4. ~r.clauses[n].star
  <2> SUFFICES ASSUME r.clauses[n].star PROVE FALSE
    OBVIOUS
  <2>1. 2 \in 1..Len(v) /\ v[2] = ".*"
    BY <1>2, <1>3
  <2>2. ".*" \in Range(v)
    BY <1>3, <2>1, FirstPosition
  <2>. QED
    BY <1>1, <2>2 DEF RangeTokens
<1>5. n = Len(r.clauses)
  BY <1>1, <1>2 DEF RangeTokens
<1>6. Len(v) = 1 /\ v[1] = r.clauses[n].version
  BY <1>2, <1>4, <1>5
<1>7. v = <<r.clauses[n].version>>
  BY <1>3, <1>6
<1>8. Len(r.clauses) \in Nat
  BY RequirementType
<1>. QED
  BY <1>1, <1>2, <1>4, <1>5, <1>7, <1>8

\* With one clause, and that an "==", the name is what stands before the
\* bracket or the clause.
LEMMA NameIs ==
  ASSUME NEW r \in Requirement, ~r.url, Len(r.clauses) = 1, r.clauses[1].op = "=="
  PROVE  "==" \in Range(Body(r)) /\ NameText(r) = r.name
<1> DEFINE f == FrontText(r)
           u == FlattenSeq(Pieces(r))
           e == IF r.extras THEN <<"[", "extra", "]">> ELSE <<>>
<1>1. /\ f \in Seq(Token) /\ u \in Seq(Token) /\ Len(f) \in Nat /\ Len(u) \in Nat
      /\ \A k \in 1..Len(f) : f[k] # "=="
  BY FrontIs, PiecesType, LenProperties
<1>2. Piece(r, 1)[1] = "==" /\ 1 \in 1..Len(Piece(r, 1))
  <2>0. 1 \in 1..Len(r.clauses)
    OBVIOUS
  <2>1. PICK b \in {0, 1} : (b = 1 <=> 1 > 1) /\ Piece(r, 1)[b + 1] = r.clauses[1].op
    BY <2>0, PieceIs
  <2>2. b = 0
    BY <2>1
  <2>3. Len(Piece(r, 1)) \in Nat \ {0}
    BY <2>0, PieceTokens
  <2>. QED
    BY <2>1, <2>2, <2>3
<1>3. 1 \in 1..Len(u) /\ u[1] = "=="
  <2>1. PICK pos : Stands(Pieces(r), u, pos)
    BY PiecesType, Standing
  <2>2. Len(Pieces(r)) = 1 /\ Pieces(r)[1] = Piece(r, 1)
    BY PiecesType
  <2> HIDE DEF u
  <2>3. pos[0] = 0 /\ pos[1 - 1] + 1 \in 1..Len(u) /\ u[pos[1 - 1] + 1] = Piece(r, 1)[1]
    BY <1>2, <2>1, <2>2 DEF Stands
  <2>. QED
    BY <1>2, <2>3
<1>4. Body(r) = f \o u
  BY DEF Body
<1>5. u # <<>>
  <2> HIDE DEF u
  <2>. QED
    BY <1>1, <1>3
<1>6. Before(Body(r), "==") = f
  BY <1>1, <1>3, <1>4, <1>5, BeforeFirst
<1>7. "==" \in Range(Body(r))
  <2>1. Body(r) \in Seq(Token) /\ Follows(Body(r), f, u)
    BY BodyIs
  <2>2. Len(f) + 1 \in 1..Len(Body(r)) /\ Body(r)[Len(f) + 1] = "=="
    <3> HIDE DEF f, u
    <3>. QED
      BY <1>1, <1>3, <2>1 DEF Follows
  <2>. QED
    BY <2>1, <2>2, FirstPosition
<1>8. r.name \in Seq(Token) /\ \A k \in 1..Len(r.name) : r.name[k] # "["
  <2>1. r.name \in Seq(Token) /\ \A k \in 1..Len(r.name) : r.name[k] \in Words
    BY RequirementType
  <2>. QED
    BY <2>1, TokenFacts DEF Punctuation
<1>9. f = r.name \o e
  BY Zenon DEF FrontText
<1>10. CASE r.extras
  <2>1. e \in Seq(Token) /\ e # <<>> /\ e[1] = "["
    <3>1. e = <<"[", "extra", "]">>
      BY <1>10
    <3>2. "[" \in Token /\ "extra" \in Token /\ "]" \in Token
      BY TokenFacts
    <3> HIDE DEF e
    <3>. QED
      BY <3>1, <3>2
  <2> HIDE DEF e, f
  <2>2. Before(f, "[") = r.name
    BY <1>8, <1>9, <2>1, BeforeFirst
  <2>. QED
    BY <1>6, <1>7, <2>2 DEF NameText
<1>11. CASE ~r.extras
  <2>1. f = r.name
    BY <1>8, <1>9, <1>11, ConcatEmptySeq
  <2>2. <<>> \in Seq(Token)
    OBVIOUS
  <2> HIDE DEF f
  <2>3. Before(f, "[") = r.name
    BY <1>8, <2>1, <2>2, BeforeFirst
  <2>. QED
    BY <1>6, <1>7, <2>3 DEF NameText
<1>12. r.extras \in BOOLEAN
  BY RequirementType
<1>. QED
  BY <1>10, <1>11, <1>12

\* Of the requirements with at most one clause, the pins are the exact ones.
LEMMA PinnedIsExact ==
  ASSUME NEW r \in Requirement, ~r.url, Len(r.clauses) <= 1
  PROVE  SplitRequirement(Tokens(r)).pinned <=> ExactPin(r)
<1> DEFINE v == VersionText(r)
           pin == SplitRequirement(Tokens(r))
<1>1. pin.pinned <=> /\ "==" \in Range(Body(r)) /\ NameText(r) # <<>> /\ v # <<>>
                     /\ Range(v) \cap RangeTokens = {}
  BY SplitIs
<1>2. ASSUME pin.pinned PROVE ExactPin(r)
  <2>1. /\ Len(r.clauses) \in Nat \ {0}
        /\ r.clauses[Len(r.clauses)].op = "==" /\ ~r.clauses[Len(r.clauses)].star
    BY <1>2, PinnedVersion
  <2>2. Len(r.clauses) = 1
    <3> DEFINE N == Len(r.clauses)
    <3>1. N \in Nat \ {0} /\ N <= 1
      BY <2>1
    <3> HIDE DEF N
    <3>2. N = 1
      BY <3>1
    <3>. QED
      BY <3>2 DEF N
  <2>3. NameText(r) = r.name /\ NameText(r) # <<>>
    BY <1>1, <1>2, <2>1, <2>2, NameIs
  <2>. QED
    BY <2>1, <2>2, <2>3 DEF ExactPin
<1>3. ASSUME ExactPin(r) PROVE pin.pinned
  <2>1. /\ r.name # <<>> /\ Len(r.clauses) = 1
        /\ r.clauses[1].op = "==" /\ ~r.clauses[1].star
    BY <1>3 DEF ExactPin
  <2>2. "==" \in Range(Body(r)) /\ NameText(r) # <<>>
    BY <2>1, NameIs
  <2>3. PICK n \in 1..Len(r.clauses) :
          LET z == IF r.clauses[n].star THEN 1 ELSE 0
          IN  /\ v \in Seq(Token)
              /\ n = Len(r.clauses) => Len(v) = 1 + z
              /\ v[1] = r.clauses[n].version
    BY <2>2, AfterEquals
  <2> HIDE DEF v
  <2>4. n = 1
    BY <2>1
  <2>5. v \in Seq(Token) /\ Len(v) = 1 /\ v[1] = r.clauses[1].version
    BY <2>1, <2>3, <2>4
  <2>6. r.clauses[1].version \notin Punctuation
    <3>1. r.clauses[1].version \in Words
      BY <2>1, RequirementType
    <3>. QED
      BY <3>1, TokenFacts
  <2>7. \A x \in RangeTokens : x \in Punctuation
    BY DEF RangeTokens, Punctuation
  <2>8. ASSUME NEW x \in Range(v) PROVE x \notin RangeTokens
    <3>1. PICK k \in 1..Len(v) : v[k] = x
      BY <2>5, FirstPosition
    <3>. QED
      BY <2>5, <2>6, <2>7, <3>1
  <2>9. v # <<>>
    <3>1. Len(v) # Len(<<>>)
      BY <2>5, EmptySeq
    <3>. QED
      BY <3>1, Zenon
  <2>. QED
    BY <1>1, <2>2, <2>8, <2>9
<1>. QED
  BY <1>2, <1>3, SplitIs

-----------------------------------------------------------------------------
\* The inductive invariant

Verdicts == {"unpinned", "unresolved", "young"}
Line == [file : {"pyproject", "trunk"}, at : Nat, why : Verdicts]

\* What is reported of one item of a file.
WhysOf(file, n) == {l.why : l \in {l \in Range(reports) : l.file = file /\ l.at = n}}

\* ... is what it deserves, when every question to PyPI may go unanswered.
JudgedAs(pin, dated, whys) ==
  /\ ~pin.pinned => whys = {"unpinned"}
  /\ pin.pinned /\ ~dated => whys = {}
  /\ pin.pinned /\ dated =>
       \/ whys = {"unresolved"}
       \/ Found(pin) /\ whys = IF TooYoung(Head(pin.version)) THEN {"young"} ELSE {}

AuditDone == phase = "exited" /\ exit # 2

TypeInv ==
  /\ pyproject \in Projects /\ trunk \in TrunkFiles
  /\ offline \in BOOLEAN /\ released \in Releases
  /\ phase \in {"start", "pyproject", "trunk", "exited", "traceback"}
  /\ at \in Nat \ {0} /\ exit \in {0, 1, 2} /\ reports \in Seq(Line)

ExitInv ==
  /\ phase = "start" => at = 1 /\ reports = <<>>
  /\ phase \in {"start", "pyproject", "trunk"} => exit = 2
  /\ phase = "exited" /\ exit = 0 => reports = <<>>

\* The lines are in the order of the items, and of items that are passed.
OrderInv ==
  /\ \A n, m \in DOMAIN reports :
       n < m => reports[n].file # reports[m].file \/ reports[n].at < reports[m].at
  /\ phase = "pyproject" => \A l \in Range(reports) : l.file = "pyproject" /\ l.at < at
  /\ phase = "trunk" => \A l \in Range(reports) : l.file = "trunk" => l.at < at

\* The items that are passed.
RequirementPassed(n) == (phase = "pyproject" /\ n < at) \/ phase = "trunk" \/ AuditDone
EntryPassed(n) == (phase = "trunk" /\ n < at) \/ AuditDone

JudgedInv ==
  /\ \A n \in DOMAIN Requirements :
       RequirementPassed(n) =>
         JudgedAs(SplitRequirement(Tokens(Requirements[n])), ~offline, WhysOf("pyproject", n))
  /\ \A n \in DOMAIN trunk :
       EntryPassed(n) =>
         JudgedAs(TrunkPin(trunk[n]), ~offline /\ trunk[n].tool = "ruff", WhysOf("trunk", n))

AuditInv == TypeInv /\ ExitInv /\ OrderInv /\ JudgedInv

-----------------------------------------------------------------------------
\* What the audit goes along

LEMMA DeclaredType ==
  ASSUME pyproject \in Projects
  PROVE  Requirements \in Seq(Requirement)
<1> DEFINE list(x) == IF x = NotList THEN <<>> ELSE x
           g == pyproject.groups
           lists == [n \in DOMAIN g |-> list(g[n])]
<1>1. pyproject.deps \in Declared /\ g \in Seq(Declared)
  BY AuditAssumption
<1>2. \A x \in Declared : list(x) \in Seq(Requirement)
  BY DEF Declared
<1> HIDE DEF g, list
<1>3. DOMAIN g = 1..Len(g) /\ Len(g) \in Nat /\ \A n \in 1..Len(g) : g[n] \in Declared
  BY <1>1, ElementOfSeq, LenProperties
<1>4. lists \in Seq(Seq(Requirement))
  BY <1>2, <1>3
<1>5. FlattenSeq(lists) \in Seq(Requirement)
  BY <1>4, FlattenType
<1>6. list(pyproject.deps) \o FlattenSeq(lists) \in Seq(Requirement)
  BY <1>1, <1>2, <1>5, ConcatProperties
<1>7. Requirements = list(pyproject.deps) \o FlattenSeq(lists)
  BY Zenon DEF Requirements, CollectDependencies, list, g
<1>. QED
  BY <1>6, <1>7

LEMMA ItemsType ==
  ASSUME TypeInv
  PROVE  /\ Requirements \in Seq(Requirement) /\ trunk \in Seq(Entry)
         /\ Len(Requirements) \in Nat /\ DOMAIN Requirements = 1..Len(Requirements)
         /\ Len(trunk) \in Nat /\ DOMAIN trunk = 1..Len(trunk)
         /\ Items = IF phase = "pyproject" THEN Requirements ELSE trunk
<1>1. Requirements \in Seq(Requirement)
  BY DeclaredType DEF TypeInv
<1>2. trunk \in Seq(Entry)
  BY AuditAssumption DEF TypeInv
<1>3. Items = IF phase = "pyproject" THEN Requirements ELSE trunk
  BY DEF Items, Requirements
<1>. QED
  BY <1>1, <1>2, <1>3, LenProperties

\* A version is too young when none of its files is old enough.
LEMMA AgeIs ==
  ASSUME released \in Releases, NEW v \in Versions, released[v] \ {NoDate} # {}
  PROVE  TooYoung(v) <=> ~OldEnough(v)
<1> DEFINE T == released[v] \ {NoDate}
<1>1. released[v] \in SUBSET (Int \cup {NoDate}) /\ IsFiniteSet(released[v])
  BY AuditAssumption
<1>2. T \in SUBSET Int /\ T # {} /\ IsFiniteSet(T)
  BY <1>1, FS_Subset
<1> HIDE DEF T
<1>3. Max(T) \in T /\ \A y \in T : Max(T) >= y
  BY <1>2, FiniteSetHasMax
<1>4. Max(T) < MinAge <=> ~\E age \in T : age >= MinAge
  <2> DEFINE mx == Max(T)
  <2>1. mx \in T /\ \A y \in T : mx >= y
    BY <1>3
  <2>2. MinAge \in Int
    BY AuditAssumption
  <2> HIDE DEF mx
  <2>3. \A y \in T : y \in Int
    BY <1>2
  <2>4. mx \in Int
    BY <2>1, <2>3
  <2>5. CASE mx < MinAge
    <3>1. \A y \in T : ~(y >= MinAge)
      BY <2>1, <2>2, <2>3, <2>4, <2>5
    <3>. QED
      BY <2>5, <3>1 DEF mx
  <2>6. CASE ~(mx < MinAge)
    <3>1. mx >= MinAge
      BY <2>2, <2>4, <2>6
    <3>. QED
      BY <2>1, <2>6, <3>1 DEF mx
  <2>. QED
    BY <2>5, <2>6
<1>. QED
  BY <1>4 DEF TooYoung, Age, OldEnough, T

-----------------------------------------------------------------------------
\* The invariant is kept

\* An item is passed with the lines it deserves.
LEMMA AdvanceKeeps ==
  ASSUME AuditInv, Auditing,
         NEW lines, lines = <<>> \/ \E why \in Verdicts : lines = <<why>>,
         Advance(lines), JudgedAs(Pin, Dated, Range(lines))
  PROVE  AuditInv'
<1> DEFINE line(why) == [file |-> phase, at |-> at, why |-> why]
<1>1. /\ phase \in {"pyproject", "trunk"} /\ at \in DOMAIN Items /\ at \in Nat \ {0}
      /\ exit = 2 /\ reports \in Seq(Line)
      /\ phase' = phase /\ at' = at + 1 /\ exit' = exit
      /\ UNCHANGED <<pyproject, trunk, offline, released>>
  BY DEF AuditInv, TypeInv, ExitInv, Auditing, Advance
<1>2. \/ lines = <<>> /\ reports' = reports
      \/ \E why \in Verdicts : lines = <<why>> /\ reports' = Append(reports, line(why))
  <2>1. reports' = reports \o [n \in DOMAIN lines |-> line(lines[n])]
    BY Zenon DEF Advance
  <2>2. CASE lines = <<>>
    <3>1. [n \in DOMAIN lines |-> line(lines[n])] = <<>>
      BY <2>2
    <3>. QED
      BY <1>1, <2>1, <2>2, <3>1, ConcatEmptySeq
  <2>3. ASSUME NEW why \in Verdicts, lines = <<why>>
        PROVE  reports' = Append(reports, line(why))
    <3>1. [n \in DOMAIN lines |-> line(lines[n])] = <<line(why)>>
      BY <2>3
    <3> DEFINE l == line(why)
    <3>2. l \in Line
      BY <1>1 DEF Line
    <3> HIDE DEF l
    <3>3. reports \o <<l>> = Append(reports, l)
      BY <1>1, <3>2, AppendIsConcat
    <3>. QED
      BY <2>1, <3>1, <3>3 DEF l
  <2>. QED
    BY <2>2, <2>3
<1>3. \A why \in Verdicts : line(why) \in Line
  BY <1>1 DEF Line
<1>4. reports' \in Seq(Line)
  <2> HIDE DEF line
  <2>. QED
    BY <1>1, <1>2, <1>3, AppendProperties
<1>5. TypeInv'
  BY <1>1, <1>4 DEF AuditInv, TypeInv
<1>6. ExitInv'
  BY <1>1 DEF ExitInv
<1>7. /\ Range(reports') = Range(reports) \cup {line(why) : why \in Range(lines)}
      /\ Range(lines) \subseteq Verdicts
  <2> HIDE DEF line
  <2>1. CASE lines = <<>> /\ reports' = reports
    <3>1. Range(lines) = {}
      BY <2>1 DEF Range
    <3>. QED
      BY <2>1, <3>1
  <2>2. ASSUME NEW why \in Verdicts, lines = <<why>>, reports' = Append(reports, line(why))
        PROVE  /\ Range(reports') = Range(reports) \cup {line(w) : w \in Range(lines)}
               /\ Range(lines) \subseteq Verdicts
    <3>1. Range(lines) = {why}
      BY <2>2 DEF Range
    <3>2. DOMAIN reports = 1..Len(reports) /\ DOMAIN reports' = 1..(Len(reports) + 1)
      BY <1>1, <1>3, <2>2, AppendProperties, LenProperties
    <3>3. /\ \A n \in 1..Len(reports) : reports'[n] = reports[n]
          /\ reports'[Len(reports) + 1] = line(why) /\ Len(reports) \in Nat
      BY <1>1, <1>3, <2>2, AppendProperties, LenProperties
    <3>4. Range(reports') = Range(reports) \cup {line(why)}
      <4>1. ASSUME NEW l \in Range(reports') PROVE l \in Range(reports) \cup {line(why)}
        <5>1. PICK n \in 1..(Len(reports) + 1) : reports'[n] = l
          BY <3>2, Zenon DEF Range
        <5>2. n \in 1..Len(reports) \/ n = Len(reports) + 1
          BY <3>3
        <5>. QED
          BY <3>2, <3>3, <5>1, <5>2 DEF Range
      <4>2. ASSUME NEW l \in Range(reports) PROVE l \in Range(reports')
        <5>1. PICK n \in 1..Len(reports) : reports[n] = l
          BY <3>2, Zenon DEF Range
        <5>2. n \in 1..(Len(reports) + 1)
          BY <3>3
        <5>. QED
          BY <3>2, <3>3, <5>1, <5>2, Zenon DEF Range
      <4>3. line(why) \in Range(reports')
        <5>1. Len(reports) + 1 \in 1..(Len(reports) + 1)
          BY <3>3
        <5>. QED
          BY <3>2, <3>3, <5>1, Zenon DEF Range
      <4>. QED
        BY <4>1, <4>2, <4>3
    <3>. QED
      BY <3>1, <3>4
  <2>. QED
    BY <1>2, <2>1, <2>2
\* Lines of this item there were none.
<1>8. \A l \in Range(reports) : l.file # phase \/ l.at < at
  BY <1>1 DEF AuditInv, OrderInv
<1>9. OrderInv'
  <2>1. ASSUME NEW n \in DOMAIN reports', NEW m \in DOMAIN reports', n < m
        PROVE  reports'[n].file # reports'[m].file \/ reports'[n].at < reports'[m].at
    <3>1. CASE reports' = reports
      BY <2>1, <3>1 DEF AuditInv, OrderInv
    <3>2. ASSUME NEW why \in Verdicts, reports' = Append(reports, line(why))
          PROVE  reports'[n].file # reports'[m].file \/ reports'[n].at < reports'[m].at
      <4>0. line(why).file = phase /\ line(why).at = at
        OBVIOUS
      <4> HIDE DEF line
      <4>1. /\ DOMAIN reports = 1..Len(reports) /\ DOMAIN reports' = 1..(Len(reports) + 1)
            /\ \A k \in 1..Len(reports) : reports'[k] = reports[k]
            /\ reports'[Len(reports) + 1] = line(why) /\ Len(reports) \in Nat
        BY <1>1, <1>3, <3>2, AppendProperties, LenProperties
      <4>2. n \in 1..Len(reports) /\ (m \in 1..Len(reports) \/ m = Len(reports) + 1)
        BY <2>1, <4>1
      <4>3. CASE m \in 1..Len(reports)
        <5>1. reports[n].file # reports[m].file \/ reports[n].at < reports[m].at
          BY <2>1, <4>1, <4>2, <4>3, Zenon DEF AuditInv, OrderInv
        <5>. QED
          BY <4>1, <4>2, <4>3, <5>1
      <4>4. CASE m = Len(reports) + 1
        <5>1. reports[n] \in Range(reports)
          BY <4>1, <4>2, Zenon DEF Range
        <5>. QED
          BY <1>8, <4>0, <4>1, <4>2, <4>4, <5>1
      <4>. QED
        BY <4>2, <4>3, <4>4
    <3>. QED
      BY <1>2, <3>1, <3>2
  <2>2. ASSUME NEW l \in Range(reports')
        PROVE  /\ phase = "pyproject" => l.file = "pyproject" /\ l.at < at + 1
               /\ phase = "trunk" /\ l.file = "trunk" => l.at < at + 1
    <3>1. CASE l \in Range(reports)
      <4>1. l \in Line
        BY <1>1, <3>1, RangeOfSeq
      <4>2. l.at \in Nat
        BY <4>1 DEF Line
      <4>3. /\ phase = "pyproject" => l.file = "pyproject" /\ l.at < at
            /\ phase = "trunk" /\ l.file = "trunk" => l.at < at
        BY <3>1 DEF AuditInv, OrderInv
      <4>. QED
        BY <1>1, <4>2, <4>3
    <3>2. CASE \E why \in Range(lines) : l = line(why)
      <4>1. l.file = phase /\ l.at = at
        BY <3>2
      <4>. QED
        BY <1>1, <4>1
    <3>. QED
      BY <1>7, <3>1, <3>2
  <2>. QED
    BY <1>1, <2>1, <2>2 DEF OrderInv
<1>10. \A f, n : WhysOf(f, n)' = IF f = phase /\ n = at THEN Range(lines) ELSE WhysOf(f, n)
  <2> SUFFICES ASSUME NEW f, NEW n
               PROVE  WhysOf(f, n)' = IF f = phase /\ n = at THEN Range(lines) ELSE WhysOf(f, n)
    OBVIOUS
  <2>1. WhysOf(f, n)' = {l.why : l \in {l \in Range(reports') : l.file = f /\ l.at = n}}
    BY DEF WhysOf
  <2>2. WhysOf(f, n) = {l.why : l \in {l \in Range(reports) : l.file = f /\ l.at = n}}
    BY DEF WhysOf
  <2>3. \A why : line(why).file = phase /\ line(why).at = at /\ line(why).why = why
    OBVIOUS
  <2> HIDE DEF line
  <2>4. CASE f = phase /\ n = at
    <3>1. \A l \in Range(reports) : ~(l.file = f /\ l.at = n)
      <4>1. ASSUME NEW l \in Range(reports) PROVE ~(l.file = f /\ l.at = n)
        BY <1>1, <1>8, <2>4
      <4>. QED
        BY <4>1
    <3>2. {l \in Range(reports') : l.file = f /\ l.at = n} = {line(why) : why \in Range(lines)}
      BY <1>7, <2>3, <2>4, <3>1
    <3>. QED
      BY <2>1, <2>3, <2>4, <3>2
  <2>5. CASE ~(f = phase /\ n = at)
    <3>1. {l \in Range(reports') : l.file = f /\ l.at = n}
            = {l \in Range(reports) : l.file = f /\ l.at = n}
      BY <1>7, <2>3, <2>5
    <3>. QED
      BY <2>1, <2>2, <2>5, <3>1
  <2>. QED
    BY <2>4, <2>5
<1>11. JudgedInv'
  <2>1. /\ Requirements' = Requirements /\ Requirements \in Seq(Requirement)
        /\ DOMAIN Requirements = 1..Len(Requirements)
        /\ DOMAIN trunk = 1..Len(trunk)
        /\ Items = IF phase = "pyproject" THEN Requirements ELSE trunk
    BY <1>1, ItemsType DEF AuditInv, Requirements
  <2>2. \A pin, dated, whys : JudgedAs(pin, dated, whys)' <=> JudgedAs(pin, dated, whys)
    BY <1>1 DEF JudgedAs, Found, TooYoung, Age
  <2>3. ASSUME NEW n \in DOMAIN Requirements, RequirementPassed(n)'
        PROVE  JudgedAs(SplitRequirement(Tokens(Requirements[n])), ~offline,
                        WhysOf("pyproject", n)')
    <3>1. CASE phase = "pyproject" /\ n = at
      <4>1. Pin = SplitRequirement(Tokens(Requirements[n])) /\ (Dated <=> ~offline)
        BY <2>1, <3>1 DEF Pin, Dated
      <4>. QED
        BY <1>10, <3>1, <4>1 DEF JudgedAs
    <3>2. CASE ~(phase = "pyproject" /\ n = at)
      <4>1. RequirementPassed(n)
        BY <1>1, <2>1, <2>3, <3>2 DEF RequirementPassed, AuditDone
      <4>2. WhysOf("pyproject", n)' = WhysOf("pyproject", n)
        BY <1>10, <3>2
      <4>. QED
        BY <4>1, <4>2 DEF AuditInv, JudgedInv
    <3>. QED
      BY <3>1, <3>2
  <2>4. ASSUME NEW n \in DOMAIN trunk, EntryPassed(n)'
        PROVE  JudgedAs(TrunkPin(trunk[n]), ~offline /\ trunk[n].tool = "ruff",
                        WhysOf("trunk", n)')
    <3>1. CASE phase = "trunk" /\ n = at
      <4>1. Pin = TrunkPin(trunk[n]) /\ (Dated <=> ~offline /\ trunk[n].tool = "ruff")
        BY <2>1, <3>1 DEF Pin, Dated
      <4>. QED
        BY <1>10, <3>1, <4>1 DEF JudgedAs
    <3>2. CASE ~(phase = "trunk" /\ n = at)
      <4>1. EntryPassed(n)
        BY <1>1, <2>1, <2>4, <3>2 DEF EntryPassed, AuditDone
      <4>2. WhysOf("trunk", n)' = WhysOf("trunk", n)
        BY <1>10, <3>2
      <4>. QED
        BY <4>1, <4>2 DEF AuditInv, JudgedInv
    <3>. QED
      BY <3>1, <3>2
  <2>5. \A n \in DOMAIN Requirements : RequirementPassed(n)' =>
          JudgedAs(SplitRequirement(Tokens(Requirements[n])), ~offline, WhysOf("pyproject", n))'
    BY <1>1, <2>1, <2>3 DEF JudgedAs, Found, TooYoung, Age
  <2>6. \A n \in DOMAIN trunk : EntryPassed(n)' =>
          JudgedAs(TrunkPin(trunk[n]), ~offline /\ trunk[n].tool = "ruff", WhysOf("trunk", n))'
    BY <1>1, <2>4 DEF JudgedAs, Found, TooYoung, Age, TrunkPin
  <2>. QED
    BY <1>1, <2>1, <2>5, <2>6, Zenon DEF JudgedInv
<1>. QED
  BY <1>5, <1>6, <1>9, <1>11 DEF AuditInv

LEMMA AuditInit == Init => AuditInv
<1>. SUFFICES ASSUME Init PROVE AuditInv
  OBVIOUS
<1>1. reports = <<>> /\ phase = "start" /\ at = 1 /\ exit = 2
  BY DEF Init
<1>2. TypeInv
  BY <1>1 DEF Init, TypeInv
<1>3. ExitInv /\ OrderInv
  BY <1>1 DEF ExitInv, OrderInv
<1>4. JudgedInv
  BY <1>1 DEF JudgedInv, RequirementPassed, EntryPassed, AuditDone
<1>. QED
  BY <1>2, <1>3, <1>4 DEF AuditInv

\* Every action keeps the invariant.
LEMMA AuditStep == AuditInv /\ [Next]_vars => AuditInv'
<1>. SUFFICES ASSUME AuditInv, [Next]_vars PROVE AuditInv'
  OBVIOUS
<1>t. TypeInv /\ ExitInv /\ OrderInv /\ JudgedInv
  BY DEF AuditInv
<1>i. /\ Requirements \in Seq(Requirement) /\ trunk \in Seq(Entry)
      /\ Len(Requirements) \in Nat /\ DOMAIN Requirements = 1..Len(Requirements)
      /\ Len(trunk) \in Nat /\ DOMAIN trunk = 1..Len(trunk)
      /\ Items = IF phase = "pyproject" THEN Requirements ELSE trunk
  BY <1>t, ItemsType
\* What has been judged stays judged while only the phase, the place and the
\* exit code change.
<1>k. ASSUME UNCHANGED <<pyproject, trunk, offline, released, reports>>,
             \A n \in DOMAIN Requirements : RequirementPassed(n)' => RequirementPassed(n),
             \A n \in DOMAIN trunk : EntryPassed(n)' => EntryPassed(n)
      PROVE  JudgedInv'
  <2>1. Requirements' = Requirements
    BY <1>k DEF Requirements
  <2>2. \A f, n : WhysOf(f, n)' = WhysOf(f, n)
    BY <1>k DEF WhysOf
  <2>3. ASSUME NEW n \in DOMAIN Requirements, RequirementPassed(n)'
        PROVE  JudgedAs(SplitRequirement(Tokens(Requirements[n])), ~offline,
                        WhysOf("pyproject", n))'
    <3>1. JudgedAs(SplitRequirement(Tokens(Requirements[n])), ~offline, WhysOf("pyproject", n))
      BY <1>k, <1>t, <2>3 DEF JudgedInv
    <3>. QED
      BY <1>k, <2>1, <2>2, <3>1 DEF JudgedAs, Found, TooYoung, Age
  <2>4. ASSUME NEW n \in DOMAIN trunk, EntryPassed(n)'
        PROVE  JudgedAs(TrunkPin(trunk[n]), ~offline /\ trunk[n].tool = "ruff",
                        WhysOf("trunk", n))'
    <3>1. JudgedAs(TrunkPin(trunk[n]), ~offline /\ trunk[n].tool = "ruff", WhysOf("trunk", n))
      BY <1>k, <1>t, <2>4 DEF JudgedInv
    <3>. QED
      BY <1>k, <2>2, <3>1 DEF JudgedAs, Found, TooYoung, Age, TrunkPin
  <2>. QED
    BY <1>k, <2>1, <2>3, <2>4, Zenon DEF JudgedInv
<1>1. CASE UsageError
  <2>1. /\ phase = "start" /\ phase' = "exited" /\ exit' = exit /\ at' = at
        /\ UNCHANGED <<pyproject, trunk, offline, released, reports>>
    BY <1>1 DEF UsageError
  <2>2. exit = 2
    BY <1>t, <2>1 DEF ExitInv
  <2>3. TypeInv' /\ ExitInv' /\ OrderInv'
    BY <1>t, <2>1, <2>2 DEF TypeInv, ExitInv, OrderInv
  <2>4. JudgedInv'
    BY <1>k, <2>1, <2>2 DEF RequirementPassed, EntryPassed, AuditDone
  <2>. QED
    BY <2>3, <2>4 DEF AuditInv
<1>2. CASE Start
  <2>1. /\ phase = "start" /\ phase' = "pyproject" /\ exit' = exit /\ at' = at
        /\ UNCHANGED <<pyproject, trunk, offline, released, reports>>
    BY <1>2 DEF Start
  <2>2. at = 1 /\ reports = <<>> /\ exit = 2
    BY <1>t, <2>1 DEF ExitInv
  <2>3. TypeInv' /\ ExitInv'
    BY <1>t, <2>1, <2>2 DEF TypeInv, ExitInv
  <2>4. OrderInv'
    BY <2>1, <2>2 DEF OrderInv, Range
  <2>5. /\ \A n \in DOMAIN Requirements : ~RequirementPassed(n)'
        /\ \A n \in DOMAIN trunk : ~EntryPassed(n)'
    BY <1>i, <2>1, <2>2 DEF RequirementPassed, EntryPassed, AuditDone
  <2>6. JudgedInv'
    BY <1>k, <2>1, <2>5
  <2>. QED
    BY <2>3, <2>4, <2>6 DEF AuditInv
<1>3. CASE AuditTrunk
  <2>1. /\ phase = "pyproject" /\ phase' = "trunk" /\ exit' = exit /\ at' = 1
        /\ at > Len(Requirements) /\ at \in Nat
        /\ UNCHANGED <<pyproject, trunk, offline, released, reports>>
    BY <1>3, <1>i, <1>t DEF AuditTrunk, TypeInv
  <2>2. TypeInv' /\ ExitInv'
    BY <1>t, <2>1 DEF TypeInv, ExitInv
  <2>3. OrderInv'
    BY <1>t, <2>1 DEF OrderInv
  <2>4. /\ \A n \in DOMAIN Requirements : RequirementPassed(n)
        /\ \A n \in DOMAIN trunk : ~EntryPassed(n)'
    BY <1>i, <2>1 DEF RequirementPassed, EntryPassed, AuditDone
  <2>5. JudgedInv'
    BY <1>k, <2>1, <2>4
  <2>. QED
    BY <2>2, <2>3, <2>5 DEF AuditInv
<1>4. CASE Exit
  <2>1. /\ phase = "trunk" /\ phase' = "exited" /\ at' = at
        /\ exit' = IF reports = <<>> THEN 0 ELSE 1
        /\ at > Len(trunk) /\ at \in Nat
        /\ UNCHANGED <<pyproject, trunk, offline, released, reports>>
    BY <1>4, <1>i, <1>t DEF Exit, TypeInv
  <2>2. TypeInv' /\ ExitInv'
    BY <1>t, <2>1 DEF TypeInv, ExitInv
  <2>3. OrderInv'
    BY <1>t, <2>1 DEF OrderInv
  <2>4. /\ \A n \in DOMAIN Requirements : RequirementPassed(n)
        /\ \A n \in DOMAIN trunk : EntryPassed(n)
    BY <1>i, <2>1 DEF RequirementPassed, EntryPassed
  <2>5. JudgedInv'
    BY <1>k, <2>1, <2>4
  <2>. QED
    BY <2>2, <2>3, <2>5 DEF AuditInv
<1>5. CASE ReportUnpinned
  <2>1. Auditing /\ ~Pin.pinned /\ Advance(<<"unpinned">>)
    BY <1>5 DEF ReportUnpinned
  <2>2. Range(<<"unpinned">>) = {"unpinned"} /\ "unpinned" \in Verdicts
    BY DEF Range, Verdicts
  <2>. QED
    BY <2>1, <2>2, AdvanceKeeps DEF JudgedAs
<1>6. CASE AcceptPin
  <2>1. Auditing /\ Pin.pinned /\ ~Dated /\ Advance(<<>>)
    BY <1>6 DEF AcceptPin
  <2>2. Range(<<>>) = {}
    BY DEF Range
  <2>. QED
    BY <2>1, <2>2, AdvanceKeeps DEF JudgedAs
<1>7. CASE ReportUnresolved
  <2>1. Auditing /\ Pin.pinned /\ Dated /\ Advance(<<"unresolved">>)
    BY <1>7 DEF ReportUnresolved
  <2>2. Range(<<"unresolved">>) = {"unresolved"} /\ "unresolved" \in Verdicts
    BY DEF Range, Verdicts
  <2>. QED
    BY <2>1, <2>2, AdvanceKeeps DEF JudgedAs
<1>8. CASE CheckAge
  <2> DEFINE lines == IF TooYoung(Head(Pin.version)) THEN <<"young">> ELSE <<>>
  <2>1. Auditing /\ Pin.pinned /\ Dated /\ Found(Pin) /\ Advance(lines)
    BY <1>8 DEF CheckAge
  <2>2. /\ lines = <<>> \/ \E why \in Verdicts : lines = <<why>>
        /\ Range(lines) = IF TooYoung(Head(Pin.version)) THEN {"young"} ELSE {}
    BY DEF Range, Verdicts
  <2>3. JudgedAs(Pin, Dated, Range(lines))
    BY <2>1, <2>2 DEF JudgedAs
  <2> HIDE DEF lines
  <2>. QED
    BY <2>1, <2>2, <2>3, AdvanceKeeps
<1>9. CASE FetchRaises
  <2>1. /\ phase' = "traceback" /\ exit' = 1 /\ at' = at
        /\ UNCHANGED <<pyproject, trunk, offline, released, reports>>
    BY <1>9 DEF FetchRaises
  <2>2. TypeInv' /\ ExitInv'
    BY <1>t, <2>1 DEF TypeInv, ExitInv
  <2>3. OrderInv'
    BY <1>t, <2>1 DEF OrderInv
  <2>4. JudgedInv'
    BY <1>k, <2>1 DEF RequirementPassed, EntryPassed, AuditDone
  <2>. QED
    BY <2>2, <2>3, <2>4 DEF AuditInv
<1>10. CASE UNCHANGED vars
  <2>1. UNCHANGED <<pyproject, trunk, offline, released, phase, at, reports, exit>>
    BY <1>10 DEF vars
  <2>2. TypeInv' /\ ExitInv' /\ OrderInv'
    BY <1>t, <2>1 DEF TypeInv, ExitInv, OrderInv
  <2>3. JudgedInv'
    BY <1>k, <2>1 DEF RequirementPassed, EntryPassed, AuditDone
  <2>. QED
    BY <2>2, <2>3 DEF AuditInv
<1>. QED
  BY <1>1, <1>2, <1>3, <1>4, <1>5, <1>6, <1>7, <1>8, <1>9, <1>10 DEF Next

\* The audit keeps its invariant: each item that is passed has been reported as
\* it deserves, in its place, whatever PyPI answers and fails to answer.
THEOREM AuditInvariance == Spec => []AuditInv
<1>1. Init => AuditInv
  BY AuditInit
<1>2. AuditInv /\ [Next]_vars => AuditInv'
  BY AuditStep
<1>. QED
  BY <1>1, <1>2, PTL DEF Spec

-----------------------------------------------------------------------------
\* What the report and the exit code say

LEMMA InvMeansOldEnough == AuditInv => OkMeansOldEnough
<1>. SUFFICES ASSUME AuditInv, phase = "exited", exit = 0, ~offline
     PROVE  /\ \A n \in DOMAIN Requirements : ~Requirements[n].url =>
                 \E v \in Versions : Allowed(Requirements[n]) \subseteq {v} /\ OldEnough(v)
            /\ \A n \in DOMAIN trunk : trunk[n].tool = "ruff" => OldEnough(trunk[n].version)
  BY DEF OkMeansOldEnough
<1>1. AuditDone /\ released \in Releases /\ reports = <<>>
  BY DEF AuditInv, TypeInv, ExitInv, AuditDone
<1>2. \A f, n : WhysOf(f, n) = {}
  BY <1>1 DEF WhysOf, Range
\* Whatever is pinned, dated and not reported is old enough.
<1>3. ASSUME NEW pin, JudgedAs(pin, TRUE, {})
      PROVE  pin.pinned /\ Head(pin.version) \in Versions /\ OldEnough(Head(pin.version))
  <2>1. pin.pinned /\ Found(pin) /\ ~TooYoung(Head(pin.version))
    BY <1>3 DEF JudgedAs
  <2>2. Head(pin.version) \in Versions /\ released[Head(pin.version)] \ {NoDate} # {}
    BY <2>1 DEF Found
  <2>. QED
    BY <1>1, <2>1, <2>2, AgeIs
<1>4. ASSUME NEW n \in DOMAIN Requirements, ~Requirements[n].url
      PROVE  \E v \in Versions : Allowed(Requirements[n]) \subseteq {v} /\ OldEnough(v)
  <2> DEFINE r == Requirements[n]
             pin == SplitRequirement(Tokens(r))
             c == r.clauses[Len(r.clauses)]
  <2>1. r \in Requirement
    BY ItemsType, ElementOfSeq DEF AuditInv
  <2>2. JudgedAs(pin, ~offline, WhysOf("pyproject", n))
    BY <1>1 DEF AuditInv, JudgedInv, RequirementPassed
  <2>3. JudgedAs(pin, TRUE, {})
    BY <1>2, <2>2 DEF JudgedAs
  <2>4. pin.pinned /\ Head(pin.version) \in Versions /\ OldEnough(Head(pin.version))
    BY <1>3, <2>3
  <2>5. /\ Len(r.clauses) \in Nat \ {0} /\ c.op = "==" /\ ~c.star
        /\ pin.version = <<c.version>>
    BY <1>4, <2>1, <2>4, PinnedVersion
  <2>6. Head(pin.version) = c.version
    <3> HIDE DEF pin, c
    <3>. QED
      BY <2>5
  <2>7. Len(r.clauses) \in DOMAIN r.clauses
    <3>1. DOMAIN r.clauses = 1..Len(r.clauses)
      BY <2>1, RequirementType
    <3>. QED
      BY <2>5, <3>1
  <2>8. Allowed(r) \subseteq {c.version}
    BY <2>5, <2>7 DEF Allowed
  <2>. QED
    BY <2>4, <2>6, <2>8
<1>5. ASSUME NEW n \in DOMAIN trunk, trunk[n].tool = "ruff"
      PROVE  OldEnough(trunk[n].version)
  <2> DEFINE pin == TrunkPin(trunk[n])
  <2>1. JudgedAs(pin, ~offline /\ trunk[n].tool = "ruff", WhysOf("trunk", n))
    BY <1>1 DEF AuditInv, JudgedInv, EntryPassed
  <2>2. JudgedAs(pin, TRUE, {})
    BY <1>2, <1>5, <2>1 DEF JudgedAs
  <2>3. OldEnough(Head(pin.version))
    BY <1>3, <2>2
  <2>4. Head(pin.version) = trunk[n].version
    BY DEF TrunkPin
  <2>. QED
    BY <2>3, <2>4
<1>. QED
  BY <1>4, <1>5

\* Exit code 0, online, means that what gets installed is old enough: dep_audit's
\* main, for any requirements, in any form.
THEOREM ExitOkMeansOldEnough == Spec => []OkMeansOldEnough
BY AuditInvariance, InvMeansOldEnough, PTL

LEMMA InvMeansRight == AuditInv => ReportsAreRight
<1>. SUFFICES ASSUME AuditInv, phase = "exited", exit # 2
     PROVE  /\ \A n, m \in DOMAIN reports : n < m => reports[n].file # reports[m].file
                                                     \/ reports[n].at < reports[m].at
            /\ \A n \in DOMAIN Requirements :
                 LET r == Requirements[n]
                     whys == {l.why : l \in {l \in Range(reports) : l.file = "pyproject" /\ l.at = n}}
                 IN  ~r.url /\ Len(r.clauses) <= 1 =>
                       CASE ~ExactPin(r) -> whys = {"unpinned"}
                         [] ExactPin(r) /\ offline -> whys = {}
                         [] OTHER -> LET v == r.clauses[1].version
                                     IN  whys \in {{"unresolved"}, IF OldEnough(v) THEN {} ELSE {"young"}}
  BY DEF ReportsAreRight
<1>1. \A n, m \in DOMAIN reports : n < m => reports[n].file # reports[m].file
                                           \/ reports[n].at < reports[m].at
  BY DEF AuditInv, OrderInv
<1>2. ASSUME NEW n \in DOMAIN Requirements,
             ~Requirements[n].url, Len(Requirements[n].clauses) <= 1
      PROVE  LET r == Requirements[n]
                 whys == WhysOf("pyproject", n)
                 v == r.clauses[1].version
             IN  /\ ~ExactPin(r) => whys = {"unpinned"}
                 /\ ExactPin(r) /\ offline => whys = {}
                 /\ ExactPin(r) /\ ~offline =>
                      whys \in {{"unresolved"}, IF OldEnough(v) THEN {} ELSE {"young"}}
  <2> DEFINE r == Requirements[n]
             pin == SplitRequirement(Tokens(r))
             whys == WhysOf("pyproject", n)
             v == r.clauses[1].version
  <2>1. r \in Requirement
    BY ItemsType, ElementOfSeq DEF AuditInv
  <2>2. JudgedAs(pin, ~offline, whys)
    BY DEF AuditInv, JudgedInv, RequirementPassed, AuditDone
  <2>3. pin.pinned <=> ExactPin(r)
    BY <1>2, <2>1, PinnedIsExact
  <2>4. ASSUME ExactPin(r), Found(pin)
        PROVE  TooYoung(Head(pin.version)) <=> ~OldEnough(v)
    <3>1. pin.version = <<v>>
      <4>1. pin.version = <<r.clauses[Len(r.clauses)].version>>
        BY <1>2, <2>1, <2>3, <2>4, PinnedVersion
      <4>2. Len(r.clauses) = 1
        BY <2>4 DEF ExactPin
      <4>. QED
        BY <4>1, <4>2
    <3>2. Head(pin.version) = v
      <4> HIDE DEF pin, v
      <4>. QED
        BY <3>1
    <3>3. v \in Versions /\ released[v] \ {NoDate} # {} /\ released \in Releases
      BY <2>4, <3>2 DEF Found, AuditInv, TypeInv
    <3>. QED
      BY <3>2, <3>3, AgeIs
  <2>5. ~ExactPin(r) => whys = {"unpinned"}
    BY <2>2, <2>3 DEF JudgedAs
  <2>6. ExactPin(r) /\ offline => whys = {}
    BY <2>2, <2>3 DEF JudgedAs
  <2>7. ASSUME ExactPin(r), ~offline
        PROVE  whys \in {{"unresolved"}, IF OldEnough(v) THEN {} ELSE {"young"}}
    <3>1. \/ whys = {"unresolved"}
          \/ Found(pin) /\ whys = IF TooYoung(Head(pin.version)) THEN {"young"} ELSE {}
      BY <2>2, <2>3, <2>7 DEF JudgedAs
    <3> HIDE DEF r, pin, whys, v
    <3>. QED
      BY <2>4, <2>7, <3>1
  <2>. QED
    BY <2>5, <2>6, <2>7
<1>3. offline \in BOOLEAN
  BY DEF AuditInv, TypeInv
<1>. QED
  BY <1>1, <1>2, <1>3 DEF WhysOf

\* The report has exactly the lines it should have, in order: dep_audit's
\* audit_pyproject, for any requirements.
THEOREM ReportsRight == Spec => []ReportsAreRight
BY AuditInvariance, InvMeansRight, PTL
=============================================================================
