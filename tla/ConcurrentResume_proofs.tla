----------------------- MODULE ConcurrentResume_proofs -----------------------
(***************************************************************************)
(* Theorems about ConcurrentResume, for any set of runners and any bound   *)
(* on the steps they add.                                                  *)
(*                                                                         *)
(* The log only grows, so a runner that has read its end can at most be    *)
(* behind: if it is, the one who got there first started where it means to *)
(* start, and the constraint rejects it unless it has nothing to insert.   *)
(***************************************************************************)
EXTENDS ConcurrentResume, TLAPS

Stages == {"idle", "found", "working", "committing", "won", "rejected", "gone"}

ResumeTypeOK ==
  /\ stored.status \in Status /\ stored.log \in Seq(Step)
  /\ at \in [Runners -> Stages]
  /\ seen \in [Runners -> Status] /\ final \in [Runners -> Status]
  /\ from \in [Runners -> Nat]
  /\ new \in [Runners -> Seq(Step)]

\* What a runner means to insert follows on where it read the end of the log.
PlansInv ==
  \A r \in Runners :
    /\ at[r] \in {"working", "committing"} => from[r] <= Len(stored.log)
    /\ at[r] = "committing" => \A i \in 1..Len(new[r]) : new[r][i].idx = from[r] + i - 1

\* The rival that committed from where r means to start.
Rival(r, q) == q # r /\ at[q] = "won" /\ from[q] = from[r] /\ new[q] # <<>>

\* A runner that is behind has such a rival.
BehindInv ==
  \A r \in Runners :
    at[r] \in {"working", "committing"} /\ from[r] < Len(stored.log) => \E q \in Runners : Rival(r, q)

ResumeInv == ResumeTypeOK /\ SharedLogIsGapless /\ PlansInv /\ BehindInv /\ RejectedOnlyByRival

-----------------------------------------------------------------------------
\* Lemmas about logs

\* A runner goes on where a gapless log ends (get_last_step_idx).
LEMMA NextIdxIsLength ==
  ASSUME NEW log \in Seq(Step), Gapless(log)
  PROVE  NextIdx(log) = Len(log)
<1> DEFINE S == {log[i].idx : i \in DOMAIN log}
           n == Len(log)
<1>1. CASE log = <<>>
  BY <1>1 DEF NextIdx
<1>2. CASE log # <<>>
  <2>1. n \in Nat \ {0} /\ DOMAIN log = 1..n
    BY <1>2
  <2>2. n - 1 \in S
    <3>1. n \in DOMAIN log /\ log[n].idx = n - 1
      BY <2>1 DEF Gapless
    <3>. QED
      BY <3>1
  <2>3. \A y \in S : y \in Int /\ n - 1 >= y
    BY <2>1 DEF Gapless
  <2>4. Max(S) \in S /\ \A y \in S : Max(S) >= y
    <3>1. \E x \in S : \A y \in S : x >= y
      BY <2>2, <2>3
    <3>. QED
      BY <3>1 DEF Max
  <2>5. NextIdx(log) = Max(S) + 1
    BY <1>2 DEF NextIdx
  <2>6. Max(S) \in Int /\ n - 1 >= Max(S) /\ Max(S) >= n - 1
    BY <2>2, <2>3, <2>4
  <2> HIDE DEF S
  <2>. QED
    BY <2>1, <2>5, <2>6
<1>. QED
  BY <1>1, <1>2

LEMMA StepsType ==
  ASSUME NEW r \in Runners, NEW first \in Nat, NEW n \in Nat, NEW answered \in BOOLEAN
  PROVE  /\ Steps(r, first, n, answered) \in Seq(Step)
         /\ Len(Steps(r, first, n, answered)) = n
         /\ \A i \in 1..n : Steps(r, first, n, answered)[i].idx = first + i - 1
<1>1. \A i \in 1..n : [idx |-> first + i - 1, by |-> r, stop |-> answered /\ i = n] \in Step
  BY DEF Step
<1>2. Steps(r, first, n, answered) =
        [i \in 1..n |-> [idx |-> first + i - 1, by |-> r, stop |-> answered /\ i = n]]
  BY DEF Steps
<1>3. Steps(r, first, n, answered) \in [1..n -> Step]
  BY <1>1, <1>2
<1>4. Steps(r, first, n, answered) \in Seq(Step) /\ Len(Steps(r, first, n, answered)) = n
  BY <1>3
<1>5. ASSUME NEW i \in 1..n PROVE Steps(r, first, n, answered)[i].idx = first + i - 1
  BY <1>2
<1>. QED
  BY <1>4, <1>5

\* What follows on a gapless log leaves it gapless.
LEMMA GaplessFollows ==
  ASSUME NEW log \in Seq(Step), Gapless(log), NEW added \in Seq(Step),
         \A i \in 1..Len(added) : added[i].idx = Len(log) + i - 1
  PROVE  Gapless(log \o added)
<1>1. Len(log) \in Nat /\ Len(added) \in Nat /\ DOMAIN (log \o added) = 1..(Len(log) + Len(added))
  OBVIOUS
<1>2. ASSUME NEW i \in 1..(Len(log) + Len(added)) PROVE (log \o added)[i].idx = i - 1
  <2>1. CASE i <= Len(log)
    BY <1>1, <2>1 DEF Gapless
  <2>2. CASE i > Len(log)
    <3>1. i - Len(log) \in 1..Len(added) /\ (log \o added)[i] = added[i - Len(log)]
      BY <1>1, <2>2
    <3>. QED
      BY <1>1, <3>1
  <2>. QED
    BY <1>1, <2>1, <2>2
<1>. QED
  BY <1>1, <1>2 DEF Gapless

\* How a commit lengthens a log.
LEMMA ContinuedLength ==
  ASSUME NEW log \in Seq(Step), NEW added \in Seq(Step), NEW longer, longer = log \o added
  PROVE  /\ Len(log) \in Nat /\ Len(longer) \in Nat /\ Len(log) <= Len(longer)
         /\ added = <<>> => longer = log
<1>1. longer \in Seq(Step) /\ Len(longer) = Len(log) + Len(added)
  OBVIOUS
<1>2. Len(log) \in Nat /\ Len(longer) \in Nat /\ Len(log) <= Len(longer)
  BY <1>1
<1>3. added = <<>> => longer = log
  OBVIOUS
<1>. QED
  BY <1>2, <1>3

\* A runner that has steps to insert and does not collide is not behind.
LEMMA NotBehind ==
  ASSUME ResumeInv, NEW r \in Runners, at[r] = "committing", ~Collides(r), new[r] # <<>>
  PROVE  from[r] = Len(stored.log)
<1>0. /\ stored.log \in Seq(Step) /\ new[r] \in Seq(Step) /\ from[r] \in Nat
      /\ Len(stored.log) \in Nat /\ Gapless(stored.log)
      /\ from[r] <= Len(stored.log) /\ \A i \in 1..Len(new[r]) : new[r][i].idx = from[r] + i - 1
  BY DEF ResumeInv, ResumeTypeOK, SharedLogIsGapless, PlansInv
<1>1. 1 \in DOMAIN new[r] /\ new[r][1].idx = from[r]
  BY <1>0
<1>2. ASSUME from[r] < Len(stored.log) PROVE FALSE
  <2>1. from[r] + 1 \in DOMAIN stored.log /\ stored.log[from[r] + 1].idx = from[r]
    BY <1>0, <1>2 DEF Gapless
  <2>. QED
    BY <1>1, <2>1 DEF Collides
<1>. QED
  BY <1>0, <1>2

-----------------------------------------------------------------------------
LEMMA InitResumeInv == Init => ResumeInv
<1> SUFFICES ASSUME Init PROVE ResumeInv
  OBVIOUS
<1>1. stored \in History
  BY ResumeAssumption DEF Init
<1>2. ResumeTypeOK
  BY <1>1 DEF Init, History, ResumeTypeOK, Status, Stages
<1>3. SharedLogIsGapless
  BY <1>1 DEF History, SharedLogIsGapless
<1>. QED
  BY <1>2, <1>3 DEF Init, ResumeInv, PlansInv, BehindInv, RejectedOnlyByRival

\* A step of r that leaves the stored run alone disturbs no other attempt, if what r
\* plans is right.
LEMMA QuietStep ==
  ASSUME ResumeInv, NEW r \in Runners, ResumeTypeOK', stored' = stored,
         NEW stage \in Stages \ {"won", "rejected"}, at' = [at EXCEPT ![r] = stage],
         at[r] \notin {"won", "rejected"},
         \A q \in Runners \ {r} : from'[q] = from[q] /\ new'[q] = new[q],
         stage \in {"working", "committing"} =>
            /\ from'[r] <= Len(stored.log)
            /\ from'[r] < Len(stored.log) => at[r] = "working" /\ from'[r] = from[r],
         stage = "committing" => \A i \in 1..Len(new'[r]) : new'[r][i].idx = from'[r] + i - 1
  PROVE  ResumeInv'
<1>0. ResumeTypeOK /\ SharedLogIsGapless /\ PlansInv /\ BehindInv /\ RejectedOnlyByRival
  BY DEF ResumeInv
<1>1. \A q \in Runners \ {r} : at'[q] = at[q]
  BY <1>0 DEF ResumeTypeOK
<1>2. at'[r] = stage
  BY <1>0 DEF ResumeTypeOK
<1>3. SharedLogIsGapless'
  BY <1>0 DEF SharedLogIsGapless, Gapless
<1>4. PlansInv'
  BY <1>0, <1>1, <1>2 DEF PlansInv
<1>5. ASSUME NEW p \in Runners, NEW q \in Runners, Rival(p, q), from'[p] = from[p]
      PROVE  Rival(p, q)'
  BY <1>1, <1>5 DEF Rival
<1>6. BehindInv'
  <2> SUFFICES ASSUME NEW p \in Runners, at'[p] \in {"working", "committing"},
                      from'[p] < Len(stored.log)
               PROVE  \E q \in Runners : Rival(p, q)'
    BY DEF BehindInv
  <2>1. at[p] \in {"working", "committing"} /\ from'[p] = from[p]
    BY <1>1, <1>2
  <2>2. PICK q \in Runners : Rival(p, q)
    BY <1>0, <2>1 DEF BehindInv
  <2>. QED
    BY <1>5, <2>1, <2>2
<1>7. RejectedOnlyByRival'
  <2> SUFFICES ASSUME NEW p \in Runners, at'[p] = "rejected"
               PROVE  \E q \in Runners : Rival(p, q)'
    BY DEF RejectedOnlyByRival, Rival
  <2>1. p # r /\ at[p] = "rejected" /\ from'[p] = from[p]
    BY <1>1, <1>2
  <2>2. PICK q \in Runners : Rival(p, q)
    BY <1>0, <2>1 DEF RejectedOnlyByRival, Rival
  <2>. QED
    BY <1>5, <2>1, <2>2
<1>. QED
  BY <1>3, <1>4, <1>6, <1>7 DEF ResumeInv
LEMMA ReadsAndPlans ==
  ASSUME ResumeInv, NEW r \in Runners, FindRun(r) \/ FindLastStep(r) \/ CompleteRun(r) \/ BreakOff(r) \/ GiveUp(r)
  PROVE  ResumeInv'
<1>0. ResumeTypeOK /\ PlansInv /\ Gapless(stored.log)
  BY DEF ResumeInv, SharedLogIsGapless
<1>1. CASE FindRun(r)
  <2>1. ResumeTypeOK'
    BY <1>0, <1>1 DEF FindRun, ResumeTypeOK, Stages
  <2>. QED
    BY <1>1, <2>1, QuietStep DEF FindRun, Stages
<1>2. CASE FindLastStep(r)
  <2>1. NextIdx(stored.log) = Len(stored.log) /\ Len(stored.log) \in Nat
    BY <1>0, NextIdxIsLength DEF ResumeTypeOK
  <2>2. ResumeTypeOK'
    BY <1>0, <1>2, <2>1 DEF FindLastStep, ResumeTypeOK, Stages, Status
  <2>3. from'[r] = Len(stored.log) /\ \A q \in Runners \ {r} : from'[q] = from[q]
    BY <1>0, <1>2, <2>1 DEF FindLastStep, ResumeTypeOK
  <2>4. from'[r] <= Len(stored.log) /\ ~(from'[r] < Len(stored.log))
    BY <2>1, <2>3
  <2>5. /\ at[r] = "found" /\ at' = [at EXCEPT ![r] = "working"]
        /\ stored' = stored /\ \A q \in Runners \ {r} : from'[q] = from[q] /\ new'[q] = new[q]
    BY <1>2, <2>3 DEF FindLastStep
  <2>6. "working" \in Stages \ {"won", "rejected"}
    BY DEF Stages
  <2>. QED
    BY <2>2, <2>4, <2>5, <2>6, QuietStep
<1>3. CASE CompleteRun(r) \/ BreakOff(r)
  <2>1. PICK n \in Nat, answered \in BOOLEAN : new' = [new EXCEPT ![r] = Steps(r, from[r], n, answered)]
    <3>1. 1..MaxNew \subseteq Nat /\ 0..MaxNew \subseteq Nat
      BY ResumeAssumption
    <3>. QED
      BY <1>3, <3>1 DEF CompleteRun, BreakOff
  <2>2. from[r] \in Nat /\ at[r] = "working" /\ at' = [at EXCEPT ![r] = "committing"]
        /\ stored' = stored /\ from' = from /\ seen' = seen
    BY <1>0, <1>3 DEF CompleteRun, BreakOff, ResumeTypeOK
  <2>3. /\ Steps(r, from[r], n, answered) \in Seq(Step)
        /\ Len(Steps(r, from[r], n, answered)) = n
        /\ \A i \in 1..n : Steps(r, from[r], n, answered)[i].idx = from[r] + i - 1
    BY <2>2, StepsType
  <2>4. final' \in [Runners -> Status]
    BY <1>0, <1>3 DEF CompleteRun, BreakOff, ResumeTypeOK, Status
  <2>5. ResumeTypeOK'
    BY <1>0, <2>1, <2>2, <2>3, <2>4 DEF ResumeTypeOK, Stages
  <2>6. new'[r] = Steps(r, from[r], n, answered) /\ \A q \in Runners \ {r} : new'[q] = new[q]
    BY <1>0, <2>1 DEF ResumeTypeOK
  <2>7. from[r] <= Len(stored.log)
    BY <1>0, <2>2 DEF PlansInv
  <2>8. \A i \in 1..Len(new'[r]) : new'[r][i].idx = from'[r] + i - 1
    BY <2>2, <2>3, <2>6
  <2>9. \A q \in Runners \ {r} : from'[q] = from[q] /\ new'[q] = new[q]
    BY <2>2, <2>6
  <2>10. "committing" \in Stages \ {"won", "rejected"}
    BY DEF Stages
  <2> HIDE DEF ResumeInv
  <2>. QED
    BY <2>2, <2>5, <2>7, <2>8, <2>9, <2>10, QuietStep
<1>4. CASE GiveUp(r)
  <2>1. ResumeTypeOK'
    BY <1>0, <1>4 DEF GiveUp, ResumeTypeOK, Stages
  <2>. QED
    BY <1>4, <2>1, QuietStep DEF GiveUp, Stages
<1>. QED
  BY <1>1, <1>2, <1>3, <1>4

\* The constraint rejects a runner only when another got there first.
LEMMA RejectedStep ==
  ASSUME ResumeInv, NEW r \in Runners, Commit(r), Collides(r)
  PROVE  ResumeInv'
<1>0. ResumeTypeOK /\ SharedLogIsGapless /\ PlansInv /\ BehindInv /\ RejectedOnlyByRival
  BY DEF ResumeInv
<1>1. /\ at[r] = "committing" /\ at' = [at EXCEPT ![r] = "rejected"]
      /\ stored' = stored /\ UNCHANGED <<seen, from, new, final>>
  BY DEF Commit
<1>2. at'[r] = "rejected" /\ \A q \in Runners \ {r} : at'[q] = at[q]
  BY <1>0, <1>1 DEF ResumeTypeOK
<1>3. from[r] < Len(stored.log)
  <2>1. PICK i \in DOMAIN new[r], j \in DOMAIN stored.log : new[r][i].idx = stored.log[j].idx
    BY DEF Collides
  <2>2. /\ stored.log \in Seq(Step) /\ new[r] \in Seq(Step) /\ from[r] \in Nat
        /\ DOMAIN new[r] = 1..Len(new[r]) /\ DOMAIN stored.log = 1..Len(stored.log)
        /\ Len(stored.log) \in Nat /\ Len(new[r]) \in Nat
    BY <1>0 DEF ResumeTypeOK
  <2>3. new[r][i].idx = from[r] + i - 1 /\ stored.log[j].idx = j - 1
    BY <1>0, <1>1, <2>1, <2>2 DEF PlansInv, SharedLogIsGapless, Gapless
  <2> DEFINE n == Len(stored.log)
             k == Len(new[r])
             f == from[r]
  <2>4. n \in Nat /\ k \in Nat /\ f \in Nat /\ i \in 1..k /\ j \in 1..n
    BY <2>1, <2>2
  <2>5. f + i - 1 = j - 1
    BY <2>1, <2>3
  <2> HIDE DEF n, k, f
  <2>6. f < n
    BY <2>4, <2>5
  <2>. QED
    BY <2>6 DEF n, f
<1>4. ASSUME NEW p \in Runners, NEW q \in Runners, Rival(p, q) PROVE Rival(p, q)'
  BY <1>1, <1>2, <1>4 DEF Rival
<1>5. ResumeTypeOK'
  BY <1>0, <1>1 DEF ResumeTypeOK, Stages
<1>6. SharedLogIsGapless' /\ PlansInv'
  BY <1>0, <1>1, <1>2 DEF SharedLogIsGapless, Gapless, PlansInv
<1>7. BehindInv'
  BY <1>0, <1>1, <1>2, <1>4 DEF BehindInv
<1>8. RejectedOnlyByRival'
  <2> SUFFICES ASSUME NEW p \in Runners, at'[p] = "rejected"
               PROVE  \E q \in Runners : Rival(p, q)'
    BY DEF RejectedOnlyByRival, Rival
  <2>1. \E q \in Runners : Rival(p, q)
    BY <1>0, <1>1, <1>2, <1>3 DEF BehindInv, RejectedOnlyByRival, Rival
  <2>. QED
    BY <1>4, <2>1
<1>. QED
  BY <1>5, <1>6, <1>7, <1>8 DEF ResumeInv

\* A commit that succeeds puts its steps where the log ends, and every runner that
\* meant to go on there is now behind this one.
LEMMA WonStep ==
  ASSUME ResumeInv, NEW r \in Runners, Commit(r), ~Collides(r)
  PROVE  ResumeInv'
<1>0. ResumeTypeOK /\ SharedLogIsGapless /\ PlansInv /\ BehindInv /\ RejectedOnlyByRival
  BY DEF ResumeInv
<1>1. /\ at[r] = "committing" /\ at' = [at EXCEPT ![r] = "won"]
      /\ stored' = [status |-> StatusWritten(r), log |-> stored.log \o new[r]]
      /\ UNCHANGED <<seen, from, new, final>>
  BY DEF Commit
<1>2. at'[r] = "won" /\ \A q \in Runners \ {r} : at'[q] = at[q]
  BY <1>0, <1>1 DEF ResumeTypeOK
<1>3. stored.log \in Seq(Step) /\ new[r] \in Seq(Step) /\ stored'.log = stored.log \o new[r]
  BY <1>0, <1>1 DEF ResumeTypeOK
<1>l. /\ Len(stored.log) \in Nat /\ Len(stored'.log) \in Nat /\ Len(stored.log) <= Len(stored'.log)
      /\ new[r] = <<>> => stored'.log = stored.log
  BY <1>3, ContinuedLength
<1>4. new[r] # <<>> => from[r] = Len(stored.log)
  BY <1>1, NotBehind
<1>5. ResumeTypeOK'
  BY <1>0, <1>1 DEF ResumeTypeOK, Stages, StatusWritten
<1>6. SharedLogIsGapless'
  <2>1. \A i \in 1..Len(new[r]) : new[r][i].idx = Len(stored.log) + i - 1
    <3>1. CASE new[r] = <<>>
      BY <3>1
    <3>2. CASE new[r] # <<>>
      BY <1>0, <1>1, <1>4, <3>2 DEF PlansInv
    <3>. QED
      BY <3>1, <3>2
  <2>. QED
    BY <1>0, <1>3, <2>1, GaplessFollows DEF SharedLogIsGapless
<1>7. PlansInv'
  <2> SUFFICES ASSUME NEW p \in Runners
               PROVE  /\ at'[p] \in {"working", "committing"} => from'[p] <= Len(stored'.log)
                      /\ at'[p] = "committing" =>
                           \A i \in 1..Len(new'[p]) : new'[p][i].idx = from'[p] + i - 1
    BY DEF PlansInv
  <2>1. from[p] \in Nat /\ from' = from /\ new' = new
    BY <1>0, <1>1 DEF ResumeTypeOK
  <2>2. at'[p] \in {"working", "committing"} => at'[p] = at[p]
    BY <1>2
  <2>3. at[p] \in {"working", "committing"} => from[p] <= Len(stored'.log)
    <3>1. at[p] \in {"working", "committing"} => from[p] <= Len(stored.log)
      BY <1>0 DEF PlansInv
    <3> DEFINE n == Len(stored.log)
               m == Len(stored'.log)
    <3>2. n \in Nat /\ m \in Nat /\ n <= m
      BY <1>l
    <3> HIDE DEF n, m
    <3>3. at[p] \in {"working", "committing"} => from[p] <= n
      BY <3>1 DEF n
    <3>4. at[p] \in {"working", "committing"} => from[p] <= m
      BY <2>1, <3>2, <3>3
    <3>. QED
      BY <3>4 DEF m
  <2>. QED
    BY <1>0, <2>1, <2>2, <2>3 DEF PlansInv
<1>8. ASSUME NEW p \in Runners, NEW q \in Runners, Rival(p, q) PROVE Rival(p, q)'
  BY <1>1, <1>2, <1>8 DEF Rival
<1>9. BehindInv'
  <2> SUFFICES ASSUME NEW p \in Runners, at'[p] \in {"working", "committing"},
                      from'[p] < Len(stored'.log)
               PROVE  \E q \in Runners : Rival(p, q)'
    BY DEF BehindInv
  <2>1. p # r /\ at[p] \in {"working", "committing"} /\ from'[p] = from[p] /\ from[p] \in Nat
    BY <1>0, <1>1, <1>2 DEF ResumeTypeOK
  <2>2. CASE from[p] < Len(stored.log)
    BY <1>0, <1>8, <2>1, <2>2 DEF BehindInv
  <2>3. CASE from[p] = Len(stored.log)
    <3>1. Len(stored'.log) # Len(stored.log)
      BY <2>1, <2>3
    <3>2. new[r] # <<>>
      BY <1>l, <3>1
    <3>. QED
      BY <1>1, <1>2, <1>4, <2>1, <2>3, <3>2 DEF Rival
  <2>. QED
    BY <1>0, <1>3, <2>1, <2>2, <2>3 DEF PlansInv
<1>10. RejectedOnlyByRival'
  <2> SUFFICES ASSUME NEW p \in Runners, at'[p] = "rejected"
               PROVE  \E q \in Runners : Rival(p, q)'
    BY DEF RejectedOnlyByRival, Rival
  <2>1. \E q \in Runners : Rival(p, q)
    BY <1>0, <1>2 DEF RejectedOnlyByRival, Rival
  <2>. QED
    BY <1>8, <2>1
<1>. QED
  BY <1>5, <1>6, <1>7, <1>9, <1>10 DEF ResumeInv

LEMMA ResumeStep == ResumeInv /\ [Next]_vars => ResumeInv'
<1> SUFFICES ASSUME ResumeInv, [Next]_vars PROVE ResumeInv'
  OBVIOUS
<1>1. ASSUME NEW r \in Runners, Attempt(r) PROVE ResumeInv'
  BY <1>1, ReadsAndPlans, RejectedStep, WonStep DEF Attempt
<1>2. CASE UNCHANGED vars
  BY <1>2 DEF vars, ResumeInv, ResumeTypeOK, SharedLogIsGapless, Gapless, PlansInv, BehindInv,
              RejectedOnlyByRival, Rival
<1>. QED
  BY <1>1, <1>2 DEF Next, AllOver

-----------------------------------------------------------------------------
\* Every step keeps the invariant, so every behaviour does.
THEOREM ResumeInvariance == Spec => []ResumeInv
BY InitResumeInv, ResumeStep, PTL DEF Spec

\* However many runners take up a run, the log stays numbered without gap or
\* repetition: what each read before the others committed does no harm.
THEOREM LogStaysGapless == Spec => []SharedLogIsGapless
<1>1. ResumeInv => SharedLogIsGapless
  BY DEF ResumeInv
<1>. QED
  BY ResumeInvariance, <1>1, PTL

\* An attempt is lost to the constraint only because a rival has committed steps
\* from the index where it meant to start.
THEOREM RivalsReject == Spec => []RejectedOnlyByRival
<1>1. ResumeInv => RejectedOnlyByRival
  BY DEF ResumeInv
<1>. QED
  BY ResumeInvariance, <1>1, PTL

-----------------------------------------------------------------------------
\* The answer of a completed run

\* An attempt commits steps of its own, and one that completes the run ends them
\* with the answer.
AnswerPlanned ==
  \A r \in Runners : at[r] = "committing" =>
    /\ \A i \in 1..Len(new[r]) : new[r][i].by = r
    /\ final[r] = "completed" => new[r] # <<>> /\ Last(new[r]).stop

AnswerInv == AnswerPlanned /\ AnswerIsLast

LEMMA StepsOfAttempt ==
  ASSUME NEW r \in Runners, NEW first \in Nat, NEW n \in Nat, NEW answered \in BOOLEAN
  PROVE  /\ \A i \in 1..n : Steps(r, first, n, answered)[i].by = r
         /\ answered /\ n # 0 =>
              Steps(r, first, n, answered) # <<>> /\ Last(Steps(r, first, n, answered)).stop
         /\ ~answered /\ Steps(r, first, n, answered) # <<>> =>
              ~Last(Steps(r, first, n, answered)).stop
<1>1. Steps(r, first, n, answered) =
        [i \in 1..n |-> [idx |-> first + i - 1, by |-> r, stop |-> answered /\ i = n]]
  BY DEF Steps
<1>2. Len(Steps(r, first, n, answered)) = n /\ Steps(r, first, n, answered) \in Seq(Step)
  BY StepsType
<1>3. n # 0 => n \in 1..n
  OBVIOUS
<1>4. n # 0 => Steps(r, first, n, answered)[n].stop = answered
  BY <1>1, <1>3
<1>5. Steps(r, first, n, answered) # <<>> => n # 0
  BY <1>2
<1>. QED
  BY <1>1, <1>2, <1>4, <1>5 DEF Last

\* What ends a log that is continued, and that its answers stay.
LEMMA ContinuedLast ==
  ASSUME NEW log \in Seq(Step), NEW added \in Seq(Step)
  PROVE  /\ added # <<>> => Last(log \o added) = Last(added) /\ Len(added) \in 1..Len(added)
         /\ HasAnswer(log) \/ HasAnswer(added) => HasAnswer(log \o added)
<1>1. /\ Len(log) \in Nat /\ Len(added) \in Nat
      /\ DOMAIN log = 1..Len(log) /\ DOMAIN added = 1..Len(added)
      /\ DOMAIN (log \o added) = 1..(Len(log) + Len(added))
      /\ \A i \in 1..Len(log) : (log \o added)[i] = log[i]
      /\ \A i \in 1..Len(added) : (log \o added)[Len(log) + i] = added[i]
  OBVIOUS
<1>2. added # <<>> => Len(added) \in 1..Len(added)
  OBVIOUS
<1>3. added # <<>> => Last(log \o added) = Last(added)
  BY <1>1, <1>2 DEF Last
<1>4. ASSUME NEW i \in DOMAIN log, log[i].stop PROVE HasAnswer(log \o added)
  <2>1. i \in DOMAIN (log \o added) /\ (log \o added)[i] = log[i]
    BY <1>1
  <2>. QED
    BY <1>4, <2>1 DEF HasAnswer
<1>5. ASSUME NEW i \in DOMAIN added, added[i].stop PROVE HasAnswer(log \o added)
  <2>1. Len(log) + i \in DOMAIN (log \o added) /\ (log \o added)[Len(log) + i] = added[i]
    BY <1>1
  <2>. QED
    BY <1>5, <2>1 DEF HasAnswer
<1>. QED
  BY <1>2, <1>3, <1>4, <1>5 DEF HasAnswer

\* A step that leaves the stored run alone takes no witness away.
LEMMA AnswerStays ==
  ASSUME ResumeTypeOK, AnswerIsLast, NEW r \in Runners, Attempt(r), stored' = stored
  PROVE  AnswerIsLast'
<1>1. \A q \in Runners : at[q] = "won" => at'[q] = "won" /\ final'[q] = final[q] /\ seen'[q] = seen[q]
  BY DEF ResumeTypeOK, Attempt, FindRun, FindLastStep, CompleteRun, BreakOff, Commit, GiveUp
<1>. QED
  BY <1>1 DEF AnswerIsLast, HasAnswer

\* A commit that succeeds leaves "completed" over its answer, or over what stood
\* there when it did not write the status.
LEMMA AnswerWon ==
  ASSUME ResumeTypeOK, AnswerPlanned, AnswerIsLast, NEW r \in Runners, Commit(r), ~Collides(r)
  PROVE  AnswerIsLast'
<1>1. /\ at[r] = "committing" /\ at' = [at EXCEPT ![r] = "won"]
      /\ stored' = [status |-> StatusWritten(r), log |-> stored.log \o new[r]]
      /\ UNCHANGED <<seen, from, new, final>>
  BY DEF Commit
<1>2. /\ at'[r] = "won" /\ \A q \in Runners : at[q] = "won" => at'[q] = "won"
      /\ stored.log \in Seq(Step) /\ new[r] \in Seq(Step)
      /\ stored'.status = StatusWritten(r) /\ stored'.log = stored.log \o new[r]
  BY <1>1 DEF ResumeTypeOK
<1> SUFFICES ASSUME StatusWritten(r) = "completed"
             PROVE  /\ HasAnswer(stored'.log)
                    /\ \/ Last(stored'.log).stop
                       \/ \E q \in Runners : /\ Last(stored'.log).by = q /\ at'[q] = "won"
                                             /\ final'[q] = seen'[q]
  BY <1>2 DEF AnswerIsLast
<1>3. CASE final[r] = "completed"
  <2>1. new[r] # <<>> /\ Last(new[r]).stop
    BY <1>1, <1>3 DEF AnswerPlanned
  <2>2. Last(stored'.log) = Last(new[r]) /\ HasAnswer(new[r])
    <3>1. Last(stored'.log) = Last(new[r]) /\ Len(new[r]) \in 1..Len(new[r])
      BY <1>2, <2>1, ContinuedLast
    <3>2. Len(new[r]) \in DOMAIN new[r]
      BY <1>2, <3>1
    <3>3. new[r][Len(new[r])].stop
      BY <2>1 DEF Last
    <3>. QED
      BY <3>1, <3>2, <3>3 DEF HasAnswer
  <2>. QED
    BY <1>2, <2>1, <2>2, ContinuedLast
<1>4. CASE final[r] # "completed"
  <2>1. final[r] = seen[r] /\ stored.status = "completed"
    BY <1>4 DEF StatusWritten
  <2>2. HasAnswer(stored'.log)
    BY <1>2, <2>1, ContinuedLast DEF AnswerIsLast
  <2>3. CASE new[r] = <<>>
    <3>1. stored'.log = stored.log
      BY <1>2, <2>3, ContinuedLength
    <3>. QED
      BY <1>1, <1>2, <2>1, <2>2, <3>1 DEF AnswerIsLast
  <2>4. CASE new[r] # <<>>
    <3>1. Last(stored'.log) = Last(new[r]) /\ Len(new[r]) \in 1..Len(new[r])
      BY <1>2, <2>4, ContinuedLast
    <3>2. new[r][Len(new[r])].by = r
      BY <1>1, <3>1 DEF AnswerPlanned
    <3>3. Last(new[r]).by = r
      BY <3>2 DEF Last
    <3>. QED
      BY <1>1, <1>2, <2>1, <2>2, <3>1, <3>3
  <2>. QED
    BY <2>3, <2>4
<1>. QED
  BY <1>3, <1>4

LEMMA AnswerPlannedStep ==
  ASSUME ResumeTypeOK, AnswerPlanned, NEW r \in Runners, Attempt(r)
  PROVE  AnswerPlanned'
<1>1. CASE CompleteRun(r) \/ BreakOff(r)
  <2>1. PICK n \in Nat, answered \in BOOLEAN :
          /\ new' = [new EXCEPT ![r] = Steps(r, from[r], n, answered)]
          /\ CompleteRun(r) => answered /\ n # 0
    <3>1. 1..MaxNew \subseteq Nat \ {0} /\ 0..MaxNew \subseteq Nat
      BY ResumeAssumption
    <3>. QED
      BY <1>1, <3>1 DEF CompleteRun, BreakOff
  <2>2. /\ from[r] \in Nat /\ new'[r] = Steps(r, from[r], n, answered) /\ Len(new'[r]) = n
        /\ \A q \in Runners \ {r} : new'[q] = new[q]
    <3>1. from[r] \in Nat /\ new \in [Runners -> Seq(Step)]
      BY DEF ResumeTypeOK
    <3>2. Len(Steps(r, from[r], n, answered)) = n
      BY <3>1, StepsType
    <3>. QED
      BY <2>1, <3>1, <3>2
  <2>3. /\ \A q \in Runners \ {r} : at'[q] = at[q] /\ final'[q] = final[q]
        /\ BreakOff(r) => final'[r] # "completed"
    BY <1>1 DEF ResumeTypeOK, CompleteRun, BreakOff
  <2>4. /\ \A i \in 1..n : new'[r][i].by = r
        /\ answered /\ n # 0 => new'[r] # <<>> /\ Last(new'[r]).stop
    BY <2>2, StepsOfAttempt
  <2>5. final'[r] = "completed" => answered /\ n # 0
    BY <1>1, <2>1, <2>3
  <2>. QED
    BY <2>2, <2>3, <2>4, <2>5 DEF AnswerPlanned
<1>2. CASE FindRun(r) \/ FindLastStep(r) \/ Commit(r) \/ GiveUp(r)
  <2>1. /\ new' = new /\ at'[r] # "committing"
        /\ \A q \in Runners \ {r} : at'[q] = at[q] /\ final'[q] = final[q]
    BY <1>2 DEF ResumeTypeOK, FindRun, FindLastStep, Commit, GiveUp
  <2>. QED
    BY <2>1 DEF AnswerPlanned
<1>. QED
  BY <1>1, <1>2 DEF Attempt

\* A run that says "completed" has an answer in its log, and as the last step
\* unless that is a step of a winner that ended with the status it had read: it
\* read the row before the answer was committed and the log after it, wrote no
\* status, and so left "completed" standing over its own steps.
THEOREM AnswerComesLast == Spec => []AnswerIsLast
<1>1. Init => AnswerInv
  <2> SUFFICES ASSUME Init PROVE AnswerInv
    OBVIOUS
  <2>1. stored \in History
    BY ResumeAssumption DEF Init
  <2>2. stored.log \in Seq(Step) /\ (stored.status = "completed" => stored.log # <<>> /\ Last(stored.log).stop)
    BY <2>1 DEF History
  <2>3. stored.log # <<>> => Len(stored.log) \in DOMAIN stored.log
    BY <2>2
  <2>. QED
    BY <2>2, <2>3 DEF Init, AnswerInv, AnswerPlanned, AnswerIsLast, HasAnswer, Last
<1>2. ResumeInv /\ AnswerInv /\ [Next]_vars => AnswerInv'
  <2> SUFFICES ASSUME ResumeInv, AnswerInv, [Next]_vars PROVE AnswerInv'
    OBVIOUS
  <2>0. ResumeTypeOK /\ AnswerPlanned /\ AnswerIsLast
    BY DEF ResumeInv, AnswerInv
  <2>1. ASSUME NEW r \in Runners, Attempt(r) PROVE AnswerInv'
    <3>1. CASE stored' = stored
      BY <2>0, <2>1, <3>1, AnswerStays, AnswerPlannedStep DEF AnswerInv
    <3>2. CASE Commit(r) /\ ~Collides(r)
      BY <2>0, <2>1, <3>2, AnswerWon, AnswerPlannedStep DEF AnswerInv
    <3>. QED
      BY <2>1, <3>1, <3>2 DEF Attempt, FindRun, FindLastStep, CompleteRun, BreakOff, Commit, GiveUp
  <2>2. CASE UNCHANGED vars
    BY <2>0, <2>2 DEF vars, AnswerInv, AnswerPlanned, AnswerIsLast, HasAnswer
  <2>. QED
    BY <2>1, <2>2 DEF Next, AllOver
<1>3. AnswerInv => AnswerIsLast
  BY DEF AnswerInv
<1>. QED
  BY ResumeInvariance, <1>1, <1>2, <1>3, PTL DEF Spec

-----------------------------------------------------------------------------
\* Whole attempts

WholeInv == AnswerPlanned /\ WinnersAreWhole

\* Until it has won, an attempt has no part in this.
LEMMA WholeStays ==
  ASSUME ResumeTypeOK, WinnersAreWhole, NEW r \in Runners, Attempt(r), stored' = stored,
         ~(Commit(r) /\ ~Collides(r))
  PROVE  WinnersAreWhole'
<1>1. \A q \in Runners : /\ at'[q] = "won" <=> at[q] = "won"
                         /\ at[q] = "won" => new'[q] = new[q] /\ from'[q] = from[q]
  BY DEF ResumeTypeOK, Attempt, FindRun, FindLastStep, CompleteRun, BreakOff, Commit, GiveUp
<1>. QED
  BY <1>1 DEF WinnersAreWhole

\* The log as a commit continues it, step by step.
LEMMA Continued ==
  ASSUME NEW log \in Seq(Step), NEW added \in Seq(Step)
  PROVE  /\ Len(log) \in Nat /\ Len(added) \in Nat
         /\ DOMAIN log = 1..Len(log) /\ DOMAIN added = 1..Len(added)
         /\ DOMAIN (log \o added) = 1..(Len(log) + Len(added))
         /\ \A i \in 1..Len(log) : (log \o added)[i] = log[i]
         /\ \A i \in 1..Len(added) : (log \o added)[Len(log) + i] = added[i]
OBVIOUS

\* A winner's steps follow on the log, and the log before them is as it was.
LEMMA WholeWon ==
  ASSUME ResumeInv, AnswerPlanned, WinnersAreWhole, NEW r \in Runners, Commit(r), ~Collides(r)
  PROVE  WinnersAreWhole'
<1> DEFINE log == stored.log
           added == new[r]
           longer == stored.log \o new[r]
<1>1. /\ at[r] = "committing" /\ at'[r] = "won" /\ \A q \in Runners \ {r} : at'[q] = at[q]
      /\ stored'.log = longer /\ UNCHANGED <<from, new>>
      /\ log \in Seq(Step) /\ added \in Seq(Step) /\ from[r] \in Nat
  BY DEF Commit, ResumeInv, ResumeTypeOK
<1>2. /\ Len(log) \in Nat /\ Len(added) \in Nat
      /\ DOMAIN log = 1..Len(log) /\ DOMAIN added = 1..Len(added)
      /\ DOMAIN longer = 1..(Len(log) + Len(added))
      /\ \A i \in 1..Len(log) : longer[i] = log[i]
      /\ \A i \in 1..Len(added) : longer[Len(log) + i] = added[i]
  BY <1>1, Continued
<1>3. \A i \in DOMAIN added : from[r] = Len(log) /\ added[i].by = r
  <2>1. added # <<>> => from[r] = Len(log)
    BY <1>1, NotBehind
  <2>2. \A i \in 1..Len(added) : added[i].by = r
    BY <1>1 DEF AnswerPlanned
  <2>3. \A i \in DOMAIN added : added # <<>>
    BY <1>2
  <2> HIDE DEF log, added, longer
  <2>. QED
    BY <1>2, <2>1, <2>2, <2>3
<1> HIDE DEF log, added, longer
<1>4. ASSUME NEW q \in Runners, at'[q] = "won", NEW i \in DOMAIN new[q]
      PROVE  from[q] + i \in DOMAIN longer /\ longer[from[q] + i] = new[q][i]
  <2>1. CASE q = r
    <3>1. i \in 1..Len(added) /\ new[q][i] = added[i] /\ from[q] = Len(log)
      BY <1>2, <1>3, <1>4, <2>1 DEF added
    <3>. QED
      BY <1>2, <3>1
  <2>2. CASE q # r
    <3>1. from[q] + i \in DOMAIN log /\ log[from[q] + i] = new[q][i]
      <4>1. at[q] = "won"
        BY <1>1, <1>4, <2>2
      <4>. QED
        BY <1>4, <4>1 DEF WinnersAreWhole, log
    <3>. QED
      BY <1>2, <3>1
  <2>. QED
    BY <2>1, <2>2
<1>5. ASSUME NEW n \in DOMAIN longer, longer[n].by # Earlier
      PROVE  \E q \in Runners : /\ longer[n].by = q /\ at'[q] = "won"
                                /\ \E i \in DOMAIN new[q] : n = from[q] + i
  <2>1. CASE n <= Len(log)
    <3>1. n \in DOMAIN log /\ longer[n] = log[n]
      BY <1>2, <1>5, <2>1
    <3>2. PICK q \in Runners : /\ log[n].by = q /\ at[q] = "won"
                               /\ \E i \in DOMAIN new[q] : n = from[q] + i
      BY <1>5, <3>1 DEF WinnersAreWhole, log
    <3>. QED
      BY <1>1, <3>1, <3>2
  <2>2. CASE n > Len(log)
    <3>1. n - Len(log) \in DOMAIN added /\ n = Len(log) + (n - Len(log))
      BY <1>2, <1>5, <2>2
    <3>2. longer[n] = added[n - Len(log)]
      BY <1>2, <3>1
    <3>. QED
      BY <1>1, <1>3, <3>1, <3>2 DEF added
  <2>. QED
    BY <1>2, <1>5, <2>1, <2>2
<1>. QED
  BY <1>1, <1>4, <1>5 DEF WinnersAreWhole

\* However attempts overlap, each is in the log as a whole or not at all.
THEOREM AttemptsAreWhole == Spec => []WinnersAreWhole
<1>1. Init => WholeInv
  <2> SUFFICES ASSUME Init PROVE WholeInv
    OBVIOUS
  <2>1. stored \in History
    BY ResumeAssumption DEF Init
  <2>. QED
    BY <2>1 DEF Init, History, WholeInv, AnswerPlanned, WinnersAreWhole
<1>2. ResumeInv /\ WholeInv /\ [Next]_vars => WholeInv'
  <2> SUFFICES ASSUME ResumeInv, WholeInv, [Next]_vars PROVE WholeInv'
    OBVIOUS
  <2>0. ResumeTypeOK /\ AnswerPlanned /\ WinnersAreWhole
    BY DEF ResumeInv, WholeInv
  <2>1. ASSUME NEW r \in Runners, Attempt(r) PROVE WholeInv'
    <3>1. CASE Commit(r) /\ ~Collides(r)
      BY <2>0, <2>1, <3>1, WholeWon, AnswerPlannedStep DEF WholeInv
    <3>2. CASE ~(Commit(r) /\ ~Collides(r))
      <4>1. stored' = stored
        BY <2>1, <3>2 DEF Attempt, FindRun, FindLastStep, CompleteRun, BreakOff, Commit, GiveUp
      <4>. QED
        BY <2>0, <2>1, <3>2, <4>1, WholeStays, AnswerPlannedStep DEF WholeInv
    <3>. QED
      BY <3>1, <3>2
  <2>2. CASE UNCHANGED vars
    BY <2>0, <2>2 DEF vars, WholeInv, AnswerPlanned, WinnersAreWhole
  <2>. QED
    BY <2>1, <2>2 DEF Next, AllOver
<1>3. WholeInv => WinnersAreWhole
  BY DEF WholeInv
<1>. QED
  BY ResumeInvariance, <1>1, <1>2, <1>3, PTL DEF Spec

-----------------------------------------------------------------------------
\* The status over an answer

Busy == {"found", "working", "committing"}

\* A plan that ends with an answer is to complete the run.
StopPlanned ==
  \A r \in Runners : at[r] = "committing" /\ new[r] # <<>> /\ Last(new[r]).stop => final[r] = "completed"

\* Where the status is not what an attempt has read, a rival has set it since.
SeenInv ==
  \A r \in Runners : at[r] \in Busy =>
    stored.status = seen[r] \/ \E q \in Runners \ {r} : at[q] = "won" /\ final[q] = stored.status

ToldInv == AnswerPlanned /\ StopPlanned /\ SeenInv /\ AnswerIsTold

\* What an attempt's step does to the attempts that have won, and to what those
\* at work have read.
LEMMA OthersStay ==
  ASSUME ResumeTypeOK, NEW r \in Runners, Attempt(r)
  PROVE  /\ \A q \in Runners : at[q] = "won" =>
              /\ at'[q] = "won" /\ final'[q] = final[q] /\ seen'[q] = seen[q] /\ new'[q] = new[q]
         /\ \A q \in Runners : at'[q] \in Busy =>
              \/ at[q] \in Busy /\ seen'[q] = seen[q]
              \/ stored' = stored /\ seen'[q] = stored.status
BY DEF ResumeTypeOK, Attempt, FindRun, FindLastStep, CompleteRun, BreakOff, Commit, GiveUp, Busy

LEMMA StopPlannedStep ==
  ASSUME ResumeTypeOK, StopPlanned, NEW r \in Runners, Attempt(r)
  PROVE  StopPlanned'
<1>1. CASE CompleteRun(r)
  <2>1. final'[r] = "completed" /\ \A q \in Runners \ {r} :
          at'[q] = at[q] /\ final'[q] = final[q] /\ new'[q] = new[q]
    BY <1>1 DEF ResumeTypeOK, CompleteRun
  <2>. QED
    BY <2>1 DEF StopPlanned
<1>2. CASE BreakOff(r)
  <2>1. PICK n \in 0..MaxNew : new' = [new EXCEPT ![r] = Steps(r, from[r], n, FALSE)]
    BY <1>2 DEF BreakOff
  <2>2. /\ n \in Nat /\ new'[r] = Steps(r, from[r], n, FALSE) /\ Len(new'[r]) = n
        /\ \A q \in Runners \ {r} : at'[q] = at[q] /\ final'[q] = final[q] /\ new'[q] = new[q]
    <3>1. n \in Nat /\ from[r] \in Nat
      BY ResumeAssumption DEF ResumeTypeOK
    <3>2. Len(Steps(r, from[r], n, FALSE)) = n
      BY <3>1, StepsType
    <3>. QED
      BY <1>2, <2>1, <3>1, <3>2 DEF ResumeTypeOK, BreakOff
  <2>3. new'[r] # <<>> => ~Last(new'[r]).stop
    <3>1. from[r] \in Nat
      BY DEF ResumeTypeOK
    <3>. QED
      BY <2>2, <3>1, StepsOfAttempt
  <2>. QED
    BY <2>2, <2>3 DEF StopPlanned
<1>3. CASE FindRun(r) \/ FindLastStep(r) \/ Commit(r) \/ GiveUp(r)
  <2>1. /\ new' = new /\ at'[r] # "committing"
        /\ \A q \in Runners \ {r} : at'[q] = at[q] /\ final'[q] = final[q]
    BY <1>3 DEF ResumeTypeOK, FindRun, FindLastStep, Commit, GiveUp
  <2>. QED
    BY <2>1 DEF StopPlanned
<1>. QED
  BY <1>1, <1>2, <1>3 DEF Attempt

LEMMA SeenStep ==
  ASSUME ResumeTypeOK, SeenInv, NEW r \in Runners, Attempt(r)
  PROVE  SeenInv'
<1>1. CASE stored' = stored
  BY <1>1, OthersStay DEF SeenInv
<1>2. CASE Commit(r) /\ ~Collides(r)
  <2>1. /\ stored'.status = StatusWritten(r) /\ at'[r] = "won" /\ final' = final /\ seen' = seen
        /\ \A q \in Runners \ {r} : at'[q] = at[q]
    BY <1>2 DEF Commit, ResumeTypeOK
  <2>2. CASE stored'.status = stored.status
    BY <2>1, <2>2, OthersStay DEF SeenInv, Busy
  <2>3. CASE stored'.status = final[r]
    BY <2>1, <2>3 DEF SeenInv, Busy
  <2>. QED
    BY <2>1, <2>2, <2>3 DEF StatusWritten
<1>. QED
  BY <1>1, <1>2 DEF Attempt, FindRun, FindLastStep, CompleteRun, BreakOff, Commit, GiveUp

\* A commit that succeeds puts "completed" over its answer, or leaves there what
\* a rival has set; one without steps becomes that rival itself.
LEMMA ToldWon ==
  ASSUME ResumeTypeOK, WinnersAreWhole, ToldInv, NEW r \in Runners, Commit(r), ~Collides(r)
  PROVE  AnswerIsTold'
<1>1. /\ at[r] = "committing" /\ at'[r] = "won" /\ UNCHANGED <<seen, new, final>>
      /\ stored'.status = StatusWritten(r) /\ stored'.log = stored.log \o new[r]
      /\ stored.log \in Seq(Step) /\ new[r] \in Seq(Step)
  BY DEF Commit, ResumeTypeOK
<1>2. \A q \in Runners : at[q] = "won" => at'[q] = "won"
  BY OthersStay DEF Attempt
<1> SUFFICES ASSUME NEW p \in Runners, stored'.log # <<>>, Last(stored'.log).stop,
                    Last(stored'.log).by = p
             PROVE  \/ stored'.status = "completed"
                    \/ \E q \in Runners \ {p} : /\ at'[q] = "won" /\ final[q] = stored'.status
                                                /\ new[q] = <<>> \/ seen[p] = "completed"
  BY <1>1 DEF AnswerIsTold
<1>3. CASE new[r] = <<>>
  <2>1. stored'.log = stored.log
    BY <1>1, <1>3, ContinuedLength
  <2>2. p # r
    <3>1. Len(stored.log) \in DOMAIN stored.log /\ stored.log[Len(stored.log)].by = p
      BY <1>1, <2>1 DEF Last
    <3>2. p # Earlier
      BY ResumeAssumption
    <3>. QED
      BY <1>1, <3>1, <3>2 DEF WinnersAreWhole
  <2>3. CASE stored'.status = stored.status
    BY <1>2, <2>1, <2>3 DEF ToldInv, AnswerIsTold
  <2>4. CASE stored'.status = final[r]
    BY <1>1, <1>3, <2>2, <2>4
  <2>. QED
    BY <1>1, <2>3, <2>4 DEF StatusWritten
<1>4. CASE new[r] # <<>>
  <2>1. Last(stored'.log) = Last(new[r]) /\ Len(new[r]) \in 1..Len(new[r])
    BY <1>1, <1>4, ContinuedLast
  <2>2. p = r
    <3>1. new[r][Len(new[r])].by = r
      BY <1>1, <2>1 DEF ToldInv, AnswerPlanned
    <3>. QED
      BY <2>1, <3>1 DEF Last
  <2>3. final[r] = "completed"
    BY <1>1, <1>4, <2>1 DEF ToldInv, StopPlanned
  <2>4. CASE seen[r] # "completed"
    BY <1>1, <2>3, <2>4 DEF StatusWritten
  <2>5. CASE seen[r] = "completed"
    <3>1. stored'.status = stored.status
      BY <1>1, <2>3, <2>5 DEF StatusWritten
    <3>2. stored.status = seen[r] \/ \E q \in Runners \ {r} : at[q] = "won" /\ final[q] = stored.status
      BY <1>1 DEF ToldInv, SeenInv, Busy
    <3>. QED
      BY <1>2, <2>2, <2>5, <3>1, <3>2
  <2>. QED
    BY <2>4, <2>5
<1>. QED
  BY <1>3, <1>4

\* An answer that ends the committed log is under "completed", or under the status
\* of a rival that had no steps to collide on, or that an attempt which had read
\* "completed" did not overwrite.
THEOREM AnswerTold == Spec => []AnswerIsTold
<1>1. Init => ToldInv
  <2> SUFFICES ASSUME Init PROVE ToldInv
    OBVIOUS
  <2>1. stored \in History /\ Earlier \notin Runners
    BY ResumeAssumption DEF Init
  <2>2. /\ stored.log \in Seq(Step) /\ \A i \in DOMAIN stored.log : stored.log[i].by = Earlier
    BY <2>1 DEF History
  <2>3. stored.log # <<>> => Last(stored.log).by = Earlier
    <3>1. stored.log # <<>> => Len(stored.log) \in DOMAIN stored.log
      BY <2>2
    <3>. QED
      BY <2>2, <3>1 DEF Last
  <2>. QED
    BY <2>1, <2>3 DEF Init, ToldInv, AnswerPlanned, StopPlanned, SeenInv, AnswerIsTold, Busy
<1>2. ResumeInv /\ WinnersAreWhole /\ ToldInv /\ [Next]_vars => ToldInv'
  <2> SUFFICES ASSUME ResumeInv, WinnersAreWhole, ToldInv, [Next]_vars PROVE ToldInv'
    OBVIOUS
  <2>0. ResumeTypeOK /\ AnswerPlanned /\ StopPlanned /\ SeenInv /\ AnswerIsTold
    BY DEF ResumeInv, ToldInv
  <2>1. ASSUME NEW r \in Runners, Attempt(r) PROVE ToldInv'
    <3>1. AnswerPlanned' /\ StopPlanned' /\ SeenInv'
      BY <2>0, <2>1, AnswerPlannedStep, StopPlannedStep, SeenStep
    <3>2. CASE stored' = stored
      <4>1. \A p \in Runners : /\ at[p] = "won" => seen'[p] = seen[p] /\ new'[p] = new[p]
                               /\ at[p] = "won" => at'[p] = "won" /\ final'[p] = final[p]
        BY <2>0, <2>1, OthersStay
      <4>2. \A p \in Runners : stored.log # <<>> /\ Last(stored.log).by = p => at[p] = "won"
        <5>1. stored.log # <<>> => Len(stored.log) \in DOMAIN stored.log
          BY <2>0 DEF ResumeTypeOK
        <5>. QED
          BY <5>1, ResumeAssumption DEF WinnersAreWhole, Last
      <4>. QED
        BY <2>0, <3>1, <3>2, <4>1, <4>2 DEF ToldInv, AnswerIsTold
    <3>3. CASE Commit(r) /\ ~Collides(r)
      BY <2>0, <3>1, <3>3, ToldWon DEF ToldInv
    <3>. QED
      BY <2>1, <3>2, <3>3 DEF Attempt, FindRun, FindLastStep, CompleteRun, BreakOff, Commit, GiveUp
  <2>2. CASE UNCHANGED vars
    BY <2>0, <2>2 DEF vars, ToldInv, AnswerPlanned, StopPlanned, SeenInv, AnswerIsTold
  <2>. QED
    BY <2>1, <2>2 DEF Next, AllOver
<1>3. ToldInv => AnswerIsTold
  BY DEF ToldInv
<1>. QED
  BY ResumeInvariance, AttemptsAreWhole, <1>1, <1>2, <1>3, PTL DEF Spec
=============================================================================
