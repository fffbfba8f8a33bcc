---------------------------- MODULE ConcurrentResume ----------------------------
(***************************************************************************)
(* Several runners take up one stored run at once (runner.py with          *)
(* resume_run_id and dal.py).  Nothing in the code locks the run: each     *)
(* runner reads the row, then the highest step index, in two statements;   *)
(* it writes nothing until its caller commits; and what stands between two *)
(* of them is the unique constraint on (agent_run_id, idx).                *)
(*                                                                         *)
(* AgentRunner has the loop.  Here an attempt is what it adds to the log   *)
(* and the status it sets.  The database shows a statement what is         *)
(* committed when it starts (READ COMMITTED, the default of PostgreSQL),   *)
(* and commits one session at a time: a second flush waits for the row or  *)
(* for the index entry that the first has written.                         *)
(***************************************************************************)
EXTENDS Naturals, Sequences, SequencesExt, FiniteSetsExt

CONSTANTS
  Runners,    \* the attempts, each by a runner with a session of its own
  Earlier,    \* stands for whoever wrote the steps that are there to begin with
  MaxNew,     \* bound on the steps that an attempt adds
  Histories   \* what may be stored when the first of them starts: see History

VARIABLES
  stored,  \* the committed status and steps of the run
  at,      \* where each attempt stands
  seen,    \* by attempt, the status it has loaded with the row
  from,    \* by attempt, resume_from_idx
  new,     \* by attempt, the steps its session has to insert
  final    \* by attempt, the status its session has set

vars == <<stored, at, seen, from, new, final>>

Status == {"created", "running", "completed", "failed", "capped"}

\* A step is at its index, of an attempt, and the final answer or not.
Step == [idx : Nat, by : Runners \cup {Earlier}, stop : BOOLEAN]

\* The steps at from, from + 1, ..., of which the last may be the answer.
Steps(r, first, n, answered) ==
  [i \in 1..n |-> [idx |-> first + i - 1, by |-> r, stop |-> answered /\ i = n]]

Gapless(log) == \A i \in DOMAIN log : log[i].idx = i - 1
HasAnswer(log) == \E i \in DOMAIN log : log[i].stop

History ==
  {h \in [status : Status, log : Seq(Step)] :
     /\ Gapless(h.log)
     /\ \A i \in DOMAIN h.log : h.log[i].by = Earlier
     /\ h.status = "completed" => h.log # <<>> /\ Last(h.log).stop}

ASSUME ResumeAssumption ==
  /\ Earlier \notin Runners
  /\ MaxNew \in Nat
  /\ Histories \subseteq History

-----------------------------------------------------------------------------
\* Helpers.  An operator marked "Mutant" is a plausible bug that only the
\* mutation runs use.

\* resume_from_idx: one beyond the highest index in the log.
\* Mutant: the highest index itself.
NextIdxLast(log) == IF log = <<>> THEN 0 ELSE Max({log[i].idx : i \in DOMAIN log})
NextIdx(log) == IF log = <<>> THEN 0 ELSE Max({log[i].idx : i \in DOMAIN log}) + 1

\* agent_steps_run_idx_unique: an index is taken once.
\* Mutant: there is no such constraint.
CollidesNever(r) == FALSE
Collides(r) == \E i \in DOMAIN new[r], j \in DOMAIN stored.log : new[r][i].idx = stored.log[j].idx

\* The UPDATE has only the columns whose value is not the one that was loaded.
StatusWritten(r) == IF final[r] = seen[r] THEN stored.status ELSE final[r]

-----------------------------------------------------------------------------
Init ==
  /\ stored \in Histories
  /\ at = [r \in Runners |-> "idle"]
  /\ seen = [r \in Runners |-> "created"]
  /\ from = [r \in Runners |-> 0]
  /\ new = [r \in Runners |-> <<>>]
  /\ final = [r \in Runners |-> "created"]

\* get_run loads the row, whatever its status ...
FindRun(r) ==
  /\ at[r] = "idle"
  /\ at' = [at EXCEPT ![r] = "found"]
  /\ seen' = [seen EXCEPT ![r] = stored.status]
  /\ UNCHANGED <<stored, from, new, final>>

\* ... and get_last_step_idx the end of the log, in a statement of its own; the
\* session's copy of the row is then marked running.
FindLastStep(r) ==
  /\ at[r] = "found"
  /\ at' = [at EXCEPT ![r] = "working"]
  /\ from' = [from EXCEPT ![r] = NextIdx(stored.log)]
  /\ final' = [final EXCEPT ![r] = "running"]
  /\ UNCHANGED <<stored, seen, new>>

\* The loop ends with its answer logged and the row completed ...
CompleteRun(r) ==
  /\ at[r] = "working"
  /\ at' = [at EXCEPT ![r] = "committing"]
  /\ \E n \in 1..MaxNew : new' = [new EXCEPT ![r] = Steps(r, from[r], n, TRUE)]
  /\ final' = [final EXCEPT ![r] = "completed"]
  /\ UNCHANGED <<stored, seen, from>>

\* ... or without one, by a cap or an error, with or without steps: the row is
\* capped, failed when the service handles the error, or running as it was left.
BreakOff(r) ==
  /\ at[r] = "working"
  /\ at' = [at EXCEPT ![r] = "committing"]
  /\ \E n \in 0..MaxNew : new' = [new EXCEPT ![r] = Steps(r, from[r], n, FALSE)]
  /\ \E status \in {"capped", "failed", "running"} : final' = [final EXCEPT ![r] = status]
  /\ UNCHANGED <<stored, seen, from>>

\* The caller commits: row and steps become durable together, or an index is
\* taken and the whole unit of work is rolled back.
\* Mutants: taken indices are skipped (ON CONFLICT DO NOTHING); the row is
\* committed before the steps.
CommitSkipping(r) ==
  /\ at[r] = "committing"
  /\ at' = [at EXCEPT ![r] = "won"]
  /\ stored' = [status |-> StatusWritten(r),
                log |-> stored.log \o SelectSeq(new[r], LAMBDA s : s.idx >= Len(stored.log))]
  /\ UNCHANGED <<seen, from, new, final>>
CommitRowFirst(r) ==
  /\ at[r] = "committing"
  /\ at' = [at EXCEPT ![r] = IF Collides(r) THEN "rejected" ELSE "won"]
  /\ stored' = [status |-> StatusWritten(r),
                log |-> IF Collides(r) THEN stored.log ELSE stored.log \o new[r]]
  /\ UNCHANGED <<seen, from, new, final>>
Commit(r) ==
  /\ at[r] = "committing"
  /\ at' = [at EXCEPT ![r] = IF Collides(r) THEN "rejected" ELSE "won"]
  /\ stored' = IF Collides(r) THEN stored
               ELSE [status |-> StatusWritten(r), log |-> stored.log \o new[r]]
  /\ UNCHANGED <<seen, from, new, final>>

\* The caller rolls back, or the process dies with its session.
GiveUp(r) ==
  /\ at[r] \in {"found", "working", "committing"}
  /\ at' = [at EXCEPT ![r] = "gone"]
  /\ UNCHANGED <<stored, seen, from, new, final>>

\* Nobody takes up the run any more.
AllOver == (\A r \in Runners : at[r] \in {"won", "rejected", "gone"}) /\ UNCHANGED vars

Attempt(r) ==
  FindRun(r) \/ FindLastStep(r) \/ CompleteRun(r) \/ BreakOff(r) \/ Commit(r) \/ GiveUp(r)

Next == (\E r \in Runners : Attempt(r)) \/ AllOver

Spec == Init /\ [][Next]_vars

-----------------------------------------------------------------------------
\* Properties

\* However reads and commits of several runners interleave, the committed log is
\* numbered from 0 without gap or repetition (dal.py, append_step: "the DB unique
\* constraint (agent_run_id, idx) guards against duplicate inserts").
SharedLogIsGapless == Gapless(stored.log)

\* The log holds all the steps of an attempt that was committed, in one piece
\* where it meant to start, and none of any other: attempts never mix their steps,
\* and a loser leaves nothing behind.
WinnersAreWhole ==
  /\ \A r \in Runners : at[r] = "won" =>
       \A i \in DOMAIN new[r] : from[r] + i \in DOMAIN stored.log
                                /\ stored.log[from[r] + i] = new[r][i]
  /\ \A n \in DOMAIN stored.log : stored.log[n].by # Earlier =>
       \E r \in Runners : /\ stored.log[n].by = r /\ at[r] = "won"
                          /\ \E i \in DOMAIN new[r] : n = from[r] + i

\* The constraint rejects an attempt only for a rival that has committed, from
\* the very index where it meant to start: alone, a runner always gets through.
RejectedOnlyByRival ==
  \A r \in Runners : at[r] = "rejected" =>
    \E q \in Runners \ {r} : at[q] = "won" /\ from[q] = from[r] /\ new[q] # <<>>

\* A run that says "completed" has a final answer in its log, and as its last
\* step, the one the service serves (run_service.py, _final_answer), except in the
\* one race the code leaves open: an attempt that read the row before the answer
\* was committed and the log after it ends with the status it had read, so that
\* its UPDATE leaves "completed" standing over its steps.
AnswerIsLast ==
  stored.status = "completed" =>
    /\ HasAnswer(stored.log)
    /\ Last(stored.log).stop
       \/ \E r \in Runners : Last(stored.log).by = r /\ at[r] = "won" /\ final[r] = seen[r]

\* A run whose answer an attempt has committed, with nothing after it, says
\* "completed", except that two resumptions can take the word back: one that has
\* no step to insert meets no constraint and writes its own status over it; and
\* an attempt that had read "completed" does not write it again, so that another
\* status set in between stays over the new answer.  Either way the status is
\* one that a rival has set and committed (runner.py, update_run_status).
AnswerIsTold ==
  \A r \in Runners :
    stored.log # <<>> /\ Last(stored.log).stop /\ Last(stored.log).by = r =>
      \/ stored.status = "completed"
      \/ \E q \in Runners \ {r} : /\ at[q] = "won" /\ final[q] = stored.status
                                  /\ new[q] = <<>> \/ seen[r] = "completed"
=============================================================================
