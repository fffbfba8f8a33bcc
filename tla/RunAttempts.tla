------------------------------ MODULE RunAttempts ------------------------------
(***************************************************************************)
(* One run over several calls of AgentRunner.run.  The runner only adds to *)
(* its session; its caller commits or rolls back (runner.py, "callers are  *)
(* responsible for commit/rollback"), the process may die, and the run may *)
(* be taken up again by a runner with resume_run_id.                       *)
(***************************************************************************)
EXTENDS AgentRunner

CONSTANTS
  MaxAttempts,  \* bound on the calls of run()
  Resumed       \* the stored statuses of the runs that callers resume

ASSUME AttemptsAssumption ==
  /\ MaxAttempts \in Nat \ {0}
  /\ Resumed \subseteq Status \cup {NoRow.status}

VARIABLES
  stored,      \* the row and the steps that are committed
  attempt,     \* calls of run() so far
  session_open \* the session holds what this attempt wrote

attemptVars == <<vars, stored, attempt, session_open>>

\* What a commit makes durable: everything the session holds.
\* Mutants: the row alone; only the steps this attempt added.
SessionRow == [row |-> row, steps |-> stored.steps]
SessionNewSteps ==
  [row |-> row, steps |-> SubSeq(steps, Len(stored.steps) + 1, Len(steps))]
SessionState == [row |-> row, steps |-> steps]

AttemptsInit ==
  /\ Init
  /\ stored = [row |-> row, steps |-> steps]
  /\ attempt = 1
  /\ session_open = TRUE

\* The runner moves while its session is there.
RunStep ==
  /\ session_open
  /\ Run
  /\ UNCHANGED <<stored, attempt, session_open>>

\* The call of run() is over, and the caller keeps what it wrote ...
Commit ==
  /\ session_open
  /\ pc \in Endings
  /\ stored' = SessionState
  /\ session_open' = FALSE
  /\ UNCHANGED <<vars, attempt>>

\* ... or drops it, or the process dies before it was kept.
Rollback ==
  /\ session_open
  /\ row' = stored.row
  /\ steps' = stored.steps
  /\ session_open' = FALSE
  /\ UNCHANGED <<wiring, pc, elapsed, local, call, cap, gateway, spans, stored, attempt>>

\* A new runner takes up the run, in a new session.  The code accepts a run
\* of any status; Resumed says which ones the callers pass it.
Resume ==
  /\ ~session_open
  /\ wiring.session
  /\ stored.row.status \in Resumed
  /\ attempt < MaxAttempts
  /\ attempt' = attempt + 1
  /\ session_open' = TRUE
  /\ wiring' = [wiring EXCEPT !.resume = TRUE]
  /\ pc' = "setup" /\ elapsed' = 0
  /\ iterations' = 0 /\ tokens_used' = 0 /\ step_idx' = 0
  /\ messages' = <<>> /\ responses' = <<>>
  /\ call' = NoCall /\ cap' = "none"
  /\ calls' = 0 /\ billed' = 0 /\ client_late' = FALSE
  /\ open_spans' = 0 /\ llm_spans' = 0 /\ tool_spans' = 0
  /\ UNCHANGED <<row, steps, stored>>

\* Nobody takes the run up again.
Abandoned == ~session_open /\ UNCHANGED attemptVars

AttemptsNext == RunStep \/ Commit \/ Rollback \/ Resume \/ Abandoned

AttemptsSpec == AttemptsInit /\ [][AttemptsNext]_attemptVars

-----------------------------------------------------------------------------
\* Properties

\* The service's own view of a stored run (run_service.py, _final_answer).
Completed == stored.row.status = "completed"
StoredTokens == TokensOf(stored.steps)

\* Whatever is rolled back, lost or resumed, the committed log is numbered
\* without gap or repetition and its tool steps answer its LLM steps.
StoredLogIsSound == Gapless(stored.steps) /\ ToolStepsAnswer(stored.steps)

\* A committed step is never lost or rewritten by a later attempt: "the runner
\* skips steps already in the DB and continues from the last".
StoredLogOnlyGrows == [][IsPrefix(stored.steps, stored'.steps)]_attemptVars

\* A run stored as completed has its final answer as its last step, however
\* many attempts it took.
CompletedHasAnswer ==
  Completed => stored.steps # <<>> /\ Last(stored.steps).type = "llm_call"
               /\ Last(stored.steps).reply.finish = "stop"

\* Caps bound each attempt by itself, in a run of any history: what an attempt
\* adds to the log that it found stays within one token budget and one iteration
\* cap, whatever was kept, dropped or resumed before it.
EachAttemptIsCapped ==
  session_open =>
    /\ TokensOf(steps) <= StoredTokens + TokenBudget
    /\ Cardinality(LlmSteps(steps)) <= Cardinality(LlmSteps(stored.steps)) + MaxIterations

\* runner.py: token_budget caps the "cumulative tokens across all LLM calls",
\* so the replies logged for a run stay within it.
LoggedTokensWithinBudget == StoredTokens <= TokenBudget
=============================================================================
