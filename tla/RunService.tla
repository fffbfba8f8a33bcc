------------------------------ MODULE RunService ------------------------------
(***************************************************************************)
(* The trigger surface around one run (src/app/services/run_service.py and *)
(* the routes of src/app/api/v1/runs.py): POST commits a row and schedules *)
(* the run, the background job drives AgentRunner in one transaction of    *)
(* its own, and a client polls.  The database is a server that shows every *)
(* session the committed state; the process may die at any point.          *)
(***************************************************************************)
EXTENDS AgentRunner

CONSTANTS
  Crashes,       \* may the process die?
  ServiceWiring  \* what _execute injects: no tracer, and the run to resume

ASSUME ServiceAssumption ==
  /\ Crashes \in BOOLEAN
  /\ ServiceWiring = [registry |-> TRUE, sanitizer |-> TRUE, session |-> TRUE,
                      tracer |-> FALSE, resume |-> TRUE]
  /\ Wirings = {ServiceWiring}

VARIABLES
  request, \* what the client sends: see Request
  stored,  \* the committed row and steps
  post,    \* where the POST that starts the run stands
  job,     \* where the background execution stands
  poll,    \* the row a poll in progress has read
  answer   \* the latest answer to a poll

serviceVars == <<vars, request, stored, post, job, poll, answer>>

Nothing == [row |-> NoRow, steps |-> <<>>]
Fresh == [row |-> [status |-> "created", tokens_used |-> 0, ended_at |-> "null"], steps |-> <<>>]

\* _STATUS_PROJECTION.  An operator marked "Mutant" is a plausible bug that only
\* the mutation runs use.
\* Mutant: a run that has not started is reported as failed.
StatusProjectionEager ==
  [created |-> "failed", running |-> "running", completed |-> "succeeded",
   failed |-> "failed", capped |-> "failed"]
StatusProjection == [created |-> "running", running |-> "running", completed |-> "succeeded",
                     failed |-> "failed", capped |-> "failed"]

\* _final_answer: the content of the last LLM step, if there is one.
\* Mutants: that of the first one; the reply in place of its content.
FinalAnswerFirst(log) ==
  IF LlmSteps(log) = {} THEN <<>> ELSE <<log[Min(LlmSteps(log))].reply.content>>
FinalAnswerPayload(log) ==
  IF LlmSteps(log) = {} THEN <<>> ELSE <<log[Max(LlmSteps(log))].reply>>
FinalAnswer(log) ==
  IF LlmSteps(log) = {} THEN <<>> ELSE <<log[Max(LlmSteps(log))].reply.content>>

\* A POST, by what decides on it: is its key in the allowlist, is its body what
\* StartAgentRunRequest asks for, and what does its agent's name find: nothing in
\* the agents directory, a file that load_spec does not take, or a spec?
AgentFile == {"absent", "invalid", "spec"}
Request == [key : BOOLEAN, body : {"no_json", "ill_typed", "well_typed"}, agent : AgentFile]

\* AgentNotFoundError becomes a 422; nobody catches what load_spec raises.
LoadSpec == [absent |-> "unprocessable", invalid |-> "broken", spec |-> "admitted"]

\* The framework reads the body, then the key is checked, then the body against
\* its schema, and start_run loads the spec.
\* Mutant: the route does not depend on require_api_key.
VerdictAnyKey ==
  CASE request.body # "well_typed" -> "unprocessable"
    [] OTHER -> LoadSpec[request.agent]
Verdict ==
  CASE request.body = "no_json" -> "unprocessable"
    [] request.body # "no_json" /\ ~request.key -> "unauthorized"
    [] request.body = "ill_typed" /\ request.key -> "unprocessable"
    [] OTHER -> LoadSpec[request.agent]

Http(code) == [http |-> code, status |-> "none", result |-> <<>>]
Found(status, result) == [http |-> 200, status |-> status, result |-> result]

-----------------------------------------------------------------------------
ServiceInit ==
  /\ Init
  /\ row = NoRow
  /\ request \in Request
  /\ stored = Nothing
  /\ post = "idle"
  /\ job = "none"
  /\ poll = NoRow
  /\ answer = Http(0)

\* The request is turned away before anything is stored.
RefusePost ==
  /\ post = "idle"
  /\ Verdict # "admitted"
  /\ post' = Verdict
  /\ UNCHANGED <<vars, stored, job, poll, answer, request>>

\* start_run's unit of work: the row is committed as created.
CreateRun ==
  /\ post = "idle"
  /\ Verdict = "admitted"
  /\ stored' = Fresh
  /\ post' = "created"
  /\ UNCHANGED <<vars, job, poll, answer, request>>

\* The commit raises, and may have reached the database all the same; nothing
\* is scheduled and the client learns no id.
CreateRunFails ==
  /\ post = "idle"
  /\ Verdict = "admitted"
  /\ DbFaults
  /\ stored' \in {stored, Fresh}
  /\ post' = "broken"
  /\ UNCHANGED <<vars, job, poll, answer, request>>

\* The run is scheduled and the client is given its id ...
\* Mutant: without waiting for the row to be committed.
AcceptUncommitted ==
  /\ post = "idle"
  /\ Verdict = "admitted"
  /\ post' = "accepted"
  /\ job' = "queued"
  /\ UNCHANGED <<vars, stored, poll, answer, request>>
Accept ==
  /\ post = "created"
  /\ post' = "accepted"
  /\ job' = "queued"
  /\ UNCHANGED <<vars, stored, poll, answer, request>>

\* ... then _execute opens a session on what is stored and starts the runner.
StartJob ==
  /\ job = "queued"
  /\ job' = "running"
  /\ row' = stored.row
  /\ steps' = stored.steps
  /\ UNCHANGED <<wiring, pc, elapsed, local, call, cap, gateway, spans,
                 stored, post, poll, answer, request>>

\* The runner writes to the session only.
\* Mutant: a session in autocommit mode.
JobRunsAutocommit ==
  /\ job = "running"
  /\ Run
  /\ stored' = [row |-> row', steps |-> steps']
  /\ UNCHANGED <<post, job, poll, answer, request>>
JobRuns ==
  /\ job = "running"
  /\ Run
  /\ UNCHANGED <<stored, post, job, poll, answer, request>>

RunReturns ==
  /\ job = "running"
  /\ pc = "returned"
  /\ job' = "committing"
  /\ UNCHANGED <<vars, stored, post, poll, answer, request>>

\* The except clause: a row the runner has not capped is marked failed, with
\* the token count it had.
\* Mutants: a capped row is too; the error is only logged.
HandledRowAlways == IF row = NoRow THEN row ELSE [row EXCEPT !.status = "failed", !.ended_at = "set"]
HandledRowNever == row
HandledRow ==
  IF row = NoRow \/ row.status \in {"failed", "capped"}
  THEN row
  ELSE [row EXCEPT !.status = "failed", !.ended_at = "set"]

HandleError ==
  /\ job = "running"
  /\ pc \in {"capped", "raised"}
  /\ row' = HandledRow
  /\ job' = "committing"
  /\ UNCHANGED <<wiring, pc, elapsed, local, call, cap, steps, gateway, spans,
                 stored, post, poll, answer, request>>

\* A run that could not be read at set-up has to be read again here, and that
\* may fail too: the unit of work rolls back.
HandlerFails ==
  /\ job = "running"
  /\ pc = "raised" /\ calls = 0
  /\ DbFaults
  /\ job' = "died"
  /\ UNCHANGED <<vars, stored, post, poll, answer, request>>

\* The unit of work commits: the log and the outcome become visible at once.
CommitJob ==
  /\ job = "committing"
  /\ stored' = [row |-> row, steps |-> steps]
  /\ job' = "done"
  /\ UNCHANGED <<vars, post, poll, answer, request>>

\* It raises, and all that the run wrote is rolled back, unless the commit had
\* been applied.
CommitJobFails ==
  /\ job = "committing"
  /\ DbFaults
  /\ stored' \in {stored, [row |-> row, steps |-> steps]}
  /\ job' = "died"
  /\ UNCHANGED <<vars, post, poll, answer, request>>

\* The process dies with its request and its job.  Nothing looks for unfinished
\* rows when it starts again.
Crash ==
  /\ Crashes
  /\ job \in {"queued", "running", "committing"} \/ post = "created"
  /\ job' = "died"
  /\ post' = IF post = "created" THEN "broken" ELSE post
  /\ poll' = NoRow
  /\ UNCHANGED <<vars, stored, answer, request>>

-----------------------------------------------------------------------------
\* Polling.  The client has an id once its POST is accepted.

\* get_run reads the row; a completed run needs a second read for its answer.
PollRow ==
  /\ post = "accepted"
  /\ poll = NoRow
  /\ LET seen == stored.row
     IN  CASE seen = NoRow -> answer' = Http(404) /\ UNCHANGED poll
           [] seen.status = "completed" -> poll' = seen /\ UNCHANGED answer
           [] OTHER -> /\ answer' = Found(StatusProjection[seen.status], <<>>)
                       /\ UNCHANGED poll
  /\ UNCHANGED <<vars, stored, post, job, request>>

PollSteps ==
  /\ poll # NoRow
  /\ answer' = Found(StatusProjection[poll.status], FinalAnswer(stored.steps))
  /\ poll' = NoRow
  /\ UNCHANGED <<vars, stored, post, job, request>>

PollFails ==
  /\ DbFaults
  /\ post = "accepted"
  /\ answer' = Http(500)
  /\ poll' = NoRow
  /\ UNCHANGED <<vars, stored, post, job, request>>

\* A POST that was not accepted gives nobody an id to poll.
Unpolled == post \in {"unauthorized", "unprocessable", "broken"} /\ UNCHANGED serviceVars

Job == StartJob \/ RunReturns \/ HandleError \/ HandlerFails \/ CommitJob \/ CommitJobFails
Poll == PollRow \/ PollSteps

ServiceNext ==
  \/ RefusePost \/ CreateRun \/ CreateRunFails \/ Accept
  \/ Job
  \/ JobRuns
  \/ Crash
  \/ Poll \/ PollFails
  \/ Unpolled

ServiceSpec == ServiceInit /\ [][ServiceNext]_serviceVars

\* A request that is being served is served, its background task is run, the
\* runner has the fairness it has alone, and the client keeps polling; nothing
\* makes the gateway answer.
ServiceFairness ==
  /\ WF_serviceVars(Accept)
  /\ WF_serviceVars(Job)
  /\ WF_serviceVars(job = "running" /\ Runner /\ UNCHANGED <<stored, post, job, poll, answer, request>>)
  /\ WF_serviceVars(job = "running" /\ TimerFires /\ UNCHANGED <<stored, post, job, poll, answer, request>>)
  /\ WF_serviceVars(job = "running" /\ Tick /\ UNCHANGED <<stored, post, job, poll, answer, request>>)
  /\ WF_serviceVars(PollRow)
  /\ WF_serviceVars(PollSteps)

FairServiceSpec == ServiceSpec /\ ServiceFairness

-----------------------------------------------------------------------------
\* Properties

Terminal == {"completed", "failed", "capped"}

ServiceTypeOK ==
  /\ TypeOK
  /\ request \in Request
  /\ stored \in [row : Row, steps : Seq(Step)]
  /\ post \in {"idle", "created", "accepted", "unauthorized", "unprocessable", "broken"}
  /\ job \in {"none", "queued", "running", "committing", "done", "died"}
  /\ poll \in Row
  /\ answer \in [http : {0, 200, 404, 500}, status : {"none", "running", "succeeded", "failed"},
                 result : {<<>>} \cup {<<c>> : c \in Content}]

\* The id of an accepted run can be polled at once and for ever: the row is
\* committed before the run is scheduled and the 202 is sent (start_run).
AcceptedRunIsFound == answer.http # 404 /\ (post = "accepted" => stored.row # NoRow)

\* Nothing is stored, let alone spent on the gateway, for a request without a
\* valid key ("rejected 401 before any run is triggered", runs.py) or that the
\* service cannot carry out, and no call is made for a run that is not durable.
GatewayServesAcceptedRuns ==
  /\ stored # Nothing \/ calls > 0 =>
       request.key /\ request.body = "well_typed" /\ request.agent = "spec"
  /\ calls > 0 => post = "accepted" /\ stored.row # NoRow

\* What is stored of a run is the row of the POST or the whole run: no poll can
\* see part of a log, or a log without its outcome (one transaction per run).
LogComesWithOutcome ==
  /\ stored.row.status \in {"absent", "created"} \cup Terminal
  /\ stored.row.status \notin Terminal => stored.steps = <<>> /\ stored.row.ended_at = "null"

\* The stored outcome is the runner's: completed, capped and failed tell how
\* run() ended, and the row of a counted run carries its tokens.
OutcomeIsTheRunners ==
  /\ stored.row.status = "completed" => pc = "returned"
  /\ stored.row.status = "capped" => pc = "capped"
  /\ stored.row.status = "failed" => pc = "raised"
  /\ stored.row.status \in {"completed", "capped"} => stored.row.tokens_used = tokens_used

\* A poll that says "succeeded" carries the content of the reply that stopped
\* the run, though row and steps are read one after the other; one that says
\* "failed" or "running" carries none.
PollTellsTheOutcome ==
  /\ answer.status = "succeeded" =>
       pc = "returned" /\ answer.result = <<Last(responses).content>>
  /\ answer.status # "succeeded" => answer.result = <<>>
  /\ answer.status = "failed" => pc \in {"capped", "raised"}

\* The service keeps the promise of RunLifecycle: to those who poll, a run is one
\* record that is written twice, once when it is accepted and once when it ends,
\* and that every poll reads as a whole, whatever the job, the crash and the
\* database do in between.
Reported ==
  [status |-> IF stored.row = NoRow THEN "none" ELSE StatusProjection[stored.row.status],
   result |-> IF stored.row.status = "completed" THEN FinalAnswer(stored.steps) ELSE <<>>]

Lifecycle == INSTANCE RunLifecycle WITH
  run <- Reported,
  told <- [status |-> answer.status, result |-> answer.result]

ImplementsRunLifecycle == Lifecycle!Spec

\* The job was cut short by a crash or a database error, or its row could not be
\* read at set-up.
Faulted == job = "died" \/ (pc = "raised" /\ calls = 0)

\* Every accepted run is reported as ended, even when the gateway never answers,
\* unless its job was hit by a crash or a database error, and provided polls do
\* not fail for ever.
AcceptedRunEnds ==
  <>[](answer.http # 500) =>
    (post = "accepted" ~> answer.status \in {"succeeded", "failed"} \/ Faulted)

\* run_service.py, _execute: "any error is recorded on the run as failed", so
\* that a run is not "stuck in 'running'": it reaches a terminal status.
EveryErrorIsRecorded == post = "accepted" ~> stored.row.status \in Terminal
=============================================================================
