# A TLA+ model of the Atlas agent runtime

The runtime executes declarative agents. A client posts a message for an agent;
a background job drives a bounded loop of LLM calls through a gateway, writes
every call to a step log, and the client polls for the outcome. The hard parts
are few and all in the core: three caps that are checked at different moments, a
timer that races the reply it waits for, a log that is resumed by another
process, one transaction around a whole run whose outcome is polled from outside, and the
threads and connections that runs and requests share. This directory models those parts in TLA+, checks them with TLC on
small instances and proves the core for all instances with TLAPS.

Paths below are relative to the repository root.

## 1. The system

| part | source | state | operations |
|---|---|---|---|
| agent loop | `app/loop/runner.py`, `errors.py` | messages, responses, counters, clock, `step_idx` (all local to one call) | `run` |
| gateway clients | `app/loop/gateway_client.py`, `app/gateway_client/http_client.py` | none | `chat` |
| tool registry | `app/tools/registry/registry.py` | the whitelist, never changed | `assert_allowed` |
| tool sanitizer | `app/tools/sanitize/sanitizer.py` | none | `sanitize` |
| persistence | `app/persistence/dal.py`, `tables.py`, `session.py` | `agent_runs`, `agent_steps` | create, update, append, read |
| run service | `app/services/run_service.py` | none of its own: sessions and scheduled jobs | `start_run`, `get_run`, `_execute` |
| HTTP surface | `app/api/v1/runs.py`, `schemas.py`, `deps.py` | engine, session factory, client cached per application | POST, GET |
| application | `app/main.py`, `app/config.py` | settings, the spec loader | start-up |
| agent specs | `app/agentspec/model.py` | none | `load_spec` |
| telemetry | `app/telemetry/tracing.py` | spans | two context managers |
| dependency audit | `scripts/dep_audit.py` | none | a build-time gate |
| demo, migrations, charts | `scripts/`, `alembic/`, `deploy/` | | |

How they interact. `POST` checks the key, loads the spec, commits a row as
`created` in a unit of work, hands the execution to the background tasks and
answers 202. `_execute` opens a second unit of work and calls
`AgentRunner.run` in a new event loop with a registry, a sanitizer and the
session; `run` treats the committed row as a run to resume. It calls the gateway
in a loop inside `asyncio.wait_for`, adds LLM and tool steps to the session, and
sets the final status; `_execute` marks other errors as `failed`; the unit of
work commits everything or nothing. `GET` reads the row, and the steps when the
row says `completed`. The runner can also be used without the service, with a
session its caller commits, or with none.

### What each part must get right, and what makes it hard

- **Loop.** It makes at most `max_iterations` calls, overspends its budget by one
  reply at most, ends by its deadline whatever the gateway does, and names the
  cap it reached. Hard: the reply and the deadline arrive in any order; a reply
  is counted, budget-checked, logged, tool-checked and used in that order, and
  an error between two of those leaves them apart.
- **Log.** Steps are numbered without gap or repetition over any number of
  attempts, and a tool step follows the LLM step that asked for it. Hard: the
  next number is read back from the database, and two runners may read it at once.
- **Resumption.** What was committed stays; every attempt is capped. Hard: long
  sequences of legal calls on runs of any status.
- **Service.** An accepted run is found by every poll, polls see all of a run or
  nothing, do not contradict each other, and eventually tell the outcome. Hard:
  two reads per poll, crashes, failing commits.
- **Sessions.** What is committed stays whoever else is at work, and a client is
  told its outcome. Hard: requests and jobs run in threads of one pool; a job
  keeps a connection for its whole run; the default store gives all of them one
  connection, whose commit and rollback end everybody's unfinished work; and the
  engine is built on the first request, or on the first two.
- **Sanitizer.** After all four steps nothing is left that any of them removes,
  and nothing else has changed. Hard: the order of the steps.
- **Dependency audit.** What passes is one version that is old enough, and every
  violation is reported once. Hard: a requirement is judged by splitting its
  text; the script has no tests.
- **Loader and HTTP surface.** Nothing is stored or spent for a request that the
  key check, the body's schema or the loader refuses.
- **Gateway client.** A response that cannot be mapped is an error, never an
  empty reply. Hard: missing, null and present fields take different paths.

`PROJECT.json` lists the hazards one by one, each at its line with the
properties that would catch it.

## 2. Modules

| module | models | extends |
|---|---|---|
| `AgentRunner` | one call of `AgentRunner.run`, with its collaborators | |
| `BoundedRun` | what `run` promises its caller, abstractly | |
| `RunAttempts` | a run over several calls of `run`: commit, rollback, loss, resumption | `AgentRunner` |
| `RunService` | POST and its refusals, background job, polls, crashes and database errors around one run | `AgentRunner` |
| `RunLifecycle` | what the service promises the client of a run, abstractly | |
| `ConcurrentResume` | several runners on one stored run, and the unique constraint between them | |
| `SessionStore` | the database sessions of several requests, jobs and polls, on a server or on one shared connection, with their threads, pool and engine | |
| `HttpGateway` | what the HTTP client and the mock make of a response | |
| `Sanitizer` | `ToolSanitizer.sanitize` on sequences of atoms | |
| `DepAudit` | the dependency audit, from files to exit code | |
| `SequenceLemmas` | what the proofs need to know of numbers and sequences | |
| `AgentRunner_proofs`, `Sanitizer_proofs`, `DepAudit_proofs` | theorems | the module they are about, `SequenceLemmas` |
| `RunAttempts_proofs`, `ConcurrentResume_proofs`, `RunService_proofs`, `SessionStore_proofs` | theorems | the module they are about |
| `MCAgentRunner`, `MCRunAttempts`, `MCRunService`, `MCConcurrentResume`, `MCSessionStore`, `MCSanitizer`, `MCDepAudit` | small instances for TLC | |

### AgentRunner

The runner is a coroutine that can be suspended only inside `client.chat`, so
its actions are the stretches of code between two moments at which the world
can intervene: the clock reads and the chat.

| `pc` | where the code is |
|---|---|
| `setup` | `run` has been called; row and `step_idx` are being prepared (136-169) |
| `top` | head of `while True`, about to compute `remaining` (267) |
| `check` | in `_one_iteration`, before the two checks (175-182) |
| `chat` | in `client.chat` (191-201) |
| `returned`, `capped`, `raised` | `run` is over |

`elapsed` is the time since `started`. It stops at `TimeoutS`, which loses
nothing: the code only compares it with `timeout_s` by `>=`. `call` is the chat
in flight: pending, replied or failed. `row` and `steps` are the run *as its
session sees it*; committing is not the runner's business. `calls`, `billed`,
`client_late` and the span counters are what an observer at the gateway or the
tracer would see; no action reads them.

After the chat the code has one branch per way out, and so has the model:
`BreachTokenBudget` (counted, not logged), `RejectTool` (logged, row left
`running`), `AcceptReply` (logged with its tool step, joined to the
conversation, and on `stop` the row is completed), `ChatTimesOut`, `ChatRaises`.
`TimerFires` is the timer of `wait_for`: it may win against a reply that has
arrived and not been delivered, whose tokens are then spent and never counted.
`ChatYields` says whether the chat gives up control while it waits; if not, the
event loop cannot run the timer.

Two abstractions of data: a reply's content is whether it starts with `tool:`
and what remains of it (all that `_extract_tool_name` looks at), and tools are
model values. Latencies, payload layout, ids and error texts are left out. So
is the status `created` that `create_run` sets for a moment before the same call
sets `running`: nothing can observe it in between.

### BoundedRun

Calls, tokens spent, whether a timeout has struck, and how the run ended. The
runner is mapped to it by `Phase` and `Late` and by `pc = "chat"`, and
`ImplementsBoundedRun` is the abstract specification with its fairness.

### RunAttempts

`stored` is what is committed. An attempt runs (`RunStep`), and at its end the
caller commits (`Commit`); at any point the session can be lost by a rollback or
by the death of the process (`Rollback`). Then another runner may `Resume`, with
fresh local state, as the code gives it. `Resumed` is the set of statuses that
callers resume; the code accepts all.

### ConcurrentResume

The code resumes a run without locking it. `FindRun` and `FindLastStep` are the
two statements of a resumed `run`; what lies between them and the end of the loop
is the attempt's own, so `CompleteRun` and `BreakOff` only choose what it adds
and the status it leaves. `Commit` is the caller's: the `INSERT`s meet the unique
constraint (`Collides`), and the `UPDATE` carries the status only if it differs
from the one that was loaded (`StatusWritten`), as SQLAlchemy's unit of work
does. Reads are READ COMMITTED. The steps are who wrote them, at which index,
and whether they are the answer; `AgentRunner` has the rest.

### RunService

`post`, `job` and `poll` are the three parties, and `request` is what the client
sent: whether its key is known, whether its body fits the schema, and what the
loader finds under the agent's name (`AgentFile`). `Verdict` is the order in which the code
looks at them: a body that is no JSON (422), the key (401), a body outside the
schema (422), an unknown agent (422), a file that does not validate (a plain
exception). The job holds the runner's whole
transaction in `row` and `steps`; `CommitJob` makes it visible at once. `Crash`
kills the request, the job and the poll. `HandleError` is the `except` clause of
`_execute`, `HandlerFails` its second read of a row that could not be read. A
failing commit may or may not have reached the database. A poll reads the row
(`PollRow`) and then, for a completed run, the steps (`PollSteps`).

### RunLifecycle

The run as its client sees it: a record that is created running, ends at most
once and then stays as it is, and that every poll reads at once. `RunService` is
mapped to it by `Reported`, the answer that a poll made in one piece would give
of the committed row and log. That a poll's two reads, with a commit between
them, still amount to one is what the refinement shows.

### SessionStore

Every unit of work is a session in a thread: it opens on the engine, checks a
connection out with its first statement, flushes when it commits, and gives the
connection back, which the pool then rolls back. `stored` is what is committed
and `pending`, by connection, what is not; `Conn` is where the two stores differ.
The runner appears only as the outcome it reaches. The flush at the end of a job
is an UPDATE and an INSERT; the mappings declare no relationship, so `FlushJob`
takes them in either order.

`Threads` and `PoolSize` are the two pools. A session that finds the pool
exhausted waits, and while a job holds a connection the wait may outlast the
pool's timeout (`PoolTimeout`): a request then ends with 500, and a job gets a
second chance in its `except` clause. `cached` and `own` are the `lru_cache` of
`get_engine`: two threads that miss it together build an engine each, of which
one is kept; on the default store the other is a database of its own.

The statements interleave freely, as threads do between two calls into SQLite.
How SQLAlchemy's session, its pools and Python's `sqlite3` behave is taken from
those libraries: DML opens a transaction on the connection, a commit or a
rollback ends it, a returned connection is rolled back.

### HttpGateway

`ToLlmResponse` and its guards, over bodies whose fields are missing, null or
have a value; what cannot be mapped is an exception, and so is a status other
than success. `MCAgentRunner` gives the runner the replies and failures of a set
of such responses. Two things the mapping shows: a body without `usage` counts
as free, and `finish_reason` is passed on as it comes, so that the
OpenAI-compatible `tool_calls` is, to the loop, neither `stop` nor `tool_use`.
Token counts are taken to be numbers of at least zero, as usage counts are; the
code does not check.

### Sanitizer

An atom is what the regular expressions tell apart: the two halves of a trigger
verb (so that a hidden character can stand in between), its object, a
qualifier, a role, a colon, a newline, a blank, a hidden character. The four
steps are four operators and `Clean` their order. One role stands for the five
and one verb for each kind of pattern; `reveal` differs from `override` only in
its words. The newline is `\n`, after which a line begins to the code; the bare `\r`
that stripping also keeps (`_KEEP_CONTROL`) begins no line there and is no atom.
Nor are the markers of the fence: a payload that contains them is left as it is by
the code, and no property speaks of it.

### DepAudit

A requirement is a record with the structure PEP 508 gives it, and `Tokens` is
its text, cut into the tokens that the audit looks for; names and versions hold
none of them (`AuditAssumption`). The audit (`SplitRequirement`) sees only the text,
the properties only the structure. PyPI's releases are fixed during an audit, any answer may fail to
come, and a body that cannot be read ends in a traceback. `Clause` has three of the
operators, one for each way in which the code's splitting meets them. Left out are
`===`, of which the code takes the last `=` for a part of the version; a file that does not
parse, which ends in a traceback before anything is audited; and tables and lists
of another type, which `collect_dependencies` passes over.

## 3. Runs

| run | question | result |
|---|---|---|
| `runner` | do caps, ledger, log, conversation, spans and final row agree in every wiring, from every prior state; does every run end although the gateway owes no answer; does the runner implement `BoundedRun`, fairness included? | holds |
| `attempts` | does the committed log stay sound and only grow over three attempts, and is each of them capped by itself? | holds |
| `concurrent_resume` | what do three runners on one run do to its log and its status? | the log stays sound; status and last answer agree but for the races that `AnswerIsLast` and `AnswerIsTold` delimit |
| `service` | do requests, polls, job and crashes fit together as one record that is written twice, and is a run whose job was not hit reported as ended? | holds |
| `store_server` | from a cold start, with too few threads and connections: does what was accepted stay, does no answer rest on uncommitted writes, and are clients told their outcome? | holds |
| `sanitizer` | does any step undo or hide from another, or change more than it says? | holds |
| `dep_audit` | does the audit of the text agree with the structure? | holds |
| `runner_blocking_chat` | does the deadline reach a chat that does not yield? | no, against the comment at `runner.py:263` |
| `attempts_budget` | is the budget cumulative over a resumed run? | no, against the module docstring |
| `service_stuck` | is every error recorded as a terminal status? | no, against the docstring of `_execute` |
| `store_shared` | does an accepted run persist when requests overlap on the default store? | no, against the docstring of `get_engine` |
| `dep_audit_forms` | does only `name==version` pass? | no, against the docstring of `_split_requirement` |

Each "no" is a finding in `PROJECT.json`, with the line it quotes.

More disagreements were seen while modelling and have no run of their own:

- `docs/diagrams/flow-loop-control.md:9-10,16` has a rejected tool end in "Abort
  run — status: failed", and `docs/diagrams/agent-run-state.md:16` says
  "running --> failed : unhandled exception". `run` catches cap breaches only
  (`runner.py:291`): after `ToolNotAllowedError` (237) or an error of the chat
  (198) it leaves the row `running`, with the tokens it had before. The service's
  handler makes such a row `failed` (`run_service.py:217-227`, checked by
  `OutcomeIsTheRunners`); whoever uses the runner alone commits a row that stays
  `running`. `OutcomeIsOnTheRow` requires neither: it says that such a row is not
  `capped` or `completed`;
- a client's own `TimeoutError` is reported as the run's deadline
  (`runner.py:276`);
- a run that has ended can be resumed and leaves its final status
  (`runner.py:154`, against `docs/diagrams/agent-run-state.md:22-24`); it keeps its
  `ended_at`, and stays `running` with it when an error breaks it off;
- of two resumptions at once, one that read the row before the other's answer
  was committed and the log after it leaves `completed` over steps that do not
  end in an answer, and polls serve the last of them (`runner.py:150-152`,
  against `_final_answer`). `AnswerIsLast` states that this is the only way;
- conversely a run can have its answer as its last step and not say so, and polls
  then never serve it: a resumption that has no step to insert meets no
  constraint, so a capped or failed one that read the row long ago writes its
  status over `completed`; and an attempt that read `completed` does not write it
  again, so that a status set between its two reads stays over its own answer
  (`runner.py:150-159`, against `docs/diagrams/agent-run-state.md:14,22`). `AnswerIsTold` states that
  there is no other way;
- a failed run keeps `tokens_used = 0` (`run_service.py:222`);
- a job that twice gets no connection leaves its row `created` for good, and so
  does a process that dies between the commit of the POST and the end of the job:
  nothing takes such a run up;
- an agent file that does not validate ends the POST with an uncaught exception,
  where an unknown agent is a 422 (`run_service.py:109-114`);
- `config.py:5-8` and `46-48` say that without a database runs are not stored and
  GET answers 503; `deps.py` stores them in memory;
- any non-empty version, `latest` included, counts as a pin of a Trunk tool
  (`dep_audit.py:167`).

**Bounds.** `MaxIterations` and `TokenBudget` of 3 allow the budget to break at
the first, a middle and the last permitted reply, and both caps to be reached in
the same iteration. Replies cost 0, 1, 2 or 4: free, exact, and more than the
whole budget; every `finish_reason` meets every kind of content the code tells
apart. Two clock units let the deadline pass between the two clock reads, during
a chat, and while a reply is waiting. `MCWirings` leaves each collaborator out in
turn, and `MCPriors` gives a resumed run no row, the service's row, an
interrupted log and a capped one. `MaxAttempts` of 3 is the first number in which a
resumed attempt is itself resumed. `ConcurrentResume` has three runners with up to
two steps each: a rival, a second one while the first has committed, and attempts
that add nothing. One run is enough for `RunService` with a
database server: runs share no rows there. `SessionStore` has two runs, the polls of
their clients and one with a wrong id, so that each kind of session meets another of its own kind and
of every other; three threads and two connections are the least with which two
jobs can take every connection and a third session still wait for one.
`Sanitizer` takes every text of up to five atoms (a verb, a hidden
character in it, a blank and an object; or two lines with a role) and up to six
for the second pattern with its qualifier; a window of one atom stands for the
forty characters, with objects inside and outside it. `DepAudit` takes every
requirement with at most one clause, the forms of two, lists of two in an
optional group, and ages on both sides of the floor.

**Fairness.** The coroutine moves when it can (`WF` on `Runner`): the event loop
runs ready tasks. The timer runs when it is due and the loop is free (`WF` on
`TimerFires`), and time passes (`WF` on `Tick`). The gateway gets none: nothing in
the code makes it answer. `RunService` adds a served request, a started job and
a client that goes on polling; a crash or a database error is never required
and never excluded. `AcceptedRunEnds` asks nothing of a run whose job was hit by one, and
takes it that polls do not fail for ever. In `SessionStore` a session that has
its thread goes on, a job and a client come to their turn, and what waits for a
connection gets one in the end or times out (`SF` on the jobs and on the wrong-id
poll, which would otherwise be passed over each time a connection is free): a
queue wakes its waiters in order. No request has to be sent.

**Deadlock** is checked, except in `sanitizer` and the audit's runs, where the
program just ends, and in `store_server`, where clients that have been told stop polling; the other specifications let an ended run stutter explicitly, so that
any other stop is an error.

## 4. Proofs

Each theorem holds for every value of the constants that satisfies the module's
assumption.

| module | theorem | statement |
|---|---|---|
| `AgentRunner_proofs` | `TypeCorrect` | `Spec => []TypeOK` |
| | `SpendingCapped` | `Spec => []SpendingIsCapped` |
| | `CapsAreReal` | `Spec => []CapIsReal` |
| | `Accounting` | `Spec => []TokensAreAccounted` |
| | `LogSound` | `Spec => []StepLogIsSound` |
| | `OutcomeOnRow` | `Spec => []OutcomeIsOnTheRow` |
| | `ContextFenced` | `Spec => []ContextIsFenced` |
| | `AnswerLogged` | `Spec => []FinalAnswerIsLogged` |
| | `LedgerBalanced` | `Spec => []LedgerMatchesLog` |
| | `SpansMatched` | `Spec => []SpansMatch` |
| | `Implements` | `Spec => Bounded!Spec` |
| | `CapsKept` | `Spec => []Bounded!CapsAreKept` |
| `RunAttempts_proofs` | `StoredLogSound` | `AttemptsSpec => []StoredLogIsSound` |
| | `StoredLogGrows` | `AttemptsSpec => StoredLogOnlyGrows` |
| | `CompletedAnswered` | `AttemptsSpec => []CompletedHasAnswer`, if every run in `Priors` is answered |
| | `AttemptsCapped` | `AttemptsSpec => []EachAttemptIsCapped` |
| `ConcurrentResume_proofs` | `LogStaysGapless` | `Spec => []SharedLogIsGapless` |
| | `RivalsReject` | `Spec => []RejectedOnlyByRival` |
| | `AnswerComesLast` | `Spec => []AnswerIsLast` |
| | `AttemptsAreWhole` | `Spec => []WinnersAreWhole` |
| | `AnswerTold` | `Spec => []AnswerIsTold` |
| `RunService_proofs` | `ServiceTypeCorrect` | `ServiceSpec => []ServiceTypeOK` |
| | `RunIsFound` | `ServiceSpec => []AcceptedRunIsFound` |
| | `NothingForRefused` | `ServiceSpec => []GatewayServesAcceptedRuns` |
| | `LogWithOutcome` | `ServiceSpec => []LogComesWithOutcome` |
| | `OutcomeMatches` | `ServiceSpec => []OutcomeIsTheRunners` |
| | `PollsTellOutcome` | `ServiceSpec => []PollTellsTheOutcome` |
| | `ServiceSpendingCapped` | `ServiceSpec => []SpendingIsCapped` |
| | `ServiceImplements` | `ServiceSpec => ImplementsRunLifecycle` |
| | `ToldPast` | `ServiceSpec => []Lifecycle!ToldIsPast` |
| | `PollsAlwaysAgree` | `ServiceSpec => Lifecycle!PollsAgree` |
| `SessionStore_proofs` | `RowPersists` | `Spec => []AcceptedRowPersists`, on a database server |
| | `ResultComesWithSuccess` | `Spec => []SuccessHasResult`, on a database server |
| | `OutcomeStored` | `Spec => []OutcomeIsStored`, on a database server |
| | `ToldStored` | `Spec => []ToldIsStored`, on a database server |
| `Sanitizer_proofs` | `OutputDefanged` | `Spec => []OutputIsDefanged` |
| | `WordsAreKept` | `Spec => []TextIsPreserved` |
| | `HarmlessKept` | `Spec => []CleanTextIsKept` |
| `DepAudit_proofs` | `ExitOkMeansOldEnough` | `Spec => []OkMeansOldEnough` |
| | `ReportsRight` | `Spec => []ReportsAreRight` |

None of the invariants is inductive.

*Induction over data.* The induction theorems of the library take an operator as
a parameter, which the provers cannot instantiate. One of them does not:
`WFMin` of `WellFoundedInduction` says that a set of numbers that is not empty
has a least element. `Upwards`, in `SequenceLemmas`, makes of it an induction over a
*set* of positions (the least position outside it cannot exist), and what is
claimed of every position is put as membership in such a set. That is enough for
sums along a log, for `FlattenSeq`, for chains of adjacent atoms, and for the
greatest of a finite set of numbers. `SequenceLemmas` holds what follows from it
for any sequence: `FlattenConcat`, and `Standing`, which says where the members of
each piece stand in the flattened sequence; the sanitizer's text and the text of a
requirement are both read that way.

*The runner.* `SpendingIsCapped` bounds calls, but the code compares `iterations`,
which lags one behind while a chat is in flight; hence `CountersInv`. The
overspending of one reply needs that every run that goes on is within its budget
(`BudgetInv`). The bill is the count plus the reply in flight (`BillInv`). The
numbering needs `step_idx` to be the length of the log whenever the run has a row
(`LogInv`), and `SetupResume` establishes it through `LastIdxOfGapless`: the
highest index of a gapless log is one less than its length. The type invariant
depends on that too, since the maximum of an empty log has no type. `IInv` is
their conjunction; each has a lemma with one step per action, and `Invariance`
puts them together. The refinement uses the same invariant: `CheckIterations`
maps to `OutOfIterations` only because calls and iterations agree there,
`ChatTimesOut` to `OutOfTime` only because a failed chat with `TimeoutError`
implies `client_late`. `OutcomeOnRow` adds that a row in use is `running`, and
`ContextFenced` that the conversation is one longer than the responses.
`AnswerLogged` follows the answer from `AcceptReply`, which logs it, to the row.
`LedgerBalanced` rests on what appending one or two steps does to `TokensOf`, a
sum along the log; the invariant adds to it the reply that was counted and broke
the budget before it could be logged. `SpansMatched` needs that one response
more is one span more exactly if its tool is checked and allowed. `CapsKept` is
the promise of `BoundedRun` carried back to the runner: the abstract run keeps its
caps (`BoundedStep`), and every step of the runner is one of its steps.

*Attempts.* `AttemptsInv` is `IInv` while a session is open, with the log of the
session extending the stored one (`SessionInv`); when it is closed the stored run
alone must be sound, which is all that a resumed attempt assumes of it
(`Prior`). So the runner's proof is used once per attempt.
`CompletedAnswered` adds (`AnsweredInv`) that the stored run is answered and that
the row of a session at work is running, not completed. It assumes the same of
the runs an attempt finds at first. `AttemptsCapped` compares the session's log
with the stored one: what an attempt has added is at most what it has counted
since it began (`SpendingInv`), and a reply that breaks the budget is counted and
not logged. So each attempt is held by its own caps, whatever the history of the
run; that the caps are not those of the run as a whole is what `attempts_budget`
shows.

*Concurrent resumption.* The log only grows, so a runner that has read its end
can at most be behind it. `PlansInv` says that it plans to insert from where it
read, and `BehindInv` that if it is behind, a rival has committed from the same
index. A commit that does not collide therefore starts at the end of the log or
inserts nothing, and one that does has its rival. `AnswerPlanned` adds that a plan
to complete the run ends with the answer, which is why `AnswerComesLast` holds: the
answer is last, or the last step is of a winner that ended with the status it had
read and so wrote none. `AttemptsAreWhole` adds where in the log each winner's steps
begin. `AnswerTold` needs that too, since only an attempt that has won can have
the last step, and `SeenInv`: where the status is not what an attempt at work has read,
a rival that has won set it since.

*The service.* `ServiceInv` ties `post`, `job` and the committed row to the
runner's `pc`, and takes the runner's own invariants over, since the service's
steps either are the runner's or leave it alone. The refinement needs from it
that a completed run is stored with its log, and that after the outcome is
stored no job can write. `PollsTellOutcome` needs more of the log (`AnswerInv`):
its last LLM step is the reply that stopped the run, and a poll between its two
reads has read a row that can no longer change. The type of an answer depends on
that, since `FinalAnswer` reads a step of the log. `ToldPast` and
`PollsAlwaysAgree` are promises of `RunLifecycle` that the refinement carries back
to the service.

*The sessions.* `StoreInv` says, for each run, where its request, its job and its
poll can be and what each of them has written or read by then (`PostInv`,
`JobInv`, `PollInv`); polls have nothing pending, so their rollbacks undo nothing. All
of it rests on `~OneConnection`: a session's unfinished writes are its own. On
the in-memory default they are everybody's, and the run `store_shared` violates
the first of these theorems there, so the assumption is what the code needs, not a
convenience of the proof. The number of threads and connections is left open: the
pools decide who waits, never what is stored.

*The sanitizer.* `CleanInv` says only that the text is the output after the four
steps; the work is in the lemmas about the steps. Each takes a text to
`FlattenSeq` of one piece per atom, so `FlattenConcat` and `WithoutPieces` give
what is left when marks are dropped from the result (`WordsAreKept`; for a
forged role, whose atoms go and whose word comes back at its end, along the
positions of the role), and `HarmlessKept` is the case in which every piece is
its atom. `OutputDefanged` is about what comes to stand side by side. `Standing`
says where the atoms of each piece stand in the flattened text, and `Placed` what
that means for `Bracket`: atoms keep their order and come no nearer to each
other, and only a bracket of an imperative comes between two of them. Hence a
role that opens a line, or an imperative with its object in the window, that is
found after a step was there before it, in the same atoms (`RoleCarried`,
`TriggerBack`; a word that ends at a new bracket ended there before, because the
bracket stands at the edge of a verb, `BoundaryBack`). So stripping comes first and
`DefuseForgedRoles` leaves no role to carry; an imperative that is still
recognised is one that has got its brackets, and the second pattern puts nothing
between the first and its own (`StillBracketed`).

*The audit.* Its properties speak of the structure of a requirement and its code
of the text, so the first half of the proof reads the text. `SpecIs` cuts the
marker off, `NameIs` finds the name, and `AfterEquals` says what follows the first
`==`: the version of the clause it belongs to, its star, and the comma of the
next clause if there is one. Hence what is accepted as a pin ends in a plain `==`
clause, whose version it is (`PinnedVersion`), whatever clauses come before it,
which is all that `ExitOkMeansOldEnough` needs; and with one clause at most the
pins are the exact ones (`PinnedIsExact`). The other half is `AuditInv`: every item
that has been passed has the lines it deserves (`JudgedAs`), the lines come in the
order of the items, and none is of an item still to come, without which the
lines of the next item would not be its own. `AgeIs` needs of PyPI that a version
has finitely many files, since the age is that of the earliest. The other
assumptions on the constants say what type each has, and that neither a name
nor a version contains the punctuation that the audit looks for, as PEP 508
has it.

The assumptions on the runner are the validator's (`AgentSpec` demands caps above zero), that
no tool is named by `None`, and that what an earlier attempt left is a sound log,
which is what `LogSound` shows of each attempt and `StoredLogSound` of the
committed log.

Only model-checked: liveness (`Terminates`, `AcceptedRunEnds`, `AcceptedIsTold`,
the abstract fairness), which these provers cannot do. Every invariant and every
action property that a passing run checks is also a theorem; `SessionStore`'s of
a database server only, because on the shared connection one of them fails.

## 5. Not modelled, and the plan

Not modelled: the layout of rows, payloads, spans and messages; time in units
finer than `timeout_s` needs; what the gateway may bill for a request after it
was cancelled; isolation levels weaker than a committed-state server; which
values of the fields of a spec are valid, beyond the caps; span attributes and
exporters; `create_app` and the settings, which build an application once and
have no behaviour after that.

Components left out altogether, because they hold no behaviour that a model
could get wrong: the migration (it creates the two tables the models assume),
charts and pipelines (configuration), the demo agent (a script over the same
loop) and the exporter of the OpenAPI contract.

What could follow: the composition of `SessionStore` with `RunService`, so that
several runs each with its runner share the pool. Its states are out of TLC's
reach as the modules stand; the runner would have to be replaced by `BoundedRun`.
