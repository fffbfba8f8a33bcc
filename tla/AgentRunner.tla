------------------------------ MODULE AgentRunner ------------------------------
(***************************************************************************)
(* One call of AgentRunner.run (src/app/loop/runner.py): the loop that     *)
(* calls the LLM gateway until it answers "stop", under three hard caps    *)
(* (iterations, tokens, wall time), with its four optional collaborators:  *)
(* the tool registry, the sanitizer, the database session and the tracer.  *)
(*                                                                         *)
(* The runner is one coroutine.  It gives up control only inside           *)
(* client.chat, so what it does between two chats is cut into actions only *)
(* where it reads the clock.  The gateway, the clock and the timer of      *)
(* asyncio.wait_for move on their own.                                     *)
(***************************************************************************)
EXTENDS Naturals, Sequences, SequencesExt, FiniteSetsExt

CONSTANTS
  MaxIterations,  \* spec.max_iterations
  TokenBudget,    \* spec.token_budget
  TimeoutS,       \* spec.timeout_s; elapsed time counts whole units up to it
  Whitelist,      \* spec.tool_whitelist
  Tools,          \* the tool names a reply can carry
  NoTool,         \* the None of _extract_tool_name; no tool is called that
  Replies,        \* the replies the gateway may give
  ChatErrors,     \* how chat may fail: "error" is any exception but TimeoutError
  ChatYields,     \* does chat give up control while it waits for the gateway?
  DbFaults,       \* may a read of the database raise?
  Wirings,        \* the collaborators injected: see Wiring
  Priors          \* what the session may hold of the run: see Prior

-----------------------------------------------------------------------------
\* Data

\* A reply's content is text.  What the runner makes of it depends only on
\* whether it starts with "tool:" and on what remains of it, stripped.
Content == [prefixed : BOOLEAN, rest : Tools \cup {NoTool}]
Reply == [finish : {"stop", "tool_use", "other"}, content : Content, tokens : Nat]

Wiring == [registry : BOOLEAN, sanitizer : BOOLEAN, session : BOOLEAN,
           tracer : BOOLEAN, resume : BOOLEAN]

Status == {"created", "running", "completed", "failed", "capped"}

\* The agent_runs row and the agent_steps of the run, as its session sees them.
NoRow == [status |-> "absent", tokens_used |-> 0, ended_at |-> "null"]
Row == [status : Status, tokens_used : Nat, ended_at : {"null", "set"}] \cup {NoRow}
LlmStep(i, r) == [idx |-> i, type |-> "llm_call", reply |-> r]
ToolStep(i, t) == [idx |-> i, type |-> "tool_call", tool |-> t]
Step == [idx : Nat, type : {"llm_call"}, reply : Replies]
        \cup [idx : Nat, type : {"tool_call"}, tool : Tools]

\* The tool a tool_use reply asks for; the caller reads it only for those.
ExtractToolName(content) ==
  IF content.prefixed /\ content.rest # NoTool THEN content.rest ELSE NoTool

\* Where the LLM steps of a log are.
LlmSteps(log) == {i \in DOMAIN log : log[i].type = "llm_call"}

\* Steps are numbered from 0 without a gap.
Gapless(log) == \A i \in DOMAIN log : log[i].idx = i - 1

\* A tool step answers the LLM step before it, with a whitelisted tool.
ToolStepsAnswer(log) ==
  \A i \in DOMAIN log : log[i].type = "tool_call" =>
    /\ log[i].tool \in Whitelist
    /\ i > 1
    /\ log[i - 1].type = "llm_call"
    /\ log[i - 1].reply.finish = "tool_use"
    /\ ExtractToolName(log[i - 1].reply.content) = log[i].tool

Prior == {p \in [row : Row, steps : Seq(Step)] :
            /\ Gapless(p.steps)
            /\ ToolStepsAnswer(p.steps)
            /\ p.row = NoRow => p.steps = <<>>}

ASSUME RunnerAssumption ==
  /\ MaxIterations \in Nat \ {0}
  /\ TokenBudget \in Nat \ {0}
  /\ TimeoutS \in Nat \ {0}
  /\ Whitelist \subseteq Tools
  /\ NoTool \notin Tools
  /\ Replies \subseteq Reply
  /\ ChatErrors \subseteq {"error", "timeout"}
  /\ ChatYields \in BOOLEAN
  /\ DbFaults \in BOOLEAN
  /\ Wirings \subseteq Wiring
  /\ Priors \subseteq Prior

-----------------------------------------------------------------------------
VARIABLES
  wiring,       \* which collaborators this call was given
  pc,           \* where the coroutine stands, or how it ended
  elapsed,      \* time.monotonic() - started, saturating at TimeoutS
  iterations,
  tokens_used,
  step_idx,
  messages,     \* the conversation: "user", then one entry per response
  responses,
  call,         \* the chat in flight: see Call
  cap           \* CapBreachError.cap

\* The run in the database session.
VARIABLES row, steps

\* What an observer at the gateway and at the tracer sees.  The code has no
\* such state; only properties read it.
VARIABLES
  calls,        \* chat calls made
  billed,       \* tokens of every reply the gateway produced
  client_late,  \* a chat has failed with the client's own TimeoutError
  open_spans, llm_spans, tool_spans  \* spans open, and started of each kind

gateway == <<calls, billed, client_late>>
spans == <<open_spans, llm_spans, tool_spans>>
local == <<iterations, tokens_used, step_idx, messages, responses>>
vars == <<wiring, pc, elapsed, local, call, cap, row, steps, gateway, spans>>

Endings == {"returned", "capped", "raised"}
Caps == {"max_iterations", "token_budget", "timeout_s"}

\* A chat is not there, waits for the gateway, or has its outcome.
NoCall == [state |-> "none"]
Pending == [state |-> "pending"]
Replied(r) == [state |-> "replied", reply |-> r]
Failed(e) == [state |-> "failed", with |-> e]
Call == {NoCall, Pending} \cup {Replied(r) : r \in Replies} \cup {Failed(e) : e \in ChatErrors}

-----------------------------------------------------------------------------
\* Helpers.  An operator marked "Mutant" is a plausible bug, kept beside the
\* definition it would replace; nothing uses it but the mutation runs.

\* The caps checked before a call.
\* Mutants: a deadline one unit early; one iteration too many.
TimeLeftLessOne == elapsed + 1 < TimeoutS
TimeLeft == elapsed < TimeoutS
IterationsLeftPlusOne == iterations <= MaxIterations
IterationsLeft == iterations < MaxIterations

\* The timer of wait_for has run out, and the event loop can run it.
\* Mutant: the time is only looked at once the gateway has answered.
TimerDueAfterAnswer == elapsed >= TimeoutS /\ call # Pending
TimerDue == elapsed >= TimeoutS /\ ChatYields

\* Steps and status changes are recorded only for a run with a row.
Persists == wiring.session /\ row # NoRow

\* get_last_step_idx: the highest idx in the log.
LastStepIdx == Max({steps[i].idx : i \in DOMAIN steps})

\* The runner looks at the tool of a reply only when it was given a registry.
CheckedTool(r) ==
  IF r.finish = "tool_use" /\ wiring.registry THEN ExtractToolName(r.content) ELSE NoTool

AssertAllowed(tool) == tool \in Whitelist

Rejected(r) == CheckedTool(r) # NoTool /\ ~AssertAllowed(CheckedTool(r))

\* The steps an accepted reply appends: the LLM call, then the tool call.
\* Mutant: a tool step for every tool_use, whether or not it names a tool.
StepsOfEveryToolUse(r) ==
  IF r.finish = "tool_use" /\ wiring.registry
  THEN <<LlmStep(step_idx, r), ToolStep(step_idx + 1, CheckedTool(r))>>
  ELSE <<LlmStep(step_idx, r)>>
StepsOf(r) ==
  IF CheckedTool(r) = NoTool
  THEN <<LlmStep(step_idx, r)>>
  ELSE <<LlmStep(step_idx, r), ToolStep(step_idx + 1, CheckedTool(r))>>

AppendSteps(new) ==
  IF Persists
  THEN steps' = steps \o new /\ step_idx' = step_idx + Len(new)
  ELSE UNCHANGED <<steps, step_idx>>

\* update_run_status as the end of the run calls it.
\* Mutant: the token count is not passed.
EndRowWithoutTokens(status, tokens) ==
  row' = IF Persists THEN [row EXCEPT !.status = status, !.ended_at = "set"] ELSE row
EndRow(status, tokens) ==
  row' = IF Persists
         THEN [status |-> status, tokens_used |-> tokens, ended_at |-> "set"]
         ELSE row

\* CapBreachError leaves the loop: the handler marks the row, then re-raises.
\* Mutant: the handler is missing.
RaiseCapBreachUnmarked(name, tokens) == pc' = "capped" /\ cap' = name /\ row' = row
RaiseCapBreach(name, tokens) ==
  /\ pc' = "capped"
  /\ cap' = name
  /\ EndRow("capped", tokens)

\* The chat is over, and with it the span around it.
\* Mutant: the span is closed only on the way that returns.
CloseCallOnly == call' = NoCall /\ UNCHANGED spans
CloseCall == call' = NoCall /\ open_spans' = 0 /\ UNCHANGED <<llm_spans, tool_spans>>

\* A tool that may be called gets a span of its own, closed at once: the tool
\* itself runs elsewhere.
OpenToolSpan(r) ==
  tool_spans' = tool_spans + (IF wiring.tracer /\ CheckedTool(r) # NoTool THEN 1 ELSE 0)

\* What re-enters the conversation for a response.
\* Mutant: only the output of checked tools is sanitized.
ForContextChecked(r) ==
  IF CheckedTool(r) # NoTool /\ wiring.sanitizer THEN "fenced" ELSE "verbatim"
ForContext(r) ==
  IF r.finish = "tool_use" /\ wiring.sanitizer THEN "fenced" ELSE "verbatim"

-----------------------------------------------------------------------------
\* Setting up the run

Init ==
  /\ wiring \in Wirings
  /\ \/ /\ wiring.session /\ wiring.resume
        /\ \E p \in Priors : row = p.row /\ steps = p.steps
     \/ /\ ~(wiring.session /\ wiring.resume)
        /\ row = NoRow /\ steps = <<>>
  /\ pc = "setup" /\ elapsed = 0
  /\ iterations = 0 /\ tokens_used = 0 /\ step_idx = 0
  /\ messages = <<>> /\ responses = <<>>
  /\ call = NoCall /\ cap = "none"
  /\ calls = 0 /\ billed = 0 /\ client_late = FALSE
  /\ open_spans = 0 /\ llm_spans = 0 /\ tool_spans = 0

\* The local state every call starts from, whatever was persisted before.
\* Mutant: the numbering of steps restarts too.
StartClockFromZero(idx) ==
  /\ pc' = "top"
  /\ elapsed' = 0
  /\ iterations' = 0 /\ tokens_used' = 0 /\ step_idx' = 0
  /\ messages' = <<"user">> /\ responses' = <<>>
  /\ UNCHANGED <<wiring, call, cap, gateway, spans>>
StartClock(idx) ==
  /\ pc' = "top"
  /\ elapsed' = 0
  /\ iterations' = 0 /\ tokens_used' = 0 /\ step_idx' = idx
  /\ messages' = <<"user">> /\ responses' = <<>>
  /\ UNCHANGED <<wiring, call, cap, gateway, spans>>

\* A session and no run to resume: the row is created, then marked running.
SetupFresh ==
  /\ pc = "setup"
  /\ wiring.session /\ ~wiring.resume
  /\ row' = [status |-> "running", tokens_used |-> 0, ended_at |-> "null"]
  /\ steps' = <<>>
  /\ StartClock(0)

\* The run to resume is marked running, whatever its status was; its log
\* decides where the numbering continues.  A run that is not found leaves the
\* runner without a row, and nothing is persisted.
SetupResume ==
  /\ pc = "setup"
  /\ wiring.session /\ wiring.resume
  /\ row' = IF row = NoRow THEN NoRow ELSE [row EXCEPT !.status = "running"]
  /\ UNCHANGED steps
  /\ StartClock(IF steps = <<>> THEN 0 ELSE LastStepIdx + 1)

\* No session, nothing to persist.
SetupWithoutSession ==
  /\ pc = "setup"
  /\ ~wiring.session
  /\ UNCHANGED <<row, steps>>
  /\ StartClock(0)

\* One of the two reads of a resumed run raises.
SetupFails ==
  /\ pc = "setup"
  /\ DbFaults
  /\ wiring.session /\ wiring.resume
  /\ pc' = "raised"
  /\ UNCHANGED <<wiring, elapsed, local, call, cap, row, steps, gateway, spans>>

-----------------------------------------------------------------------------
\* The loop, up to the chat

\* The time that remains is computed; none left ends the run.
LoopTop ==
  /\ pc = "top"
  /\ IF TimeLeft
     THEN pc' = "check" /\ UNCHANGED <<cap, row>>
     ELSE RaiseCapBreach("timeout_s", tokens_used)
  /\ UNCHANGED <<wiring, elapsed, local, call, steps, gateway, spans>>

\* _one_iteration begins: it reads the clock again, then the iteration count.
CheckTime ==
  /\ pc = "check"
  /\ ~TimeLeft
  /\ RaiseCapBreach("timeout_s", tokens_used)
  /\ UNCHANGED <<wiring, elapsed, local, call, steps, gateway, spans>>

CheckIterations ==
  /\ pc = "check"
  /\ TimeLeft
  /\ ~IterationsLeft
  /\ RaiseCapBreach("max_iterations", tokens_used)
  /\ UNCHANGED <<wiring, elapsed, local, call, steps, gateway, spans>>

\* Neither cap is reached: the chat is awaited, inside a span when traced.
StartChat ==
  /\ pc = "check"
  /\ TimeLeft
  /\ IterationsLeft
  /\ pc' = "chat"
  /\ call' = Pending
  /\ calls' = calls + 1
  /\ IF wiring.tracer
     THEN open_spans' = 1 /\ llm_spans' = llm_spans + 1 /\ UNCHANGED tool_spans
     ELSE UNCHANGED spans
  /\ UNCHANGED <<wiring, elapsed, local, cap, row, steps, billed, client_late>>

-----------------------------------------------------------------------------
\* After the chat.  Nothing below gives up control before the next iteration.

\* The reply the coroutine resumes with.
ReplyReady == pc = "chat" /\ call.state = "replied"
reply == call.reply

\* Whatever the reply says, it has been counted.
\* Mutant: only the calls that do not end the run are.
CountReplyUnlessStop ==
  /\ iterations' = iterations + 1
  /\ tokens_used' = tokens_used + (IF reply.finish = "stop" THEN 0 ELSE reply.tokens)
CountReply ==
  /\ iterations' = iterations + 1
  /\ tokens_used' = tokens_used + reply.tokens

\* The reply breaks the token budget: counted, but neither logged nor used.
BreachTokenBudget ==
  /\ ReplyReady
  /\ tokens_used + reply.tokens > TokenBudget
  /\ CountReply
  /\ RaiseCapBreach("token_budget", tokens_used + reply.tokens)
  /\ CloseCall
  /\ UNCHANGED <<wiring, elapsed, step_idx, messages, responses, steps, gateway>>

\* The reply names a tool that is not whitelisted: ToolNotAllowedError leaves
\* run() with the LLM step logged and the row still running.
RejectTool ==
  /\ ReplyReady
  /\ tokens_used + reply.tokens <= TokenBudget
  /\ Rejected(reply)
  /\ CountReply
  /\ AppendSteps(<<LlmStep(step_idx, reply)>>)
  /\ pc' = "raised"
  /\ CloseCall
  /\ UNCHANGED <<wiring, elapsed, messages, responses, cap, row, gateway>>

\* The reply is logged and joins the conversation; "stop" completes the run.
AcceptReply ==
  /\ ReplyReady
  /\ tokens_used + reply.tokens <= TokenBudget
  /\ ~Rejected(reply)
  /\ CountReply
  /\ AppendSteps(StepsOf(reply))
  /\ responses' = Append(responses, reply)
  /\ messages' = Append(messages, ForContext(reply))
  /\ IF reply.finish = "stop"
     THEN pc' = "returned" /\ EndRow("completed", tokens_used + reply.tokens)
     ELSE pc' = "top" /\ UNCHANGED row
  /\ call' = NoCall
  /\ open_spans' = 0 /\ UNCHANGED llm_spans
  /\ OpenToolSpan(reply)
  /\ UNCHANGED <<wiring, elapsed, cap, gateway>>

\* chat raised.  A TimeoutError of the client's own cannot be told from that
\* of wait_for and becomes a cap breach; any other exception leaves run().
ChatTimesOut ==
  /\ pc = "chat"
  /\ call = Failed("timeout")
  /\ RaiseCapBreach("timeout_s", tokens_used)
  /\ CloseCall
  /\ UNCHANGED <<wiring, elapsed, local, steps, gateway>>

ChatRaises ==
  /\ pc = "chat"
  /\ call = Failed("error")
  /\ pc' = "raised"
  /\ CloseCall
  /\ UNCHANGED <<wiring, elapsed, local, cap, row, steps, gateway>>

\* wait_for's timer cancels the coroutine where it waits, in chat, and drops a
\* reply that has arrived but not been delivered.  A chat that does not yield
\* keeps the event loop, and the timer with it, from running.
TimerFires ==
  /\ pc = "chat"
  /\ TimerDue
  /\ RaiseCapBreach("timeout_s", tokens_used)
  /\ CloseCall
  /\ UNCHANGED <<wiring, elapsed, local, steps, gateway>>

-----------------------------------------------------------------------------
\* The environment

\* The gateway answers: from here on the tokens are spent, whoever reads them.
GatewayReplies(r) ==
  /\ call = Pending
  /\ call' = Replied(r)
  /\ billed' = billed + r.tokens
  /\ UNCHANGED <<wiring, pc, elapsed, local, cap, row, steps, calls, client_late, spans>>

GatewayFails(e) ==
  /\ call = Pending
  /\ call' = Failed(e)
  /\ client_late' = (client_late \/ e = "timeout")
  /\ UNCHANGED <<wiring, pc, elapsed, local, cap, row, steps, calls, billed, spans>>

\* Time passes while the runner runs.
Tick ==
  /\ pc \in {"top", "check", "chat"}
  /\ elapsed < TimeoutS
  /\ elapsed' = elapsed + 1
  /\ UNCHANGED <<wiring, pc, local, call, cap, row, steps, gateway, spans>>

\* A run that has ended does nothing more.
Ended == pc \in Endings /\ UNCHANGED vars

Runner ==
  \/ SetupFresh \/ SetupResume \/ SetupWithoutSession \/ SetupFails
  \/ LoopTop \/ CheckTime \/ CheckIterations \/ StartChat
  \/ BreachTokenBudget \/ RejectTool \/ AcceptReply
  \/ ChatTimesOut \/ ChatRaises

Environment ==
  \/ \E r \in Replies : GatewayReplies(r)
  \/ \E e \in ChatErrors : GatewayFails(e)
  \/ Tick

Run == Runner \/ TimerFires \/ Environment

Next == Run \/ Ended

Spec == Init /\ [][Next]_vars

\* The event loop runs what is ready and its timer when it can, and time goes
\* by.  Nothing makes the gateway answer.
Fairness == WF_vars(Runner) /\ WF_vars(TimerFires) /\ WF_vars(Tick)

FairSpec == Spec /\ Fairness

-----------------------------------------------------------------------------
\* Properties

\* Every variable has its type; the log keeps the form Prior asks of it.
TypeOK ==
  /\ wiring \in Wiring
  /\ pc \in {"setup", "top", "check", "chat"} \cup Endings
  /\ elapsed \in 0..TimeoutS
  /\ iterations \in Nat /\ tokens_used \in Nat /\ step_idx \in Nat
  /\ messages \in Seq({"user", "verbatim", "fenced"})
  /\ responses \in Seq(Replies)
  /\ call \in Call
  /\ cap \in {"none"} \cup Caps
  /\ row \in Row /\ steps \in Seq(Step)
  /\ calls \in Nat /\ billed \in Nat /\ client_late \in BOOLEAN
  /\ open_spans \in Nat /\ llm_spans \in Nat /\ tool_spans \in Nat

\* However replies, errors and timeouts interleave, a run makes at most
\* MaxIterations gateway calls, and exceeds its token budget by no more than
\* the one reply that made it stop (the checks of _one_iteration).
SpendingIsCapped ==
  /\ calls <= MaxIterations
  /\ tokens_used > TokenBudget =>
       /\ cap = "token_budget"
       /\ \E r \in Replies : tokens_used <= TokenBudget + r.tokens

\* The cap a CapBreachError names has really been reached; a timeout may be
\* the gateway client's own (both raise TimeoutError through wait_for).
CapIsReal ==
  /\ cap = "max_iterations" => iterations = MaxIterations /\ calls = MaxIterations
  /\ cap = "token_budget" => tokens_used > TokenBudget
  /\ cap = "timeout_s" => elapsed >= TimeoutS \/ client_late

\* The run's token count is what the gateway has billed, except for a reply
\* that the timer of wait_for dropped on the floor; such a run is capped.
TokensAreAccounted ==
  /\ tokens_used <= billed
  /\ pc \in Endings /\ tokens_used # billed => cap = "timeout_s" /\ elapsed >= TimeoutS

\* The step log, with what an earlier attempt left in it, is numbered without
\* gap or repetition, and its tool steps answer the LLM steps before them.
StepLogIsSound == Gapless(steps) /\ ToolStepsAnswer(steps)

\* A run that ends with its row "completed" has the stop reply as its last
\* step, the one the service will serve as the result; the row carries the
\* tokens of this attempt and every earlier response asked for more.
FinalAnswerIsLogged ==
  /\ \A i \in DOMAIN responses : responses[i].finish = "stop" <=>
        i = Len(responses) /\ pc = "returned"
  /\ Persists /\ pc = "returned" =>
       /\ row = [status |-> "completed", tokens_used |-> tokens_used, ended_at |-> "set"]
       /\ Last(steps) = LlmStep(step_idx - 1, Last(responses))

\* What the row says of a run that does not return is what its caller is told:
\* "capped", with the tokens and an end, exactly if a cap is named; and no run
\* that an error ended, before or after its reply was counted and logged, claims
\* an ending of its own.
OutcomeIsOnTheRow ==
  Persists /\ pc \in {"capped", "raised"} =>
    /\ pc = "capped" <=> cap # "none"
    /\ pc = "capped" => row.status = "capped" /\ row.tokens_used = tokens_used /\ row.ended_at = "set"
    /\ pc = "raised" /\ calls > 0 => row.status \notin {"capped", "completed"}

\* The tokens of the LLM steps of a log.
StepTokens(s) == IF s.type = "llm_call" THEN s.reply.tokens ELSE 0
TokensOf(log) ==
  LET sum[n \in 0..Len(log)] == IF n = 0 THEN 0 ELSE sum[n - 1] + StepTokens(log[n])
  IN  sum[Len(log)]

\* The tokens of a fresh run are those of its logged steps, plus the reply
\* that broke the budget, which is not logged.
LedgerMatchesLog ==
  Persists /\ ~wiring.resume /\ pc # "setup" =>
    IF cap = "token_budget"
    THEN TokensOf(steps) <= TokenBudget /\ TokensOf(steps) < tokens_used
    ELSE TokensOf(steps) = tokens_used

\* The conversation a chat is given is the user's message and one assistant
\* message per response so far, and no tool output enters it unfenced when a
\* sanitizer is injected.
ContextIsFenced ==
  pc # "setup" /\ calls > 0 =>
    /\ Len(messages) = Len(responses) + 1
    /\ Head(messages) = "user"
    /\ \A i \in DOMAIN responses :
         wiring.sanitizer /\ responses[i].finish = "tool_use" => messages[i + 1] = "fenced"

\* The trace shows one LLM span per gateway call, closed however the call
\* ended, and one tool span per checked tool that was allowed.
SpansMatch ==
  wiring.tracer =>
    /\ llm_spans = calls
    /\ open_spans = IF pc = "chat" THEN 1 ELSE 0
    /\ tool_spans = Cardinality({i \in DOMAIN responses : CheckedTool(responses[i]) # NoTool})

\* Every run ends, even when the gateway never answers (wait_for's timer).
Terminates == <>(pc \in Endings)

\* The runner keeps the promise of BoundedRun.
Phase == CASE pc = "returned" -> "completed"
           [] pc = "capped" -> "capped"
           [] pc = "raised" -> "failed"
           [] OTHER -> "working"
Late == elapsed >= TimeoutS \/ client_late

Bounded == INSTANCE BoundedRun WITH
  phase <- Phase, reason <- cap, waiting <- (pc = "chat"), spent <- tokens_used, late <- Late,
  Costs <- {r.tokens : r \in Replies}

ImplementsBoundedRun == Bounded!FairSpec
=============================================================================
