-------------------------- MODULE AgentRunner_proofs --------------------------
(***************************************************************************)
(* Theorems about AgentRunner, for every value of its constants.           *)
(*                                                                         *)
(* None of the safety properties is inductive by itself: the bound on the  *)
(* calls needs the relation between calls and iterations at every point of *)
(* the loop, and the numbering of the log needs step_idx to follow its     *)
(* length.  IInv adds both, and the type invariant needs it too, because   *)
(* the highest index of a log is a number only in a log that has one.      *)
(***************************************************************************)
EXTENDS AgentRunner, SequenceLemmas

Looping == {"top", "check", "chat"}

\* The calls, the iterations and the cap, at each point of the loop.
CountersInv ==
  /\ pc = "setup" => iterations = 0 /\ calls = 0 /\ tokens_used = 0 /\ ~Late
  /\ pc \in {"top", "check"} => calls = iterations
  /\ pc = "chat" => calls = iterations + 1
  /\ calls <= MaxIterations
  /\ call # NoCall => pc = "chat"
  /\ call = Failed("timeout") => client_late

\* Only a capped run has a cap, and only the reply that broke the token budget
\* took it there.
BudgetInv ==
  /\ pc # "capped" => tokens_used <= TokenBudget /\ cap = "none"
  /\ tokens_used > TokenBudget =>
       /\ cap = "token_budget"
       /\ \E r \in Replies : tokens_used <= TokenBudget + r.tokens
  /\ CapIsReal

\* What has been billed has been counted, except for the reply in flight.
BillInv ==
  /\ pc \in {"setup", "top", "check", "returned", "raised"} => billed = tokens_used
  /\ pc = "chat" => billed = tokens_used + (IF call.state = "replied" THEN call.reply.tokens ELSE 0)
  /\ TokensAreAccounted

\* The log, and where the runner will write in it.
LogInv ==
  /\ StepLogIsSound
  /\ pc \in Looping /\ Persists => step_idx = Len(steps)

IInv == TypeOK /\ CountersInv /\ BudgetInv /\ BillInv /\ LogInv

SpansType == open_spans \in Nat /\ llm_spans \in Nat /\ tool_spans \in Nat

-----------------------------------------------------------------------------
\* Lemmas about the data

\* A reply in flight is one the gateway may give.
LEMMA ReplyInFlight ==
  ASSUME call \in Call, call.state = "replied"
  PROVE  /\ call.reply \in Replies
         /\ call.reply.tokens \in Nat
         /\ call.reply.finish \in {"stop", "tool_use", "other"}
         /\ call.reply.content \in Content
         /\ call # NoCall
<1>1. PICK r \in Replies : call = Replied(r)
  BY DEF Call, NoCall, Pending, Replied, Failed
<1>2. call.reply = r
  BY <1>1 DEF Replied
<1>3. r \in Reply
  BY RunnerAssumption
<1>. QED
  BY <1>1, <1>2, <1>3 DEF Reply, NoCall, Replied

\* The highest index of a gapless log is one less than its length
\* (get_last_step_idx).
LEMMA LastIdxOfGapless ==
  ASSUME steps \in Seq(Step), Gapless(steps), steps # <<>>
  PROVE  LastStepIdx = Len(steps) - 1
<1> DEFINE S == {steps[i].idx : i \in DOMAIN steps}
           n == Len(steps)
<1>1. n \in Nat \ {0} /\ DOMAIN steps = 1..n
  OBVIOUS
<1>2. n - 1 \in S
  <2>1. n \in DOMAIN steps /\ steps[n].idx = n - 1
    BY <1>1 DEF Gapless
  <2>. QED
    BY <2>1
<1>3. \A y \in S : y \in Int /\ n - 1 >= y
  BY <1>1 DEF Gapless
<1>4. \E x \in S : \A y \in S : x >= y
  BY <1>2, <1>3
<1>5. Max(S) \in S /\ \A y \in S : Max(S) >= y
  BY <1>4 DEF Max
<1>6. LastStepIdx = Max(S)
  BY DEF LastStepIdx
<1>7. Max(S) \in Int /\ n - 1 >= Max(S) /\ Max(S) >= n - 1
  BY <1>2, <1>3, <1>5
<1> HIDE DEF S
<1>. QED
  BY <1>1, <1>6, <1>7

\* The steps a reply adds have the type of steps.
LEMMA StepsOfType ==
  ASSUME NEW r \in Replies, step_idx \in Nat, wiring \in Wiring
  PROVE  /\ <<LlmStep(step_idx, r)>> \in Seq(Step)
         /\ StepsOf(r) \in Seq(Step)
         /\ Len(StepsOf(r)) \in {1, 2}
<1>1. LlmStep(step_idx, r) \in Step
  BY DEF LlmStep, Step
<1>2. ASSUME CheckedTool(r) # NoTool
      PROVE  ToolStep(step_idx + 1, CheckedTool(r)) \in Step
  <2>1. r \in Reply
    BY RunnerAssumption
  <2>2. CheckedTool(r) \in Tools
    BY <1>2, <2>1 DEF CheckedTool, ExtractToolName, Reply, Content
  <2>. QED
    BY <2>2 DEF ToolStep, Step
<1>. QED
  BY <1>1, <1>2 DEF StepsOf

LEMMA CallValues ==
  /\ NoCall \in Call /\ Pending \in Call
  /\ \A r \in Replies : Replied(r) \in Call
  /\ \A e \in ChatErrors : Failed(e) \in Call
BY DEF Call

LEMMA RowValues ==
  /\ NoRow \in Row
  /\ \A st \in Status, n \in Nat, e \in {"null", "set"} :
       [status |-> st, tokens_used |-> n, ended_at |-> e] \in Row
BY DEF Row

\* The row has a status of the schema whenever it is there.
LEMMA RowStatus ==
  ASSUME row \in Row
  PROVE  /\ row # NoRow => row.status \in Status
         /\ \A st \in Status : row # NoRow => [row EXCEPT !.status = st] \in Row
BY DEF Row

\* The end of a run leaves a well-formed row, if it leaves one.
LEMMA EndRowType ==
  ASSUME TypeOK, NEW st \in Status, NEW n \in Nat, EndRow(st, n)
  PROVE  row' \in Row
BY RowValues DEF EndRow, TypeOK

LEMMA CapBreachType ==
  ASSUME TypeOK, NEW name \in Caps, NEW n \in Nat, RaiseCapBreach(name, n)
  PROVE  pc' = "capped" /\ cap' = name /\ row' \in Row
BY EndRowType DEF RaiseCapBreach, Status

\* What append_step leaves is a log again.
LEMMA AppendStepsType ==
  ASSUME TypeOK, NEW new \in Seq(Step), AppendSteps(new)
  PROVE  steps' \in Seq(Step) /\ step_idx' \in Nat
<1>1. CASE Persists
  <2>1. steps' = steps \o new /\ step_idx' = step_idx + Len(new)
    BY <1>1 DEF AppendSteps
  <2>2. steps \in Seq(Step) /\ step_idx \in Nat /\ Len(new) \in Nat
    BY DEF TypeOK
  <2>3. steps' \in Seq(Step)
    BY <2>1, <2>2
  <2>. QED
    BY <2>1, <2>2, <2>3
<1>2. CASE ~Persists
  BY <1>2 DEF AppendSteps, TypeOK
<1>. QED
  BY <1>1, <1>2

LEMMA CloseCallType ==
  ASSUME TypeOK, CloseCall
  PROVE  call' \in Call /\ SpansType'
BY CallValues DEF CloseCall, TypeOK, SpansType

-----------------------------------------------------------------------------
\* The initial state

LEMMA InitIInv == Init => IInv
<1> SUFFICES ASSUME Init PROVE IInv
  OBVIOUS
<1>1. wiring \in Wiring
  BY RunnerAssumption DEF Init
<1>2. row \in Row /\ steps \in Seq(Step) /\ Gapless(steps) /\ ToolStepsAnswer(steps)
  <2>1. CASE \E p \in Priors : row = p.row /\ steps = p.steps
    <3>1. PICK p \in Priors : row = p.row /\ steps = p.steps
      BY <2>1
    <3>2. p \in Prior
      BY RunnerAssumption
    <3>. QED
      BY <3>1, <3>2 DEF Prior
  <2>2. CASE row = NoRow /\ steps = <<>>
    BY <2>2 DEF Row, Gapless, ToolStepsAnswer
  <2>. QED
    BY <2>1, <2>2 DEF Init
<1>3. TypeOK
  <2>1. elapsed \in 0..TimeoutS
    BY RunnerAssumption DEF Init
  <2>2. messages \in Seq({"user", "verbatim", "fenced"}) /\ responses \in Seq(Replies)
    BY DEF Init
  <2>3. call \in Call
    BY CallValues DEF Init
  <2>. QED
    BY <1>1, <1>2, <2>1, <2>2, <2>3 DEF Init, TypeOK, Endings
<1>4. CountersInv
  BY RunnerAssumption DEF Init, CountersInv, Late, NoCall, Failed
<1>5. LogInv
  BY <1>2 DEF Init, LogInv, StepLogIsSound, Looping
<1>6. BudgetInv
  BY RunnerAssumption DEF Init, BudgetInv, CapIsReal
<1>7. BillInv
  BY DEF Init, BillInv, TokensAreAccounted, Endings
<1>. QED
  BY <1>3, <1>4, <1>5, <1>6, <1>7 DEF IInv

-----------------------------------------------------------------------------
\* Type correctness, one step per action

LEMMA TypeStep == IInv /\ [Next]_vars => TypeOK'
<1> SUFFICES ASSUME IInv, [Next]_vars PROVE TypeOK'
  OBVIOUS
<1>0. TypeOK /\ Gapless(steps)
  BY DEF IInv, LogInv, StepLogIsSound
<1>a. ASSUME NEW idx \in Nat, StartClock(idx), row' \in Row, steps' \in Seq(Step)
      PROVE  TypeOK'
  <2>1. elapsed' \in 0..TimeoutS
    BY <1>a, RunnerAssumption DEF StartClock
  <2>2. messages' \in Seq({"user", "verbatim", "fenced"})
    BY <1>a DEF StartClock
  <2>3. responses' \in Seq(Replies)
    BY <1>a DEF StartClock
  <2>. QED
    BY <1>0, <1>a, <2>1, <2>2, <2>3 DEF TypeOK, StartClock, gateway, spans
<1>1. CASE SetupFresh
  <2>1. row' \in Row
    <3>1. "running" \in Status
      BY DEF Status
    <3>. QED
      BY <1>1, <3>1, RowValues DEF SetupFresh
  <2>2. steps' \in Seq(Step)
    BY <1>1 DEF SetupFresh
  <2>. QED
    BY <1>a, <1>1, <2>1, <2>2 DEF SetupFresh
<1>2. CASE SetupResume
  <2>1. row' \in Row /\ steps' \in Seq(Step)
    BY <1>0, <1>2, RowValues, RowStatus DEF SetupResume, TypeOK, Status
  <2>2. (IF steps = <<>> THEN 0 ELSE LastStepIdx + 1) \in Nat
    BY <1>0, LastIdxOfGapless DEF TypeOK
  <2>. QED
    BY <1>a, <1>2, <2>1, <2>2 DEF SetupResume
<1>3. CASE SetupWithoutSession
  BY <1>0, <1>a, <1>3 DEF SetupWithoutSession, TypeOK
<1>4. CASE SetupFails
  BY <1>0, <1>4 DEF SetupFails, TypeOK, Endings, local, gateway, spans
<1>5. CASE LoopTop
  <2>1. CASE TimeLeft
    BY <1>0, <1>5, <2>1 DEF LoopTop, TypeOK, local, gateway, spans
  <2>2. CASE ~TimeLeft
    <3>1. pc' = "capped" /\ cap' \in Caps /\ row' \in Row
      BY <1>0, <1>5, <2>2, CapBreachType DEF LoopTop, TypeOK, Caps
    <3>. QED
      BY <1>0, <1>5, <3>1 DEF LoopTop, TypeOK, Endings, local, gateway, spans
  <2>. QED
    BY <2>1, <2>2
<1>6. CASE CheckTime \/ CheckIterations
  <2>1. pc' = "capped" /\ cap' \in Caps /\ row' \in Row
    BY <1>0, <1>6, CapBreachType DEF CheckTime, CheckIterations, TypeOK, Caps
  <2>. QED
    BY <1>0, <1>6, <2>1 DEF CheckTime, CheckIterations, TypeOK, Endings, local, gateway, spans
<1>7. CASE StartChat
  <2>1. SpansType'
    BY <1>0, <1>7 DEF StartChat, TypeOK, SpansType, spans
  <2>. QED
    BY <1>0, <1>7, <2>1, CallValues DEF StartChat, TypeOK, SpansType, local
<1>8. CASE BreachTokenBudget
  <2>1. call.reply \in Replies /\ call.reply.tokens \in Nat
    BY <1>0, <1>8, ReplyInFlight DEF BreachTokenBudget, ReplyReady, TypeOK
  <2>2. pc' = "capped" /\ cap' \in Caps /\ row' \in Row
    BY <1>0, <1>8, <2>1, CapBreachType DEF BreachTokenBudget, TypeOK, Caps, reply
  <2>3. iterations' \in Nat /\ tokens_used' \in Nat
    BY <1>0, <1>8, <2>1 DEF BreachTokenBudget, CountReply, TypeOK, reply
  <2>. QED
    BY <1>0, <1>8, <2>2, <2>3, CloseCallType DEF BreachTokenBudget, TypeOK, SpansType, Endings, gateway
<1>9. CASE RejectTool
  <2>1. call.reply \in Replies /\ call.reply.tokens \in Nat
    BY <1>0, <1>9, ReplyInFlight DEF RejectTool, ReplyReady, TypeOK
  <2>2. <<LlmStep(step_idx, call.reply)>> \in Seq(Step)
    BY <1>0, <2>1, StepsOfType DEF TypeOK
  <2>3. steps' \in Seq(Step) /\ step_idx' \in Nat
    BY <1>0, <1>9, <2>2, AppendStepsType DEF RejectTool, TypeOK, reply
  <2>4. iterations' \in Nat /\ tokens_used' \in Nat
    BY <1>0, <1>9, <2>1 DEF RejectTool, CountReply, TypeOK, reply
  <2>. QED
    BY <1>0, <1>9, <2>3, <2>4, CloseCallType DEF RejectTool, TypeOK, SpansType, Endings, gateway
<1>10. CASE AcceptReply
  <2>1. call.reply \in Replies /\ call.reply.tokens \in Nat
    BY <1>0, <1>10, ReplyInFlight DEF AcceptReply, ReplyReady, TypeOK
  <2>2. StepsOf(call.reply) \in Seq(Step) /\ Len(StepsOf(call.reply)) \in Nat
    BY <1>0, <2>1, StepsOfType DEF TypeOK
  <2>3. steps' \in Seq(Step) /\ step_idx' \in Nat
    BY <1>0, <1>10, <2>2, AppendStepsType DEF AcceptReply, TypeOK, reply
  <2>4. row' \in Row /\ pc' \in {"returned", "top"}
    <3>1. tokens_used + call.reply.tokens \in Nat
      BY <1>0, <2>1 DEF TypeOK
    <3>2. "completed" \in Status
      BY DEF Status
    <3>3. CASE call.reply.finish = "stop"
      BY <1>0, <1>10, <3>1, <3>2, <3>3, EndRowType DEF AcceptReply, reply
    <3>4. CASE call.reply.finish # "stop"
      BY <1>0, <1>10, <3>4 DEF AcceptReply, TypeOK, reply
    <3>. QED
      BY <3>3, <3>4
  <2>5. messages' \in Seq({"user", "verbatim", "fenced"}) /\ responses' \in Seq(Replies)
    BY <1>0, <1>10, <2>1 DEF AcceptReply, ForContext, TypeOK, reply
  <2>6. iterations' \in Nat /\ tokens_used' \in Nat
    BY <1>0, <1>10, <2>1 DEF AcceptReply, CountReply, TypeOK, reply
  <2>7. SpansType'
    BY <1>0, <1>10 DEF AcceptReply, OpenToolSpan, TypeOK, SpansType
  <2>. QED
    BY <1>0, <1>10, <2>3, <2>4, <2>5, <2>6, <2>7, CallValues
       DEF AcceptReply, TypeOK, SpansType, Endings, gateway
<1>11. CASE ChatTimesOut \/ TimerFires
  <2>1. pc' = "capped" /\ cap' \in Caps /\ row' \in Row
    BY <1>0, <1>11, CapBreachType DEF ChatTimesOut, TimerFires, TypeOK, Caps
  <2>2. call' \in Call /\ SpansType'
    BY <1>0, <1>11, CloseCallType DEF ChatTimesOut, TimerFires
  <2>. QED
    BY <1>0, <1>11, <2>1, <2>2 DEF ChatTimesOut, TimerFires, TypeOK, SpansType, Endings, local, gateway
<1>12. CASE ChatRaises
  BY <1>0, <1>12, CloseCallType DEF ChatRaises, TypeOK, SpansType, Endings, local, gateway
<1>13. ASSUME NEW r \in Replies, GatewayReplies(r) PROVE TypeOK'
  <2>1. r.tokens \in Nat
    BY RunnerAssumption DEF Reply
  <2>. QED
    BY <1>0, <1>13, <2>1, CallValues DEF GatewayReplies, TypeOK, local, spans
<1>14. ASSUME NEW e \in ChatErrors, GatewayFails(e) PROVE TypeOK'
  BY <1>0, <1>14, CallValues DEF GatewayFails, TypeOK, local, spans
<1>15. CASE Tick
  <2>1. TimeoutS \in Nat
    BY RunnerAssumption
  <2>. QED
    BY <1>0, <1>15, <2>1 DEF Tick, TypeOK, local, gateway, spans
<1>16. CASE UNCHANGED vars
  BY <1>0, <1>16 DEF TypeOK, vars, local, gateway, spans
<1>. QED
  BY <1>1, <1>2, <1>3, <1>4, <1>5, <1>6, <1>7, <1>8, <1>9, <1>10, <1>11, <1>12, <1>13, <1>14,
     <1>15, <1>16 DEF Next, Run, Runner, Environment, Ended

-----------------------------------------------------------------------------
\* The counters

\* A step that starts the run, one that ends it, and one that does neither.
LEMMA CountersStep == IInv /\ [Next]_vars => CountersInv'
<1> SUFFICES ASSUME IInv, [Next]_vars PROVE CountersInv'
  OBVIOUS
<1>0. TypeOK /\ CountersInv
  BY DEF IInv
<1>m. MaxIterations \in Nat
  BY RunnerAssumption
<1>1. CASE SetupFresh \/ SetupResume \/ SetupWithoutSession
  BY <1>0, <1>1 DEF SetupFresh, SetupResume, SetupWithoutSession, StartClock, CountersInv, gateway
<1>2. CASE SetupFails
  BY <1>0, <1>2 DEF SetupFails, CountersInv, local, gateway
<1>3. CASE LoopTop \/ CheckTime \/ CheckIterations
  BY <1>0, <1>3 DEF LoopTop, CheckTime, CheckIterations, RaiseCapBreach, CountersInv, local, gateway
<1>4. CASE StartChat
  BY <1>0, <1>m, <1>4 DEF StartChat, IterationsLeft, CountersInv, TypeOK, local, Pending, Failed
<1>5. CASE BreachTokenBudget \/ RejectTool \/ AcceptReply
  <2>1. pc = "chat" /\ calls' = calls /\ iterations' = iterations + 1 /\ call' = NoCall
    BY <1>5 DEF BreachTokenBudget, RejectTool, AcceptReply, ReplyReady, CountReply, CloseCall, gateway
  <2>2. pc' \in {"capped", "raised", "returned", "top"}
    BY <1>5 DEF BreachTokenBudget, RejectTool, AcceptReply, RaiseCapBreach
  <2>. QED
    BY <1>0, <2>1, <2>2 DEF CountersInv, TypeOK, NoCall, Failed
<1>6. CASE ChatTimesOut \/ ChatRaises \/ TimerFires
  BY <1>0, <1>6 DEF ChatTimesOut, ChatRaises, TimerFires, RaiseCapBreach, CloseCall, CountersInv,
                    NoCall, Failed, local, gateway
<1>7. CASE Environment
  <2>1. call # NoCall \/ call' = call
    BY <1>7 DEF Environment, GatewayReplies, GatewayFails, Tick, Pending, NoCall
  <2>2. pc' = pc /\ iterations' = iterations /\ calls' = calls /\ tokens_used' = tokens_used
    BY <1>7 DEF Environment, GatewayReplies, GatewayFails, Tick, local, gateway
  <2>3. pc # "setup"
    BY <1>0, <1>7 DEF Environment, GatewayReplies, GatewayFails, Tick, CountersInv, Pending, NoCall
  <2>4. call' = Failed("timeout") => client_late'
    <3>1. ASSUME NEW r \in Replies, GatewayReplies(r) PROVE call' # Failed("timeout")
      BY <3>1 DEF GatewayReplies, Replied, Failed
    <3>2. ASSUME NEW e \in ChatErrors, GatewayFails(e), call' = Failed("timeout")
          PROVE  client_late'
      <4>1. Failed(e).with = Failed("timeout").with
        BY <3>2 DEF GatewayFails
      <4>. QED
        BY <3>2, <4>1 DEF GatewayFails, Failed
    <3>3. CASE Tick
      BY <1>0, <3>3 DEF Tick, gateway, CountersInv
    <3>. QED
      BY <1>7, <3>1, <3>2, <3>3 DEF Environment
  <2>. QED
    BY <1>0, <2>1, <2>2, <2>3, <2>4 DEF CountersInv
<1>8. CASE UNCHANGED vars
  BY <1>0, <1>8 DEF CountersInv, Late, vars, local, gateway
<1>. QED
  BY <1>1, <1>2, <1>3, <1>4, <1>5, <1>6, <1>7, <1>8 DEF Next, Run, Runner, Ended

-----------------------------------------------------------------------------
\* The token budget and the caps

LEMMA BudgetStep == IInv /\ [Next]_vars => BudgetInv'
<1> SUFFICES ASSUME IInv, [Next]_vars PROVE BudgetInv'
  OBVIOUS
<1>0. TypeOK /\ CountersInv /\ BudgetInv
  BY DEF IInv
<1>m. MaxIterations \in Nat /\ TokenBudget \in Nat /\ TimeoutS \in Nat
  BY RunnerAssumption
<1>1. CASE SetupFresh \/ SetupResume \/ SetupWithoutSession
  BY <1>0, <1>m, <1>1
     DEF SetupFresh, SetupResume, SetupWithoutSession, StartClock, BudgetInv, CapIsReal
<1>2. CASE SetupFails
  BY <1>0, <1>2 DEF SetupFails, BudgetInv, CapIsReal, local, gateway
<1>3. CASE LoopTop \/ CheckTime
  BY <1>0, <1>m, <1>3 DEF LoopTop, CheckTime, TimeLeft, RaiseCapBreach, BudgetInv, CapIsReal,
                          TypeOK, local, gateway
<1>4. CASE CheckIterations
  BY <1>0, <1>m, <1>4 DEF CheckIterations, IterationsLeft, RaiseCapBreach, BudgetInv, CapIsReal,
                          CountersInv, TypeOK, local, gateway
<1>5. CASE StartChat
  BY <1>0, <1>5 DEF StartChat, BudgetInv, CapIsReal, local
<1>6. CASE BreachTokenBudget
  <2>1. call.reply \in Replies /\ call.reply.tokens \in Nat
    BY <1>0, <1>6, ReplyInFlight DEF BreachTokenBudget, ReplyReady, TypeOK
  <2>2. /\ pc = "chat" /\ pc' = "capped" /\ cap' = "token_budget"
        /\ tokens_used' = tokens_used + call.reply.tokens
        /\ tokens_used + call.reply.tokens > TokenBudget
    BY <1>6 DEF BreachTokenBudget, ReplyReady, CountReply, RaiseCapBreach, reply
  <2>3. tokens_used' <= TokenBudget + call.reply.tokens
    BY <1>0, <1>m, <2>1, <2>2 DEF BudgetInv, TypeOK
  <2>. QED
    BY <2>1, <2>2, <2>3 DEF BudgetInv, CapIsReal
<1>7. CASE RejectTool \/ AcceptReply
  <2>1. call.reply \in Replies /\ call.reply.tokens \in Nat
    BY <1>0, <1>7, ReplyInFlight DEF RejectTool, AcceptReply, ReplyReady, TypeOK
  <2>2. /\ pc = "chat" /\ pc' # "capped" /\ cap' = cap
        /\ tokens_used' = tokens_used + call.reply.tokens
        /\ tokens_used + call.reply.tokens <= TokenBudget
    BY <1>7 DEF RejectTool, AcceptReply, ReplyReady, CountReply, reply
  <2>. QED
    BY <1>0, <1>m, <2>1, <2>2 DEF BudgetInv, CapIsReal, TypeOK
<1>8. CASE ChatTimesOut \/ TimerFires
  <2>1. /\ pc = "chat" /\ pc' = "capped" /\ cap' = "timeout_s"
        /\ tokens_used' = tokens_used /\ elapsed' = elapsed
    BY <1>8 DEF ChatTimesOut, TimerFires, RaiseCapBreach, local
  <2>2. elapsed >= TimeoutS \/ client_late'
    BY <1>0, <1>8 DEF ChatTimesOut, TimerFires, TimerDue, gateway, CountersInv
  <2>. QED
    BY <1>0, <1>m, <2>1, <2>2 DEF BudgetInv, CapIsReal, TypeOK
<1>9. CASE ChatRaises
  BY <1>0, <1>9 DEF ChatRaises, BudgetInv, CapIsReal, local, gateway
<1>10. CASE Environment
  <2>1. /\ pc' = pc /\ cap' = cap /\ tokens_used' = tokens_used /\ iterations' = iterations
        /\ calls' = calls
    BY <1>10 DEF Environment, GatewayReplies, GatewayFails, Tick, local, gateway
  <2>2. /\ elapsed >= TimeoutS => elapsed' >= TimeoutS
        /\ client_late => client_late'
    BY <1>0, <1>m, <1>10 DEF Environment, GatewayReplies, GatewayFails, Tick, gateway, TypeOK
  <2>. QED
    BY <1>0, <2>1, <2>2 DEF BudgetInv, CapIsReal
<1>11. CASE UNCHANGED vars
  BY <1>0, <1>11 DEF BudgetInv, CapIsReal, vars, local, gateway
<1>. QED
  BY <1>1, <1>2, <1>3, <1>4, <1>5, <1>6, <1>7, <1>8, <1>9, <1>10, <1>11
     DEF Next, Run, Runner, Ended

-----------------------------------------------------------------------------
\* Billing

LEMMA BillStep == IInv /\ [Next]_vars => BillInv'
<1> SUFFICES ASSUME IInv, [Next]_vars PROVE BillInv'
  OBVIOUS
<1>0. TypeOK /\ CountersInv /\ BillInv
  BY DEF IInv
<1>1. CASE SetupFresh \/ SetupResume \/ SetupWithoutSession
  <2>1. billed = 0
    BY <1>0, <1>1 DEF SetupFresh, SetupResume, SetupWithoutSession, BillInv, CountersInv
  <2>. QED
    BY <1>1, <2>1 DEF SetupFresh, SetupResume, SetupWithoutSession, StartClock, BillInv,
                      TokensAreAccounted, Endings, gateway
<1>2. CASE SetupFails
  BY <1>0, <1>2 DEF SetupFails, BillInv, TokensAreAccounted, local, gateway
<1>3. CASE LoopTop \/ CheckTime \/ CheckIterations
  <2>1. pc' \in {"check", "capped"} /\ billed' = billed /\ tokens_used' = tokens_used
    BY <1>3 DEF LoopTop, CheckTime, CheckIterations, RaiseCapBreach, local, gateway
  <2>2. billed = tokens_used
    BY <1>0, <1>3 DEF LoopTop, CheckTime, CheckIterations, BillInv
  <2>. QED
    BY <1>0, <2>1, <2>2 DEF BillInv, TokensAreAccounted, TypeOK
<1>4. CASE StartChat
  BY <1>0, <1>4 DEF StartChat, BillInv, TokensAreAccounted, Pending, Endings, TypeOK, local
<1>5. CASE BreachTokenBudget \/ RejectTool \/ AcceptReply
  <2>1. call.reply.tokens \in Nat
    BY <1>0, <1>5, ReplyInFlight DEF BreachTokenBudget, RejectTool, AcceptReply, ReplyReady, TypeOK
  <2>2. /\ pc = "chat" /\ call.state = "replied" /\ billed' = billed
        /\ tokens_used' = tokens_used + call.reply.tokens
    BY <1>5 DEF BreachTokenBudget, RejectTool, AcceptReply, ReplyReady, CountReply, gateway, reply
  <2>3. pc' # "chat"
    BY <1>5 DEF BreachTokenBudget, RejectTool, AcceptReply, RaiseCapBreach
  <2>4. billed' = tokens_used' /\ tokens_used' \in Nat
    BY <1>0, <2>1, <2>2 DEF BillInv, TypeOK
  <2>5. TokensAreAccounted'
    BY <2>4 DEF TokensAreAccounted
  <2>. QED
    BY <2>3, <2>4, <2>5 DEF BillInv
<1>6. CASE ChatTimesOut \/ ChatRaises
  <2>1. call.state # "replied" /\ pc = "chat"
    BY <1>6 DEF ChatTimesOut, ChatRaises, Failed
  <2>2. pc' # "chat" /\ billed' = billed /\ tokens_used' = tokens_used
    BY <1>6 DEF ChatTimesOut, ChatRaises, RaiseCapBreach, local, gateway
  <2>. QED
    BY <1>0, <2>1, <2>2 DEF BillInv, TokensAreAccounted, TypeOK
<1>7. CASE TimerFires
  <2>1. /\ pc' = "capped" /\ cap' = "timeout_s" /\ elapsed' = elapsed /\ elapsed >= TimeoutS
        /\ billed' = billed /\ tokens_used' = tokens_used
    BY <1>7 DEF TimerFires, TimerDue, RaiseCapBreach, local, gateway
  <2>. QED
    BY <1>0, <2>1 DEF BillInv, TokensAreAccounted
<1>8. ASSUME NEW r \in Replies, GatewayReplies(r) PROVE BillInv'
  <2>1. r.tokens \in Nat
    BY RunnerAssumption DEF Reply
  <2>2. /\ pc = "chat" /\ call.state # "replied" /\ pc' = pc /\ tokens_used' = tokens_used
        /\ call'.state = "replied" /\ call'.reply = r /\ billed' = billed + r.tokens
    BY <1>0, <1>8 DEF GatewayReplies, CountersInv, Pending, NoCall, Replied, local
  <2>. QED
    BY <1>0, <2>1, <2>2 DEF BillInv, TokensAreAccounted, TypeOK, Endings
<1>9. ASSUME NEW e \in ChatErrors, GatewayFails(e) PROVE BillInv'
  <2>1. /\ pc = "chat" /\ call.state # "replied" /\ pc' = pc /\ tokens_used' = tokens_used
        /\ call'.state # "replied" /\ billed' = billed
    BY <1>0, <1>9 DEF GatewayFails, CountersInv, Pending, NoCall, Failed, local
  <2>. QED
    BY <1>0, <2>1 DEF BillInv, TokensAreAccounted, TypeOK, Endings
<1>10. CASE Tick
  BY <1>0, <1>10 DEF Tick, BillInv, TokensAreAccounted, Endings, local, gateway
<1>11. CASE UNCHANGED vars
  BY <1>0, <1>11 DEF BillInv, TokensAreAccounted, vars, local, gateway
<1>. QED
  BY <1>1, <1>2, <1>3, <1>4, <1>5, <1>6, <1>7, <1>8, <1>9, <1>10, <1>11
     DEF Next, Run, Runner, Environment, Ended

-----------------------------------------------------------------------------
\* The step log

\* The LLM step of a reply keeps the log sound (append_step).
LEMMA LlmStepKeepsLog ==
  ASSUME steps \in Seq(Step), StepLogIsSound, step_idx = Len(steps), NEW r
  PROVE  /\ Gapless(steps \o <<LlmStep(step_idx, r)>>)
         /\ ToolStepsAnswer(steps \o <<LlmStep(step_idx, r)>>)
<1> DEFINE n == Len(steps)
           log == steps \o <<LlmStep(step_idx, r)>>
<1>1. n \in Nat /\ DOMAIN steps = 1..n
  OBVIOUS
<1>2. DOMAIN log = 1..(n + 1) /\ \A i \in 1..n : log[i] = steps[i]
  OBVIOUS
<1>3. log[n + 1] = LlmStep(n, r)
  OBVIOUS
<1>4. log[n + 1].idx = n /\ log[n + 1].type = "llm_call"
  BY <1>3 DEF LlmStep
<1> HIDE DEF log
<1>5. Gapless(log)
  BY <1>1, <1>2, <1>4 DEF StepLogIsSound, Gapless
<1>6. ToolStepsAnswer(log)
  <2> SUFFICES ASSUME NEW i \in 1..n, log[i].type = "tool_call"
               PROVE  /\ log[i].tool \in Whitelist
                      /\ i > 1
                      /\ log[i - 1].type = "llm_call"
                      /\ log[i - 1].reply.finish = "tool_use"
                      /\ ExtractToolName(log[i - 1].reply.content) = log[i].tool
    BY <1>1, <1>2, <1>4 DEF ToolStepsAnswer
  <2>1. i > 1 => log[i - 1] = steps[i - 1]
    BY <1>1, <1>2
  <2>. QED
    BY <1>1, <1>2, <2>1 DEF StepLogIsSound, ToolStepsAnswer
<1>. QED
  BY <1>5, <1>6 DEF log

\* So do both steps of a reply whose tool is allowed.
LEMMA AcceptedStepsKeepLog ==
  ASSUME steps \in Seq(Step), StepLogIsSound, step_idx = Len(steps), NEW r, ~Rejected(r)
  PROVE  Gapless(steps \o StepsOf(r)) /\ ToolStepsAnswer(steps \o StepsOf(r))
<1>1. CASE CheckedTool(r) = NoTool
  BY <1>1, LlmStepKeepsLog DEF StepsOf
<1>2. CASE CheckedTool(r) # NoTool
  <2> DEFINE n == Len(steps)
             t == CheckedTool(r)
             log == steps \o <<LlmStep(n, r)>>
             log2 == steps \o <<LlmStep(n, r), ToolStep(n + 1, t)>>
  <2>1. t \in Whitelist /\ r.finish = "tool_use" /\ ExtractToolName(r.content) = t
    BY <1>2 DEF Rejected, AssertAllowed, CheckedTool
  <2>2. Gapless(log) /\ ToolStepsAnswer(log)
    BY LlmStepKeepsLog
  <2>3. n \in Nat /\ DOMAIN log = 1..(n + 1) /\ DOMAIN log2 = 1..(n + 2)
    OBVIOUS
  <2>4. \A i \in 1..(n + 1) : log2[i] = log[i]
    OBVIOUS
  <2>5. log2[n + 1] = LlmStep(n, r) /\ log2[n + 2] = ToolStep(n + 1, t)
    OBVIOUS
  <2>6. /\ log2[n + 1].type = "llm_call" /\ log2[n + 1].reply = r
        /\ log2[n + 2].idx = n + 1 /\ log2[n + 2].tool = t
    BY <2>5 DEF LlmStep, ToolStep
  <2>7. steps \o StepsOf(r) = log2
    BY <1>2 DEF StepsOf
  <2> HIDE DEF log, log2, t
  <2>8. Gapless(log2)
    BY <2>2, <2>3, <2>4, <2>6 DEF Gapless
  <2>9. ToolStepsAnswer(log2)
    <3> SUFFICES ASSUME NEW i \in 1..(n + 2), log2[i].type = "tool_call"
                 PROVE  /\ log2[i].tool \in Whitelist
                        /\ i > 1
                        /\ log2[i - 1].type = "llm_call"
                        /\ log2[i - 1].reply.finish = "tool_use"
                        /\ ExtractToolName(log2[i - 1].reply.content) = log2[i].tool
      BY <2>3 DEF ToolStepsAnswer
    <3>1. CASE i = n + 2
      BY <2>1, <2>3, <2>6, <3>1
    <3>2. CASE i # n + 2
      <4>1. i \in 1..(n + 1) /\ log2[i] = log[i] /\ (i > 1 => log2[i - 1] = log[i - 1])
        BY <2>3, <2>4, <3>2
      <4>. QED
        BY <2>2, <2>3, <4>1 DEF ToolStepsAnswer
    <3>. QED
      BY <3>1, <3>2
  <2>. QED
    BY <2>7, <2>8, <2>9
<1>. QED
  BY <1>1, <1>2

\* The row is there or not, as it was, once the run is set up.
LEMMA PersistsStable ==
  ASSUME pc # "setup", [Next]_vars, Persists'
  PROVE  Persists
<1>1. wiring' = wiring
  BY DEF Next, Run, Runner, Environment, Ended, vars, SetupFresh, SetupResume,
         SetupWithoutSession, SetupFails, LoopTop, CheckTime, CheckIterations, StartChat,
         BreachTokenBudget, RejectTool, AcceptReply, ChatTimesOut, ChatRaises, TimerFires,
         GatewayReplies, GatewayFails, Tick
<1>2. ASSUME ~Persists PROVE row' = row
  <2>1. \A st, n : EndRow(st, n) => row' = row
    BY <1>2 DEF EndRow
  <2>. QED
    BY <2>1 DEF Next, Run, Runner, Environment, Ended, vars, SetupFresh, SetupResume,
         SetupWithoutSession, SetupFails, LoopTop, CheckTime, CheckIterations, StartChat,
         BreachTokenBudget, RejectTool, AcceptReply, ChatTimesOut, ChatRaises, TimerFires,
         GatewayReplies, GatewayFails, Tick, RaiseCapBreach
<1>. QED
  BY <1>1, <1>2 DEF Persists

LEMMA LogStep == IInv /\ [Next]_vars => LogInv'
<1> SUFFICES ASSUME IInv, [Next]_vars PROVE LogInv'
  OBVIOUS
<1>0. TypeOK /\ LogInv
  BY DEF IInv
<1>1. CASE SetupFresh
  <2>1. steps' = <<>> /\ step_idx' = 0
    BY <1>1 DEF SetupFresh, StartClock
  <2>. QED
    BY <2>1 DEF LogInv, StepLogIsSound, Gapless, ToolStepsAnswer
<1>2. CASE SetupResume
  <2>1. steps' = steps /\ step_idx' = IF steps = <<>> THEN 0 ELSE LastStepIdx + 1
    BY <1>2 DEF SetupResume, StartClock
  <2>2. step_idx' = Len(steps)
    BY <1>0, <2>1, LastIdxOfGapless DEF TypeOK, LogInv, StepLogIsSound
  <2>. QED
    BY <1>0, <2>1, <2>2 DEF LogInv, StepLogIsSound, Gapless, ToolStepsAnswer
<1>3. CASE SetupWithoutSession
  BY <1>0, <1>3 DEF SetupWithoutSession, StartClock, Persists, LogInv, StepLogIsSound, Gapless,
                    ToolStepsAnswer
<1>4. CASE pc # "setup" /\ UNCHANGED <<steps, step_idx>> /\ (pc' \in Looping => pc \in Looping)
  BY <1>0, <1>4, PersistsStable DEF LogInv, StepLogIsSound, Gapless, ToolStepsAnswer
<1>5. CASE SetupFails
  BY <1>0, <1>5 DEF SetupFails, LogInv, StepLogIsSound, Gapless, ToolStepsAnswer, Looping
<1>6. CASE RejectTool \/ AcceptReply
  <2>1. pc = "chat" /\ call.reply \in Replies
    BY <1>0, <1>6, ReplyInFlight DEF RejectTool, AcceptReply, ReplyReady, TypeOK
  <2>2. PICK new \in {<<LlmStep(step_idx, call.reply)>>, StepsOf(call.reply)} :
          AppendSteps(new) /\ (new # <<LlmStep(step_idx, call.reply)>> => ~Rejected(call.reply))
    BY <1>6 DEF RejectTool, AcceptReply, reply
  <2>3. CASE ~Persists
    BY <1>0, <2>1, <2>2, <2>3, PersistsStable
       DEF AppendSteps, LogInv, StepLogIsSound, Gapless, ToolStepsAnswer
  <2>4. CASE Persists
    <3>1. steps' = steps \o new /\ step_idx' = step_idx + Len(new) /\ step_idx = Len(steps)
      BY <1>0, <2>1, <2>2, <2>4 DEF AppendSteps, LogInv, Looping
    <3>2. Gapless(steps \o new) /\ ToolStepsAnswer(steps \o new)
      BY <1>0, <2>1, <2>2, <3>1, LlmStepKeepsLog, AcceptedStepsKeepLog DEF LogInv, TypeOK
    <3>3. new \in Seq(Step) /\ steps \in Seq(Step)
      BY <1>0, <2>1, <2>2, StepsOfType DEF TypeOK
    <3>4. Len(steps \o new) = Len(steps) + Len(new)
      BY <3>3
    <3>. QED
      BY <3>1, <3>2, <3>4 DEF LogInv, StepLogIsSound, Gapless, ToolStepsAnswer
  <2>. QED
    BY <2>3, <2>4
<1>7. CASE LoopTop \/ CheckTime \/ CheckIterations \/ StartChat
  BY <1>4, <1>7 DEF LoopTop, CheckTime, CheckIterations, StartChat, local, Looping
<1>8. CASE BreachTokenBudget \/ ChatTimesOut \/ ChatRaises \/ TimerFires
  BY <1>4, <1>8 DEF BreachTokenBudget, ChatTimesOut, ChatRaises, TimerFires, ReplyReady, local, Looping
<1>9. CASE Environment
  <2>1. pc # "setup"
    BY <1>9 DEF IInv, CountersInv, Environment, GatewayReplies, GatewayFails, Tick, Pending, NoCall
  <2>2. UNCHANGED <<steps, step_idx>> /\ pc' = pc
    BY <1>9 DEF Environment, GatewayReplies, GatewayFails, Tick, local
  <2>. QED
    BY <1>4, <2>1, <2>2
<1>10. CASE UNCHANGED vars
  BY <1>0, <1>10 DEF vars, local, Persists, LogInv, StepLogIsSound, Gapless, ToolStepsAnswer, Looping
<1>. QED
  BY <1>1, <1>2, <1>3, <1>5, <1>6, <1>7, <1>8, <1>9, <1>10 DEF Next, Run, Runner, Ended

-----------------------------------------------------------------------------
\* Every step keeps the inductive invariant, so every behaviour does.
THEOREM Invariance == Spec => []IInv
<1>1. IInv /\ [Next]_vars => IInv'
  BY TypeStep, CountersStep, BudgetStep, BillStep, LogStep DEF IInv
<1>. QED
  BY InitIInv, <1>1, PTL DEF Spec

\* Every variable keeps its type: the row a status of the schema, the step
\* index a number although it is read back from the log.
THEOREM TypeCorrect == Spec => []TypeOK
<1>1. IInv => TypeOK
  BY DEF IInv
<1>. QED
  BY Invariance, <1>1, PTL

\* A run makes at most MaxIterations calls and exceeds its token budget by no
\* more than one reply (the checks of _one_iteration).
THEOREM SpendingCapped == Spec => []SpendingIsCapped
<1>1. IInv => SpendingIsCapped
  BY DEF IInv, CountersInv, BudgetInv, SpendingIsCapped
<1>. QED
  BY Invariance, <1>1, PTL

\* The cap a CapBreachError names has been reached.
THEOREM CapsAreReal == Spec => []CapIsReal
<1>1. IInv => CapIsReal
  BY DEF IInv, BudgetInv
<1>. QED
  BY Invariance, <1>1, PTL

\* The run counts every token the gateway billed, but for a reply dropped by
\* the timer of wait_for.
THEOREM Accounting == Spec => []TokensAreAccounted
<1>1. IInv => TokensAreAccounted
  BY DEF IInv, BillInv
<1>. QED
  BY Invariance, <1>1, PTL

\* The log stays numbered without gap or repetition, from whatever sound log
\* an earlier attempt left.
THEOREM LogSound == Spec => []StepLogIsSound
<1>1. IInv => StepLogIsSound
  BY DEF IInv, LogInv
<1>. QED
  BY Invariance, <1>1, PTL

-----------------------------------------------------------------------------
\* The row of the run, if it has one, at each point of the loop and at each ending.
RowInv ==
  /\ pc = "capped" => cap # "none"
  /\ Persists /\ pc \in Looping => row.status = "running"
  /\ Persists /\ pc = "capped" =>
       row.status = "capped" /\ row.tokens_used = tokens_used /\ row.ended_at = "set"
  /\ Persists /\ pc = "raised" => calls = 0 \/ row.status = "running"

LEMMA RowInvStep == IInv /\ RowInv /\ [Next]_vars => RowInv'
<1> SUFFICES ASSUME IInv, RowInv, [Next]_vars PROVE RowInv'
  OBVIOUS
<1>0. TypeOK /\ CountersInv
  BY DEF IInv
<1>1. CASE pc = "setup" /\ (SetupFresh \/ SetupResume \/ SetupWithoutSession)
  <2>1. pc' = "top" /\ wiring' = wiring
    BY <1>1 DEF SetupFresh, SetupResume, SetupWithoutSession, StartClock
  <2>2. Persists' => row'.status = "running"
    <3>1. CASE SetupFresh
      BY <3>1 DEF SetupFresh
    <3>2. CASE SetupResume
      <4>1. CASE row = NoRow
        BY <3>2, <4>1 DEF SetupResume, Persists
      <4>2. CASE row # NoRow
        BY <1>0, <3>2, <4>2 DEF SetupResume, TypeOK, Row
      <4>. QED
        BY <4>1, <4>2
    <3>3. CASE SetupWithoutSession
      BY <2>1, <3>3 DEF SetupWithoutSession, Persists
    <3>. QED
      BY <1>1, <3>1, <3>2, <3>3
  <2>. QED
    BY <2>1, <2>2 DEF RowInv, Looping
<1>2. CASE SetupFails
  BY <1>0, <1>2 DEF SetupFails, CountersInv, RowInv, Looping, Persists, gateway
<1>c. ASSUME pc # "setup", NEW name \in Caps, NEW n, RaiseCapBreach(name, n), tokens_used' = n
      PROVE  RowInv'
  <2>1. pc' = "capped" /\ cap' = name /\ name # "none" /\ EndRow("capped", n)
    BY <1>c DEF RaiseCapBreach, Caps
  <2>2. Persists' => Persists
    BY <1>c, PersistsStable
  <2>. QED
    BY <1>c, <2>1, <2>2 DEF RowInv, EndRow, Looping
<1>3. CASE LoopTop \/ CheckTime \/ CheckIterations \/ ChatTimesOut \/ TimerFires
  <2>1. pc # "setup" /\ tokens_used' = tokens_used /\ wiring' = wiring
    BY <1>3 DEF LoopTop, CheckTime, CheckIterations, ChatTimesOut, TimerFires, local
  <2>2. \/ pc = "top" /\ pc' = "check" /\ row' = row
        \/ \E name \in Caps : RaiseCapBreach(name, tokens_used)
    BY <1>3 DEF LoopTop, CheckTime, CheckIterations, ChatTimesOut, TimerFires, Caps
  <2>3. CASE pc = "top" /\ pc' = "check" /\ row' = row
    BY <2>1, <2>3 DEF RowInv, Looping, Persists
  <2>. QED
    BY <1>c, <2>1, <2>2, <2>3
<1>4. CASE BreachTokenBudget
  <2>1. /\ pc # "setup" /\ RaiseCapBreach("token_budget", tokens_used + call.reply.tokens)
        /\ tokens_used' = tokens_used + call.reply.tokens
    BY <1>4 DEF BreachTokenBudget, ReplyReady, CountReply, reply
  <2>. QED
    BY <1>c, <2>1 DEF Caps
<1>5. CASE RejectTool \/ ChatRaises \/ StartChat
  BY <1>5 DEF RejectTool, ChatRaises, StartChat, ReplyReady, RowInv, Looping, Persists
<1>6. CASE AcceptReply
  BY <1>6 DEF AcceptReply, ReplyReady, RowInv, Looping, Persists
<1>7. CASE Environment
  <2>1. pc \in Looping /\ pc' = pc /\ row' = row /\ wiring' = wiring
    BY <1>0, <1>7 DEF Environment, GatewayReplies, GatewayFails, Tick, CountersInv, Pending, NoCall,
                      Looping
  <2>. QED
    BY <2>1 DEF RowInv, Looping, Persists
<1>8. CASE UNCHANGED vars
  BY <1>8 DEF vars, local, gateway, RowInv, Looping, Persists
<1>. QED
  BY <1>1, <1>2, <1>3, <1>4, <1>5, <1>6, <1>7, <1>8
     DEF Next, Run, Runner, Ended, SetupFresh, SetupResume, SetupWithoutSession

\* The row of a run that did not return says "capped" exactly when the caller is
\* told of a cap, and is otherwise left as it was while the run worked.
THEOREM OutcomeOnRow == Spec => []OutcomeIsOnTheRow
<1>1. Init => RowInv
  BY DEF Init, RowInv, Looping
<1>2. IInv /\ RowInv => OutcomeIsOnTheRow
  BY DEF IInv, BudgetInv, RowInv, OutcomeIsOnTheRow
<1>. QED
  BY Invariance, RowInvStep, <1>1, <1>2, PTL DEF Spec

-----------------------------------------------------------------------------
\* The conversation, once it has begun.
Fenced ==
  /\ Len(messages) = Len(responses) + 1
  /\ messages[1] = "user"
  /\ \A i \in DOMAIN responses :
       wiring.sanitizer /\ responses[i].finish = "tool_use" => messages[i + 1] = "fenced"
ContextInv == pc \in Looping \/ calls > 0 => Fenced

LEMMA ContextStep == IInv /\ ContextInv /\ [Next]_vars => ContextInv'
<1> SUFFICES ASSUME IInv, ContextInv, [Next]_vars PROVE ContextInv'
  OBVIOUS
<1>0. TypeOK /\ CountersInv
  BY DEF IInv
<1>1. CASE SetupFresh \/ SetupResume \/ SetupWithoutSession
  <2>1. messages' = <<"user">> /\ responses' = <<>>
    BY <1>1 DEF SetupFresh, SetupResume, SetupWithoutSession, StartClock
  <2>. QED
    BY <2>1 DEF ContextInv, Fenced
<1>2. CASE /\ UNCHANGED <<messages, responses, wiring>>
           /\ pc' \in Looping \/ calls' > 0 => pc \in Looping \/ calls > 0
  BY <1>2 DEF ContextInv, Fenced
<1>3. CASE AcceptReply
  <2>1. /\ responses' = Append(responses, call.reply)
        /\ messages' = Append(messages, ForContext(call.reply))
        /\ wiring' = wiring /\ pc = "chat"
    BY <1>3 DEF AcceptReply, ReplyReady, reply
  <2>2. /\ call.reply \in Replies /\ responses \in Seq(Replies)
        /\ messages \in Seq({"user", "verbatim", "fenced"})
        /\ ForContext(call.reply) \in {"user", "verbatim", "fenced"}
    BY <1>0, <1>3, ReplyInFlight DEF AcceptReply, ReplyReady, TypeOK, ForContext
  <2>3. Fenced
    BY <2>1 DEF ContextInv, Looping
  <2>4. Len(messages') = Len(responses') + 1 /\ messages'[1] = "user"
    BY <2>1, <2>2, <2>3 DEF Fenced
  <2>5. ASSUME NEW i \in DOMAIN responses', wiring.sanitizer, responses'[i].finish = "tool_use"
        PROVE  messages'[i + 1] = "fenced"
    <3>1. i \in 1..(Len(responses) + 1) /\ Len(messages) = Len(responses) + 1
          /\ Len(responses) \in Nat
      BY <2>1, <2>2, <2>3, <2>5 DEF Fenced
    <3>2. CASE i = Len(responses) + 1
      <4>1. responses'[i] = call.reply /\ messages'[i + 1] = ForContext(call.reply)
        BY <2>1, <2>2, <3>1, <3>2
      <4>. QED
        BY <2>5, <4>1 DEF ForContext
    <3>3. CASE i \in 1..Len(responses)
      <4>1. responses'[i] = responses[i] /\ messages'[i + 1] = messages[i + 1] /\ i \in DOMAIN responses
        BY <2>1, <2>2, <3>1, <3>3
      <4>. QED
        BY <2>3, <2>5, <4>1 DEF Fenced
    <3>. QED
      BY <3>1, <3>2, <3>3
  <2>. QED
    BY <2>1, <2>4, <2>5 DEF ContextInv, Fenced
<1>4. CASE SetupFails
  BY <1>2, <1>4 DEF SetupFails, local, gateway, Looping
<1>5. CASE LoopTop \/ CheckTime \/ CheckIterations
  BY <1>2, <1>5 DEF LoopTop, CheckTime, CheckIterations, local, gateway, Looping
<1>6. CASE StartChat
  BY <1>2, <1>6 DEF StartChat, local, Looping
<1>7. CASE BreachTokenBudget \/ RejectTool
  BY <1>2, <1>7 DEF BreachTokenBudget, RejectTool, ReplyReady, Looping
<1>8. CASE ChatTimesOut \/ ChatRaises \/ TimerFires
  BY <1>2, <1>8 DEF ChatTimesOut, ChatRaises, TimerFires, local, Looping
<1>9. CASE Environment \/ UNCHANGED vars
  BY <1>2, <1>9 DEF Environment, GatewayReplies, GatewayFails, Tick, vars, local, gateway
<1>. QED
  BY <1>1, <1>3, <1>4, <1>5, <1>6, <1>7, <1>8, <1>9 DEF Next, Run, Runner, Ended

\* No tool output enters the conversation unfenced when a sanitizer is injected,
\* and each response enters it once.
THEOREM ContextFenced == Spec => []ContextIsFenced
<1>1. Init => ContextInv
  BY DEF Init, ContextInv, Looping
<1>2. IInv /\ ContextInv => ContextIsFenced
  BY DEF IInv, TypeOK, ContextInv, Fenced, ContextIsFenced
<1>. QED
  BY Invariance, ContextStep, <1>1, <1>2, PTL DEF Spec

-----------------------------------------------------------------------------
\* The answer of a run.  FinalAnswerIsLogged is kept by every step that starts
\* where IInv holds: while the run goes on it says that no response was "stop".

\* A sequence that grows by one ends in what it grew by.
LEMMA LastOfAppended ==
  ASSUME NEW S, NEW s \in Seq(S), NEW x \in S
  PROVE  Last(s \o <<x>>) = x /\ Last(Append(s, x)) = x
BY DEF Last

\* A step that does not take up a reply leaves the responses, and does not return.
LEMMA OnlyAcceptedRepliesReturn ==
  ASSUME IInv, [Next]_vars, ~AcceptReply
  PROVE  \/ responses' = <<>> /\ pc' = "top"
         \/ UNCHANGED <<responses, row, steps, step_idx, tokens_used, wiring, pc>>
         \/ responses' = responses /\ pc # "returned" /\ pc' # "returned"
<1>1. CASE SetupFresh \/ SetupResume \/ SetupWithoutSession
  BY <1>1 DEF SetupFresh, SetupResume, SetupWithoutSession, StartClock
<1>2. CASE SetupFails \/ LoopTop \/ CheckTime \/ CheckIterations \/ StartChat
  BY <1>2 DEF SetupFails, LoopTop, CheckTime, CheckIterations, StartChat, RaiseCapBreach, local
<1>3. CASE BreachTokenBudget \/ RejectTool \/ ChatTimesOut \/ ChatRaises \/ TimerFires
  BY <1>3 DEF BreachTokenBudget, RejectTool, ChatTimesOut, ChatRaises, TimerFires, ReplyReady,
              RaiseCapBreach, local
<1>4. CASE Environment \/ UNCHANGED vars
  BY <1>4 DEF Environment, GatewayReplies, GatewayFails, Tick, vars, local
<1>. QED
  BY <1>1, <1>2, <1>3, <1>4 DEF Next, Run, Runner, Ended

LEMMA AcceptedAnswerIsLogged ==
  ASSUME IInv, FinalAnswerIsLogged, [Next]_vars, AcceptReply
  PROVE  FinalAnswerIsLogged'
<1> DEFINE r == call.reply
<1>1. /\ TypeOK /\ LogInv /\ pc = "chat" /\ r \in Replies
      /\ r \in Reply /\ responses \in Seq(Replies) /\ r.tokens \in Nat
  BY ReplyInFlight, RunnerAssumption DEF IInv, AcceptReply, ReplyReady, TypeOK, Reply
<1>2. /\ responses' = Append(responses, r)
      /\ tokens_used' = tokens_used + r.tokens
      /\ AppendSteps(StepsOf(r))
      /\ pc' = "returned" <=> r.finish = "stop"
      /\ r.finish = "stop" => EndRow("completed", tokens_used + r.tokens)
  BY DEF AcceptReply, CountReply, reply
<1> HIDE DEF r
<1>3. ASSUME NEW i \in DOMAIN responses'
      PROVE  responses'[i].finish = "stop" <=> i = Len(responses') /\ pc' = "returned"
  <2>1. /\ Len(responses) \in Nat /\ Len(responses') = Len(responses) + 1
        /\ i \in 1..(Len(responses) + 1)
    BY <1>1, <1>2, <1>3
  <2>2. CASE i = Len(responses) + 1
    <3>1. responses'[i] = r
      BY <1>1, <1>2, <2>1, <2>2
    <3>. QED
      BY <1>2, <2>1, <2>2, <3>1
  <2>3. CASE i \in 1..Len(responses)
    <3>1. responses'[i] = responses[i] /\ i \in DOMAIN responses
      BY <1>1, <1>2, <2>1, <2>3
    <3>2. responses[i].finish # "stop"
      BY <1>1, <3>1 DEF FinalAnswerIsLogged
    <3>. QED
      BY <2>1, <2>3, <3>1, <3>2
  <2>. QED
    BY <2>1, <2>2, <2>3
<1>4. ASSUME Persists', pc' = "returned"
      PROVE  /\ row' = [status |-> "completed", tokens_used |-> tokens_used', ended_at |-> "set"]
             /\ Last(steps') = LlmStep(step_idx' - 1, Last(responses'))
  <2>1. Persists
    BY <1>1, <1>4, PersistsStable
  <2>2. StepsOf(r) = <<LlmStep(step_idx, r)>>
    BY <1>2, <1>4 DEF StepsOf, CheckedTool
  <2>3. steps' = steps \o <<LlmStep(step_idx, r)>> /\ step_idx' = step_idx + 1
    BY <1>2, <2>1, <2>2 DEF AppendSteps
  <2>4. LlmStep(step_idx, r) \in Step /\ steps \in Seq(Step) /\ step_idx \in Nat
    BY <1>1 DEF TypeOK, LlmStep, Step
  <2>5. Last(steps') = LlmStep(step_idx, r) /\ Last(responses') = r
    <3>1. Last(steps \o <<LlmStep(step_idx, r)>>) = LlmStep(step_idx, r)
      BY <2>4, LastOfAppended, Zenon
    <3>2. Last(Append(responses, r)) = r
      BY <1>1, LastOfAppended, Zenon
    <3>. QED
      BY <1>2, <2>3, <3>1, <3>2
  <2>6. row' = [status |-> "completed", tokens_used |-> tokens_used', ended_at |-> "set"]
    BY <1>2, <1>4, <2>1 DEF EndRow
  <2>. QED
    BY <2>3, <2>4, <2>5, <2>6
<1>. QED
  BY <1>3, <1>4 DEF FinalAnswerIsLogged

LEMMA AnswerStep == IInv /\ FinalAnswerIsLogged /\ [Next]_vars => FinalAnswerIsLogged'
<1> SUFFICES ASSUME IInv, FinalAnswerIsLogged, [Next]_vars PROVE FinalAnswerIsLogged'
  OBVIOUS
<1>1. CASE AcceptReply
  BY <1>1, AcceptedAnswerIsLogged
<1>2. CASE responses' = <<>> /\ pc' = "top"
  BY <1>2 DEF FinalAnswerIsLogged
<1>3. CASE UNCHANGED <<responses, row, steps, step_idx, tokens_used, wiring, pc>>
  BY <1>3 DEF FinalAnswerIsLogged, Persists
<1>4. CASE responses' = responses /\ pc # "returned" /\ pc' # "returned"
  BY <1>4 DEF FinalAnswerIsLogged
<1>. QED
  BY <1>1, <1>2, <1>3, <1>4, OnlyAcceptedRepliesReturn

\* A run that returns has its answer as its last response and its last step, and
\* the row says so with the tokens of the attempt.
THEOREM AnswerLogged == Spec => []FinalAnswerIsLogged
<1>1. Init => FinalAnswerIsLogged
  BY DEF Init, FinalAnswerIsLogged
<1>. QED
  BY Invariance, AnswerStep, <1>1, PTL DEF Spec

-----------------------------------------------------------------------------
\* What a log sums up to.  TokensOf is a recursive function over the length of a
\* log; its partial sums exist and are unique because a counterexample would have
\* a least index.

\* f sums up the first k steps of the log.
PartialSums(f, log, k) ==
  f = [n \in 0..k |-> IF n = 0 THEN 0 ELSE f[n - 1] + StepTokens(log[n])]

LEMMA StepTokensType == \A s \in Step : StepTokens(s) \in Nat
<1> SUFFICES ASSUME NEW s \in Step PROVE StepTokens(s) \in Nat
  OBVIOUS
<1>1. CASE s.type = "llm_call"
  <2>1. s.reply \in Reply
    BY <1>1, RunnerAssumption DEF Step
  <2>. QED
    BY <1>1, <2>1 DEF StepTokens, Reply
<1>2. CASE s.type # "llm_call"
  BY <1>2 DEF StepTokens
<1>. QED
  BY <1>1, <1>2

LEMMA PartialSumsEquations ==
  ASSUME NEW log, NEW k \in Nat, NEW f, PartialSums(f, log, k)
  PROVE  f[0] = 0 /\ \A n \in 1..k : f[n] = f[n - 1] + StepTokens(log[n])
<1> DEFINE rhs == [n \in 0..k |-> IF n = 0 THEN 0 ELSE f[n - 1] + StepTokens(log[n])]
<1>1. f = rhs
  BY DEF PartialSums
<1>2. \A n \in 0..k : rhs[n] = IF n = 0 THEN 0 ELSE f[n - 1] + StepTokens(log[n])
  OBVIOUS
<1> HIDE DEF rhs
<1>. QED
  BY <1>1, <1>2

LEMMA PartialSumsUnique ==
  ASSUME NEW log, NEW k \in Nat, NEW f, NEW g, PartialSums(f, log, k), PartialSums(g, log, k)
  PROVE  \A n \in 0..k : f[n] = g[n]
<1> DEFINE T == {n \in 0..k : f[n] # g[n]}
<1> SUFFICES ASSUME T # {} PROVE FALSE
  OBVIOUS
<1>1. PICK n \in T : \A m \in T : n <= m
  <2>1. T \subseteq Nat
    OBVIOUS
  <2> HIDE DEF T
  <2>. QED
    BY <2>1, LeastNat
<1>2. n \in 1..k
  <2>1. n \in 0..k /\ f[n] # g[n]
    OBVIOUS
  <2>2. f[0] = 0 /\ g[0] = 0
    BY PartialSumsEquations, Zenon
  <2>. QED
    BY <2>1, <2>2
<1>3. f[n] = f[n - 1] + StepTokens(log[n]) /\ g[n] = g[n - 1] + StepTokens(log[n])
  BY <1>2, PartialSumsEquations
<1>4. n - 1 \in 0..k /\ n - 1 \notin T
  BY <1>1, <1>2
<1>5. f[n - 1] = g[n - 1]
  BY <1>2, <1>4
<1>. QED
  BY <1>3, <1>5

LEMMA PartialSumsType ==
  ASSUME NEW log \in Seq(Step), NEW k \in 0..Len(log), NEW f, PartialSums(f, log, k)
  PROVE  \A n \in 0..k : f[n] \in Nat
<1> DEFINE T == {n \in 0..k : f[n] \notin Nat}
<1> SUFFICES ASSUME T # {} PROVE FALSE
  OBVIOUS
<1>1. PICK n \in T : \A m \in T : n <= m
  <2>1. T \subseteq Nat
    OBVIOUS
  <2> HIDE DEF T
  <2>. QED
    BY <2>1, LeastNat
<1>2. f[0] = 0 /\ \A m \in 1..k : f[m] = f[m - 1] + StepTokens(log[m])
  BY PartialSumsEquations
<1>3. n \in 1..k /\ n - 1 \in 0..k /\ n - 1 \notin T
  BY <1>1, <1>2
<1>4. f[n - 1] \in Nat /\ StepTokens(log[n]) \in Nat
  <2>1. log[n] \in Step
    BY <1>3
  <2>. QED
    BY <1>3, <2>1, StepTokensType
<1>. QED
  BY <1>2, <1>3, <1>4

\* The sums over one more step.
LEMMA PartialSumsExtend ==
  ASSUME NEW log, NEW k \in Nat, NEW f, PartialSums(f, log, k)
  PROVE  PartialSums([n \in 0..(k + 1) |-> IF n = k + 1 THEN f[k] + StepTokens(log[k + 1]) ELSE f[n]],
                     log, k + 1)
<1> DEFINE g == [n \in 0..(k + 1) |-> IF n = k + 1 THEN f[k] + StepTokens(log[k + 1]) ELSE f[n]]
           rhs == [n \in 0..(k + 1) |-> IF n = 0 THEN 0 ELSE g[n - 1] + StepTokens(log[n])]
<1>1. f[0] = 0 /\ \A n \in 1..k : f[n] = f[n - 1] + StepTokens(log[n])
  BY PartialSumsEquations
<1>2. ASSUME NEW n \in 0..(k + 1) PROVE g[n] = rhs[n]
  <2>1. CASE n = 0
    BY <1>1, <2>1
  <2>2. CASE n \in 1..k
    <3>1. g[n] = f[n] /\ g[n - 1] = f[n - 1] /\ f[n] = f[n - 1] + StepTokens(log[n])
      BY <1>1, <2>2
    <3>2. rhs[n] = g[n - 1] + StepTokens(log[n])
      BY <2>2
    <3>. QED
      BY <3>1, <3>2
  <2>3. CASE n = k + 1
    <3>1. g[n] = f[k] + StepTokens(log[n]) /\ g[n - 1] = f[k]
      BY <2>3
    <3>2. rhs[n] = g[n - 1] + StepTokens(log[n])
      BY <2>3
    <3>. QED
      BY <3>1, <3>2
  <2>. QED
    BY <2>1, <2>2, <2>3
<1>3. g = rhs
  BY <1>2
<1>. QED
  BY <1>3 DEF PartialSums

LEMMA PartialSumsExist ==
  ASSUME NEW log, NEW k \in Nat
  PROVE  \E f : PartialSums(f, log, k)
<1> DEFINE T == {n \in Nat : ~ \E f : PartialSums(f, log, n)}
<1> SUFFICES ASSUME T # {} PROVE FALSE
  OBVIOUS
<1>1. PICK n \in T : \A m \in T : n <= m
  <2>1. T \subseteq Nat
    OBVIOUS
  <2> HIDE DEF T
  <2>. QED
    BY <2>1, LeastNat
<1>2. n # 0
  <2> DEFINE f == [m \in 0..0 |-> 0]
  <2>1. f = [m \in 0..0 |-> IF m = 0 THEN 0 ELSE f[m - 1] + StepTokens(log[m])]
    OBVIOUS
  <2>. QED
    BY <2>1, Zenon DEF PartialSums
<1>3. n - 1 \in Nat /\ n - 1 \notin T /\ n = (n - 1) + 1
  BY <1>1, <1>2
<1>4. PICK f : PartialSums(f, log, n - 1)
  BY <1>3
<1>5. \E g : PartialSums(g, log, (n - 1) + 1)
  BY <1>3, <1>4, PartialSumsExtend, Zenon
<1>. QED
  BY <1>3, <1>5

LEMMA TokensOfIsSum ==
  ASSUME NEW log \in Seq(Step)
  PROVE  \E f : /\ PartialSums(f, log, Len(log))
                /\ TokensOf(log) = f[Len(log)]
<1> DEFINE sum == CHOOSE f : f = [n \in 0..Len(log) |->
                                    IF n = 0 THEN 0 ELSE f[n - 1] + StepTokens(log[n])]
<1>1. TokensOf(log) = sum[Len(log)]
  BY DEF TokensOf
<1>2. \E f : f = [n \in 0..Len(log) |-> IF n = 0 THEN 0 ELSE f[n - 1] + StepTokens(log[n])]
  <2>1. Len(log) \in Nat
    OBVIOUS
  <2>. QED
    BY <2>1, PartialSumsExist, Zenon DEF PartialSums
<1>3. sum = [n \in 0..Len(log) |-> IF n = 0 THEN 0 ELSE sum[n - 1] + StepTokens(log[n])]
  BY <1>2, Zenon
<1> HIDE DEF sum
<1>. QED
  BY <1>1, <1>3, Zenon DEF PartialSums

\* A step adds its own tokens to those of its log.
LEMMA TokensOfType == \A log \in Seq(Step) : TokensOf(log) \in Nat
<1> SUFFICES ASSUME NEW log \in Seq(Step) PROVE TokensOf(log) \in Nat
  OBVIOUS
<1>1. PICK f : PartialSums(f, log, Len(log)) /\ TokensOf(log) = f[Len(log)]
  BY TokensOfIsSum
<1>2. Len(log) \in 0..Len(log)
  OBVIOUS
<1>. QED
  BY <1>1, <1>2, PartialSumsType

LEMMA TokensOfEmpty == TokensOf(<<>>) = 0
<1>1. <<>> \in Seq(Step) /\ Len(<<>>) = 0
  OBVIOUS
<1>2. PICK f : PartialSums(f, <<>>, 0) /\ TokensOf(<<>>) = f[0]
  BY <1>1, TokensOfIsSum
<1>. QED
  BY <1>2, PartialSumsEquations

LEMMA TokensOfAppended ==
  ASSUME NEW log \in Seq(Step), NEW s \in Step
  PROVE  TokensOf(log \o <<s>>) = TokensOf(log) + StepTokens(s)
<1> DEFINE longer == log \o <<s>>
           k == Len(log)
<1>1. /\ longer \in Seq(Step) /\ k \in Nat /\ Len(longer) = k + 1 /\ longer[k + 1] = s
      /\ \A n \in 1..k : log[n] = longer[n]
  OBVIOUS
<1>2. PICK f : PartialSums(f, log, k) /\ TokensOf(log) = f[k]
  BY TokensOfIsSum
<1> HIDE DEF longer, k
<1>3. PICK g : PartialSums(g, longer, k + 1) /\ TokensOf(longer) = g[k + 1]
  BY <1>1, TokensOfIsSum
<1> DEFINE h == [n \in 0..(k + 1) |-> IF n = k + 1 THEN f[k] + StepTokens(longer[k + 1]) ELSE f[n]]
<1>4. PartialSums(f, longer, k)
  <2>1. [n \in 0..k |-> IF n = 0 THEN 0 ELSE f[n - 1] + StepTokens(log[n])]
          = [n \in 0..k |-> IF n = 0 THEN 0 ELSE f[n - 1] + StepTokens(longer[n])]
    BY <1>1
  <2>. QED
    BY <1>2, <2>1, Zenon DEF PartialSums
<1>5. PartialSums(h, longer, k + 1)
  BY <1>1, <1>4, PartialSumsExtend, Zenon
<1>6. h[k + 1] = f[k] + StepTokens(s)
  BY <1>1
<1> HIDE DEF h
<1>7. g[k + 1] = h[k + 1]
  <2>1. k + 1 \in Nat /\ k + 1 \in 0..(k + 1)
    BY <1>1
  <2>2. \A n \in 0..(k + 1) : g[n] = h[n]
    BY <1>3, <1>5, <2>1, PartialSumsUnique
  <2>. QED
    BY <2>1, <2>2
<1>. QED
  BY <1>2, <1>3, <1>6, <1>7 DEF longer

LEMMA AppendedInTurn ==
  ASSUME NEW S, NEW s \in Seq(S), NEW x \in S, NEW y \in S
  PROVE  s \o <<x, y>> = (s \o <<x>>) \o <<y>>
<1> DEFINE a == s \o <<x, y>>
           b == (s \o <<x>>) \o <<y>>
<1>1. a \in Seq(S) /\ Len(a) = Len(s) + 2
  OBVIOUS
<1>2. s \o <<x>> \in Seq(S) /\ Len(s \o <<x>>) = Len(s) + 1
  OBVIOUS
<1>3. b \in Seq(S) /\ Len(b) = Len(s) + 2
  BY <1>2
<1>4. ASSUME NEW i \in 1..(Len(s) + 2) PROVE a[i] = b[i]
  BY <1>2
<1> HIDE DEF a, b
<1>5. a = b
  BY <1>1, <1>3, <1>4
<1>. QED
  BY <1>5 DEF a, b

\* Whatever a reply adds to the log, it adds its tokens once.
LEMMA TokensOfReply ==
  ASSUME TypeOK, NEW r \in Replies, NEW new \in {<<LlmStep(step_idx, r)>>, StepsOf(r)}
  PROVE  TokensOf(steps \o new) = TokensOf(steps) + r.tokens
<1> DEFINE llm == LlmStep(step_idx, r)
           tool == ToolStep(step_idx + 1, CheckedTool(r))
<1>1. /\ steps \in Seq(Step) /\ step_idx \in Nat /\ wiring \in Wiring
      /\ TokensOf(steps) \in Nat /\ r.tokens \in Nat
  BY TokensOfType, RunnerAssumption DEF TypeOK, Reply
<1>2. llm \in Step /\ StepTokens(llm) = r.tokens
  BY <1>1 DEF LlmStep, Step, StepTokens
<1>3. TokensOf(steps \o <<llm>>) = TokensOf(steps) + r.tokens
  BY <1>1, <1>2, TokensOfAppended
<1>4. CASE new = <<llm>>
  BY <1>3, <1>4
<1>5. CASE new # <<llm>>
  <2>1. CheckedTool(r) # NoTool /\ new = <<llm, tool>>
    BY <1>5 DEF StepsOf
  <2>2. tool \in Step /\ StepTokens(tool) = 0
    <3>1. r \in Reply
      BY RunnerAssumption
    <3>2. CheckedTool(r) \in Tools
      BY <2>1, <3>1 DEF CheckedTool, ExtractToolName, Reply, Content
    <3>. QED
      BY <1>1, <3>2 DEF ToolStep, Step, StepTokens
  <2> DEFINE one == steps \o <<llm>>
  <2>3. new = <<llm, tool>>
    BY <2>1
  <2> HIDE DEF llm, tool
  <2>4. one \in Seq(Step)
    BY <1>1, <1>2
  <2>5. steps \o <<llm, tool>> = one \o <<tool>>
    BY <1>1, <1>2, <2>2, AppendedInTurn
  <2> HIDE DEF one
  <2>6. TokensOf(one \o <<tool>>) = TokensOf(one) + StepTokens(tool)
    BY <2>2, <2>4, TokensOfAppended
  <2>7. TokensOf(one) = TokensOf(steps) + r.tokens
    BY <1>3 DEF one
  <2>8. steps \o new = one \o <<tool>>
    BY <2>3, <2>5
  <2>. QED
    BY <1>1, <2>2, <2>6, <2>7, <2>8
<1>. QED
  BY <1>4, <1>5

\* The step of a reply that is logged.
LEMMA ReplyIsLogged ==
  ASSUME IInv, RejectTool \/ AcceptReply
  PROVE  /\ pc = "chat" /\ call.reply \in Replies /\ call.reply.tokens \in Nat
         /\ tokens_used' = tokens_used + call.reply.tokens /\ tokens_used' <= TokenBudget
         /\ iterations' = iterations + 1
         /\ cap = "none" /\ UNCHANGED <<cap, wiring>>
         /\ \E new \in {<<LlmStep(step_idx, call.reply)>>, StepsOf(call.reply)} : AppendSteps(new)
BY ReplyInFlight DEF RejectTool, AcceptReply, ReplyReady, CountReply, reply, IInv, TypeOK, BudgetInv

LEMMA LedgerStep == IInv /\ LedgerMatchesLog /\ [Next]_vars => LedgerMatchesLog'
<1> SUFFICES ASSUME IInv, LedgerMatchesLog, [Next]_vars PROVE LedgerMatchesLog'
  OBVIOUS
<1>0. TypeOK /\ CountersInv /\ BudgetInv /\ TokensOf(steps) \in Nat
  BY TokensOfType DEF IInv, TypeOK
<1>1. CASE SetupFresh
  <2>1. steps' = <<>> /\ tokens_used' = 0 /\ cap' = cap /\ cap = "none"
    BY <1>0, <1>1 DEF SetupFresh, StartClock, BudgetInv
  <2>. QED
    BY <2>1, TokensOfEmpty DEF LedgerMatchesLog
<1>2. CASE SetupResume \/ SetupWithoutSession \/ SetupFails
  BY <1>2 DEF SetupResume, SetupWithoutSession, SetupFails, StartClock, LedgerMatchesLog, Persists
<1>3. CASE pc # "setup" /\ wiring' = wiring /\ steps' = steps /\ tokens_used' = tokens_used
           /\ (cap' = "token_budget" <=> cap = "token_budget")
  BY <1>0, <1>3, PersistsStable DEF LedgerMatchesLog
<1>4. CASE LoopTop \/ CheckTime \/ CheckIterations \/ ChatTimesOut \/ TimerFires
  <2>1. /\ pc \in Looping /\ wiring' = wiring /\ steps' = steps /\ tokens_used' = tokens_used
        /\ cap' \in {cap, "timeout_s", "max_iterations"}
    BY <1>4 DEF LoopTop, CheckTime, CheckIterations, ChatTimesOut, TimerFires, RaiseCapBreach,
                local, Looping
  <2>2. cap = "none"
    BY <1>0, <2>1 DEF BudgetInv, Looping
  <2>. QED
    BY <1>3, <2>1, <2>2 DEF Looping
<1>5. CASE StartChat \/ ChatRaises
  BY <1>3, <1>5 DEF StartChat, ChatRaises, local
<1>6. CASE BreachTokenBudget
  <2>1. /\ pc = "chat" /\ steps' = steps /\ wiring' = wiring /\ cap' = "token_budget"
        /\ tokens_used' = tokens_used + call.reply.tokens /\ tokens_used' > TokenBudget
    BY <1>6 DEF BreachTokenBudget, ReplyReady, RaiseCapBreach, CountReply, reply
  <2>2. tokens_used <= TokenBudget /\ cap = "none" /\ tokens_used \in Nat
    BY <1>0, <2>1 DEF BudgetInv, TypeOK
  <2>3. call.reply.tokens \in Nat /\ TokenBudget \in Nat
    BY <1>0, <1>6, ReplyInFlight, RunnerAssumption DEF BreachTokenBudget, ReplyReady, TypeOK
  <2>. QED
    BY <1>0, <2>1, <2>2, <2>3, PersistsStable DEF LedgerMatchesLog
<1>7. CASE RejectTool \/ AcceptReply
  <2>1. /\ pc = "chat" /\ call.reply \in Replies
        /\ tokens_used' = tokens_used + call.reply.tokens
        /\ cap' = "none" /\ cap = "none" /\ wiring' = wiring
    BY <1>7, ReplyIsLogged
  <2>2. PICK new \in {<<LlmStep(step_idx, call.reply)>>, StepsOf(call.reply)} : AppendSteps(new)
    BY <1>7, ReplyIsLogged
  <2>3. TokensOf(steps \o new) = TokensOf(steps) + call.reply.tokens
    BY <1>0, <2>1, TokensOfReply
  <2>4. Persists' => Persists
    BY <2>1, PersistsStable
  <2>5. Persists => steps' = steps \o new
    BY <2>2 DEF AppendSteps
  <2>. QED
    BY <2>1, <2>3, <2>4, <2>5 DEF LedgerMatchesLog
<1>8. CASE Environment
  <2>1. pc # "setup"
    BY <1>0, <1>8 DEF CountersInv, Environment, GatewayReplies, GatewayFails, Tick, Pending, NoCall
  <2>. QED
    BY <1>3, <1>8, <2>1 DEF Environment, GatewayReplies, GatewayFails, Tick, local
<1>9. CASE UNCHANGED vars
  BY <1>9 DEF vars, local, LedgerMatchesLog, Persists
<1>. QED
  BY <1>1, <1>2, <1>4, <1>5, <1>6, <1>7, <1>8, <1>9 DEF Next, Run, Runner, Ended

\* The tokens a fresh run has counted are those of the steps it has logged, but
\* for the reply that broke the budget, which is counted and not logged.
THEOREM LedgerBalanced == Spec => []LedgerMatchesLog
<1>1. Init => LedgerMatchesLog
  BY DEF Init, LedgerMatchesLog
<1>. QED
  BY Invariance, LedgerStep, <1>1, PTL DEF Spec

-----------------------------------------------------------------------------
\* The trace

\* How many members of P a sequence has, when it grows by one.
Occurring(s, P) == {i \in DOMAIN s : s[i] \in P}

LEMMA OccurringAppended ==
  ASSUME NEW S, NEW s \in Seq(S), NEW x \in S, NEW P
  PROVE  /\ Cardinality(Occurring(s, P)) \in Nat
         /\ Cardinality(Occurring(s \o <<x>>, P)) =
              Cardinality(Occurring(s, P)) + (IF x \in P THEN 1 ELSE 0)
<1> DEFINE n == Len(s)
           longer == s \o <<x>>
<1>1. /\ n \in Nat /\ DOMAIN s = 1..n /\ DOMAIN longer = 1..(n + 1)
      /\ longer[n + 1] = x /\ \A i \in 1..n : longer[i] = s[i]
  OBVIOUS
<1> HIDE DEF n, longer
<1>2. IsFiniteSet(Occurring(s, P)) /\ Cardinality(Occurring(s, P)) \in Nat
  <2>1. IsFiniteSet(1..n)
    BY <1>1, FS_Interval
  <2>2. Occurring(s, P) \subseteq 1..n
    BY <1>1 DEF Occurring
  <2>. QED
    BY <2>1, <2>2, FS_Subset, FS_CardinalityType
<1>3. n + 1 \notin Occurring(s, P)
  BY <1>1 DEF Occurring
<1>4. CASE x \in P
  <2>1. Occurring(longer, P) = Occurring(s, P) \cup {n + 1}
    BY <1>1, <1>4 DEF Occurring
  <2>2. Cardinality(Occurring(s, P) \cup {n + 1}) = Cardinality(Occurring(s, P)) + 1
    BY <1>2, <1>3, FS_AddElement
  <2>. QED
    BY <1>2, <1>4, <2>1, <2>2 DEF longer
<1>5. CASE x \notin P
  <2>1. Occurring(longer, P) = Occurring(s, P)
    BY <1>1, <1>5 DEF Occurring
  <2>. QED
    BY <1>2, <1>5, <2>1 DEF longer
<1>. QED
  BY <1>4, <1>5

\* The replies that call a tool; SpansInv says of the tracer what SpansMatch does,
\* and that a call starts with no response.
Calling == {r \in Replies : CheckedTool(r) # NoTool}
SpansInv ==
  /\ pc = "setup" => responses = <<>>
  /\ wiring.tracer =>
       /\ llm_spans = calls
       /\ open_spans = IF pc = "chat" THEN 1 ELSE 0
       /\ tool_spans = Cardinality(Occurring(responses, Calling))

LEMMA SpansStep == IInv /\ SpansInv /\ [Next]_vars => SpansInv'
<1> SUFFICES ASSUME IInv, SpansInv, [Next]_vars PROVE SpansInv'
  OBVIOUS
<1>0. TypeOK /\ CountersInv
  BY DEF IInv
<1>1. wiring' = wiring => Calling' = Calling
  BY DEF Calling, CheckedTool
<1>2. CASE SetupFresh \/ SetupResume \/ SetupWithoutSession
  <2>1. /\ pc = "setup" /\ pc' = "top" /\ responses' = <<>> /\ wiring' = wiring
        /\ UNCHANGED <<calls, open_spans, llm_spans, tool_spans>>
    BY <1>2 DEF SetupFresh, SetupResume, SetupWithoutSession, StartClock, gateway, spans
  <2>. QED
    BY <1>1, <2>1 DEF SpansInv
<1>3. CASE /\ pc' # "setup" /\ (pc = "chat" <=> pc' = "chat")
           /\ UNCHANGED <<wiring, responses, calls, open_spans, llm_spans, tool_spans>>
  BY <1>1, <1>3 DEF SpansInv
<1>4. CASE SetupFails \/ LoopTop \/ CheckTime \/ CheckIterations
  BY <1>3, <1>4 DEF SetupFails, LoopTop, CheckTime, CheckIterations, RaiseCapBreach, local,
                    gateway, spans
<1>5. CASE StartChat
  BY <1>1, <1>5 DEF StartChat, SpansInv, local, spans
<1>6. CASE BreachTokenBudget \/ RejectTool \/ ChatTimesOut \/ ChatRaises \/ TimerFires
  <2>1. /\ pc' \in Endings /\ open_spans' = 0
        /\ UNCHANGED <<wiring, responses, calls, llm_spans, tool_spans>>
    BY <1>6 DEF BreachTokenBudget, RejectTool, ChatTimesOut, ChatRaises, TimerFires, CloseCall,
                RaiseCapBreach, local, gateway, Endings
  <2>. QED
    BY <1>1, <2>1 DEF SpansInv, Endings
<1>7. CASE AcceptReply
  <2>1. /\ pc' \in {"returned", "top"} /\ responses' = Append(responses, call.reply)
        /\ open_spans' = 0 /\ OpenToolSpan(call.reply)
        /\ UNCHANGED <<wiring, calls, llm_spans>>
    BY <1>7 DEF AcceptReply, gateway, reply
  <2>2. /\ call.reply \in Replies /\ responses \in Seq(Replies)
        /\ responses' = responses \o <<call.reply>>
    <3>1. call.reply \in Replies /\ responses \in Seq(Replies)
      BY <1>0, <1>7, ReplyInFlight DEF AcceptReply, ReplyReady, TypeOK
    <3>. QED
      BY <2>1, <3>1, AppendIsConcat
  <2>3. /\ Cardinality(Occurring(responses', Calling)) =
             Cardinality(Occurring(responses, Calling)) + (IF call.reply \in Calling THEN 1 ELSE 0)
    BY <2>1, <2>2, OccurringAppended
  <2>4. call.reply \in Calling <=> CheckedTool(call.reply) # NoTool
    BY <2>2 DEF Calling
  <2>. QED
    BY <1>1, <2>1, <2>3, <2>4 DEF SpansInv, OpenToolSpan
<1>8. CASE Environment
  <2>1. pc \in Looping
    BY <1>0, <1>8 DEF CountersInv, Environment, GatewayReplies, GatewayFails, Tick, Pending, NoCall,
                      Looping
  <2>. QED
    BY <1>3, <1>8, <2>1 DEF Environment, GatewayReplies, GatewayFails, Tick, local, gateway, spans,
                            Looping
<1>9. CASE UNCHANGED vars
  BY <1>1, <1>9 DEF vars, local, gateway, spans, SpansInv
<1>. QED
  BY <1>2, <1>4, <1>5, <1>6, <1>7, <1>8, <1>9 DEF Next, Run, Runner, Ended

\* The trace has one LLM span per gateway call, closed however the call ended,
\* and one tool span per checked tool that was allowed.
THEOREM SpansMatched == Spec => []SpansMatch
<1>1. Init => SpansInv
  <2>1. Occurring(<<>>, Calling) = {}
    BY DEF Occurring
  <2>2. Cardinality({}) = 0
    BY FS_EmptySet
  <2>. QED
    BY <2>1, <2>2 DEF Init, SpansInv
<1>2. IInv /\ SpansInv => SpansMatch
  <2> SUFFICES ASSUME IInv, SpansInv PROVE SpansMatch
    OBVIOUS
  <2>1. \A i \in DOMAIN responses : responses[i] \in Replies
    BY DEF IInv, TypeOK
  <2>2. Occurring(responses, Calling) = {i \in DOMAIN responses : CheckedTool(responses[i]) # NoTool}
    BY <2>1 DEF Occurring, Calling
  <2>. QED
    BY <2>2 DEF SpansInv, SpansMatch
<1>. QED
  BY Invariance, SpansStep, <1>1, <1>2, PTL DEF Spec

-----------------------------------------------------------------------------
\* The runner implements BoundedRun

\* What the mapped variables say at each point of the run.
LEMMA PhaseOf ==
  /\ pc = "returned" => Phase = "completed"
  /\ pc = "capped" => Phase = "capped"
  /\ pc = "raised" => Phase = "failed"
  /\ pc \notin Endings => Phase = "working"
BY DEF Phase, Endings

LEMMA InitImplements == Init => Bounded!Init
<1> SUFFICES ASSUME Init PROVE Bounded!Init
  OBVIOUS
<1>1. Phase = "working"
  BY PhaseOf DEF Init, Endings
<1>2. ~Late
  BY InitIInv DEF Init, IInv, CountersInv
<1>. QED
  BY <1>1, <1>2 DEF Init, Bounded!Init

LEMMA StepImplements == IInv /\ [Next]_vars => [Bounded!Next]_(Bounded!vars)
<1> SUFFICES ASSUME IInv, [Next]_vars
             PROVE  Bounded!Next \/ UNCHANGED <<Phase, cap, pc = "chat", calls, tokens_used, Late>>
  BY DEF Bounded!vars
<1>0. TypeOK /\ CountersInv /\ BudgetInv
  BY DEF IInv
<1>m. MaxIterations \in Nat /\ TokenBudget \in Nat /\ TimeoutS \in Nat \ {0}
  BY RunnerAssumption
<1>p. /\ pc' = "returned" => Phase' = "completed"
      /\ pc' = "capped" => Phase' = "capped"
      /\ pc' = "raised" => Phase' = "failed"
      /\ pc' \notin Endings => Phase' = "working"
  BY DEF Phase, Endings
\* The run is given up because time is up ...
<1>a. ASSUME pc \notin Endings, Late, RaiseCapBreach("timeout_s", tokens_used),
             UNCHANGED <<calls, tokens_used, elapsed, client_late>>
      PROVE  Bounded!OutOfTime
  <2>1. Phase = "working" /\ Phase' = "capped" /\ pc' = "capped" /\ cap' = "timeout_s" /\ Late' = Late
    BY <1>a, <1>p, PhaseOf DEF RaiseCapBreach, Late
  <2>. QED
    BY <1>a, <2>1 DEF Bounded!OutOfTime
\* ... or by another error.
<1>b. ASSUME pc \notin Endings, pc' = "raised",
             UNCHANGED <<cap, calls, tokens_used, elapsed, client_late>>
      PROVE  Bounded!Fail
  <2>1. Phase = "working" /\ Phase' = "failed" /\ Late' = Late
    BY <1>b, <1>p, PhaseOf DEF Late
  <2>. QED
    BY <1>b, <2>1 DEF Bounded!Fail
<1>1. CASE SetupFresh \/ SetupResume \/ SetupWithoutSession
  <2>1. /\ pc = "setup" /\ pc' = "top" /\ elapsed' = 0 /\ tokens_used' = 0
        /\ UNCHANGED <<cap, calls, client_late>>
    BY <1>1 DEF SetupFresh, SetupResume, SetupWithoutSession, StartClock, gateway
  <2>2. tokens_used = 0 /\ ~Late /\ ~Late'
    BY <1>0, <1>m, <2>1 DEF CountersInv, Late
  <2>3. Phase = "working" /\ Phase' = "working"
    BY <2>1, <1>p, PhaseOf DEF Endings
  <2>. QED
    BY <2>1, <2>2, <2>3, <1>0 DEF TypeOK, Late
<1>2. CASE SetupFails
  <2>1. Bounded!Fail
    BY <1>2, <1>b DEF SetupFails, Endings, local, gateway
  <2>. QED
    BY <2>1 DEF Bounded!Next
<1>3. CASE LoopTop /\ TimeLeft
  <2>1. /\ pc = "top" /\ pc' = "check"
        /\ UNCHANGED <<cap, calls, tokens_used, elapsed, client_late>>
    BY <1>3 DEF LoopTop, local, gateway
  <2>. QED
    BY <2>1, <1>p, PhaseOf DEF Endings, Late
<1>4. CASE CheckTime \/ (LoopTop /\ ~TimeLeft)
  <2>1. Late
    BY <1>0, <1>m, <1>4 DEF CheckTime, TimeLeft, TypeOK, Late
  <2>2. Bounded!OutOfTime
    BY <1>4, <1>a, <2>1 DEF LoopTop, CheckTime, Endings, local, gateway
  <2>. QED
    BY <2>2 DEF Bounded!Next
<1>5. CASE CheckIterations
  <2>1. /\ pc = "check" /\ pc' = "capped" /\ cap' = "max_iterations"
        /\ UNCHANGED <<calls, tokens_used, elapsed, client_late>>
    BY <1>5 DEF CheckIterations, RaiseCapBreach, local, gateway
  <2>2. calls = MaxIterations
    BY <1>0, <1>m, <1>5 DEF CheckIterations, IterationsLeft, CountersInv, TypeOK
  <2>3. Phase = "working" /\ Phase' = "capped" /\ Late' = Late
    BY <2>1, <1>p, PhaseOf DEF Endings, Late
  <2>4. Bounded!OutOfIterations
    BY <2>1, <2>2, <2>3 DEF Bounded!OutOfIterations
  <2>. QED
    BY <2>4 DEF Bounded!Next
<1>6. CASE StartChat
  <2>1. /\ pc = "check" /\ pc' = "chat" /\ calls' = calls + 1
        /\ UNCHANGED <<cap, tokens_used, elapsed, client_late>>
    BY <1>6 DEF StartChat, local
  <2>2. calls < MaxIterations /\ tokens_used <= TokenBudget
    BY <1>0, <1>6 DEF StartChat, IterationsLeft, CountersInv, BudgetInv
  <2>3. Phase = "working" /\ Phase' = "working" /\ Late' = Late
    BY <2>1, <1>p, PhaseOf DEF Endings, Late
  <2>4. Bounded!Call
    BY <2>1, <2>2, <2>3 DEF Bounded!Call
  <2>. QED
    BY <2>4 DEF Bounded!Next
<1>7. CASE BreachTokenBudget \/ RejectTool \/ AcceptReply
  <2> DEFINE n == call.reply.tokens
  <2>1. n \in {r.tokens : r \in Replies}
    BY <1>0, <1>7, ReplyInFlight DEF BreachTokenBudget, RejectTool, AcceptReply, ReplyReady, TypeOK
  <2>2. /\ pc = "chat" /\ pc' # "chat" /\ tokens_used' = tokens_used + n
        /\ UNCHANGED <<calls, elapsed, client_late>>
    BY <1>7 DEF BreachTokenBudget, RejectTool, AcceptReply, ReplyReady, CountReply,
                RaiseCapBreach, gateway, reply
  <2>3. Phase = "working" /\ Late' = Late
    BY <2>2, PhaseOf DEF Endings, Late
  <2>4. \/ /\ tokens_used + n > TokenBudget
           /\ Phase' = "capped" /\ cap' = "token_budget"
        \/ /\ tokens_used + n <= TokenBudget
           /\ Phase' \in {"working", "completed", "failed"} /\ cap' = cap
    BY <1>7, <1>p DEF BreachTokenBudget, RejectTool, AcceptReply, RaiseCapBreach, Endings, reply
  <2>5. Bounded!TakeReply(n)
    BY <2>2, <2>3, <2>4 DEF Bounded!TakeReply
  <2>. QED
    BY <2>1, <2>5 DEF Bounded!Next
<1>8. CASE ChatTimesOut \/ TimerFires
  <2>1. Late
    BY <1>0, <1>8 DEF ChatTimesOut, TimerFires, TimerDue, CountersInv, Late
  <2>2. Bounded!OutOfTime
    BY <1>8, <1>a, <2>1 DEF ChatTimesOut, TimerFires, Endings, local, gateway
  <2>. QED
    BY <2>2 DEF Bounded!Next
<1>9. CASE ChatRaises
  <2>1. Bounded!Fail
    BY <1>9, <1>b DEF ChatRaises, Endings, local, gateway
  <2>. QED
    BY <2>1 DEF Bounded!Next
<1>10. CASE Environment
  <2>1. pc' = pc /\ UNCHANGED <<cap, calls, tokens_used>> /\ pc \notin Endings
    BY <1>0, <1>10 DEF Environment, GatewayReplies, GatewayFails, Tick, CountersInv, Pending, NoCall,
                       Endings, local, gateway
  <2>2. Phase = "working" /\ Phase' = "working"
    BY <2>1, <1>p, PhaseOf
  <2>3. Late => Late'
    BY <1>0, <1>m, <1>10 DEF Environment, GatewayReplies, GatewayFails, Tick, Late, TypeOK, gateway
  <2>4. CASE Late' = Late
    BY <2>1, <2>2, <2>4
  <2>5. CASE ~Late /\ Late'
    <3>1. Bounded!Expire
      BY <2>1, <2>2, <2>5 DEF Bounded!Expire
    <3>. QED
      BY <3>1 DEF Bounded!Next
  <2>. QED
    BY <2>3, <2>4, <2>5 DEF Late
<1>11. CASE UNCHANGED vars
  BY <1>11 DEF vars, local, gateway, Phase, Late
<1>. QED
  BY <1>1, <1>2, <1>3, <1>4, <1>5, <1>6, <1>7, <1>8, <1>9, <1>10, <1>11
     DEF Next, Run, Runner, Ended

\* Every behaviour of the runner is one of the abstract run: whatever replies,
\* errors, timeouts and database states it meets, it asks for no call and ends
\* in no way that BoundedRun does not allow.
THEOREM Implements == Spec => Bounded!Spec
<1>1. IInv /\ [Next]_vars => [Bounded!Next]_(Bounded!vars)
  BY StepImplements
<1>. QED
  BY InitImplements, Invariance, <1>1, PTL DEF Spec, Bounded!Spec

-----------------------------------------------------------------------------
\* What BoundedRun promises the caller

\* A run that is still working has no cap and is within its budget: that is why
\* one reply is all it can spend beyond it.
WorkingInv == Phase = "working" => cap = "none" /\ tokens_used <= TokenBudget

BoundedInv == Bounded!TypeOK /\ WorkingInv /\ Bounded!CapsAreKept

\* The promise is kept in every step that BoundedRun allows; nothing else of the
\* runner is needed for it.
LEMMA BoundedStep == BoundedInv /\ [Bounded!Next]_(Bounded!vars) => BoundedInv'
<1> DEFINE Costs == {r.tokens : r \in Replies}
<1> SUFFICES ASSUME BoundedInv, [Bounded!Next]_(Bounded!vars) PROVE BoundedInv'
  OBVIOUS
<1>0. Bounded!TypeOK /\ WorkingInv /\ Bounded!CapsAreKept
  BY DEF BoundedInv
<1>m. MaxIterations \in Nat /\ TokenBudget \in Nat
  BY RunnerAssumption
<1> USE DEF BoundedInv, Bounded!TypeOK, WorkingInv, Bounded!CapsAreKept, Bounded!Endings, Bounded!Caps
<1>1. CASE Bounded!Call
  BY <1>0, <1>m, <1>1 DEF Bounded!Call
<1>2. ASSUME NEW n \in Costs, Bounded!TakeReply(n) PROVE BoundedInv'
  <2>1. n \in Nat
    BY RunnerAssumption DEF Reply
  <2>2. /\ Phase = "working" /\ tokens_used \in Nat /\ tokens_used <= TokenBudget /\ cap = "none"
        /\ tokens_used' = tokens_used + n /\ (pc = "chat")' = FALSE /\ calls' = calls /\ Late' = Late
    BY <1>0, <1>2 DEF Bounded!TakeReply
  <2>3. tokens_used' \in Nat /\ tokens_used' <= TokenBudget + n
    BY <1>m, <2>1, <2>2
  <2>4. CASE Phase' = "capped" /\ cap' = "token_budget" /\ tokens_used + n > TokenBudget
    BY <1>0, <2>2, <2>3, <2>4
  <2>5. CASE /\ Phase' \in {"working", "completed", "failed"} /\ cap' = cap
             /\ tokens_used + n <= TokenBudget
    BY <1>0, <2>2, <2>3, <2>5
  <2>. QED
    BY <1>2, <2>4, <2>5 DEF Bounded!TakeReply
<1>3. CASE Bounded!OutOfIterations
  BY <1>0, <1>m, <1>3 DEF Bounded!OutOfIterations
<1>4. CASE Bounded!Expire
  BY <1>0, <1>m, <1>4 DEF Bounded!Expire
<1>5. CASE Bounded!OutOfTime
  BY <1>0, <1>m, <1>5 DEF Bounded!OutOfTime
<1>6. CASE Bounded!Fail
  BY <1>0, <1>m, <1>6 DEF Bounded!Fail
<1>7. CASE UNCHANGED Bounded!vars
  BY <1>0, <1>m, <1>7 DEF Bounded!vars
<1>. QED
  BY <1>1, <1>2, <1>3, <1>4, <1>5, <1>6, <1>7 DEF Bounded!Next

\* Whatever the replies cost, the runner makes no more than max_iterations calls,
\* pays for one reply at most beyond its budget, and the cap it names is one it
\* has reached.
THEOREM CapsKept == Spec => []Bounded!CapsAreKept
<1>1. Bounded!Init => BoundedInv
  <2> SUFFICES ASSUME Bounded!Init PROVE BoundedInv
    OBVIOUS
  <2>m. MaxIterations \in Nat /\ TokenBudget \in Nat
    BY RunnerAssumption
  <2>1. /\ Phase = "working" /\ cap = "none" /\ calls = 0 /\ tokens_used = 0
        /\ (pc = "chat") = FALSE /\ Late = FALSE
    BY DEF Bounded!Init
  <2>2. Bounded!TypeOK
    BY <2>1 DEF Bounded!TypeOK, Late
  <2>3. WorkingInv
    BY <2>m, <2>1 DEF WorkingInv
  <2>4. Bounded!CapsAreKept
    BY <2>m, <2>1 DEF Bounded!CapsAreKept
  <2>. QED
    BY <2>2, <2>3, <2>4 DEF BoundedInv
<1>2. BoundedInv => Bounded!CapsAreKept
  BY DEF BoundedInv
<1>. QED
  BY Implements, BoundedStep, <1>1, <1>2, PTL DEF Bounded!Spec
=============================================================================
