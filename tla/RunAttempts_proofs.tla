-------------------------- MODULE RunAttempts_proofs --------------------------
(***************************************************************************)
(* Theorems about RunAttempts, for every value of its constants: however   *)
(* often a run is interrupted and resumed, its committed log stays sound   *)
(* and only grows.                                                         *)
(*                                                                         *)
(* While a session is open the invariant of the runner holds and the       *)
(* session extends what is stored; when it is closed only the stored run   *)
(* is left, and that is all a resumed attempt needs.                       *)
(***************************************************************************)
EXTENDS RunAttempts, AgentRunner_proofs

\* One log begins with the other.
Begins(s, t) == Len(s) <= Len(t) /\ \A i \in 1..Len(s) : t[i] = s[i]

LEMMA PrefixOfSeq ==
  ASSUME NEW S, NEW s \in Seq(S), NEW t \in Seq(S), Begins(s, t)
  PROVE  IsPrefix(s, t)
<1>1. Len(s) \in Nat /\ Len(t) \in Nat /\ Len(s) <= Len(t)
  BY DEF Begins
<1>. QED
  BY <1>1 DEF Begins, IsPrefix

\* The stored run is well formed.
StoredInv ==
  /\ stored.row \in Row
  /\ stored.steps \in Seq(Step)
  /\ StoredLogIsSound

\* A session that is open extends the stored run, and one that creates its run
\* has nothing stored to extend.
SessionInv ==
  IF session_open
  THEN /\ IInv
       /\ Begins(stored.steps, steps)
       /\ ~wiring.resume => stored.steps = <<>>
  ELSE TypeOK /\ row = stored.row /\ steps = stored.steps

AttemptsInv == StoredInv /\ SessionInv
-----------------------------------------------------------------------------
\* The runner only appends to its session, unless it creates the run.
LEMMA RunAppends ==
  ASSUME IInv, Run
  PROVE  Begins(steps, steps') \/ (~wiring.resume /\ steps' = <<>>)
<1>0. TypeOK
  BY DEF IInv
<1>1. CASE UNCHANGED steps
  BY <1>0, <1>1 DEF Begins, TypeOK
<1>2. CASE SetupFresh
  BY <1>2 DEF SetupFresh
<1>3. CASE RejectTool \/ AcceptReply
  <2>1. call.reply \in Replies
    BY <1>0, <1>3, ReplyInFlight DEF RejectTool, AcceptReply, ReplyReady, TypeOK
  <2>2. PICK added \in {<<LlmStep(step_idx, call.reply)>>, StepsOf(call.reply)} : AppendSteps(added)
    BY <1>3 DEF RejectTool, AcceptReply, reply
  <2>3. added \in Seq(Step) /\ steps \in Seq(Step)
    BY <1>0, <2>1, <2>2, StepsOfType DEF TypeOK
  <2>4. CASE steps' = steps \o added
    BY <2>3, <2>4 DEF Begins
  <2>. QED
    BY <1>1, <2>2, <2>4 DEF AppendSteps
<1>. QED
  BY <1>1, <1>2, <1>3 DEF Run, Runner, Environment, SetupResume, SetupWithoutSession, SetupFails,
       LoopTop, CheckTime, CheckIterations, StartChat, BreachTokenBudget, ChatTimesOut, ChatRaises,
       TimerFires, GatewayReplies, GatewayFails, Tick

LEMMA WiringKept == Run => wiring' = wiring
BY DEF Run, Runner, Environment, SetupFresh, SetupResume, SetupWithoutSession, SetupFails,
       LoopTop, CheckTime, CheckIterations, StartChat, BreachTokenBudget, RejectTool,
       AcceptReply, ChatTimesOut, ChatRaises, TimerFires, GatewayReplies, GatewayFails, Tick,
       StartClock

LEMMA BeginsTransitive ==
  ASSUME NEW S, NEW s \in Seq(S), NEW t \in Seq(S), NEW u \in Seq(S), Begins(s, t), Begins(t, u)
  PROVE  Begins(s, u)
<1>1. Len(s) \in Nat /\ Len(t) \in Nat /\ Len(u) \in Nat
  OBVIOUS
<1>. QED
  BY <1>1 DEF Begins

LEMMA InitAttemptsInv == AttemptsInit => AttemptsInv
<1> SUFFICES ASSUME AttemptsInit PROVE AttemptsInv
  OBVIOUS
<1>1. IInv
  BY InitIInv DEF AttemptsInit
<1>2. StoredInv
  BY <1>1 DEF AttemptsInit, StoredInv, IInv, TypeOK, LogInv, StepLogIsSound, StoredLogIsSound
<1>3. Begins(stored.steps, steps)
  BY <1>1 DEF AttemptsInit, Begins, IInv, TypeOK
<1>4. ~wiring.resume => stored.steps = <<>>
  BY DEF AttemptsInit, Init
<1>. QED
  BY <1>1, <1>2, <1>3, <1>4 DEF AttemptsInit, AttemptsInv, SessionInv

LEMMA AttemptsStep == AttemptsInv /\ [AttemptsNext]_attemptVars => AttemptsInv'
<1> SUFFICES ASSUME AttemptsInv, [AttemptsNext]_attemptVars PROVE AttemptsInv'
  OBVIOUS
<1>0. StoredInv /\ SessionInv
  BY DEF AttemptsInv
<1>s. ASSUME stored' = stored PROVE StoredInv'
  BY <1>0, <1>s DEF StoredInv, StoredLogIsSound, Gapless, ToolStepsAnswer
<1>r. IInv /\ [Next]_vars => IInv'
  BY TypeStep, CountersStep, BudgetStep, BillStep, LogStep DEF IInv
<1>1. CASE RunStep
  <2>1. IInv /\ Begins(stored.steps, steps) /\ (~wiring.resume => stored.steps = <<>>)
    BY <1>0, <1>1 DEF SessionInv, RunStep
  <2>2. IInv' /\ stored' = stored /\ session_open' /\ wiring' = wiring
    BY <1>1, <1>r, <2>1, WiringKept DEF RunStep, Next
  <2>3. steps \in Seq(Step) /\ steps' \in Seq(Step) /\ stored.steps \in Seq(Step)
    BY <1>0, <2>1, <2>2 DEF IInv, TypeOK, StoredInv
  <2>4. Begins(stored.steps, steps')
    <3>1. CASE Begins(steps, steps')
      BY <2>1, <2>3, <3>1, BeginsTransitive
    <3>2. CASE ~wiring.resume /\ steps' = <<>>
      BY <2>1, <3>2 DEF Begins
    <3>. QED
      BY <1>1, <2>1, <3>1, <3>2, RunAppends DEF RunStep
  <2>. QED
    BY <1>s, <2>1, <2>2, <2>4 DEF AttemptsInv, SessionInv
<1>2. CASE Commit
  <2>1. IInv /\ TypeOK /\ StepLogIsSound
    BY <1>0, <1>2 DEF SessionInv, Commit, IInv, LogInv
  <2>2. stored' = [row |-> row, steps |-> steps] /\ row' = row /\ steps' = steps /\ ~session_open'
    BY <1>2 DEF Commit, SessionState, vars
  <2>3. IInv'
    BY <1>2, <1>r, <2>1 DEF Commit
  <2>4. StoredInv'
    BY <2>1, <2>2 DEF StoredInv, TypeOK, StepLogIsSound, StoredLogIsSound, Gapless, ToolStepsAnswer
  <2>. QED
    BY <2>2, <2>3, <2>4 DEF AttemptsInv, SessionInv, IInv
<1>3. CASE Rollback
  <2>1. TypeOK
    BY <1>0, <1>3 DEF SessionInv, Rollback, IInv
  <2>2. TypeOK'
    BY <1>0, <1>3, <2>1 DEF Rollback, StoredInv, TypeOK, local, gateway, spans
  <2>. QED
    BY <1>3, <1>s, <2>2 DEF Rollback, AttemptsInv, SessionInv
<1>4. CASE Resume
  <2>1. TypeOK /\ row = stored.row /\ steps = stored.steps /\ session_open' /\ stored' = stored
        /\ row' = row /\ steps' = steps /\ wiring' = [wiring EXCEPT !.resume = TRUE]
    BY <1>0, <1>4 DEF SessionInv, Resume
  <2>w. wiring' \in Wiring
    BY <2>1 DEF TypeOK, Wiring
  <2>e. <<>> \in Seq({"user", "verbatim", "fenced"}) /\ <<>> \in Seq(Replies) /\ 0 \in 0..TimeoutS
    BY RunnerAssumption
  <2>2. TypeOK'
    BY <1>4, <2>1, <2>w, <2>e, CallValues DEF Resume, TypeOK, Endings
  <2>3. CountersInv' /\ BudgetInv' /\ BillInv'
    BY <1>4, RunnerAssumption
       DEF Resume, CountersInv, BudgetInv, BillInv, CapIsReal, TokensAreAccounted, Late, Endings,
           NoCall, Failed
  <2>4. LogInv'
    BY <1>0, <1>4, <2>1
       DEF Resume, LogInv, Looping, StoredInv, StoredLogIsSound, StepLogIsSound, Gapless, ToolStepsAnswer
  <2>5. Begins(stored.steps, steps)' /\ wiring'.resume
    BY <2>1 DEF Begins, TypeOK, Wiring
  <2>. QED
    BY <1>s, <2>1, <2>2, <2>3, <2>4, <2>5 DEF AttemptsInv, SessionInv, IInv
<1>5. CASE Abandoned \/ UNCHANGED attemptVars
  <2>1. UNCHANGED <<stored, session_open, wiring, row, steps>> /\ UNCHANGED vars
    BY <1>5 DEF Abandoned, attemptVars, vars
  <2>2. SessionInv'
    <3>1. CASE session_open
      BY <1>0, <1>r, <2>1, <3>1 DEF SessionInv, Begins
    <3>2. CASE ~session_open
      BY <1>0, <2>1, <3>2 DEF SessionInv, TypeOK, vars, local, gateway, spans
    <3>. QED
      BY <3>1, <3>2
  <2>. QED
    BY <1>s, <2>1, <2>2 DEF AttemptsInv
<1>. QED
  BY <1>1, <1>2, <1>3, <1>4, <1>5 DEF AttemptsNext

-----------------------------------------------------------------------------
\* Every step keeps the invariant, so every behaviour does.
THEOREM AttemptsInvariance == AttemptsSpec => []AttemptsInv
BY InitAttemptsInv, AttemptsStep, PTL DEF AttemptsSpec

\* The committed log is numbered without gap or repetition and its tool steps
\* answer its LLM steps, whatever was rolled back, lost or resumed.
THEOREM StoredLogSound == AttemptsSpec => []StoredLogIsSound
<1>1. AttemptsInv => StoredLogIsSound
  BY DEF AttemptsInv, StoredInv
<1>. QED
  BY AttemptsInvariance, <1>1, PTL

\* A committed step is never lost or rewritten by a later attempt.
THEOREM StoredLogGrows == AttemptsSpec => StoredLogOnlyGrows
<1>1. AttemptsInv /\ [AttemptsNext]_attemptVars
        => [IsPrefix(stored.steps, stored'.steps)]_attemptVars
  <2> SUFFICES ASSUME AttemptsInv, [AttemptsNext]_attemptVars
               PROVE  IsPrefix(stored.steps, stored'.steps)
    OBVIOUS
  <2>1. stored.steps \in Seq(Step)
    BY DEF AttemptsInv, StoredInv
  <2>2. CASE stored' = stored
    <3>1. Begins(stored.steps, stored.steps)
      BY <2>1 DEF Begins
    <3>. QED
      BY <2>1, <2>2, <3>1, PrefixOfSeq
  <2>3. CASE Commit
    <3>1. Begins(stored.steps, steps) /\ steps \in Seq(Step) /\ stored'.steps = steps
      BY <2>3 DEF AttemptsInv, SessionInv, Commit, SessionState, IInv, TypeOK
    <3>. QED
      BY <2>1, <3>1, PrefixOfSeq
  <2>. QED
    BY <2>2, <2>3 DEF AttemptsNext, RunStep, Rollback, Resume, Abandoned, attemptVars
<1>. QED
  BY AttemptsInvariance, <1>1, PTL DEF AttemptsSpec, StoredLogOnlyGrows

-----------------------------------------------------------------------------
\* A completed run and its answer

Answered(r, log) ==
  r.status = "completed" =>
    log # <<>> /\ Last(log).type = "llm_call" /\ Last(log).reply.finish = "stop"

\* The stored run is answered, and so is the one in the session at every point.
AnsweredInv ==
  /\ CompletedHasAnswer
  /\ session_open => RowInv /\ FinalAnswerIsLogged /\ Answered(row, steps)

\* While a run with a row works, its row is running; what completes it is the step
\* that logs the answer.
LEMMA RunKeepsAnswered ==
  ASSUME IInv, RowInv, Answered(row, steps), FinalAnswerIsLogged', Run
  PROVE  Answered(row', steps')
<1>0. TypeOK
  BY DEF IInv
<1>s. [Next]_vars
  BY DEF Next
<1>1. CASE UNCHANGED <<row, steps>>
  BY <1>1
<1>2. CASE SetupFresh \/ SetupResume
  <2>1. row'.status # "completed"
    BY <1>0, <1>2 DEF SetupFresh, SetupResume, NoRow, TypeOK, Row
  <2>. QED
    BY <2>1 DEF Answered
<1>c. ASSUME UNCHANGED steps, NEW name, NEW n, RaiseCapBreach(name, n) PROVE Answered(row', steps')
  BY <1>c DEF RaiseCapBreach, EndRow, Answered
<1>3. CASE LoopTop \/ CheckTime \/ CheckIterations \/ BreachTokenBudget \/ ChatTimesOut \/ TimerFires
  BY <1>1, <1>3, <1>c
     DEF LoopTop, CheckTime, CheckIterations, BreachTokenBudget, ChatTimesOut, TimerFires
<1>4. CASE RejectTool
  <2>1. CASE ~Persists
    BY <1>1, <1>4, <2>1 DEF RejectTool, AppendSteps
  <2>2. CASE Persists
    BY <1>4, <2>2 DEF RejectTool, ReplyReady, RowInv, Looping, Answered
  <2>. QED
    BY <2>1, <2>2
<1>5. CASE AcceptReply
  <2> DEFINE r == call.reply
  <2>1. /\ pc = "chat" /\ r \in Replies /\ responses \in Seq(Replies)
        /\ responses' = Append(responses, r) /\ AppendSteps(StepsOf(r))
        /\ pc' = "returned" <=> r.finish = "stop"
        /\ pc' # "returned" => row' = row
        /\ pc' = "returned" => EndRow("completed", tokens_used + r.tokens)
    BY <1>0, <1>5, ReplyInFlight DEF AcceptReply, ReplyReady, TypeOK, reply
  <2>2. CASE ~Persists
    BY <1>1, <2>1, <2>2 DEF AppendSteps, EndRow
  <2>3. CASE Persists /\ pc' # "returned"
    BY <2>1, <2>3 DEF RowInv, Looping, Answered
  <2>4. CASE Persists /\ pc' = "returned"
    <3>1. Persists'
      BY <1>5, <2>1, <2>4 DEF AcceptReply, Persists, EndRow, NoRow
    <3>2. Last(steps') = LlmStep(step_idx' - 1, Last(responses')) /\ Last(responses') = r
      BY <2>1, <2>4, <3>1, LastOfAppended DEF FinalAnswerIsLogged
    <3>3. Last(steps').type = "llm_call" /\ Last(steps').reply.finish = "stop"
      BY <2>1, <2>4, <3>2 DEF LlmStep
    <3>4. steps' # <<>>
      <4>1. StepsOf(r) \in Seq(Step) /\ StepsOf(r) # <<>> /\ steps \in Seq(Step)
        BY <1>0, <2>1, StepsOfType DEF StepsOf, TypeOK
      <4>2. steps' = steps \o StepsOf(r)
        BY <2>1, <2>4 DEF AppendSteps
      <4>. QED
        BY <4>1, <4>2
    <3>. QED
      BY <3>3, <3>4 DEF Answered
  <2>. QED
    BY <2>2, <2>3, <2>4
<1>. QED
  BY <1>1, <1>2, <1>3, <1>4, <1>5
     DEF Run, Runner, Environment, SetupWithoutSession, SetupFails, StartChat, ChatRaises,
         GatewayReplies, GatewayFails, Tick

LEMMA AnsweredStep ==
  AttemptsInv /\ AnsweredInv /\ [AttemptsNext]_attemptVars => AnsweredInv'
<1> SUFFICES ASSUME AttemptsInv, AnsweredInv, [AttemptsNext]_attemptVars PROVE AnsweredInv'
  OBVIOUS
<1>1. CASE RunStep
  <2>1. IInv /\ RowInv /\ FinalAnswerIsLogged /\ Answered(row, steps) /\ [Next]_vars /\ Run
    BY <1>1 DEF RunStep, AttemptsInv, SessionInv, AnsweredInv, Next
  <2>2. RowInv' /\ FinalAnswerIsLogged' /\ Answered(row', steps')
    BY <2>1, RowInvStep, AnswerStep, RunKeepsAnswered
  <2>. QED
    BY <1>1, <2>2 DEF RunStep, AnsweredInv, CompletedHasAnswer, Completed, Answered
<1>2. CASE Commit
  <2>1. Answered(row, steps) /\ stored' = [row |-> row, steps |-> steps] /\ ~session_open'
    BY <1>2 DEF Commit, SessionState, AnsweredInv
  <2>. QED
    BY <2>1 DEF AnsweredInv, CompletedHasAnswer, Completed, Answered
<1>3. CASE Rollback
  BY <1>3 DEF Rollback, AnsweredInv, CompletedHasAnswer, Completed
<1>4. CASE Resume
  <2>1. row' = stored.row /\ steps' = stored.steps /\ stored' = stored
    BY <1>4 DEF Resume, AttemptsInv, SessionInv
  <2>2. RowInv' /\ FinalAnswerIsLogged'
    BY <1>4 DEF Resume, RowInv, FinalAnswerIsLogged, Looping
  <2>. QED
    BY <2>1, <2>2 DEF AnsweredInv, CompletedHasAnswer, Completed, Answered
<1>5. CASE Abandoned \/ UNCHANGED attemptVars
  <2>1. UNCHANGED <<stored, session_open>> /\ UNCHANGED vars
    BY <1>5 DEF Abandoned, attemptVars
  <2>2. session_open => RowInv' /\ FinalAnswerIsLogged' /\ Answered(row', steps')
    BY <2>1, RowInvStep, AnswerStep DEF AnsweredInv, AttemptsInv, SessionInv, vars
  <2>. QED
    BY <2>1, <2>2 DEF AnsweredInv, CompletedHasAnswer, Completed
<1>. QED
  BY <1>1, <1>2, <1>3, <1>4, <1>5 DEF AttemptsNext

\* However many attempts it took, a run stored as completed ends in its answer, if
\* that was so of what the first attempt found.
THEOREM CompletedAnswered ==
  ASSUME \A p \in Priors : Answered(p.row, p.steps)
  PROVE  AttemptsSpec => []CompletedHasAnswer
<1>1. AttemptsInit => AnsweredInv
  <2> SUFFICES ASSUME AttemptsInit PROVE AnsweredInv
    OBVIOUS
  <2>1. Answered(row, steps)
    BY DEF AttemptsInit, Init, Answered, NoRow
  <2>2. RowInv /\ FinalAnswerIsLogged
    BY DEF AttemptsInit, Init, RowInv, FinalAnswerIsLogged, Looping
  <2>. QED
    BY <2>1, <2>2 DEF AttemptsInit, AnsweredInv, CompletedHasAnswer, Completed, Answered
<1>2. AnsweredInv => CompletedHasAnswer
  BY DEF AnsweredInv
<1>. QED
  BY AttemptsInvariance, AnsweredStep, <1>1, <1>2, PTL DEF AttemptsSpec

-----------------------------------------------------------------------------
\* What a run may spend

LlmCount(log) == Cardinality(LlmSteps(log))
LlmCalls == {s \in Step : s.type = "llm_call"}

LEMMA LlmStepsOccur ==
  ASSUME NEW log \in Seq(Step)
  PROVE  LlmSteps(log) = Occurring(log, LlmCalls)
<1>1. \A i \in DOMAIN log : log[i] \in Step
  OBVIOUS
<1>. QED
  BY <1>1 DEF LlmSteps, Occurring, LlmCalls

LEMMA LlmCountAppended ==
  ASSUME NEW log \in Seq(Step), NEW s \in Step
  PROVE  /\ LlmCount(log) \in Nat
         /\ LlmCount(log \o <<s>>) = LlmCount(log) + (IF s.type = "llm_call" THEN 1 ELSE 0)
<1>1. log \o <<s>> \in Seq(Step)
  OBVIOUS
<1>2. /\ LlmCount(log) = Cardinality(Occurring(log, LlmCalls))
      /\ LlmCount(log \o <<s>>) = Cardinality(Occurring(log \o <<s>>, LlmCalls))
  BY <1>1, LlmStepsOccur DEF LlmCount
<1>3. s \in LlmCalls <=> s.type = "llm_call"
  BY DEF LlmCalls
<1>. QED
  BY <1>2, <1>3, OccurringAppended

LEMMA LlmCountEmpty == LlmCount(<<>>) = 0
<1>1. LlmSteps(<<>>) = {}
  BY DEF LlmSteps
<1>. QED
  BY <1>1, FS_EmptySet DEF LlmCount

LEMMA LlmCountType == \A log \in Seq(Step) : LlmCount(log) \in Nat
<1> SUFFICES ASSUME NEW log \in Seq(Step) PROVE LlmCount(log) \in Nat
  OBVIOUS
<1>1. IsFiniteSet(1..Len(log))
  BY FS_Interval
<1>2. LlmSteps(log) \subseteq 1..Len(log)
  BY DEF LlmSteps
<1>. QED
  BY <1>1, <1>2, FS_Subset, FS_CardinalityType DEF LlmCount

\* A reply adds one LLM step to the log.
LEMMA LlmCountOfReply ==
  ASSUME TypeOK, NEW r \in Replies, NEW new \in {<<LlmStep(step_idx, r)>>, StepsOf(r)}
  PROVE  LlmCount(steps \o new) = LlmCount(steps) + 1
<1> DEFINE llm == LlmStep(step_idx, r)
           tool == ToolStep(step_idx + 1, CheckedTool(r))
           one == steps \o <<llm>>
<1>1. steps \in Seq(Step) /\ step_idx \in Nat /\ LlmCount(steps) \in Nat
  BY LlmCountType DEF TypeOK
<1>2. llm \in Step /\ llm.type = "llm_call"
  BY <1>1 DEF LlmStep, Step
<1>3. LlmCount(one) = LlmCount(steps) + 1
  BY <1>1, <1>2, LlmCountAppended
<1>4. CASE new = <<llm>>
  BY <1>3, <1>4
<1>5. CASE new # <<llm>>
  <2>1. CheckedTool(r) # NoTool /\ new = <<llm, tool>>
    BY <1>5 DEF StepsOf
  <2>2. tool \in Step /\ tool.type = "tool_call"
    <3>1. r \in Reply
      BY RunnerAssumption
    <3>2. CheckedTool(r) \in Tools
      BY <2>1, <3>1 DEF CheckedTool, ExtractToolName, Reply, Content
    <3>. QED
      BY <1>1, <3>2 DEF ToolStep, Step
  <2> HIDE DEF llm, tool
  <2>3. one \in Seq(Step)
    BY <1>1, <1>2
  <2>4. steps \o <<llm, tool>> = one \o <<tool>>
    BY <1>1, <1>2, <2>2, AppendedInTurn
  <2> HIDE DEF one
  <2>5. LlmCount(one \o <<tool>>) = LlmCount(one) /\ LlmCount(one) \in Nat
    <3>1. /\ LlmCount(one) \in Nat
          /\ LlmCount(one \o <<tool>>) = LlmCount(one) + (IF tool.type = "llm_call" THEN 1 ELSE 0)
      BY <2>2, <2>3, LlmCountAppended
    <3>. QED
      BY <2>2, <3>1
  <2>6. steps \o new = one \o <<tool>>
    BY <2>1, <2>4
  <2>. QED
    BY <1>3, <2>5, <2>6
<1>. QED
  BY <1>4, <1>5

\* A step of the runner logs what it counts, and counts one reply.
LEMMA RunSpends ==
  ASSUME IInv, Run
  PROVE  \/ /\ steps' \in {steps, <<>>}
            /\ tokens_used' >= tokens_used
            /\ iterations' = iterations \/ (iterations' = iterations + 1 /\ pc = "chat")
         \/ /\ pc = "chat" /\ iterations' = iterations + 1
            /\ TokensOf(steps') = TokensOf(steps) + (tokens_used' - tokens_used)
            /\ tokens_used' <= TokenBudget
            /\ LlmCount(steps') = LlmCount(steps) + 1
<1>0. TypeOK /\ CountersInv /\ tokens_used \in Nat /\ iterations \in Nat /\ steps \in Seq(Step)
  BY DEF IInv, TypeOK
<1>1. CASE SetupFresh \/ SetupResume \/ SetupWithoutSession
  BY <1>0, <1>1 DEF SetupFresh, SetupResume, SetupWithoutSession, StartClock, CountersInv
<1>2. CASE UNCHANGED <<steps, tokens_used, iterations>>
  BY <1>0, <1>2
<1>3. CASE BreachTokenBudget
  <2>1. /\ pc = "chat" /\ steps' = steps /\ iterations' = iterations + 1
        /\ tokens_used' = tokens_used + call.reply.tokens
    BY <1>3 DEF BreachTokenBudget, ReplyReady, CountReply, reply
  <2>2. call.reply.tokens \in Nat
    BY <1>0, <1>3, ReplyInFlight DEF BreachTokenBudget, ReplyReady, TypeOK
  <2>. QED
    BY <1>0, <2>1, <2>2
<1>4. CASE RejectTool \/ AcceptReply
  <2>1. /\ pc = "chat" /\ call.reply \in Replies /\ call.reply.tokens \in Nat
        /\ tokens_used' = tokens_used + call.reply.tokens /\ tokens_used' <= TokenBudget
        /\ iterations' = iterations + 1
    BY <1>4, ReplyIsLogged
  <2>2. PICK new \in {<<LlmStep(step_idx, call.reply)>>, StepsOf(call.reply)} : AppendSteps(new)
    BY <1>4, ReplyIsLogged
  <2>3. CASE steps' = steps
    BY <1>0, <2>1, <2>3
  <2>4. CASE steps' = steps \o new
    <3>1. TokensOf(steps \o new) = TokensOf(steps) + call.reply.tokens
      BY <1>0, <2>1, TokensOfReply
    <3>2. LlmCount(steps \o new) = LlmCount(steps) + 1
      BY <1>0, <2>1, LlmCountOfReply
    <3>. QED
      BY <1>0, <2>1, <2>4, <3>1, <3>2
  <2>. QED
    BY <2>2, <2>3, <2>4 DEF AppendSteps
<1>. QED
  BY <1>1, <1>2, <1>3, <1>4
     DEF Run, Runner, Environment, SetupFails, LoopTop, CheckTime, CheckIterations, StartChat,
         ChatTimesOut, ChatRaises, TimerFires, GatewayReplies, GatewayFails, Tick, local

\* What the attempt that holds the session has added to the log it found is at
\* most what it has counted, and within its caps.
SpendingInv ==
  session_open =>
    /\ iterations <= MaxIterations
    /\ TokensOf(steps) <= TokensOf(stored.steps) + tokens_used
    /\ TokensOf(steps) <= TokensOf(stored.steps) + TokenBudget
    /\ LlmCount(steps) <= LlmCount(stored.steps) + iterations

LEMMA SpendingStep ==
  AttemptsInv /\ SpendingInv /\ [AttemptsNext]_attemptVars => SpendingInv'
<1> SUFFICES ASSUME AttemptsInv, SpendingInv, [AttemptsNext]_attemptVars PROVE SpendingInv'
  OBVIOUS
<1>0. /\ TokensOf(stored.steps) \in Nat /\ LlmCount(stored.steps) \in Nat
      /\ TokensOf(steps) \in Nat /\ LlmCount(steps) \in Nat
      /\ tokens_used \in Nat /\ iterations \in Nat
      /\ TokenBudget \in Nat /\ MaxIterations \in Nat
  <2>1. stored.steps \in Seq(Step) /\ TypeOK
    BY DEF AttemptsInv, StoredInv, SessionInv, IInv
  <2>. QED
    BY <2>1, TokensOfType, LlmCountType, RunnerAssumption DEF TypeOK
<1>1. CASE RunStep
  <2>1. /\ IInv /\ CountersInv /\ Run /\ session_open /\ stored' = stored
    BY <1>1 DEF RunStep, AttemptsInv, SessionInv, IInv
  <2>2. TokensOf(<<>>) = 0 /\ LlmCount(<<>>) = 0
    BY TokensOfEmpty, LlmCountEmpty
  <2>3. pc = "chat" => iterations + 1 <= MaxIterations
    BY <2>1 DEF CountersInv
  <2>4. tokens_used' \in Nat
    BY <2>1, TypeStep DEF Next, IInv, TypeOK
  <2>5. /\ iterations <= MaxIterations
        /\ TokensOf(steps) <= TokensOf(stored.steps) + tokens_used
        /\ TokensOf(steps) <= TokensOf(stored.steps) + TokenBudget
        /\ LlmCount(steps) <= LlmCount(stored.steps) + iterations
    BY <2>1 DEF SpendingInv
  <2>6. CASE /\ steps' \in {steps, <<>>}
             /\ tokens_used' >= tokens_used
             /\ iterations' = iterations \/ (iterations' = iterations + 1 /\ pc = "chat")
    <3>1. TokensOf(steps') \in {TokensOf(steps), 0} /\ LlmCount(steps') \in {LlmCount(steps), 0}
      BY <2>2, <2>6
    <3>2. iterations' <= MaxIterations /\ iterations' >= iterations /\ iterations' \in Nat
      BY <1>0, <2>3, <2>5, <2>6
    <3>. QED
      BY <1>0, <2>1, <2>4, <2>5, <2>6, <3>1, <3>2 DEF SpendingInv
  <2>7. CASE /\ pc = "chat" /\ iterations' = iterations + 1
             /\ TokensOf(steps') = TokensOf(steps) + (tokens_used' - tokens_used)
             /\ tokens_used' <= TokenBudget
             /\ LlmCount(steps') = LlmCount(steps) + 1
    BY <1>0, <2>1, <2>3, <2>4, <2>5, <2>7 DEF SpendingInv
  <2>. QED
    BY <2>1, <2>6, <2>7, RunSpends, Zenon
<1>2. CASE Commit \/ Rollback
  BY <1>2 DEF Commit, Rollback, SpendingInv
<1>3. CASE Resume
  <2>1. stored' = stored /\ steps' = stored.steps /\ tokens_used' = 0 /\ iterations' = 0
    BY <1>3 DEF Resume, AttemptsInv, SessionInv
  <2>. QED
    BY <1>0, <2>1 DEF SpendingInv
<1>4. CASE Abandoned \/ UNCHANGED attemptVars
  BY <1>4 DEF Abandoned, attemptVars, vars, local, SpendingInv
<1>. QED
  BY <1>1, <1>2, <1>3, <1>4 DEF AttemptsNext

\* However often a run is rolled back and resumed, and whatever log its first
\* attempt found, no attempt adds to it more than one token budget and one
\* iteration cap.
THEOREM AttemptsCapped == AttemptsSpec => []EachAttemptIsCapped
<1>1. AttemptsInit => SpendingInv
  <2> SUFFICES ASSUME AttemptsInit PROVE SpendingInv
    OBVIOUS
  <2>1. stored.steps = steps /\ iterations = 0 /\ tokens_used = 0
    BY DEF AttemptsInit, Init
  <2>2. AttemptsInv
    BY InitAttemptsInv
  <2>3. TokensOf(steps) \in Nat /\ LlmCount(steps) \in Nat
    BY <2>1, <2>2, TokensOfType, LlmCountType DEF AttemptsInv, StoredInv
  <2>. QED
    BY <2>1, <2>3, RunnerAssumption DEF SpendingInv
<1>2. AttemptsInv /\ SpendingInv => EachAttemptIsCapped
  <2> SUFFICES ASSUME AttemptsInv, SpendingInv, session_open
               PROVE  /\ TokensOf(steps) <= TokensOf(stored.steps) + TokenBudget
                      /\ LlmCount(steps) <= LlmCount(stored.steps) + MaxIterations
    BY DEF EachAttemptIsCapped, StoredTokens, LlmCount
  <2>1. LlmCount(stored.steps) \in Nat /\ LlmCount(steps) \in Nat /\ iterations \in Nat
        /\ MaxIterations \in Nat
    BY LlmCountType, RunnerAssumption DEF AttemptsInv, StoredInv, SessionInv, IInv, TypeOK
  <2>. QED
    BY <2>1 DEF SpendingInv
<1>. QED
  BY AttemptsInvariance, SpendingStep, <1>1, <1>2, PTL DEF AttemptsSpec
=============================================================================
