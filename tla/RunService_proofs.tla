--------------------------- MODULE RunService_proofs ---------------------------
(***************************************************************************)
(* Theorems about RunService, for every value of its constants.            *)
(*                                                                         *)
(* The service adds to the invariant of the runner where the request, the  *)
(* job and the runner stand together: what is stored is nothing, the new   *)
(* row, or, once the job is over, the row as the runner left it.  The row  *)
(* of the session is followed through the run, since only its last state   *)
(* is committed.                                                           *)
(***************************************************************************)
EXTENDS RunService, AgentRunner_proofs

\* The row in the session of the job says where the runner stands.
RowFollows ==
  /\ pc = "setup" => row.status = "created"
  /\ pc \in Looping => row.status = "running"
  /\ pc = "returned" => row.status = "completed" /\ row.tokens_used = tokens_used
  /\ pc = "capped" => row.status = "capped" /\ row.tokens_used = tokens_used
  /\ pc = "raised" => row.status \in {"created", "running"}

\* A row that tells how the runner has ended.
TellsEnding(r) ==
  \/ r.status = "completed" /\ pc = "returned" /\ r.tokens_used = tokens_used
  \/ r.status = "capped" /\ pc = "capped" /\ r.tokens_used = tokens_used
  \/ r.status = "failed" /\ pc = "raised"

\* The request, its job and the runner in step.
PostInv ==
  /\ wiring = ServiceWiring
  /\ request \in Request
  /\ post = "idle" => stored = Nothing /\ job = "none"
  /\ post = "created" => stored = Fresh /\ job = "none"
  /\ post = "accepted" => stored # Nothing
  /\ post # "accepted" => pc = "setup"
  /\ stored # Nothing => Verdict = "admitted"
  /\ job \in {"none", "queued"} => pc = "setup"
  /\ job \in {"queued", "running", "committing"} => post = "accepted" /\ stored = Fresh

\* What the job holds, and what it has left.
JobInv ==
  /\ job = "running" => RowFollows
  /\ job = "committing" => TellsEnding(row)
  /\ \/ stored \in {Nothing, Fresh}
     \/ job \in {"done", "died"} /\ TellsEnding(stored.row)

\* A poll between its two reads holds the row that is stored.
PollInv ==
  /\ poll # NoRow => poll = stored.row /\ poll.status = "completed"
  /\ answer.http # 404

ServiceInv == IInv /\ PostInv /\ JobInv /\ PollInv

-----------------------------------------------------------------------------
\* Lemmas about the data

\* The three kinds of stored run are told apart by the status of the row.
LEMMA StoredKinds ==
  /\ Nothing.row.status = "absent" /\ Nothing.row = NoRow
  /\ Fresh.row.status = "created" /\ Fresh.row.ended_at = "null" /\ Fresh.steps = <<>>
  /\ Fresh.row # NoRow /\ Fresh # Nothing
  /\ Fresh.row \in Row
  /\ \A r : TellsEnding(r) => r # NoRow /\ r.status \in Terminal
BY DEF Nothing, Fresh, NoRow, TellsEnding, Terminal, Row, Status

\* A request is admitted, or refused in one of three ways.
LEMMA Verdicts ==
  ASSUME request \in Request
  PROVE  Verdict \in {"unprocessable", "unauthorized", "broken", "admitted"}
BY DEF Verdict, LoadSpec, Request, AgentFile

\* Only a request with a valid key and a readable spec is admitted.
LEMMA Admitted ==
  ASSUME request \in Request, Verdict = "admitted"
  PROVE  request.key /\ request.body = "well_typed" /\ request.agent = "spec"
BY DEF Verdict, LoadSpec, Request, AgentFile

-----------------------------------------------------------------------------
\* The runner inside its job

LEMMA RunnerStep == IInv /\ [Next]_vars => IInv'
BY TypeStep, CountersStep, BudgetStep, BillStep, LogStep DEF IInv

LEMMA WiringStays == Run => wiring' = wiring
BY DEF Run, Runner, Environment, SetupFresh, SetupResume, SetupWithoutSession, SetupFails,
       LoopTop, CheckTime, CheckIterations, StartChat, BreachTokenBudget, RejectTool,
       AcceptReply, ChatTimesOut, ChatRaises, TimerFires, GatewayReplies, GatewayFails, Tick,
       StartClock

\* A row that is there is written at the start and at the end of the run.
LEMMA RowStep ==
  ASSUME IInv, wiring = ServiceWiring, RowFollows, Run
  PROVE  RowFollows'
<1>0. /\ TypeOK /\ CountersInv /\ wiring.session /\ wiring.resume
      /\ pc \in {"setup", "top", "check", "chat"} \cup Endings
  BY ServiceAssumption DEF IInv, TypeOK
<1>1. row # NoRow /\ Persists
  BY <1>0 DEF RowFollows, NoRow, Looping, Endings, Persists
<1>2. \A st \in Status, n \in Nat : EndRow(st, n) => row'.status = st /\ row'.tokens_used = n
  BY <1>1 DEF EndRow
<1>3. CASE SetupResume
  <2>1. pc' = "top" /\ row' = [row EXCEPT !.status = "running"]
    BY <1>1, <1>3 DEF SetupResume, StartClock
  <2>2. row'.status = "running"
    BY <1>0, <1>1, <2>1 DEF TypeOK, Row
  <2>. QED
    BY <2>1, <2>2 DEF RowFollows, Looping
<1>4. CASE SetupFresh \/ SetupWithoutSession
  BY <1>0, <1>4 DEF SetupFresh, SetupWithoutSession
<1>5. CASE SetupFails
  BY <1>5 DEF SetupFails, RowFollows, Looping
<1>6. ASSUME NEW name \in Caps, NEW n \in Nat, RaiseCapBreach(name, n), tokens_used' = n
      PROVE  RowFollows'
  <2>1. pc' = "capped" /\ EndRow("capped", n)
    BY <1>6 DEF RaiseCapBreach
  <2>2. row'.status = "capped" /\ row'.tokens_used = n
    BY <1>2, <2>1 DEF Status
  <2>. QED
    BY <1>6, <2>1, <2>2 DEF RowFollows, Looping
<1>7. CASE LoopTop \/ CheckTime \/ CheckIterations \/ ChatTimesOut \/ TimerFires
  <2>1. tokens_used \in Nat /\ tokens_used' = tokens_used
    BY <1>0, <1>7 DEF TypeOK, LoopTop, CheckTime, CheckIterations, ChatTimesOut, TimerFires, local
  <2>2. \/ pc = "top" /\ pc' = "check" /\ row' = row
        \/ \E name \in Caps : RaiseCapBreach(name, tokens_used)
    BY <1>7 DEF LoopTop, CheckTime, CheckIterations, ChatTimesOut, TimerFires, Caps
  <2>3. CASE pc = "top" /\ pc' = "check" /\ row' = row
    BY <2>3 DEF RowFollows, Looping
  <2>4. CASE \E name \in Caps : RaiseCapBreach(name, tokens_used)
    BY <1>6, <2>1, <2>4
  <2>. QED
    BY <2>2, <2>3, <2>4
<1>8. CASE BreachTokenBudget
  <2>1. call.reply.tokens \in Nat /\ tokens_used \in Nat
    BY <1>0, <1>8, ReplyInFlight DEF BreachTokenBudget, ReplyReady, TypeOK
  <2>2. /\ RaiseCapBreach("token_budget", tokens_used + call.reply.tokens)
        /\ tokens_used' = tokens_used + call.reply.tokens
    BY <1>8 DEF BreachTokenBudget, CountReply, reply
  <2>. QED
    BY <1>6, <2>1, <2>2 DEF Caps
<1>9. CASE RejectTool \/ ChatRaises
  <2>1. pc = "chat" /\ pc' = "raised" /\ row' = row
    BY <1>9 DEF RejectTool, ChatRaises, ReplyReady
  <2>. QED
    BY <2>1 DEF RowFollows, Looping
<1>10. CASE AcceptReply
  <2>1. call.reply.tokens \in Nat /\ tokens_used \in Nat
    BY <1>0, <1>10, ReplyInFlight DEF AcceptReply, ReplyReady, TypeOK
  <2>2. pc = "chat" /\ tokens_used' = tokens_used + call.reply.tokens
    BY <1>10 DEF AcceptReply, ReplyReady, CountReply, reply
  <2>3. CASE pc' = "returned" /\ EndRow("completed", tokens_used + call.reply.tokens)
    <3>1. row'.status = "completed" /\ row'.tokens_used = tokens_used + call.reply.tokens
      BY <1>2, <2>1, <2>3 DEF Status
    <3>. QED
      BY <2>2, <2>3, <3>1 DEF RowFollows, Looping
  <2>4. CASE pc' = "top" /\ row' = row
    BY <2>2, <2>4 DEF RowFollows, Looping
  <2>. QED
    BY <1>10, <2>3, <2>4 DEF AcceptReply, reply
<1>11. CASE StartChat
  BY <1>11 DEF StartChat, RowFollows, Looping
<1>12. CASE Environment
  <2>1. pc' = pc /\ row' = row /\ pc # "returned" /\ pc # "capped"
    BY <1>0, <1>12 DEF Environment, GatewayReplies, GatewayFails, Tick, CountersInv, Pending, NoCall
  <2>. QED
    BY <2>1 DEF RowFollows
<1>. QED
  BY <1>3, <1>4, <1>5, <1>7, <1>8, <1>9, <1>10, <1>11, <1>12 DEF Run, Runner

-----------------------------------------------------------------------------
\* The service

LEMMA InitServiceInv == ServiceInit => ServiceInv
<1> SUFFICES ASSUME ServiceInit PROVE ServiceInv
  OBVIOUS
<1>1. IInv
  BY InitIInv DEF ServiceInit
<1>2. wiring = ServiceWiring /\ pc = "setup"
  BY ServiceAssumption DEF ServiceInit, Init
<1>3. PostInv
  BY <1>2, StoredKinds DEF ServiceInit, PostInv
<1>4. JobInv /\ PollInv
  BY DEF ServiceInit, JobInv, PollInv, Http
<1>. QED
  BY <1>1, <1>3, <1>4 DEF ServiceInv

\* The job opens its session on the new row ...
LEMMA StartJobStep ==
  ASSUME ServiceInv, StartJob
  PROVE  ServiceInv'
<1>0. IInv /\ PostInv /\ JobInv /\ PollInv /\ stored = Fresh /\ pc = "setup"
  BY DEF ServiceInv, PostInv, StartJob
<1>1. row' = Fresh.row /\ steps' = <<>> /\ UNCHANGED <<wiring, pc, elapsed, local, call, cap, gateway, spans>>
  BY <1>0, StoredKinds DEF StartJob
<1>2. TypeOK'
  BY <1>0, <1>1, StoredKinds DEF IInv, TypeOK, local, gateway, spans
<1>3. CountersInv' /\ BudgetInv' /\ BillInv'
  BY <1>0, <1>1 DEF IInv, CountersInv, BudgetInv, BillInv, CapIsReal, TokensAreAccounted, Late,
                    local, gateway
<1>4. LogInv'
  BY <1>0, <1>1 DEF LogInv, StepLogIsSound, Gapless, ToolStepsAnswer, Looping
<1>5. IInv'
  BY <1>2, <1>3, <1>4 DEF IInv
<1>6. PostInv'
  BY <1>0, <1>1 DEF StartJob, PostInv, Verdict
<1>7. JobInv'
  BY <1>0, <1>1, StoredKinds DEF StartJob, JobInv, RowFollows, Looping, Endings
<1>8. PollInv'
  BY <1>0 DEF StartJob, PollInv
<1>. QED
  BY <1>5, <1>6, <1>7, <1>8 DEF ServiceInv

\* ... runs in it ...
LEMMA JobRunsStep ==
  ASSUME ServiceInv, JobRuns
  PROVE  ServiceInv'
<1>0. IInv /\ PostInv /\ JobInv /\ PollInv /\ RowFollows /\ wiring = ServiceWiring
  BY DEF ServiceInv, JobInv, PostInv, JobRuns
<1>1. IInv'
  BY <1>0, RunnerStep DEF JobRuns, Next
<1>2. PostInv'
  BY <1>0, WiringStays, StoredKinds DEF JobRuns, PostInv, Verdict
<1>3. JobInv'
  BY <1>0, RowStep DEF JobRuns, PostInv, JobInv
<1>4. PollInv'
  BY <1>0 DEF JobRuns, PollInv
<1>. QED
  BY <1>1, <1>2, <1>3, <1>4 DEF ServiceInv

\* ... and marks the row when run() has raised.
LEMMA HandleErrorStep ==
  ASSUME ServiceInv, HandleError
  PROVE  ServiceInv'
<1>0. /\ IInv /\ PostInv /\ JobInv /\ PollInv /\ RowFollows /\ TypeOK
      /\ pc \in {"capped", "raised"} /\ row' = HandledRow
      /\ UNCHANGED <<wiring, pc, elapsed, local, call, cap, steps, gateway, spans>>
  BY DEF ServiceInv, JobInv, HandleError, IInv
<1>1. row # NoRow
  BY <1>0 DEF RowFollows, NoRow, Looping
<1>2. row' \in Row /\ TellsEnding(row)'
  BY <1>0, <1>1 DEF HandledRow, RowFollows, TypeOK, Row, TellsEnding, Status, local
<1>3. TypeOK'
  BY <1>0, <1>2 DEF TypeOK, local, gateway, spans
<1>4. CountersInv' /\ BudgetInv' /\ BillInv'
  BY <1>0 DEF IInv, CountersInv, BudgetInv, BillInv, CapIsReal, TokensAreAccounted, Late,
              local, gateway
<1>5. LogInv'
  BY <1>0 DEF IInv, LogInv, StepLogIsSound, Gapless, ToolStepsAnswer, Looping
<1>6. PostInv' /\ PollInv'
  BY <1>0 DEF HandleError, PostInv, PollInv, Verdict
<1>7. JobInv'
  BY <1>0, <1>2 DEF HandleError, PostInv, JobInv
<1>. QED
  BY <1>3, <1>4, <1>5, <1>6, <1>7 DEF ServiceInv, IInv

LEMMA ServiceStep == ServiceInv /\ [ServiceNext]_serviceVars => ServiceInv'
<1> SUFFICES ASSUME ServiceInv, [ServiceNext]_serviceVars PROVE ServiceInv'
  OBVIOUS
<1>0. IInv /\ PostInv /\ JobInv /\ PollInv
  BY DEF ServiceInv
<1>v. ASSUME UNCHANGED vars PROVE IInv'
  BY <1>0, <1>v, RunnerStep
<1> USE StoredKinds
<1>1. CASE RefusePost \/ Accept \/ RunReturns \/ HandlerFails \/ Crash
  <2>1. IInv'
    BY <1>1, <1>v DEF RefusePost, Accept, RunReturns, HandlerFails, Crash
  <2>2. PostInv'
    <3>1. CASE RefusePost
      <4>1. post' \in {"unprocessable", "unauthorized", "broken"} /\ pc' = pc /\ wiring' = wiring
        BY <1>0, <3>1, Verdicts DEF PostInv, RefusePost, vars
      <4>. QED
        BY <1>0, <3>1, <4>1 DEF PostInv, RefusePost
    <3>. QED
      BY <1>0, <1>1, <3>1 DEF PostInv, Verdict, vars, Accept, RunReturns, HandlerFails, Crash
  <2>3. JobInv'
    BY <1>0, <1>1 DEF JobInv, RowFollows, TellsEnding, PostInv, vars, local,
                      RefusePost, Accept, RunReturns, HandlerFails, Crash
  <2>4. PollInv'
    BY <1>0, <1>1 DEF PollInv, RefusePost, Accept, RunReturns, HandlerFails, Crash
  <2>. QED
    BY <2>1, <2>2, <2>3, <2>4 DEF ServiceInv
<1>2. CASE CreateRun \/ CreateRunFails
  <2>1. IInv'
    BY <1>2, <1>v DEF CreateRun, CreateRunFails
  <2>2. PostInv'
    BY <1>0, <1>2 DEF PostInv, Verdict, vars, CreateRun, CreateRunFails
  <2>3. JobInv'
    BY <1>0, <1>2 DEF JobInv, PostInv, CreateRun, CreateRunFails
  <2>4. PollInv'
    BY <1>0, <1>2 DEF PostInv, PollInv, CreateRun, CreateRunFails
  <2>. QED
    BY <2>1, <2>2, <2>3, <2>4 DEF ServiceInv
<1>3. CASE StartJob
  BY <1>3, StartJobStep
<1>4. CASE JobRuns
  BY <1>4, JobRunsStep
<1>5. CASE HandleError
  BY <1>5, HandleErrorStep
<1>6. CASE CommitJob \/ CommitJobFails
  <2>0. stored = Fresh /\ TellsEnding(row) /\ poll = NoRow
    BY <1>0, <1>6 DEF PostInv, JobInv, PollInv, CommitJob, CommitJobFails
  <2>1. IInv'
    BY <1>6, <1>v DEF CommitJob, CommitJobFails
  <2>2. PostInv'
    BY <1>0, <1>6, <2>0 DEF PostInv, Verdict, vars, CommitJob, CommitJobFails
  <2>3. JobInv'
    BY <1>0, <1>6, <2>0 DEF JobInv, TellsEnding, vars, local, CommitJob, CommitJobFails
  <2>4. PollInv'
    BY <1>0, <1>6, <2>0 DEF PollInv, CommitJob, CommitJobFails
  <2>. QED
    BY <2>1, <2>2, <2>3, <2>4 DEF ServiceInv
<1>7. CASE Poll \/ PollFails
  <2>1. IInv'
    BY <1>7, <1>v DEF Poll, PollRow, PollSteps, PollFails
  <2>2. PostInv'
    BY <1>0, <1>7 DEF PostInv, Verdict, vars, Poll, PollRow, PollSteps, PollFails
  <2>3. JobInv'
    BY <1>0, <1>7 DEF JobInv, RowFollows, TellsEnding, vars, local, Poll, PollRow, PollSteps, PollFails
  <2>4. PollInv'
    BY <1>0, <1>7 DEF PostInv, JobInv, PollInv, Poll, PollRow, PollSteps, PollFails, Http, Found
  <2>. QED
    BY <2>1, <2>2, <2>3, <2>4 DEF ServiceInv
<1>8. CASE UNCHANGED serviceVars
  BY <1>0, <1>8, <1>v DEF serviceVars, ServiceInv, PostInv, Verdict, JobInv, PollInv, RowFollows,
                          TellsEnding, vars, local
<1>. QED
  BY <1>1, <1>2, <1>3, <1>4, <1>5, <1>6, <1>7, <1>8 DEF ServiceNext, Job, Unpolled
-----------------------------------------------------------------------------
\* Every step keeps the invariant, so every behaviour does.
THEOREM ServiceInvariance == ServiceSpec => []ServiceInv
BY InitServiceInv, ServiceStep, PTL DEF ServiceSpec

\* An accepted run is found by every poll, whatever happens to its job
\* (the row is committed before the 202).
THEOREM RunIsFound == ServiceSpec => []AcceptedRunIsFound
<1>1. ServiceInv => AcceptedRunIsFound
  BY StoredKinds DEF ServiceInv, PostInv, JobInv, PollInv, AcceptedRunIsFound
<1>. QED
  BY ServiceInvariance, <1>1, PTL

\* Nothing is stored or spent for a request without a valid key.
THEOREM NothingForRefused == ServiceSpec => []GatewayServesAcceptedRuns
<1>1. ServiceInv => GatewayServesAcceptedRuns
  <2> SUFFICES ASSUME ServiceInv PROVE GatewayServesAcceptedRuns
    OBVIOUS
  <2>1. calls > 0 => post = "accepted"
    BY DEF ServiceInv, PostInv, IInv, CountersInv
  <2>2. post = "accepted" => stored # Nothing /\ stored.row # NoRow
    BY StoredKinds DEF ServiceInv, PostInv, JobInv
  <2>3. stored # Nothing => request.key /\ request.body = "well_typed" /\ request.agent = "spec"
    BY Admitted DEF ServiceInv, PostInv
  <2>. QED
    BY <2>1, <2>2, <2>3 DEF GatewayServesAcceptedRuns
<1>. QED
  BY ServiceInvariance, <1>1, PTL

\* No poll can see part of a log: steps are stored with the outcome.
THEOREM LogWithOutcome == ServiceSpec => []LogComesWithOutcome
<1>1. ServiceInv => LogComesWithOutcome
  BY StoredKinds DEF ServiceInv, JobInv, LogComesWithOutcome, Nothing, NoRow, Terminal
<1>. QED
  BY ServiceInvariance, <1>1, PTL

\* What is stored of a run that is over is how run() ended.
THEOREM OutcomeMatches == ServiceSpec => []OutcomeIsTheRunners
<1>1. ServiceInv => OutcomeIsTheRunners
  BY StoredKinds DEF ServiceInv, JobInv, OutcomeIsTheRunners, TellsEnding
<1>. QED
  BY ServiceInvariance, <1>1, PTL

\* The caps hold in the service too.
THEOREM ServiceSpendingCapped == ServiceSpec => []SpendingIsCapped
<1>1. ServiceInv => SpendingIsCapped
  BY DEF ServiceInv, IInv, CountersInv, BudgetInv, SpendingIsCapped
<1>. QED
  BY ServiceInvariance, <1>1, PTL

-----------------------------------------------------------------------------
\* The service implements RunLifecycle

\* What a poll reports of each kind of stored run.
LEMMA Reports ==
  /\ stored = Nothing => Reported = Lifecycle!Nothing
  /\ stored = Fresh => Reported = Lifecycle!Running
  /\ TellsEnding(stored.row) => Lifecycle!Over(Reported)
BY StoredKinds
   DEF Reported, StatusProjection, TellsEnding, Lifecycle!Nothing, Lifecycle!Running,
       Lifecycle!Over, Lifecycle!Report

LEMMA InitLifecycle == ServiceInit => Lifecycle!Init
BY Reports DEF ServiceInit, Lifecycle!Init, Lifecycle!Nothing, Lifecycle!Report, Http

LEMMA StepLifecycle == ServiceInv /\ [ServiceNext]_serviceVars => [Lifecycle!Next]_(Lifecycle!vars)
<1> DEFINE Told == [status |-> answer.status, result |-> answer.result]
<1> SUFFICES ASSUME ServiceInv, [ServiceNext]_serviceVars
             PROVE  Lifecycle!Next \/ (Reported' = Reported /\ Told' = Told)
  BY DEF Lifecycle!vars
<1>0. PostInv /\ JobInv /\ PollInv
  BY DEF ServiceInv
<1>r. (/\ stored = Nothing => Reported = Lifecycle!Nothing
       /\ stored = Fresh => Reported = Lifecycle!Running
       /\ TellsEnding(stored.row) => Lifecycle!Over(Reported))'
  BY Reports, PTL
<1>s. ASSUME stored' = stored, answer' = answer PROVE Reported' = Reported /\ Told' = Told
  BY <1>s DEF Reported
<1>1. CASE RefusePost \/ Accept \/ StartJob \/ JobRuns \/ RunReturns \/ HandleError \/ HandlerFails \/ Crash
  BY <1>1, <1>s DEF RefusePost, Accept, StartJob, JobRuns, RunReturns, HandleError, HandlerFails, Crash
<1>2. CASE CreateRun \/ CreateRunFails
  <2>1. answer' = answer /\ stored = Nothing /\ stored' \in {stored, Fresh}
    BY <1>0, <1>2 DEF CreateRun, CreateRunFails, PostInv
  <2>2. CASE stored' = Fresh
    BY <1>r, <2>1, <2>2, Reports DEF Lifecycle!Next, Lifecycle!Create
  <2>. QED
    BY <1>s, <2>1, <2>2
<1>3. CASE CommitJob \/ CommitJobFails
  <2>1. /\ answer' = answer /\ stored = Fresh /\ TellsEnding(row)
        /\ stored' \in {stored, [row |-> row, steps |-> steps]}
        /\ pc' = pc /\ tokens_used' = tokens_used
    BY <1>0, <1>3 DEF CommitJob, CommitJobFails, PostInv, JobInv, vars, local
  <2>2. CASE stored' = [row |-> row, steps |-> steps]
    <3>1. TellsEnding(stored.row)'
      BY <2>1, <2>2 DEF TellsEnding
    <3>. QED
      BY <1>r, <2>1, <3>1, Reports DEF Lifecycle!Next, Lifecycle!End
  <2>. QED
    BY <1>s, <2>1, <2>2
<1>4. CASE Poll \/ PollFails
  <2>0. stored' = stored /\ Reported' = Reported
    BY <1>4 DEF Poll, PollRow, PollSteps, PollFails, Reported
  <2>1. CASE PollFails
    <3>1. stored # Nothing /\ Told' = Lifecycle!Nothing
      BY <1>0, <2>1 DEF PostInv, PollFails, Http, Lifecycle!Nothing, Lifecycle!Report
    <3>2. Reported # Lifecycle!Nothing
      BY <1>0, <3>1, StoredKinds, Reports
         DEF JobInv, Lifecycle!Nothing, Lifecycle!Running, Lifecycle!Over, Lifecycle!Report
    <3>. QED
      BY <2>0, <3>1, <3>2 DEF Lifecycle!Next, Lifecycle!PollFails
  <2>2. CASE PollRow
    <3>1. stored # Nothing /\ stored.row # NoRow
      BY <1>0, <2>2, StoredKinds DEF PostInv, JobInv, PollRow
    <3>2. CASE stored.row.status = "completed"
      BY <1>s, <2>0, <2>2, <3>1, <3>2 DEF PollRow
    <3>3. CASE stored.row.status # "completed"
      <4>1. Told' = Reported
        BY <2>2, <3>1, <3>3 DEF PollRow, Reported, Found
      <4>2. Reported # Lifecycle!Nothing
        BY <1>0, <3>1, StoredKinds, Reports
           DEF JobInv, Lifecycle!Nothing, Lifecycle!Running, Lifecycle!Over, Lifecycle!Report
      <4>. QED
        BY <2>0, <4>1, <4>2 DEF Lifecycle!Next, Lifecycle!Poll
    <3>. QED
      BY <3>2, <3>3
  <2>3. CASE PollSteps
    <3>1. poll = stored.row /\ stored.row.status = "completed" /\ stored.row # NoRow
      BY <1>0, <2>3 DEF PollInv, PollSteps
    <3>2. Told' = Reported
      BY <2>3, <3>1 DEF PollSteps, Reported, Found
    <3>3. Reported # Lifecycle!Nothing
      BY <3>1 DEF Reported, StatusProjection, Lifecycle!Nothing, Lifecycle!Report
    <3>. QED
      BY <2>0, <3>2, <3>3 DEF Lifecycle!Next, Lifecycle!Poll
  <2>. QED
    BY <1>4, <2>1, <2>2, <2>3 DEF Poll
<1>5. CASE UNCHANGED serviceVars
  BY <1>5, <1>s DEF serviceVars
<1>. QED
  BY <1>1, <1>2, <1>3, <1>4, <1>5 DEF ServiceNext, Job, Unpolled

\* To those who poll, the service is RunLifecycle: the run is one record, written
\* when it is accepted and when it ends.
THEOREM ServiceImplements == ServiceSpec => ImplementsRunLifecycle
BY InitLifecycle, StepLifecycle, ServiceInvariance, PTL
   DEF ServiceSpec, ImplementsRunLifecycle, Lifecycle!Spec

-----------------------------------------------------------------------------
\* What RunLifecycle promises those who poll

\* The three states of a run are told apart by their status.
LEMMA ReportsDiffer ==
  /\ Lifecycle!Nothing # Lifecycle!Running
  /\ ~Lifecycle!Over(Lifecycle!Nothing) /\ ~Lifecycle!Over(Lifecycle!Running)
  /\ \A r : Lifecycle!Over(r) => r # Lifecycle!Nothing /\ r # Lifecycle!Running
BY DEF Lifecycle!Nothing, Lifecycle!Running, Lifecycle!Report, Lifecycle!Over

LEMMA ToldStep ==
  Lifecycle!ToldIsPast /\ [Lifecycle!Next]_(Lifecycle!vars) => Lifecycle!ToldIsPast'
<1> SUFFICES ASSUME Lifecycle!ToldIsPast, [Lifecycle!Next]_(Lifecycle!vars)
             PROVE  Lifecycle!ToldIsPast'
  OBVIOUS
<1> USE DEF Lifecycle!ToldIsPast, Lifecycle!Nothing, Lifecycle!Running, Lifecycle!Report
<1>1. CASE Lifecycle!Create
  BY <1>1 DEF Lifecycle!Create
<1>2. CASE Lifecycle!End
  BY <1>2 DEF Lifecycle!End
<1>3. CASE Lifecycle!Poll
  BY <1>3 DEF Lifecycle!Poll
<1>4. CASE Lifecycle!PollFails
  BY <1>4 DEF Lifecycle!PollFails
<1>5. CASE UNCHANGED Lifecycle!vars
  BY <1>5 DEF Lifecycle!vars
<1>. QED
  BY <1>1, <1>2, <1>3, <1>4, <1>5 DEF Lifecycle!Next

\* A poll reports what the run is or was (get_run).
THEOREM ToldPast == ServiceSpec => []Lifecycle!ToldIsPast
<1>1. Lifecycle!Init => Lifecycle!ToldIsPast
  BY DEF Lifecycle!Init, Lifecycle!ToldIsPast
<1>. QED
  BY ServiceImplements, ToldStep, <1>1, PTL DEF ImplementsRunLifecycle, Lifecycle!Spec

\* Polls agree on how a run ended: an outcome that has been told is that of the
\* run, which is not written again.
THEOREM PollsAlwaysAgree == ServiceSpec => Lifecycle!PollsAgree
<1> DEFINE told == [status |-> answer.status, result |-> answer.result]
<1>1. Lifecycle!ToldIsPast /\ [Lifecycle!Next]_(Lifecycle!vars)
      => [Lifecycle!Over(told) => told' \in {told, Lifecycle!Nothing}]_(Lifecycle!vars)
  <2> SUFFICES ASSUME Lifecycle!ToldIsPast, [Lifecycle!Next]_(Lifecycle!vars),
                      Lifecycle!Over(told), ~(UNCHANGED Lifecycle!vars)
               PROVE  told' \in {told, Lifecycle!Nothing}
    OBVIOUS
  <2>1. told = Reported
    BY ReportsDiffer DEF Lifecycle!ToldIsPast
  <2>2. told' \in {told, Reported, Lifecycle!Nothing}
    BY DEF Lifecycle!Next, Lifecycle!Create, Lifecycle!End, Lifecycle!Poll, Lifecycle!PollFails
  <2>. QED
    BY <2>1, <2>2
<1>. QED
  BY ServiceImplements, ToldPast, <1>1, PTL
     DEF ImplementsRunLifecycle, Lifecycle!Spec, Lifecycle!PollsAgree

-----------------------------------------------------------------------------
\* The answer of a run

LEMMA FinalAnswerType ==
  ASSUME NEW log \in Seq(Step)
  PROVE  FinalAnswer(log) \in {<<>>} \cup {<<c>> : c \in Content}
<1>1. CASE LlmSteps(log) = {}
  BY <1>1 DEF FinalAnswer
<1>2. CASE LlmSteps(log) # {}
  <2> DEFINE m == Max(LlmSteps(log))
  <2>1. LlmSteps(log) \subseteq 1..Len(log) /\ Len(log) \in Nat
    BY DEF LlmSteps
  <2>2. m \in LlmSteps(log)
    BY <1>2, <2>1, LastPosition
  <2>3. log[m] \in Step /\ log[m].type = "llm_call"
    BY <2>2 DEF LlmSteps
  <2>4. log[m].reply.content \in Content
    BY <2>3, RunnerAssumption DEF Step, Reply
  <2>5. FinalAnswer(log) = <<log[m].reply.content>>
    BY <1>2 DEF FinalAnswer
  <2>. QED
    BY <2>4, <2>5
<1>. QED
  BY <1>1, <1>2

\* The last LLM step is the last step, when that is one.
LEMMA FinalAnswerOfLast ==
  ASSUME NEW log \in Seq(Step), log # <<>>, Last(log).type = "llm_call"
  PROVE  FinalAnswer(log) = <<Last(log).reply.content>>
<1> DEFINE S == LlmSteps(log)
<1>1. Len(log) \in Nat \ {0} /\ Last(log) = log[Len(log)] /\ DOMAIN log = 1..Len(log)
  BY DEF Last
<1>2. Len(log) \in S /\ S \subseteq 1..Len(log)
  BY <1>1 DEF LlmSteps
<1>3. Max(S) = Len(log)
  <2>1. Len(log) \in Nat
    BY <1>1
  <2>. QED
    BY <1>2, <2>1, LastOfPositions
<1>. QED
  BY <1>1, <1>2, <1>3 DEF FinalAnswer

\* A run that is over does nothing more, and only the reply it accepts makes a
\* run return, with that reply in its log.
LEMMA RunGoesOn ==
  ASSUME IInv, Run
  PROVE  /\ pc \notin Endings
         /\ pc' = "returned" /\ Persists' => steps' # <<>>
<1>0. TypeOK /\ CountersInv
  BY DEF IInv
<1>1. CASE AcceptReply
  <2>1. pc = "chat" /\ call.reply \in Replies /\ steps \in Seq(Step)
    BY <1>0, <1>1, ReplyInFlight DEF AcceptReply, ReplyReady, TypeOK
  <2>2. Persists' => Persists
    BY <1>1, <2>1, PersistsStable DEF Next, Run, Runner
  <2>3. StepsOf(call.reply) \in Seq(Step) /\ StepsOf(call.reply) # <<>>
    BY <1>0, <2>1, StepsOfType DEF StepsOf, TypeOK
  <2>4. Persists => steps' = steps \o StepsOf(call.reply)
    BY <1>1 DEF AcceptReply, AppendSteps, reply
  <2>5. steps \o StepsOf(call.reply) # <<>>
    BY <2>1, <2>3
  <2>. QED
    BY <2>1, <2>2, <2>4, <2>5 DEF Endings
<1>2. CASE SetupFresh \/ SetupResume \/ SetupWithoutSession \/ SetupFails
  BY <1>2 DEF SetupFresh, SetupResume, SetupWithoutSession, SetupFails, StartClock, Endings
<1>3. CASE LoopTop \/ CheckTime \/ CheckIterations \/ StartChat
  BY <1>3 DEF LoopTop, CheckTime, CheckIterations, StartChat, RaiseCapBreach, Endings
<1>4. CASE BreachTokenBudget \/ RejectTool \/ ChatTimesOut \/ ChatRaises \/ TimerFires
  BY <1>4 DEF BreachTokenBudget, RejectTool, ChatTimesOut, ChatRaises, TimerFires, ReplyReady,
              RaiseCapBreach, Endings
<1>5. CASE Environment
  BY <1>0, <1>5 DEF Environment, GatewayReplies, GatewayFails, Tick, CountersInv, Pending, NoCall,
                    Endings
<1>. QED
  BY <1>1, <1>2, <1>3, <1>4, <1>5 DEF Run, Runner

\* The answer of the run, where it is logged, where it is stored and where it is
\* told.
AnswerInv ==
  /\ ServiceTypeOK
  /\ FinalAnswerIsLogged
  /\ pc = "returned" /\ Persists => steps # <<>>
  /\ stored.row.status = "completed" => FinalAnswer(stored.steps) = <<Last(responses).content>>
  /\ PollTellsTheOutcome

LEMMA InitAnswerInv == ServiceInit => AnswerInv
<1> SUFFICES ASSUME ServiceInit PROVE AnswerInv
  OBVIOUS
<1>1. TypeOK
  BY InitIInv DEF ServiceInit, IInv
<1>2. /\ pc = "setup" /\ responses = <<>> /\ stored = Nothing /\ answer = Http(0)
      /\ poll = NoRow /\ post = "idle" /\ job = "none" /\ request \in Request
  BY DEF ServiceInit, Init
<1>3. ServiceTypeOK
  <2>1. stored \in [row : Row, steps : Seq(Step)] /\ poll \in Row
    BY <1>2, RowValues DEF Nothing
  <2>2. answer \in [http : {0, 200, 404, 500}, status : {"none", "running", "succeeded", "failed"},
                    result : {<<>>} \cup {<<c>> : c \in Content}]
    BY <1>2 DEF Http
  <2>. QED
    BY <1>1, <1>2, <2>1, <2>2 DEF ServiceTypeOK
<1>. QED
  BY <1>2, <1>3, StoredKinds DEF AnswerInv, FinalAnswerIsLogged, PollTellsTheOutcome, Http

\* What is stored when the job commits is the answer of the run.
LEMMA CommittedAnswer ==
  ASSUME ServiceInv, AnswerInv, job = "committing", row.status = "completed"
  PROVE  FinalAnswer(steps) = <<Last(responses).content>>
<1>1. /\ TypeOK /\ pc = "returned" /\ row # NoRow /\ wiring.session
  BY ServiceAssumption DEF ServiceInv, IInv, JobInv, PostInv, TellsEnding, NoRow
<1>2. /\ steps \in Seq(Step) /\ steps # <<>>
      /\ Last(steps) = LlmStep(step_idx - 1, Last(responses))
  BY <1>1 DEF AnswerInv, FinalAnswerIsLogged, Persists, TypeOK
<1>3. Last(steps).type = "llm_call" /\ Last(steps).reply = Last(responses)
  BY <1>2 DEF LlmStep
<1>. QED
  BY <1>2, <1>3, FinalAnswerOfLast

LEMMA AnswerInvStep ==
  ServiceInv /\ AnswerInv /\ [ServiceNext]_serviceVars => AnswerInv'
<1> SUFFICES ASSUME ServiceInv, AnswerInv, [ServiceNext]_serviceVars PROVE AnswerInv'
  OBVIOUS
<1>0. /\ IInv /\ PostInv /\ JobInv /\ PollInv /\ ServiceTypeOK /\ TypeOK
      /\ FinalAnswerIsLogged /\ PollTellsTheOutcome
  BY DEF ServiceInv, AnswerInv, IInv
<1>t. TypeOK'
  BY ServiceStep DEF ServiceInv, IInv
<1>v. ASSUME UNCHANGED vars
      PROVE  FinalAnswerIsLogged' /\ (pc = "returned" /\ Persists => steps # <<>>)'
  <2>1. UNCHANGED <<responses, row, steps, step_idx, tokens_used, wiring, pc>>
    BY <1>v DEF vars, local
  <2>. QED
    BY <2>1 DEF AnswerInv, FinalAnswerIsLogged, Persists
<1>1. CASE RefusePost \/ CreateRun \/ CreateRunFails \/ Accept \/ RunReturns \/ HandlerFails \/ Crash
  <2>1. /\ UNCHANGED <<vars, answer, request>> /\ stored' \in {stored, Fresh} /\ poll' \in {poll, NoRow}
    BY <1>1 DEF RefusePost, CreateRun, CreateRunFails, Accept, RunReturns, HandlerFails, Crash
  <2>2. stored' \in [row : Row, steps : Seq(Step)] /\ poll' \in Row
    <3>1. Fresh \in [row : Row, steps : Seq(Step)]
      BY StoredKinds DEF Fresh
    <3>. QED
      BY <1>0, <2>1, <3>1, RowValues DEF ServiceTypeOK
  <2>3. /\ post' \in {"idle", "created", "accepted", "unauthorized", "unprocessable", "broken"}
        /\ job' \in {"none", "queued", "running", "committing", "done", "died"}
    BY <1>0, <1>1, Verdicts DEF ServiceTypeOK, PostInv, RefusePost, CreateRun, CreateRunFails, Accept,
                                RunReturns, HandlerFails, Crash
  <2>4. ServiceTypeOK'
    BY <1>0, <1>t, <2>1, <2>2, <2>3 DEF ServiceTypeOK
  <2>5. /\ responses' = responses /\ pc' = pc
        /\ stored'.row.status = "completed" => stored' = stored
    BY <2>1, StoredKinds DEF vars, local
  <2>. QED
    BY <1>v, <2>1, <2>4, <2>5 DEF AnswerInv, PollTellsTheOutcome
<1>2. CASE StartJob \/ HandleError
  <2>1. /\ UNCHANGED <<responses, pc, stored, post, poll, answer, request>>
        /\ pc # "returned"
        /\ job' \in {"running", "committing"}
    BY <1>0, <1>2 DEF StartJob, HandleError, PostInv, local
  <2>2. ServiceTypeOK'
    BY <1>0, <1>t, <2>1 DEF ServiceTypeOK
  <2>3. FinalAnswerIsLogged'
    BY <1>0, <2>1 DEF FinalAnswerIsLogged
  <2>. QED
    BY <2>1, <2>2, <2>3 DEF AnswerInv, PollTellsTheOutcome
<1>3. CASE JobRuns
  <2>1. /\ UNCHANGED <<stored, post, job, poll, answer, request>>
        /\ pc \notin Endings /\ (pc' = "returned" /\ Persists' => steps' # <<>>)
        /\ FinalAnswerIsLogged'
    BY <1>0, <1>3, RunGoesOn, AnswerStep DEF JobRuns, Next
  <2>2. ServiceTypeOK'
    BY <1>0, <1>t, <2>1 DEF ServiceTypeOK
  <2>3. stored.row.status # "completed"
    BY <1>0, <1>3, StoredKinds DEF JobRuns, PostInv
  <2>4. answer.status \notin {"succeeded", "failed"}
    BY <1>0, <2>1 DEF PollTellsTheOutcome, Endings
  <2>. QED
    BY <1>0, <2>1, <2>2, <2>3, <2>4 DEF AnswerInv, PollTellsTheOutcome
<1>4. CASE CommitJob \/ CommitJobFails
  <2>1. /\ UNCHANGED <<vars, post, poll, answer, request>> /\ job = "committing"
        /\ stored' \in {stored, [row |-> row, steps |-> steps]} /\ job' \in {"done", "died"}
    BY <1>4 DEF CommitJob, CommitJobFails
  <2>2. ServiceTypeOK'
    <3>1. [row |-> row, steps |-> steps] \in [row : Row, steps : Seq(Step)]
      BY <1>0 DEF TypeOK
    <3>. QED
      BY <1>0, <1>t, <2>1, <3>1 DEF ServiceTypeOK
  <2>3. responses' = responses /\ pc' = pc
    BY <2>1 DEF vars, local
  <2>4. stored'.row.status = "completed" => FinalAnswer(stored'.steps) = <<Last(responses').content>>
    BY <2>1, <2>3, CommittedAnswer DEF AnswerInv
  <2>. QED
    BY <1>0, <1>v, <2>1, <2>2, <2>3, <2>4 DEF AnswerInv, PollTellsTheOutcome
<1>5. CASE Poll \/ PollFails
  <2>1. UNCHANGED <<vars, stored, post, job, request>>
    BY <1>5 DEF Poll, PollRow, PollSteps, PollFails
  <2>2. responses' = responses /\ pc' = pc
    BY <2>1 DEF vars, local
  <2>s. stored.row \in Row /\ stored.steps \in Seq(Step)
    BY <1>0 DEF ServiceTypeOK
  <2>p. \A st \in Status : /\ StatusProjection[st] \in {"running", "succeeded", "failed"}
                           /\ StatusProjection[st] = "succeeded" <=> st = "completed"
                           /\ StatusProjection[st] = "failed" <=> st \in {"failed", "capped"}
    BY DEF StatusProjection, Status
  <2>3. /\ poll' \in {poll, NoRow, stored.row}
        /\ \/ answer' = answer
           \/ \E code \in {404, 500} : answer' = Http(code)
           \/ /\ stored.row # NoRow /\ stored.row.status # "completed"
              /\ answer' = Found(StatusProjection[stored.row.status], <<>>)
           \/ /\ stored.row # NoRow /\ stored.row.status = "completed"
              /\ answer' = Found("succeeded", FinalAnswer(stored.steps))
    <3>1. CASE PollRow
      BY <3>1 DEF PollRow
    <3>2. CASE PollSteps
      <4>1. poll = stored.row /\ poll.status = "completed" /\ poll # NoRow
        BY <1>0, <3>2 DEF PollSteps, PollInv
      <4>2. StatusProjection[poll.status] = "succeeded"
        BY <4>1, <2>p DEF Status
      <4>. QED
        BY <3>2, <4>1, <4>2 DEF PollSteps
    <3>3. CASE PollFails
      BY <3>3 DEF PollFails
    <3>. QED
      BY <1>5, <3>1, <3>2, <3>3 DEF Poll
  <2>4. stored.row # NoRow => stored.row.status \in Status
    BY <2>s, RowStatus DEF Row
  <2>5. /\ stored.row.status = "completed" =>
             pc = "returned" /\ FinalAnswer(stored.steps) = <<Last(responses).content>>
        /\ stored.row.status \in {"failed", "capped"} => pc \in {"capped", "raised"}
    BY <1>0, StoredKinds DEF JobInv, TellsEnding, AnswerInv
  <2>6. PollTellsTheOutcome'
    <3>1. CASE answer' = answer
      BY <1>0, <2>2, <3>1 DEF PollTellsTheOutcome
    <3>2. CASE \E code \in {404, 500} : answer' = Http(code)
      BY <3>2 DEF PollTellsTheOutcome, Http
    <3>3. CASE /\ stored.row # NoRow /\ stored.row.status # "completed"
               /\ answer' = Found(StatusProjection[stored.row.status], <<>>)
      BY <2>2, <2>4, <2>5, <2>p, <3>3 DEF PollTellsTheOutcome, Found
    <3>4. CASE /\ stored.row # NoRow /\ stored.row.status = "completed"
               /\ answer' = Found("succeeded", FinalAnswer(stored.steps))
      BY <2>2, <2>5, <3>4 DEF PollTellsTheOutcome, Found
    <3>. QED
      BY <2>3, <3>1, <3>2, <3>3, <3>4
  <2>7. answer' \in [http : {0, 200, 404, 500}, status : {"none", "running", "succeeded", "failed"},
                     result : {<<>>} \cup {<<c>> : c \in Content}]
    BY <1>0, <2>s, <2>3, <2>4, <2>p, FinalAnswerType DEF ServiceTypeOK, Http, Found
  <2>8. ServiceTypeOK'
    BY <1>0, <1>t, <2>1, <2>s, <2>3, <2>7, RowValues DEF ServiceTypeOK
  <2>. QED
    BY <1>v, <2>1, <2>2, <2>6, <2>8 DEF AnswerInv
<1>6. CASE UNCHANGED serviceVars
  <2>1. UNCHANGED <<vars, request, stored, post, job, poll, answer>>
    BY <1>6 DEF serviceVars
  <2>2. responses' = responses /\ pc' = pc
    BY <2>1 DEF vars, local
  <2>. QED
    BY <1>0, <1>t, <1>v, <2>1, <2>2 DEF AnswerInv, ServiceTypeOK, PollTellsTheOutcome
<1>. QED
  BY <1>1, <1>2, <1>3, <1>4, <1>5, <1>6 DEF ServiceNext, Job, Unpolled

THEOREM AnswerInvariance == ServiceSpec => []AnswerInv
BY InitAnswerInv, AnswerInvStep, ServiceInvariance, PTL DEF ServiceSpec

\* Every variable keeps its type: what a poll answers is a status the API knows
\* and no result but the content of a reply.
THEOREM ServiceTypeCorrect == ServiceSpec => []ServiceTypeOK
<1>1. AnswerInv => ServiceTypeOK
  BY DEF AnswerInv
<1>. QED
  BY AnswerInvariance, <1>1, PTL

\* A poll that says "succeeded" carries the content of the reply that stopped the
\* run, though it reads row and steps in two statements.
THEOREM PollsTellOutcome == ServiceSpec => []PollTellsTheOutcome
<1>1. AnswerInv => PollTellsTheOutcome
  BY DEF AnswerInv
<1>. QED
  BY AnswerInvariance, <1>1, PTL
=============================================================================
