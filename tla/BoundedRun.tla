------------------------------ MODULE BoundedRun ------------------------------
(***************************************************************************)
(* What AgentRunner.run promises its caller, with nothing of how it keeps  *)
(* the promise: a run spends at most MaxIterations gateway calls, asks for *)
(* no further call once it has spent more than TokenBudget tokens, and     *)
(* ends exactly once, as completed, as capped by a named cap whose breach  *)
(* has really happened, or as failed.  There are no messages, no steps, no *)
(* rows, no spans and no clock here, only the fact that the deadline has   *)
(* passed.                                                                 *)
(***************************************************************************)
EXTENDS Naturals

CONSTANTS MaxIterations, TokenBudget, Costs

\* What the caps and the costs are taken to be.
BoundedRunAssumption ==
  /\ MaxIterations \in Nat \ {0}
  /\ TokenBudget \in Nat \ {0}
  /\ Costs \subseteq Nat

VARIABLES
  phase,    \* "working" until the run ends, then how it ended
  reason,   \* the cap a capped run names
  waiting,  \* a gateway call is in flight
  calls,    \* gateway calls made
  spent,    \* tokens of the replies the run has taken into account
  late      \* a timeout (the run's own, or the gateway client's) has struck

vars == <<phase, reason, waiting, calls, spent, late>>

Endings == {"completed", "capped", "failed"}
Caps == {"max_iterations", "token_budget", "timeout_s"}

TypeOK ==
  /\ phase \in {"working"} \cup Endings
  /\ reason \in {"none"} \cup Caps
  /\ waiting \in BOOLEAN
  /\ calls \in Nat
  /\ spent \in Nat
  /\ late \in BOOLEAN

Init ==
  /\ phase = "working"
  /\ reason = "none"
  /\ waiting = FALSE
  /\ calls = 0
  /\ spent = 0
  /\ late = FALSE

-----------------------------------------------------------------------------

\* The run asks the gateway for one more reply.
Call ==
  /\ phase = "working"
  /\ ~waiting
  /\ calls < MaxIterations
  /\ spent <= TokenBudget
  /\ waiting' = TRUE
  /\ calls' = calls + 1
  /\ UNCHANGED <<phase, reason, spent, late>>

\* A reply of n tokens is taken into account.  It ends the run when it is the
\* final answer, when its tool is rejected, and when it breaks the budget.
TakeReply(n) ==
  /\ phase = "working"
  /\ waiting
  /\ waiting' = FALSE
  /\ spent' = spent + n
  /\ \/ /\ spent + n > TokenBudget
        /\ phase' = "capped"
        /\ reason' = "token_budget"
     \/ /\ spent + n <= TokenBudget
        /\ phase' \in {"working", "completed", "failed"}
        /\ UNCHANGED reason
  /\ UNCHANGED <<calls, late>>

\* Every call has been spent and the last one has been answered.
OutOfIterations ==
  /\ phase = "working"
  /\ ~waiting
  /\ calls = MaxIterations
  /\ phase' = "capped"
  /\ reason' = "max_iterations"
  /\ UNCHANGED <<waiting, calls, spent, late>>

\* A timeout strikes the working run.
Expire ==
  /\ phase = "working"
  /\ ~late
  /\ late' = TRUE
  /\ UNCHANGED <<phase, reason, waiting, calls, spent>>

\* A late run may be given up, with its outstanding call.
OutOfTime ==
  /\ phase = "working"
  /\ late
  /\ phase' = "capped"
  /\ reason' = "timeout_s"
  /\ waiting' = FALSE
  /\ UNCHANGED <<calls, spent, late>>

\* An error other than a cap breach ends the run.
Fail ==
  /\ phase = "working"
  /\ phase' = "failed"
  /\ waiting' = FALSE
  /\ UNCHANGED <<reason, calls, spent, late>>

Next ==
  \/ Call
  \/ \E n \in Costs : TakeReply(n)
  \/ OutOfIterations
  \/ Expire
  \/ OutOfTime
  \/ Fail

Spec == Init /\ [][Next]_vars

\* A promise about the future needs the clock and the run to keep moving, not
\* the gateway: a call that is never answered is given up once it is late.
FairSpec ==
  /\ Spec
  /\ WF_vars(Expire)
  /\ WF_vars(Call \/ OutOfIterations \/ OutOfTime)

-----------------------------------------------------------------------------
\* Properties

\* Whatever the replies cost, a run never pays for more than MaxIterations
\* calls, nor for more than one reply beyond its budget, and the cap it names
\* is one it has reached (the three caps of run()).
CapsAreKept ==
  /\ calls <= MaxIterations
  /\ spent <= TokenBudget \/ \E n \in Costs : spent <= TokenBudget + n
  /\ reason = "max_iterations" => calls = MaxIterations
  /\ reason = "token_budget" => spent > TokenBudget
  /\ reason = "timeout_s" => late
  /\ phase = "capped" <=> reason # "none"
=============================================================================
