----------------------------- MODULE RunLifecycle -----------------------------
(***************************************************************************)
(* What the trigger surface promises the client of one run, with nothing   *)
(* of rows, steps, sessions, jobs and crashes: the run is one record that  *)
(* every poll reads at once.  It is running when it is created, ends at    *)
(* most once, as succeeded with a result or as failed without one, and     *)
(* stays as it ended.  A poll may fail, and then it says nothing.          *)
(***************************************************************************)

VARIABLES
  run,   \* the run, as a poll reports it
  told   \* what the latest poll has reported

vars == <<run, told>>

Report(status, result) == [status |-> status, result |-> result]
Nothing == Report("none", <<>>)
Running == Report("running", <<>>)

Over(r) == r.status = "succeeded" \/ r = Report("failed", <<>>)

Init == run = Nothing /\ told = Nothing

-----------------------------------------------------------------------------
Create ==
  /\ run = Nothing
  /\ run' = Running
  /\ UNCHANGED told

End ==
  /\ run = Running
  /\ Over(run')
  /\ UNCHANGED told

Poll ==
  /\ run # Nothing
  /\ told' = run
  /\ UNCHANGED run

PollFails ==
  /\ run # Nothing
  /\ told' = Nothing
  /\ UNCHANGED run

Next == Create \/ End \/ Poll \/ PollFails

Spec == Init /\ [][Next]_vars

-----------------------------------------------------------------------------
\* Properties

\* What has been reported is what the run was, and it can only have moved on
\* from running (a poll projects the row it reads).
ToldIsPast == told \in {Nothing, Running, run}

\* Once a poll has told how the run ended, no later one that gets an answer says
\* otherwise (a run that is over is never written again).
PollsAgree == [][Over(told) => told' \in {told, Nothing}]_vars
=============================================================================
