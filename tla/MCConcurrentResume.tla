--------------------------- MODULE MCConcurrentResume ---------------------------
\* Small instances of ConcurrentResume.
EXTENDS ConcurrentResume, TLC

CONSTANTS a, b, c

MCRunners == {a, b, c}
MCSymmetry == Permutations(MCRunners)

\* The row of the service, a run an error interrupted, one that was capped
\* before its first step, and one that is over.
MCHistories ==
  {[status |-> "created", log |-> <<>>],
   [status |-> "running", log |-> Steps(Earlier, 0, 2, FALSE)],
   [status |-> "capped", log |-> <<>>],
   [status |-> "completed", log |-> Steps(Earlier, 0, 1, TRUE)]}
=============================================================================
