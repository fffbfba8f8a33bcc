---------------------------- MODULE MCSessionStore ----------------------------
\* Small instances of SessionStore.
EXTENDS SessionStore, TLC

CONSTANTS r1, r2

MCRuns == {r1, r2}
MCSymmetry == Permutations(MCRuns)
=============================================================================
