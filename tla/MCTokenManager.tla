--------------------------- MODULE MCTokenManager ---------------------------
(* Model checking of TokenManager: one tick stands for 30 seconds, so the   *)
(* durations of the code (300s, 60s, 30s) are 10, 2 and 1 ticks.            *)
EXTENDS TokenManager, TLC

CONSTANTS c1, c2, c3

TwoCallers == {c1, c2}
ThreeCallers == {c1, c2, c3}

\* No expires_in (the default lifetime) and one that leaves a token usable for
\* one tick; ShortLived is swallowed by the buffer.
MCExpiresIn == {0, 3}
ShortLived == {2}
MCTokenTTL == 10
MCRefreshBuffer == 2
MCLoginTimeout == 1

CallerSymmetry == Permutations(ThreeCallers)
=============================================================================
