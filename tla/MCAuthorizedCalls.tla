-------------------------- MODULE MCAuthorizedCalls --------------------------
(* Model checking of AuthorizedCalls: as in MCTokenManager a tick stands for *)
(* 30 seconds; a lifetime of 3 ticks makes a token usable for one tick after *)
(* its receipt and lets it die while a call retries.                         *)
EXTENDS AuthorizedCalls

CONSTANTS c1, c2

TwoCalls == {c1, c2}

MCExpiresIn == {3}
MCTokenTTL == 10
MCRefreshBuffer == 2
MCLoginTimeout == 1
TwoAttempts == {2}
=============================================================================
