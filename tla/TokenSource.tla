----------------------------- MODULE TokenSource -----------------------------
(***************************************************************************)
(* What the token manager promises its callers, without its cache, locks,  *)
(* flights and clock: a call of Token ends with a token or an error; a     *)
(* token is minted only while somebody asks for one; and the tokens handed *)
(* out never go back: a call gets no token older than one that had been    *)
(* handed out when it began.  TokenManager implements it, and SetuClient   *)
(* builds on it.                                                           *)
(***************************************************************************)
EXTENDS Integers

CONSTANT Callers

VARIABLES
    asking,   \* callers inside Token
    minted,   \* how many tokens the login server has minted
    newest,   \* the newest token handed out, 0 at first
    since,    \* newest when the caller's call began
    got       \* the token the caller's last call returned, 0 for an error

tokenVars == <<asking, minted, newest, since, got>>

TokenInit ==
    /\ asking = {}
    /\ minted = 0
    /\ newest = 0
    /\ since = [c \in Callers |-> 0]
    /\ got = [c \in Callers |-> 0]

HandOut(c, id) ==
    /\ got' = [got EXCEPT ![c] = id]
    /\ newest' = IF id > newest THEN id ELSE newest

\* The call misses the cache.
Ask(c) ==
    /\ c \notin asking
    /\ asking' = asking \cup {c}
    /\ since' = [since EXCEPT ![c] = newest]
    /\ got' = [got EXCEPT ![c] = 0]
    /\ UNCHANGED <<minted, newest>>

\* A login reaches the server, on behalf of whoever asks.
Mint ==
    /\ asking # {}
    /\ minted' = minted + 1
    /\ UNCHANGED <<asking, newest, since, got>>

Grant(c) ==
    /\ c \in asking
    /\ \E id \in 1..minted : id >= since[c] /\ HandOut(c, id)
    /\ asking' = asking \ {c}
    /\ UNCHANGED <<minted, since>>

Deny(c) ==
    /\ c \in asking
    /\ asking' = asking \ {c}
    /\ got' = [got EXCEPT ![c] = 0]
    /\ UNCHANGED <<minted, newest, since>>

\* The call is answered from the cache in one step.
GrantAtOnce(c) ==
    /\ c \notin asking
    /\ \E id \in 1..minted : id >= newest /\ HandOut(c, id)
    /\ since' = [since EXCEPT ![c] = newest]
    /\ UNCHANGED <<asking, minted>>

TokenNext ==
    \/ \E c \in Callers : Ask(c) \/ Grant(c) \/ Deny(c) \/ GrantAtOnce(c)
    \/ Mint

TokenSpec == TokenInit /\ [][TokenNext]_tokenVars

=============================================================================
