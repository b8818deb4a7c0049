---------------------------- MODULE MCSetuClient ----------------------------
(* Model checking of SetuClient: one call of any operation beside one of a  *)
(* bearer operation, over clients built from several lists of options.      *)
EXTENDS SetuClient, TLC

CONSTANTS k1, k2

MCCalls == {k1, k2}
MCOperationsOf == (k1 :> Operations) @@ (k2 :> {GetTransaction, PANVerify})
OneCall == {k1}
DataCalls == k1 :> DataOperations

Credentials == <<Option("clientID", "id"), Option("clientSecret", "secret")>>
\* Accepted clients, the last of them with a limiter that admits nothing; one
\* without credentials; one whose timeout is switched off although its own
\* transport would honour it.
MCOptionLists ==
    {Credentials \o <<Option("maxAttempts", 2), Option("maxAttempts", 1)>>,
     Credentials \o <<Option("maxAttempts", 2), Option("timeout", 5000),
                      Option("httpTransport", "custom")>>,
     Credentials \o <<Option("maxAttempts", 2),
                      Option("rateLimit", [rps |-> 100, burst |-> 0])>>,
     <<Option("clientSecret", "secret"), Option("maxAttempts", 2)>>,
     Credentials \o <<Option("timeout", 0), Option("maxAttempts", 0),
                      Option("httpTransport", "custom")>>}
ShorterTimeout == {Credentials \o <<Option("timeout", 5000)>>}
=============================================================================
