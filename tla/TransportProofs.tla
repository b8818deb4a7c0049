--------------------------- MODULE TransportProofs ---------------------------
(***************************************************************************)
(* Proofs about Transport for any requests, statuses, burst and maximal    *)
(* number of attempts.  The steps of one request leave the others alone,   *)
(* so the inductive invariant CallInv(r) speaks of one request; the        *)
(* limiter is the only thing they share.                                   *)
(***************************************************************************)
EXTENDS Transport, TLAPS

USE DEF limiterVars, historyVars

ResultTypes == [kind : Kinds, status : {0} \cup 100..599]
Waiting == {"limit", "queue", "send"}
Sent == {"inflight", "decide", "backoff", "decode"}

Types ==
    /\ maxAttempts \in Nat \ {0}
    /\ pc \in [Requests -> Places] /\ attempt \in [Requests -> Nat]
    /\ last \in [Requests -> {0, NetError} \cup Statuses]
    /\ body \in [Requests -> Bodies] /\ open \in [Requests -> Int]
    /\ result \in [Requests -> ResultTypes] /\ cancelled \subseteq Requests
    /\ bucket \in Int /\ bucket <= Burst /\ due \in [Requests -> Nat]
    /\ sends \in [Requests -> Nat] /\ received \in [Requests -> Bodies]
    /\ executed \in [Requests -> Nat] /\ late \in [Requests -> Nat]

\* Attempts are counted: one more than the loop variable once it is sent, and
\* exactly so as long as the ctx is not done.
CountInv(r) ==
    /\ attempt[r] < maxAttempts
    /\ sends[r] <= attempt[r] + 1
    /\ pc[r] \in {"idle"} \cup Waiting => sends[r] <= attempt[r]
    /\ pc[r] \in Waiting \cup Sent /\ r \notin cancelled =>
         sends[r] = IF pc[r] \in Waiting THEN attempt[r] ELSE attempt[r] + 1
    /\ pc[r] = "inflight" => sends[r] > executed[r]
    /\ executed[r] <= sends[r]

\* Which outcomes lead where.
OutcomeInv(r) ==
    /\ pc[r] # "crash"
    /\ pc[r] = "idle" => sends[r] = 0 /\ attempt[r] = 0 /\ last[r] = 0
    /\ pc[r] \in Waiting \cup {"inflight"} =>
         last[r] = 0 \/ DefaultShouldRetry(last[r])
    /\ last[r] = 0 => attempt[r] = 0
    /\ pc[r] = "decide" => last[r] # 0
    /\ pc[r] = "backoff" => ShouldRetry(maxAttempts, attempt[r], last[r])
    /\ pc[r] = "decode" =>
         last[r] \in Statuses /\ ~ShouldRetry(maxAttempts, attempt[r], last[r])
    /\ last[r] \in Statuses => sends[r] > 0

\* A response is open where it is looked at.
BodyInv(r) ==
    /\ pc[r] \in {"idle", "inflight", "backoff", "done"} \cup Waiting => open[r] = 0
    /\ pc[r] = "decide" => open[r] = IF last[r] = NetError THEN 0 ELSE 1
    /\ pc[r] = "decode" => open[r] = 1
    /\ r \in WithBody /\ sends[r] > 0 => received[r] = "full"

\* What DoJSON returned fits the last outcome.
ResultInv(r) ==
    /\ pc[r] # "done" => result[r] = Pending
    /\ pc[r] = "done" /\ result[r].kind \in {"ok", "api", "auth", "ratelimit"} =>
         last[r] \in Statuses /\ result[r] \in Decoded(last[r])
    /\ pc[r] = "done" /\ r \notin cancelled /\ result[r].kind # "limiter" =>
         /\ sends[r] = attempt[r] + 1
         /\ ~ShouldRetry(maxAttempts, attempt[r], last[r])

\* Once the ctx is done the limiter admits no further attempt; one that it has
\* admitted before may still be tried.
LateInv(r) ==
    /\ late[r] <= 1
    /\ late[r] > 0 => r \in cancelled /\ pc[r] \notin {"queue", "send", "inflight"}

CallInv(r) ==
    CountInv(r) /\ OutcomeInv(r) /\ BodyInv(r) /\ ResultInv(r) /\ LateInv(r)
TransportInv == Types /\ \A r \in Requests : CallInv(r)

-----------------------------------------------------------------------------
\* Every other request is as it was.
OthersKept(r) ==
    \A q \in Requests \ {r} :
        /\ pc'[q] = pc[q] /\ attempt'[q] = attempt[q] /\ last'[q] = last[q]
        /\ open'[q] = open[q] /\ result'[q] = result[q]
        /\ q \in cancelled' <=> q \in cancelled
        /\ sends'[q] = sends[q] /\ received'[q] = received[q]
        /\ executed'[q] = executed[q] /\ late'[q] = late[q]

LEMMA CallsApart ==
    ASSUME TransportInv, NEW r \in Requests, OthersKept(r), Types',
           maxAttempts' = maxAttempts, CallInv(r)'
    PROVE  TransportInv'
<1>1. ASSUME NEW q \in Requests \ {r} PROVE CallInv(q)'
  <2>1. CallInv(q)
    BY DEF TransportInv
  <2> QED
    BY <2>1, <1>1 DEF OthersKept, CallInv, CountInv, OutcomeInv, BodyInv, ResultInv,
         LateInv
<1> QED
  BY <1>1 DEF TransportInv

\* What DoJSON makes of a status is a result, and no mere mark of progress.
LEMMA DecodedTypes ==
    ASSUME NEW status \in Statuses, NEW outcome \in Decoded(status)
    PROVE  outcome \in ResultTypes /\ outcome # Pending
BY StatusesAssumption
   DEF Decoded, ErrorOf, ResultTypes, Kinds, TypedKinds, UntypedKinds, Success,
       OK, Untyped, AuthError, RateLimitError, APIError, Outcome, Pending

LEMMA OtherResults ==
    /\ NetworkError \in ResultTypes /\ Untyped("limiter") \in ResultTypes
    /\ Untyped("ctx") \in ResultTypes /\ Pending \in ResultTypes
    /\ NetworkError.kind = "network" /\ Untyped("limiter").kind = "limiter"
    /\ Untyped("ctx").kind = "ctx"
BY DEF ResultTypes, Kinds, TypedKinds, UntypedKinds, NetworkError, Untyped,
       Outcome, Pending

\* Neither NetError nor 0 is a status.
LEMMA NoStatus == NetError \notin Statuses /\ 0 \notin Statuses /\ NetError # 0
BY StatusesAssumption DEF NetError

\* Every step keeps the invariant (transport/client.go:89-166).
THEOREM TransportInvCorrect == Spec => []TransportInv
<1>1. Init => TransportInv
  <2> SUFFICES ASSUME Init PROVE TransportInv
    OBVIOUS
  <2>1. maxAttempts \in Nat \ {0}
    BY MaxAttemptsAssumption DEF Init, MaxAttempts
  <2>2. Types
    BY <2>1, OtherResults, BurstAssumption DEF Init, Types, Places, Bodies
  <2>3. \A r \in Requests : CallInv(r)
    BY <2>1, NoStatus
       DEF Init, CallInv, CountInv, OutcomeInv, BodyInv, ResultInv, LateInv, Waiting,
           Sent
  <2> QED
    BY <2>2, <2>3 DEF TransportInv
<1>2. TransportInv /\ [Next]_vars => TransportInv'
  <2> SUFFICES ASSUME TransportInv, [Next]_vars PROVE TransportInv'
    OBVIOUS
  <2> Types
    BY Zenon DEF TransportInv
  <2>1. ASSUME NEW r \in Requests, Start(r) PROVE TransportInv'
    <3> CallInv(r)
      BY Zenon DEF TransportInv
    <3>1. Types' /\ maxAttempts' = maxAttempts
      BY <2>1, OtherResults
         DEF Start, Types, Places, Bodies, Return, Goto, LeaveLoop
    <3>2. OthersKept(r)
      BY <2>1 DEF Start, Types, OthersKept, Return, Goto, LeaveLoop
    <3>3. CountInv(r)' /\ OutcomeInv(r)'
      BY <2>1, NoStatus
         DEF Start, Types, CallInv, CountInv, OutcomeInv, ShouldRetry, Waiting,
             Sent, Return, Goto, LeaveLoop
    <3>4. BodyInv(r)'
      BY <2>1, NoStatus
         DEF Start, Types, CallInv, BodyInv, OutcomeInv, Waiting, Return, Goto,
             LeaveLoop
    <3>5. ResultInv(r)'
      BY <2>1, OtherResults
         DEF Start, Types, CallInv, CountInv, ResultInv, OutcomeInv,
             ShouldRetry, Waiting, Sent, Return, Goto, LeaveLoop
    <3>6. LateInv(r)'
      BY <2>1 DEF Start, Types, CallInv, LateInv, Return, Goto, LeaveLoop
    <3> QED
      BY <3>1, <3>2, <3>3, <3>4, <3>5, <3>6, CallsApart, Zenon DEF CallInv
  <2>2. ASSUME NEW r \in Requests, LimiterAdmits(r) PROVE TransportInv'
    <3> CallInv(r)
      BY Zenon DEF TransportInv
    <3>1. Types' /\ maxAttempts' = maxAttempts
      BY <2>2, BurstAssumption DEF LimiterAdmits, Types, Places, Goto
    <3>2. OthersKept(r)
      BY <2>2 DEF LimiterAdmits, Types, OthersKept, Goto
    <3>3. CountInv(r)' /\ OutcomeInv(r)'
      BY <2>2, NoStatus
         DEF LimiterAdmits, Types, CallInv, CountInv, OutcomeInv, ShouldRetry,
             Waiting, Sent, Goto
    <3>4. BodyInv(r)'
      BY <2>2, NoStatus
         DEF LimiterAdmits, Types, CallInv, BodyInv, OutcomeInv, Waiting, Goto
    <3>5. ResultInv(r)'
      BY <2>2
         DEF LimiterAdmits, Types, CallInv, CountInv, ResultInv, OutcomeInv,
             ShouldRetry, Waiting, Sent, Goto
    <3>6. LateInv(r)'
      BY <2>2 DEF LimiterAdmits, Types, CallInv, LateInv, Goto
    <3> QED
      BY <3>1, <3>2, <3>3, <3>4, <3>5, <3>6, CallsApart, Zenon DEF CallInv
  <2>3. ASSUME NEW r \in Requests, LimiterRefuses(r) PROVE TransportInv'
    <3> CallInv(r)
      BY Zenon DEF TransportInv
    <3>1. Types' /\ maxAttempts' = maxAttempts
      BY <2>3, OtherResults DEF LimiterRefuses, Types, Places, Goto, Return
    <3>2. OthersKept(r)
      BY <2>3 DEF LimiterRefuses, Types, OthersKept, Goto, Return
    <3>3. CountInv(r)' /\ OutcomeInv(r)'
      BY <2>3, NoStatus
         DEF LimiterRefuses, Types, CallInv, CountInv, OutcomeInv, ShouldRetry,
             Waiting, Sent, Goto, Return
    <3>4. BodyInv(r)'
      BY <2>3, NoStatus
         DEF LimiterRefuses, Types, CallInv, BodyInv, OutcomeInv, Waiting,
             Goto, Return
    <3>5. ResultInv(r)'
      BY <2>3, OtherResults
         DEF LimiterRefuses, Types, CallInv, CountInv, ResultInv, OutcomeInv,
             ShouldRetry, Waiting, Sent, Goto, Return
    <3>6. LateInv(r)'
      BY <2>3 DEF LimiterRefuses, Types, CallInv, LateInv, Goto, Return
    <3> QED
      BY <3>1, <3>2, <3>3, <3>4, <3>5, <3>6, CallsApart, Zenon DEF CallInv
  <2>4. ASSUME NEW r \in Requests, Send(r) PROVE TransportInv'
    <3> CallInv(r)
      BY Zenon DEF TransportInv
    <3>1. Types' /\ maxAttempts' = maxAttempts
      BY <2>4 DEF Send, Types, Places, Bodies, Goto, Replay
    <3>2. OthersKept(r)
      BY <2>4 DEF Send, Types, OthersKept, Goto
    <3>3. CountInv(r)' /\ OutcomeInv(r)'
      BY <2>4, NoStatus
         DEF Send, Types, CallInv, CountInv, OutcomeInv, ShouldRetry, Waiting,
             Sent, Goto
    <3>4. BodyInv(r)'
      BY <2>4, NoStatus
         DEF Send, Types, CallInv, BodyInv, OutcomeInv, Waiting, Goto, Replay
    <3>5. ResultInv(r)'
      BY <2>4
         DEF Send, Types, CallInv, CountInv, ResultInv, OutcomeInv,
             ShouldRetry, Waiting, Sent, Goto
    <3>6. LateInv(r)'
      BY <2>4 DEF Send, Types, CallInv, LateInv, Goto
    <3> QED
      BY <3>1, <3>2, <3>3, <3>4, <3>5, <3>6, CallsApart, Zenon DEF CallInv
  <2>5. ASSUME NEW r \in Requests, Answer(r) PROVE TransportInv'
    <3> CallInv(r)
      BY Zenon DEF TransportInv
    <3>1. Types' /\ maxAttempts' = maxAttempts
      BY <2>5 DEF Answer, Types, Places, Goto
    <3>2. OthersKept(r)
      BY <2>5 DEF Answer, Types, OthersKept, Goto
    <3>3. CountInv(r)' /\ OutcomeInv(r)'
      BY <2>5, NoStatus
         DEF Answer, Types, CallInv, CountInv, OutcomeInv, ShouldRetry,
             Waiting, Sent, Goto
    <3>4. BodyInv(r)'
      BY <2>5, NoStatus
         DEF Answer, Types, CallInv, BodyInv, OutcomeInv, Waiting, Goto
    <3>5. ResultInv(r)'
      BY <2>5
         DEF Answer, Types, CallInv, CountInv, ResultInv, OutcomeInv,
             ShouldRetry, Waiting, Sent, Goto
    <3>6. LateInv(r)'
      BY <2>5 DEF Answer, Types, CallInv, LateInv, Goto
    <3> QED
      BY <3>1, <3>2, <3>3, <3>4, <3>5, <3>6, CallsApart, Zenon DEF CallInv
  <2>6. ASSUME NEW r \in Requests, AnswerLost(r) PROVE TransportInv'
    <3> CallInv(r)
      BY Zenon DEF TransportInv
    <3>1. Types' /\ maxAttempts' = maxAttempts
      BY <2>6 DEF AnswerLost, Types, Places, Goto
    <3>2. OthersKept(r)
      BY <2>6 DEF AnswerLost, Types, OthersKept, Goto
    <3>3. CountInv(r)' /\ OutcomeInv(r)'
      BY <2>6, NoStatus
         DEF AnswerLost, Types, CallInv, CountInv, OutcomeInv, ShouldRetry,
             Waiting, Sent, Goto
    <3>4. BodyInv(r)'
      BY <2>6, NoStatus
         DEF AnswerLost, Types, CallInv, BodyInv, OutcomeInv, Waiting, Goto
    <3>5. ResultInv(r)'
      BY <2>6
         DEF AnswerLost, Types, CallInv, CountInv, ResultInv, OutcomeInv,
             ShouldRetry, Waiting, Sent, Goto
    <3>6. LateInv(r)'
      BY <2>6 DEF AnswerLost, Types, CallInv, LateInv, Goto
    <3> QED
      BY <3>1, <3>2, <3>3, <3>4, <3>5, <3>6, CallsApart, Zenon DEF CallInv
  <2>7. ASSUME NEW r \in Requests, DecideRetry(r) PROVE TransportInv'
    <3> CallInv(r)
      BY Zenon DEF TransportInv
    <3>1. Types' /\ maxAttempts' = maxAttempts
      BY <2>7 DEF DecideRetry, Types, Places, Goto, Discard
    <3>2. OthersKept(r)
      BY <2>7 DEF DecideRetry, Types, OthersKept, Goto, Discard
    <3>3. CountInv(r)' /\ OutcomeInv(r)'
      BY <2>7, NoStatus
         DEF DecideRetry, Types, CallInv, CountInv, OutcomeInv, ShouldRetry,
             Waiting, Sent, Goto
    <3>4. BodyInv(r)'
      BY <2>7, NoStatus
         DEF DecideRetry, Types, CallInv, BodyInv, OutcomeInv, Waiting, Goto,
             Discard
    <3>5. ResultInv(r)'
      BY <2>7
         DEF DecideRetry, Types, CallInv, CountInv, ResultInv, OutcomeInv,
             ShouldRetry, Waiting, Sent, Goto
    <3>6. LateInv(r)'
      BY <2>7 DEF DecideRetry, Types, CallInv, LateInv, Goto
    <3> QED
      BY <3>1, <3>2, <3>3, <3>4, <3>5, <3>6, CallsApart, Zenon DEF CallInv
  <2>8. ASSUME NEW r \in Requests, DecideFinal(r) PROVE TransportInv'
    <3> CallInv(r)
      BY Zenon DEF TransportInv
    <3>1. Types' /\ maxAttempts' = maxAttempts
      BY <2>8, OtherResults
         DEF DecideFinal, Types, Places, Goto, Return, LeaveLoop
    <3>2. OthersKept(r)
      BY <2>8 DEF DecideFinal, Types, OthersKept, Goto, Return, LeaveLoop
    <3>3. CountInv(r)' /\ OutcomeInv(r)'
      BY <2>8, NoStatus
         DEF DecideFinal, Types, CallInv, CountInv, OutcomeInv, ShouldRetry,
             Waiting, Sent, Goto, Return, LeaveLoop
    <3>4. BodyInv(r)'
      BY <2>8, NoStatus
         DEF DecideFinal, Types, CallInv, BodyInv, OutcomeInv, Waiting, Goto,
             Return, LeaveLoop
    <3>5. ResultInv(r)'
      BY <2>8, OtherResults
         DEF DecideFinal, Types, CallInv, CountInv, ResultInv, OutcomeInv,
             ShouldRetry, Waiting, Sent, Goto, Return, LeaveLoop
    <3>6. LateInv(r)'
      BY <2>8 DEF DecideFinal, Types, CallInv, LateInv, Goto, Return, LeaveLoop
    <3> QED
      BY <3>1, <3>2, <3>3, <3>4, <3>5, <3>6, CallsApart, Zenon DEF CallInv
  <2>9. ASSUME NEW r \in Requests, BackoffEnds(r) PROVE TransportInv'
    <3> CallInv(r)
      BY Zenon DEF TransportInv
    <3>1. pc[r] = "backoff" /\ attempt[r] + 1 < maxAttempts /\ last[r] # 0
          /\ DefaultShouldRetry(last[r])
      BY <2>9, NoStatus
         DEF BackoffEnds, Types, CallInv, OutcomeInv, ShouldRetry,
             DefaultShouldRetry
    <3>2. attempt' = [attempt EXCEPT ![r] = @ + 1] /\ Goto(r, "limit")
          /\ UNCHANGED <<maxAttempts, last, body, open, result, cancelled,
                         limiterVars, historyVars>>
      BY <2>9, <3>1 DEF BackoffEnds, Types
    <3>3. Types'
      BY <3>1, <3>2 DEF Types, Goto, Places
    <3>4. OthersKept(r)
      BY <3>2 DEF Types, OthersKept, Goto
    <3>5. CountInv(r)' /\ OutcomeInv(r)'
      BY <3>1, <3>2, NoStatus
         DEF Types, CallInv, CountInv, OutcomeInv, ShouldRetry, Waiting, Sent, Goto
    <3>6. BodyInv(r)' /\ ResultInv(r)' /\ LateInv(r)'
      BY <3>1, <3>2 DEF Types, CallInv, BodyInv, ResultInv, LateInv, Waiting, Goto
    <3> QED
      BY <3>2, <3>3, <3>4, <3>5, <3>6, CallsApart, Zenon DEF CallInv
  <2>10. ASSUME NEW r \in Requests, BackoffCancelled(r) PROVE TransportInv'
    <3> CallInv(r)
      BY Zenon DEF TransportInv
    <3>1. Types' /\ maxAttempts' = maxAttempts
      BY <2>10, OtherResults DEF BackoffCancelled, Types, Places, Goto, Return
    <3>2. OthersKept(r)
      BY <2>10 DEF BackoffCancelled, Types, OthersKept, Goto, Return
    <3>3. CountInv(r)' /\ OutcomeInv(r)'
      BY <2>10, NoStatus
         DEF BackoffCancelled, Types, CallInv, CountInv, OutcomeInv,
             ShouldRetry, Waiting, Sent, Goto, Return
    <3>4. BodyInv(r)'
      BY <2>10, NoStatus
         DEF BackoffCancelled, Types, CallInv, BodyInv, OutcomeInv, Waiting,
             Goto, Return
    <3>5. ResultInv(r)'
      BY <2>10, OtherResults
         DEF BackoffCancelled, Types, CallInv, CountInv, ResultInv, OutcomeInv,
             ShouldRetry, Waiting, Sent, Goto, Return
    <3>6. LateInv(r)'
      BY <2>10 DEF BackoffCancelled, Types, CallInv, LateInv, Goto, Return
    <3> QED
      BY <3>1, <3>2, <3>3, <3>4, <3>5, <3>6, CallsApart, Zenon DEF CallInv
  <2>11. ASSUME NEW r \in Requests, Decode(r) PROVE TransportInv'
    <3> CallInv(r)
      BY Zenon DEF TransportInv
    <3>0. PICK outcome \in Decoded(last[r]) \cup {NetworkError} :
             Return(r, outcome)
      BY <2>11 DEF Decode
    <3>1. Types' /\ maxAttempts' = maxAttempts
      <4>1. outcome \in ResultTypes
        BY <2>11, OtherResults, DecodedTypes DEF Decode, CallInv, OutcomeInv
      <4> QED
        BY <2>11, <3>0, <4>1 DEF Decode, Types, Goto, Return, Places
    <3>2. OthersKept(r)
      BY <2>11 DEF Decode, Types, OthersKept, Goto, Return
    <3>3. CountInv(r)' /\ OutcomeInv(r)'
      BY <2>11, NoStatus
         DEF Decode, Types, CallInv, CountInv, OutcomeInv, ShouldRetry,
             Waiting, Sent, Goto, Return
    <3>4. BodyInv(r)'
      BY <2>11, NoStatus
         DEF Decode, Types, CallInv, BodyInv, OutcomeInv, Waiting, Goto, Return
    <3>5. ResultInv(r)'
      BY <2>11, OtherResults, NoStatus, DecodedTypes
         DEF Decode, Types, CallInv, CountInv, ResultInv, OutcomeInv,
             ShouldRetry, Waiting, Sent, Goto, Return
    <3>6. LateInv(r)'
      BY <2>11 DEF Decode, Types, CallInv, LateInv, Goto, Return
    <3> QED
      BY <3>1, <3>2, <3>3, <3>4, <3>5, <3>6, CallsApart, Zenon DEF CallInv
  <2>12. ASSUME NEW r \in Requests, Cancel(r) PROVE TransportInv'
    <3> CallInv(r)
      BY Zenon DEF TransportInv
    <3>1. Types' /\ maxAttempts' = maxAttempts
      BY <2>12 DEF Cancel, Types, Places, codeVars
    <3>2. OthersKept(r)
      BY <2>12 DEF Cancel, Types, OthersKept, codeVars
    <3>3. CountInv(r)' /\ OutcomeInv(r)'
      BY <2>12, NoStatus
         DEF Cancel, Types, CallInv, CountInv, OutcomeInv, ShouldRetry,
             Waiting, Sent, codeVars
    <3>4. BodyInv(r)'
      BY <2>12, NoStatus
         DEF Cancel, Types, CallInv, BodyInv, OutcomeInv, Waiting, codeVars
    <3>5. ResultInv(r)'
      BY <2>12
         DEF Cancel, Types, CallInv, CountInv, ResultInv, OutcomeInv,
             ShouldRetry, Waiting, Sent, codeVars
    <3>6. LateInv(r)'
      BY <2>12 DEF Cancel, Types, CallInv, LateInv, codeVars
    <3> QED
      BY <3>1, <3>2, <3>3, <3>4, <3>5, <3>6, CallsApart, Zenon DEF CallInv
  <2>13. ASSUME NEW r \in Requests, ReservationDue(r) PROVE TransportInv'
    <3> CallInv(r)
      BY Zenon DEF TransportInv
    <3>1. Types' /\ maxAttempts' = maxAttempts
      BY <2>13 DEF ReservationDue, Types, Places, Goto
    <3>2. OthersKept(r)
      BY <2>13 DEF ReservationDue, Types, OthersKept, Goto
    <3>3. CountInv(r)' /\ OutcomeInv(r)'
      BY <2>13, NoStatus
         DEF ReservationDue, Types, CallInv, CountInv, OutcomeInv, ShouldRetry,
             Waiting, Sent, Goto
    <3>4. BodyInv(r)'
      BY <2>13, NoStatus
         DEF ReservationDue, Types, CallInv, BodyInv, OutcomeInv, Waiting, Goto
    <3>5. ResultInv(r)'
      BY <2>13
         DEF ReservationDue, Types, CallInv, CountInv, ResultInv, OutcomeInv,
             ShouldRetry, Waiting, Sent, Goto
    <3>6. LateInv(r)'
      BY <2>13 DEF ReservationDue, Types, CallInv, LateInv, Goto
    <3> QED
      BY <3>1, <3>2, <3>3, <3>4, <3>5, <3>6, CallsApart, Zenon DEF CallInv
  <2>14. ASSUME NEW r \in Requests, ReservationCancelled(r) PROVE TransportInv'
    <3> CallInv(r)
      BY Zenon DEF TransportInv
    <3>1. Types' /\ maxAttempts' = maxAttempts
      <4>1. bucket' \in Int /\ bucket' <= Burst
        BY <2>14, BurstAssumption DEF ReservationCancelled, Types
      <4> QED
        BY <2>14, <4>1, OtherResults
           DEF ReservationCancelled, Types, Places, Goto, Return
    <3>2. OthersKept(r)
      BY <2>14 DEF ReservationCancelled, Types, OthersKept, Goto, Return
    <3>3. CountInv(r)' /\ OutcomeInv(r)'
      BY <2>14, NoStatus
         DEF ReservationCancelled, Types, CallInv, CountInv, OutcomeInv,
             ShouldRetry, Waiting, Sent, Goto, Return
    <3>4. BodyInv(r)'
      BY <2>14, NoStatus
         DEF ReservationCancelled, Types, CallInv, BodyInv, OutcomeInv, Waiting,
             Goto, Return
    <3>5. ResultInv(r)'
      BY <2>14, OtherResults
         DEF ReservationCancelled, Types, CallInv, CountInv, ResultInv,
             OutcomeInv, ShouldRetry, Waiting, Sent, Goto, Return
    <3>6. LateInv(r)'
      BY <2>14 DEF ReservationCancelled, Types, CallInv, LateInv, Goto, Return
    <3> QED
      BY <3>1, <3>2, <3>3, <3>4, <3>5, <3>6, CallsApart, Zenon DEF CallInv
  <2>15. ASSUME Refill PROVE TransportInv'
    BY <2>15, BurstAssumption
       DEF Refill, TransportInv, Types, CallInv, CountInv, OutcomeInv, BodyInv,
           ResultInv, LateInv, codeVars
  <2>16. ASSUME UNCHANGED vars PROVE TransportInv'
    BY <2>16
       DEF vars, TransportInv, Types, CallInv, CountInv, OutcomeInv, BodyInv,
           ResultInv, LateInv, codeVars
  <2> QED
    BY <2>1, <2>2, <2>3, <2>4, <2>5, <2>6, <2>7, <2>8, <2>9, <2>10, <2>11,
       <2>12, <2>13, <2>14, <2>15, <2>16 DEF Next, Run, AttemptEnds, AllDone
<1> QED
  BY <1>1, <1>2, PTL DEF Spec

-----------------------------------------------------------------------------
\* Every variable has its type, attempts and sends stay within maxAttempts and no
\* response is closed twice (transport/client.go:102-139).
THEOREM TypeCorrect == Spec => []TypeOK
<1>1. TransportInv => TypeOK
  <2> SUFFICES ASSUME TransportInv PROVE TypeOK
    OBVIOUS
  <2>1. \A r \in Requests :
          /\ attempt[r] \in 0..(maxAttempts - 1)
          /\ sends[r] \in 0..maxAttempts /\ executed[r] \in 0..maxAttempts
    BY DEF TransportInv, Types, CallInv, CountInv
  <2>2. \A r \in Requests : open[r] \in {0, 1}
    BY DEF TransportInv, Types, CallInv, BodyInv, OutcomeInv, Places, Waiting
  <2> QED
    BY <2>1, <2>2 DEF TransportInv, Types, TypeOK, ResultTypes
<1> QED
  BY <1>1, TransportInvCorrect, PTL

\* A response is open exactly while it is looked at (transport/client.go:126-149).
THEOREM BodiesCorrect == Spec => []BodiesAreReleased
<1>1. TransportInv => BodiesAreReleased
  BY DEF TransportInv, CallInv, BodyInv, Waiting, BodiesAreReleased
<1> QED
  BY <1>1, TransportInvCorrect, PTL

\* DoJSON never gets neither a response nor an error (transport/client.go:135-149).
THEOREM NeverNilCorrect == Spec => []NeverNilResponse
<1>1. TransportInv => NeverNilResponse
  BY DEF TransportInv, CallInv, OutcomeInv, NeverNilResponse
<1> QED
  BY <1>1, TransportInvCorrect, PTL

\* Every attempt carries the whole body (transport/client.go:118-121).
THEOREM WholeCorrect == Spec => []EveryAttemptIsWhole
<1>1. TransportInv => EveryAttemptIsWhole
  BY RequestsAssumption DEF TransportInv, CallInv, BodyInv, EveryAttemptIsWhole
<1> QED
  BY <1>1, TransportInvCorrect, PTL

\* What is retried is retried to the end (transport/client.go:112-133).
THEOREM ExhaustsCorrect == Spec => []ExhaustsAttempts
<1>1. TransportInv => ExhaustsAttempts
  BY DEF TransportInv, Types, CallInv, CountInv, ResultInv, ShouldRetry,
         ExhaustsAttempts
<1> QED
  BY <1>1, TransportInvCorrect, PTL

\* The caller's view of an error agrees with the retry loop's
\* (setuerrors/errors.go:44-54, retry.go:16-32).
THEOREM RetryableCorrect == Spec => []RetryableAgrees
<1>1. \A status \in Statuses :
        \A outcome \in Decoded(status) :
          outcome.kind \in {"api", "auth", "ratelimit"} =>
            (IsRetryable(outcome) <=> DefaultShouldRetry(status))
  BY StatusesAssumption
     DEF Decoded, ErrorOf, Success, OK, Untyped, AuthError, RateLimitError,
         APIError, Outcome, IsRetryable, APIRetryable, DefaultShouldRetry,
         NetError
<1>2. TransportInv => RetryableAgrees
  BY <1>1, Zenon DEF TransportInv, CallInv, ResultInv, RetryableAgrees
<1> QED
  BY <1>2, TransportInvCorrect, PTL

-----------------------------------------------------------------------------
\* What the last answer says about the attempts so far.
ExecInv(r) ==
    /\ last[r] \in Success => executed[r] > 0
    /\ last[r] \in Statuses \ Success /\ last[r] < 500 => executed[r] < sends[r]

\* Attempts apart, no step touches what was sent, answered and carried out.
LEMMA OnlyAttemptsExecute ==
    ASSUME [Next]_vars, ~ \E r \in Requests : Send(r) \/ AttemptEnds(r)
    PROVE  UNCHANGED <<last, sends, executed>>
<1>1. ASSUME NEW r \in Requests, Run(r) \/ Cancel(r), ~Send(r)
      PROVE  UNCHANGED <<last, sends, executed>>
  BY <1>1 DEF Run, Start, LimiterAdmits, LimiterRefuses, ReservationDue,
       ReservationCancelled, DecideRetry, DecideFinal, BackoffEnds, BackoffCancelled, Decode, Cancel, codeVars
<1>2. ASSUME Refill \/ AllDone \/ UNCHANGED vars
      PROVE  UNCHANGED <<last, sends, executed>>
  BY <1>2 DEF Refill, AllDone, vars, codeVars
<1> QED
  BY <1>1, <1>2, Zenon DEF Next

\* The server's word is kept in last (transport/client.go:122-125).
THEOREM ExecCorrect == Spec => [](\A r \in Requests : ExecInv(r))
<1> DEFINE Inv == \A r \in Requests : ExecInv(r)
<1>1. Init => Inv
  BY NoStatus DEF Init, ExecInv, Success
<1>2. TransportInv /\ Inv /\ [Next]_vars => Inv'
  <2> SUFFICES ASSUME TransportInv, Inv, [Next]_vars, NEW r \in Requests
               PROVE  ExecInv(r)'
    OBVIOUS
  <2>1. Types /\ ExecInv(r) /\ CountInv(r)
    BY DEF TransportInv, CallInv
  <2>2. ASSUME NEW q \in Requests, Send(q) PROVE ExecInv(r)'
    BY <2>1, <2>2, NoStatus
       DEF Send, Types, ExecInv, CountInv, Success, NetError
  <2>3. ASSUME NEW q \in Requests, Answer(q) PROVE ExecInv(r)'
    <3>1. CASE q # r
      BY <2>1, <2>3, <3>1 DEF Answer, Types, ExecInv
    <3>2. CASE q = r
      <4>1. executed[r] < sends[r] /\ sends' = sends /\ pc[r] = "inflight"
        BY <2>1, <2>3, <3>2 DEF Answer, CountInv, Types
      <4>2. PICK status \in Statuses :
              /\ last' = [last EXCEPT ![r] = status]
              /\ \E ran \in IF status \in Success THEN {1}
                            ELSE IF status < 500 THEN {0} ELSE {0, 1} :
                   executed' = [executed EXCEPT ![r] = @ + ran]
        BY <2>3, <3>2 DEF Answer
      <4>3. last'[r] = status
        BY <2>1, <4>2 DEF Types
      <4>4. status \in Success => executed'[r] = executed[r] + 1
        BY <2>1, <4>2 DEF Types
      <4>5. status \notin Success /\ status < 500 => executed'[r] = executed[r]
        BY <2>1, <4>2 DEF Types
      <4> QED
        BY <2>1, <4>1, <4>3, <4>4, <4>5 DEF ExecInv, Types
    <3> QED
      BY <3>1, <3>2
  <2>4. ASSUME NEW q \in Requests, AnswerLost(q) PROVE ExecInv(r)'
    BY <2>1, <2>4, NoStatus DEF AnswerLost, Types, ExecInv, Success, NetError
  <2>5. CASE ~ \E q \in Requests : Send(q) \/ AttemptEnds(q)
    BY <2>1, <2>5, OnlyAttemptsExecute DEF ExecInv
  <2> QED
    BY <2>2, <2>3, <2>4, <2>5 DEF AttemptEnds
<1> QED
  BY <1>1, <1>2, TransportInvCorrect, PTL DEF Spec

\* A result with a status below 500, or a success, comes from that very answer.
LEMMA ResultFromAnswer ==
    ASSUME NEW status \in Statuses, NEW outcome \in Decoded(status)
    PROVE  /\ outcome = OK => status \in Success
           /\ outcome.kind \in {"api", "auth", "ratelimit"} =>
                outcome.status = status /\ status \notin Success
BY StatusesAssumption
   DEF Decoded, ErrorOf, Success, OK, Untyped, AuthError, RateLimitError,
       APIError, Outcome

\* A success was carried out, and a refusal means that an attempt was not
\* (transport/client.go:149-166).
THEOREM OutcomeIsHonestCorrect == Spec => []OutcomeIsHonest
<1>1. TransportInv /\ (\A r \in Requests : ExecInv(r)) => OutcomeIsHonest
  <2> SUFFICES ASSUME TransportInv, NEW r \in Requests, ExecInv(r), pc[r] = "done"
               PROVE  /\ result[r] = OK => executed[r] > 0
                      /\ /\ result[r].kind \in {"api", "auth", "ratelimit"}
                         /\ result[r].status < 500
                         => executed[r] < sends[r]
    BY DEF OutcomeIsHonest
  <2>1. OK.kind = "ok"
    BY DEF OK, Outcome
  <2>2. result[r].kind \in {"ok", "api", "auth", "ratelimit"}
        => last[r] \in Statuses /\ result[r] \in Decoded(last[r])
    BY DEF TransportInv, CallInv, ResultInv
  <2> QED
    BY <2>1, <2>2, ResultFromAnswer DEF ExecInv
<1> QED
  BY <1>1, TransportInvCorrect, ExecCorrect, PTL

-----------------------------------------------------------------------------
\* A retried outcome is not a final answer.
LEMMA RetriedIsNotFinal ==
    \A outcome : DefaultShouldRetry(outcome) => outcome \notin FinalStatuses
BY DEF DefaultShouldRetry, FinalStatuses, Success, NetError

\* sends and pc move together: only Send posts, and from the place "send".
LEMMA WhoSends ==
    ASSUME Types, [Next]_vars, NEW r \in Requests, sends'[r] # sends[r]
    PROVE  Send(r)
<1>1. ASSUME NEW q \in Requests, Run(q) \/ AttemptEnds(q) \/ Cancel(q), ~Send(q)
      PROVE  FALSE
  BY <1>1 DEF Run, AttemptEnds, Start, LimiterAdmits, LimiterRefuses,
       ReservationDue, ReservationCancelled, Answer, AnswerLost, DecideRetry,
       DecideFinal, BackoffEnds, BackoffCancelled, Decode, Cancel
<1>2. ~Refill /\ ~AllDone /\ ~UNCHANGED vars
  BY DEF Refill, AllDone, vars
<1>3. PICK q \in Requests : Send(q)
  BY <1>1, <1>2, Zenon DEF Next
<1>4. q = r
  BY <1>3 DEF Send, Types
<1> QED
  BY <1>3, <1>4

\* Nothing is sent again after a final answer (transport/client.go:112-125).
THEOREM FinalAnswerCorrect == Spec => FinalAnswerEndsSending
<1>1. TransportInv /\ [Next]_vars
      => [\A r \in Requests :
            sends'[r] > sends[r] => last[r] \notin FinalStatuses]_vars
  <2> SUFFICES ASSUME TransportInv, [Next]_vars, NEW r \in Requests,
                      sends'[r] > sends[r]
               PROVE  last[r] \notin FinalStatuses
    OBVIOUS
  <2>1. sends[r] \in Nat /\ Types
    BY DEF TransportInv, Types
  <2>2. sends'[r] # sends[r]
    BY <2>1
  <2>3. pc[r] = "send"
    BY <2>1, <2>2, WhoSends DEF Send
  <2>4. last[r] = 0 \/ DefaultShouldRetry(last[r])
    BY <2>3 DEF TransportInv, CallInv, OutcomeInv, Waiting
  <2>5. 0 \notin FinalStatuses
    BY DEF FinalStatuses, Success
  <2> QED
    BY <2>4, <2>5, RetriedIsNotFinal
<1> QED
  BY <1>1, TransportInvCorrect, PTL DEF Spec, FinalAnswerEndsSending

\* A call makes at most one call of hc.Do after its ctx is done, however the
\* selects of the limiter and of the backoff choose (ratelimit.go:24-30,
\* retry.go:83-88, transport/client.go:112-132).
THEOREM CancelledCorrect == Spec => []CancelledCallTriesOnce
<1>1. TransportInv => CancelledCallTriesOnce
  BY DEF TransportInv, CallInv, LateInv, CancelledCallTriesOnce
<1> QED
  BY <1>1, TransportInvCorrect, PTL

-----------------------------------------------------------------------------
(***************************************************************************)
(* Transport keeps the promise of Exchange.                                *)
(***************************************************************************)
Phase == [r \in Requests |-> PhaseOf(pc[r])]
Settled == {r \in Requests : last[r] \in FinalStatuses}
Ended == [r \in Requests |-> OutcomeOf(result[r])]

\* A step of one call as the caller of DoJSON sees it.
Opens(r) ==
    /\ Phase[r] = "idle" /\ Phase' = [Phase EXCEPT ![r] = "busy"]
    /\ UNCHANGED <<maxAttempts, sends, Settled, Ended>>
Posts(r) ==
    /\ Phase[r] = "busy" /\ r \notin Settled /\ sends[r] < maxAttempts
    /\ sends' = [sends EXCEPT ![r] = @ + 1]
    /\ UNCHANGED <<maxAttempts, Phase, Settled, Ended>>
Settles(r) ==
    /\ Phase[r] = "busy" /\ sends[r] > 0 /\ Settled' = Settled \cup {r}
    /\ UNCHANGED <<maxAttempts, Phase, sends, Ended>>
Ends(r) ==
    /\ Phase[r] = "busy" /\ Phase' = [Phase EXCEPT ![r] = "done"]
    /\ \E o \in {"ok", "error"} :
         (o = "ok" => r \in Settled) /\ Ended' = [Ended EXCEPT ![r] = o]
    /\ UNCHANGED <<maxAttempts, sends, Settled>>
Unseen == UNCHANGED <<maxAttempts, Phase, sends, Settled, Ended>>

\* A step inside DoJSON that neither posts nor answers.
LEMMA InsideIsUnseen ==
    ASSUME Types, NEW r \in Requests, NEW place \in Places \ {"idle", "done"},
           pc[r] \notin {"idle", "done"}, Goto(r, place),
           UNCHANGED <<maxAttempts, sends, result, last>>
    PROVE  Unseen
<1>1. Phase' = Phase
  BY DEF Types, Phase, PhaseOf, Goto
<1>2. Settled' = Settled /\ Ended' = Ended
  BY DEF Settled, Ended
<1> QED
  BY <1>1, <1>2 DEF Unseen

\* A call that returns an error, or what a final answer decodes to.
LEMMA ReturnEnds ==
    ASSUME Types, NEW r \in Requests, NEW outcome \in ResultTypes,
           pc[r] \notin {"idle", "done"}, Return(r, outcome),
           outcome.kind # "pending",
           outcome.kind = "ok" => last[r] \in FinalStatuses,
           UNCHANGED <<maxAttempts, sends, last>>
    PROVE  Ends(r)
<1>1. Phase[r] = "busy" /\ Phase' = [Phase EXCEPT ![r] = "done"]
  BY DEF Types, Phase, PhaseOf, Return, Goto
<1>2. Ended' = [Ended EXCEPT ![r] = OutcomeOf(outcome)]
  BY DEF Types, Ended, Return
<1>3. OutcomeOf(outcome) \in {"ok", "error"}
      /\ (OutcomeOf(outcome) = "ok" => r \in Settled)
  BY DEF OutcomeOf, Settled
<1>4. Settled' = Settled
  BY DEF Settled
<1> QED
  BY <1>1, <1>2, <1>3, <1>4 DEF Ends

\* An attempt that ends settles the call or goes unnoticed.
LEMMA AttemptSettles ==
    ASSUME Types, NEW r \in Requests,
           pc[r] \in {"send", "inflight"}, Goto(r, "decide"),
           last[r] \notin FinalStatuses,
           \A q \in Requests \ {r} : last'[q] = last[q],
           last'[r] \in FinalStatuses => sends[r] > 0,
           UNCHANGED <<maxAttempts, sends, result>>
    PROVE  Settles(r) \/ Unseen
<1>1. Phase[r] = "busy" /\ Phase' = Phase /\ Ended' = Ended
  BY DEF Types, Phase, PhaseOf, Goto, Ended
<1>2. CASE last'[r] \in FinalStatuses
  <2>1. Settled' = Settled \cup {r}
    BY <1>2 DEF Settled, FinalStatuses
  <2> QED
    BY <1>1, <1>2, <2>1 DEF Settles
<1>3. CASE last'[r] \notin FinalStatuses
  <2>1. Settled' = Settled
    BY <1>3 DEF Settled, FinalStatuses
  <2> QED
    BY <1>1, <2>1 DEF Unseen
<1> QED
  BY <1>2, <1>3

\* Every step of Transport is a step of its call as its caller sees it.
LEMMA StepIsSeen ==
    ASSUME TransportInv, [Next]_vars
    PROVE  \/ Unseen
           \/ \E r \in Requests : Opens(r) \/ Posts(r) \/ Settles(r) \/ Ends(r)
<1>t. Types
  BY Zenon DEF TransportInv
<1> USE <1>t
<1>0. \A r \in Requests :
        /\ CountInv(r) /\ OutcomeInv(r)
        /\ pc[r] \in {"send", "inflight"} => last[r] \notin FinalStatuses
  <2>1. 0 \notin FinalStatuses
    BY DEF FinalStatuses, Success
  <2> QED
    BY <2>1, RetriedIsNotFinal DEF TransportInv, CallInv, OutcomeInv, Waiting
<1>1. ASSUME NEW r \in Requests, Start(r) PROVE Opens(r)
  <2>1. pc[r] = "idle" /\ Goto(r, "limit")
        /\ UNCHANGED <<maxAttempts, sends, result, last>>
    BY <1>1 DEF Start, Types
  <2> QED
    BY <2>1 DEF Types, Opens, Phase, PhaseOf, Settled, Ended, Goto
<1>2. ASSUME NEW r \in Requests, LimiterAdmits(r) PROVE Unseen
  BY <1>2, InsideIsUnseen DEF LimiterAdmits, Places
<1>3. ASSUME NEW r \in Requests, LimiterRefuses(r) PROVE Ends(r)
  BY <1>3, ReturnEnds, OtherResults DEF LimiterRefuses
<1>4. ASSUME NEW r \in Requests, ReservationDue(r) PROVE Unseen
  BY <1>4, InsideIsUnseen DEF ReservationDue, Places
<1>5. ASSUME NEW r \in Requests, ReservationCancelled(r) PROVE Ends(r)
  BY <1>5, ReturnEnds, OtherResults DEF ReservationCancelled
<1>6. ASSUME NEW r \in Requests, Send(r) PROVE Posts(r) \/ Settles(r) \/ Unseen
  <2>1. CASE r \in cancelled
    <3>1. \A q \in Requests \ {r} : last'[q] = last[q]
      BY <1>6, <2>1 DEF Send, Types
    <3>2. last'[r] \notin FinalStatuses
      BY <1>6, <2>1 DEF Send, Types, NetError, FinalStatuses, Success
    <3>3. pc[r] = "send" /\ Goto(r, "decide")
          /\ UNCHANGED <<maxAttempts, sends, result>>
      BY <1>6, <2>1 DEF Send
    <3> QED
      BY <1>0, <3>1, <3>2, <3>3, AttemptSettles
  <2>2. CASE r \notin cancelled
    <3>1. pc[r] = "send" /\ Goto(r, "inflight") /\ sends' = [sends EXCEPT ![r] = @ + 1]
          /\ UNCHANGED <<maxAttempts, last, result>>
      BY <1>6, <2>2 DEF Send
    <3>2. sends[r] < maxAttempts
      BY <1>0, <3>1 DEF CountInv, Waiting, Types
    <3> QED
      BY <1>0, <3>1, <3>2
         DEF Types, Posts, Phase, PhaseOf, Settled, Ended, Goto
  <2> QED
    BY <2>1, <2>2
<1>7. ASSUME NEW r \in Requests, Answer(r) PROVE Settles(r) \/ Unseen
  <2>1. \A q \in Requests \ {r} : last'[q] = last[q]
    BY <1>7 DEF Answer, Types
  <2>2. sends[r] > 0
    BY <1>0, <1>7 DEF Answer, CountInv, Types
  <2>3. pc[r] = "inflight" /\ Goto(r, "decide")
        /\ UNCHANGED <<maxAttempts, sends, result>>
    BY <1>7, Zenon DEF Answer
  <2> QED
    BY <1>0, <2>1, <2>2, <2>3, AttemptSettles
<1>8. ASSUME NEW r \in Requests, AnswerLost(r) PROVE Settles(r) \/ Unseen
  <2>1. \A q \in Requests \ {r} : last'[q] = last[q]
    BY <1>8 DEF AnswerLost, Types
  <2>2. last'[r] \notin FinalStatuses
    BY <1>8 DEF AnswerLost, Types, NetError, FinalStatuses, Success
  <2>3. pc[r] = "inflight" /\ Goto(r, "decide")
        /\ UNCHANGED <<maxAttempts, sends, result>>
    BY <1>8, Zenon DEF AnswerLost
  <2> QED
    BY <1>0, <2>1, <2>2, <2>3, AttemptSettles
<1>9. ASSUME NEW r \in Requests, DecideRetry(r) PROVE Unseen
  BY <1>9, InsideIsUnseen DEF DecideRetry, Places
<1>10. ASSUME NEW r \in Requests, DecideFinal(r) PROVE Ends(r) \/ Unseen
  <2>1. CASE last[r] = NetError
    BY <1>10, <2>1, ReturnEnds, OtherResults DEF DecideFinal, LeaveLoop
  <2>2. CASE last[r] # NetError
    <3>1. Goto(r, "decode") /\ pc[r] = "decide"
          /\ UNCHANGED <<maxAttempts, sends, result, last>>
      BY <1>0, <1>10, <2>2 DEF DecideFinal, LeaveLoop, OutcomeInv
    <3> QED
      BY <3>1, InsideIsUnseen DEF Places
  <2> QED
    BY <2>1, <2>2
<1>11. ASSUME NEW r \in Requests, BackoffEnds(r) PROVE Unseen
  <2>1. pc[r] = "backoff" /\ attempt[r] + 1 < maxAttempts
    BY <1>0, <1>11 DEF BackoffEnds, OutcomeInv, ShouldRetry, Types
  <2>2. Goto(r, "limit") /\ UNCHANGED <<maxAttempts, sends, result, last>>
    BY <1>11, <2>1 DEF BackoffEnds, Types
  <2> QED
    BY <2>1, <2>2, InsideIsUnseen DEF Places
<1>12. ASSUME NEW r \in Requests, BackoffCancelled(r) PROVE Ends(r)
  BY <1>12, ReturnEnds, OtherResults DEF BackoffCancelled
<1>13. ASSUME NEW r \in Requests, Decode(r) PROVE Ends(r)
  <2>1. PICK outcome \in Decoded(last[r]) \cup {NetworkError} : Return(r, outcome)
    BY <1>13 DEF Decode
  <2>2. last[r] \in Statuses /\ pc[r] = "decode"
    BY <1>0, <1>13 DEF Decode, OutcomeInv
  <2>3. outcome \in ResultTypes
    BY <2>1, <2>2, DecodedTypes, OtherResults
  <2>4. outcome.kind # "pending"
        /\ (outcome.kind = "ok" => last[r] \in FinalStatuses)
    BY <2>1
       DEF Decoded, ErrorOf, FinalStatuses, OK, Untyped, AuthError, RateLimitError,
           APIError, NetworkError, Outcome
  <2> QED
    BY <1>13, <2>1, <2>2, <2>3, <2>4, ReturnEnds DEF Decode
<1>14. ASSUME NEW r \in Requests, Cancel(r) PROVE Unseen
  BY <1>14 DEF Cancel, codeVars, Unseen, Phase, Settled, Ended
<1>15. ASSUME Refill \/ AllDone \/ UNCHANGED vars PROVE Unseen
  BY <1>15 DEF Refill, AllDone, vars, codeVars, Unseen, Phase, Settled, Ended
<1> QED
  BY <1>1, <1>2, <1>3, <1>4, <1>5, <1>6, <1>7, <1>8, <1>9, <1>10, <1>11, <1>12,
     <1>13, <1>14, <1>15 DEF Next, Run, AttemptEnds

\* DoJSON posts at most maxAttempts times, never after a final answer, and
\* succeeds only with one (transport/client.go:89-166).
THEOREM ExchangeImplemented == Spec => ImplementsExchange
<1>1. TransportInv /\ Init => ExchangeOfCalls!ExchangeInit
  <2> SUFFICES ASSUME TransportInv, Init PROVE ExchangeOfCalls!ExchangeInit
    OBVIOUS
  <2>1. Settled = {}
    BY DEF Init, Settled, FinalStatuses, Success
  <2> QED
    BY <2>1
       DEF Init, TransportInv, Types, Settled, PhaseOf, OutcomeOf, Pending, Outcome,
           ExchangeOfCalls!ExchangeInit
<1>2. TransportInv /\ [Next]_vars
      => [ExchangeOfCalls!ExchangeNext]_(ExchangeOfCalls!exchangeVars)
  <2> SUFFICES ASSUME TransportInv, [Next]_vars
               PROVE  [ExchangeOfCalls!ExchangeNext]_(ExchangeOfCalls!exchangeVars)
    OBVIOUS
  <2>1. CASE Unseen
    BY <2>1 DEF Unseen, Phase, Settled, Ended, ExchangeOfCalls!exchangeVars
  <2>2. ASSUME NEW r \in Requests, Opens(r) \/ Posts(r) \/ Settles(r) \/ Ends(r)
        PROVE  ExchangeOfCalls!ExchangeNext
    <3>1. CASE Opens(r)
      BY <3>1 DEF Opens, Phase, Settled, Ended, ExchangeOfCalls!Open,
           ExchangeOfCalls!ExchangeNext
    <3>2. CASE Posts(r)
      BY <3>2 DEF Posts, Phase, Settled, Ended, ExchangeOfCalls!Post,
           ExchangeOfCalls!ExchangeNext
    <3>3. CASE Settles(r)
      BY <3>3 DEF Settles, Phase, Settled, Ended, ExchangeOfCalls!Settle,
           ExchangeOfCalls!ExchangeNext
    <3>4. CASE Ends(r)
      BY <3>4 DEF Ends, Phase, Settled, Ended, ExchangeOfCalls!Close,
           ExchangeOfCalls!ExchangeNext
    <3> QED
      BY <2>2, <3>1, <3>2, <3>3, <3>4
  <2> QED
    BY <2>1, <2>2, StepIsSeen
<1> QED
  BY <1>1, <1>2, TransportInvCorrect, PTL
     DEF Spec, ImplementsExchange, ExchangeOfCalls!ExchangeSpec

=============================================================================
