--------------------------- MODULE SetuClientProofs ---------------------------
(***************************************************************************)
(* Proofs about SetuClient: what is checked of the arguments of every      *)
(* operation, and what that means for the requests that are sent.          *)
(***************************************************************************)
EXTENDS SetuClient, TLAPS

-----------------------------------------------------------------------------
(***************************************************************************)
(* The checks of the operations.                                           *)
(***************************************************************************)

\* An operation checks all that the API needs.
ChecksAll(o) == NeededBy(o) \subseteq NamesOf(o)

\* A call none of whose checks fails has all of their arguments in order.
LEMMA PassesAll ==
    ASSUME NEW o, NEW g, Passes(o, g)
    PROVE  NamesOf(o) \subseteq g
BY DEF Passes, NamesOf

\* What some check looks at is among the names of an operation.
LEMMA Checked ==
    ASSUME NEW o, NEW i \in DOMAIN o.checks, NEW n \in o.checks[i]
    PROVE  n \in NamesOf(o)
BY DEF NamesOf

\* An operation that takes an id checks it before it goes into the URL.
LEMMA ByIDChecksAll ==
    ASSUME NEW name, NEW id
    PROVE  ChecksAll(MerchantByID(name, id)) /\ ChecksAll(KeyedByID(name, id))
<1> USE DEF Merchant, Keyed, Operation, ChecksAll, NeededBy, NamesOf
<1>1. ChecksAll(MerchantByID(name, id))
  BY DEF MerchantByID
<1>2. ChecksAll(KeyedByID(name, id))
  BY DEF KeyedByID
<1> QED
  BY <1>1, <1>2

\* The 29 operations of payments/upi/client.go check all the API needs.
LEMMA UPIChecksAll == \A o \in UPIOperations : ChecksAll(o)
<1>1. /\ ChecksAll(GetDQR)
      /\ ChecksAll(GetSQR) /\ ChecksAll(GetLastPayment)
      /\ ChecksAll(GetPaymentHistory) /\ ChecksAll(GetTPV)
      /\ ChecksAll(VerifyVPA) /\ ChecksAll(GetCollect)
      /\ ChecksAll(GetMandate) /\ ChecksAll(GetMandateOperation)
      /\ ChecksAll(GetPreDebitNotification) /\ ChecksAll(GetMandateExecution)
      /\ ChecksAll(GetRefund) /\ ChecksAll(GetDispute)
      /\ ChecksAll(AcceptDispute)
  BY ByIDChecksAll DEF GetDQR, GetSQR, GetLastPayment, GetPaymentHistory,
       GetTPV, VerifyVPA, GetCollect, GetMandate, GetMandateOperation,
       GetPreDebitNotification, GetMandateExecution, GetRefund, GetDispute,
       AcceptDispute
<1> USE DEF MerchantPost, Merchant, Bearer, Keyed, Operation, ChecksAll, NeededBy,
           NamesOf
<1>2. ChecksAll(CreateDQR)
  BY DEF CreateDQR
<1>3. ChecksAll(CreateSQR)
  BY DEF CreateSQR
<1>4. ChecksAll(CreateTPV)
  BY DEF CreateTPV
<1>5. ChecksAll(CreateCollect)
  BY DEF CreateCollect
<1>6. ChecksAll(CreateMandate)
  BY DEF CreateMandate, validateCreateMandate
<1>7. ChecksAll(UpdateMandate)
  BY DEF UpdateMandate
<1>8. ChecksAll(RevokeMandate)
  BY DEF RevokeMandate
<1>9. ChecksAll(PreDebitNotify)
  BY DEF PreDebitNotify
<1>10. ChecksAll(ExecuteMandate)
  BY DEF ExecuteMandate
<1>11. ChecksAll(CreateRefund)
  BY DEF CreateRefund
<1>12. ChecksAll(RejectDispute)
  BY DEF RejectDispute
<1>13. ChecksAll(CreateMerchant)
  BY DEF CreateMerchant
<1>14. ChecksAll(GetMerchant)
  BY DEF GetMerchant
<1>15. ChecksAll(CheckVPAAvailability)
  BY DEF CheckVPAAvailability
<1>16. ChecksAll(CreateVPA)
  BY DEF CreateVPA
<1> HIDE DEF ChecksAll
<1> QED
  BY <1>1, <1>2, <1>3, <1>4, <1>5, <1>6, <1>7, <1>8, <1>9, <1>10, <1>11,
       <1>12, <1>13, <1>14, <1>15, <1>16 DEF UPIOperations

\* So do the five of payments/bbps, payments/billpay and payments/whatsapp.
LEMMA BillChecksAll == \A o \in BillOperations : ChecksAll(o)
<1> USE DEF MerchantPost, Merchant, Bearer, Keyed, Operation, ChecksAll, NeededBy,
           NamesOf
<1>1. ChecksAll(GetTransaction)
  BY DEF GetTransaction
<1>2. ChecksAll(FetchBill)
  BY DEF FetchBill
<1>3. ChecksAll(PayBill)
  BY DEF PayBill
<1>4. ChecksAll(SendReminder)
  BY DEF SendReminder
<1>5. ChecksAll(GetReminderStatus)
  BY DEF GetReminderStatus
<1> HIDE DEF ChecksAll
<1> QED
  BY <1>1, <1>2, <1>3, <1>4, <1>5 DEF BillOperations

\* So do those of data/aa, data/esign and data/kyc.
LEMMA DataChecksAll == \A o \in DataOperations : ChecksAll(o)
<1>1. /\ ChecksAll(GetConsent)
      /\ ChecksAll(RevokeConsent) /\ ChecksAll(GetLastFetchStatus)
      /\ ChecksAll(ListDataSessions) /\ ChecksAll(GetDataSession)
      /\ ChecksAll(FetchFIData) /\ ChecksAll(ESignGet)
      /\ ChecksAll(ESignDownload) /\ ChecksAll(GetAsyncStatus)
      /\ ChecksAll(DigiLockerGetSession) /\ ChecksAll(EKYCGet)
  BY ByIDChecksAll DEF GetConsent, RevokeConsent, GetLastFetchStatus,
       ListDataSessions, GetDataSession, FetchFIData, ESignGet, ESignDownload,
       GetAsyncStatus, DigiLockerGetSession, EKYCGet
<1> USE DEF MerchantPost, Merchant, Bearer, Keyed, Operation, ChecksAll, NeededBy,
           NamesOf
<1>2. ChecksAll(CreateConsent)
  BY DEF CreateConsent, validateCreateConsent
<1>3. ChecksAll(CreateMultiConsent)
  BY DEF CreateMultiConsent
<1>4. ChecksAll(CreateDataSession)
  BY DEF CreateDataSession
<1>5. ChecksAll(ESignCreate)
  <2>1. 1 \in DOMAIN ESignCreate.checks /\ "req" \in ESignCreate.checks[1]
    BY DEF ESignCreate
  <2>2. "req" \in NamesOf(ESignCreate)
    BY <2>1, Checked
  <2> QED
    BY <2>2 DEF ESignCreate
<1>6. ChecksAll(VerifySync)
  BY DEF VerifySync, validateAccount
<1>7. ChecksAll(VerifyAsync)
  BY DEF VerifyAsync, validateAccount
<1>8. ChecksAll(DigiLockerCreateSession)
  BY DEF DigiLockerCreateSession
<1>9. ChecksAll(DigiLockerGetDocument)
  BY DEF DigiLockerGetDocument
<1>10. ChecksAll(EKYCCreate)
  BY DEF EKYCCreate
<1>11. ChecksAll(GSTVerify)
  BY DEF GSTVerify
<1>12. ChecksAll(NameMatch)
  <2>1. 1 \in DOMAIN NameMatch.checks /\ "req" \in NameMatch.checks[1]
    BY DEF NameMatch
  <2>2. "req" \in NamesOf(NameMatch)
    BY <2>1, Checked
  <2> QED
    BY <2>2 DEF NameMatch
<1>13. ChecksAll(PANVerify)
  BY DEF PANVerify
<1> HIDE DEF ChecksAll
<1> QED
  BY <1>1, <1>2, <1>3, <1>4, <1>5, <1>6, <1>7, <1>8, <1>9, <1>10, <1>11,
       <1>12, <1>13 DEF DataOperations

\* What reaches the API was checked, by every operation of every product.
LEMMA InOrderHasAll ==
    ASSUME NEW c \in Calls, op[c] \in Operations, InOrder(c)
    PROVE  NeededBy(op[c]) \subseteq given[c]
<1>1. NamesOf(op[c]) \subseteq given[c]
  BY PassesAll DEF InOrder
<1>2. NeededBy(op[c]) \subseteq NamesOf(op[c])
  BY UPIChecksAll, BillChecksAll, DataChecksAll DEF Operations, ChecksAll
<1> QED
  BY <1>1, <1>2

-----------------------------------------------------------------------------
(***************************************************************************)
(* The calls.                                                              *)
(***************************************************************************)
TokenTypes ==
    /\ asking \subseteq Calls /\ minted \in 0..MaxMinted
    /\ newest \in 0..minted /\ got \in [Calls -> 0..minted]

ExchangeTypes ==
    /\ maxAttempts \in Nat \ {0}
    /\ phase \in [Calls -> {"idle", "busy", "done"}]
    /\ sends \in [Calls -> 0..maxAttempts] /\ DOMAIN outcome = Calls

CallTypes ==
    /\ stage \in [Calls -> Stages] /\ op \in [Calls -> Operations]
    /\ \A c \in Calls : given[c] \subseteq NamesOf(op[c])
    /\ DOMAIN given = Calls
    /\ result \in [Calls -> Results] /\ asked \subseteq Calls

\* A call has asked for a token or opened its request only when its arguments
\* are in order, and opened it only when it has the token it needs.
CallInv(c) ==
    /\ stage[c] \in {"idle", "validate"} => c \notin asked
    /\ phase[c] # "idle" => stage[c] \in {"exchange", "done"}
    /\ (c \in asked \/ phase[c] # "idle" \/ stage[c] \in {"token", "build", "exchange"})
         => InOrder(c)
    /\ (stage[c] = "build" \/ phase[c] # "idle") /\ NeedsToken(op[c]) => got[c] # 0
    /\ phase[c] = "idle" => sends[c] = 0
    /\ stage[c] # "idle" => Accepts(cfg)

ClientInv ==
    TokenTypes /\ ExchangeTypes /\ CallTypes /\ \A c \in Calls : CallInv(c)

\* What a step of one call leaves to the others.
OthersStay(c) ==
    /\ cfg' = cfg
    /\ \A d \in Calls \ {c} :
         /\ stage'[d] = stage[d] /\ op'[d] = op[d] /\ given'[d] = given[d]
         /\ phase'[d] = phase[d] /\ sends'[d] = sends[d] /\ got'[d] = got[d]
         /\ (d \in asked' <=> d \in asked)

\* What a call is known to be in order by stays so when another one moves.
LEMMA OthersKeepInv ==
    ASSUME NEW c \in Calls, OthersStay(c), NEW d \in Calls \ {c}, CallInv(d)
    PROVE  CallInv(d)'
BY DEF OthersStay, CallInv, InOrder

\* A token that is granted is one that was minted.
LEMMA GrantGives ==
    ASSUME TokenTypes, NEW c \in Calls, Grant(c) \/ GrantAtOnce(c)
    PROVE  TokenTypes' /\ got'[c] # 0 /\ \A d \in Calls \ {c} : got'[d] = got[d]
<1>1. PICK id \in 1..minted : HandOut(c, id)
  BY DEF Grant, GrantAtOnce
<1>2. asking' \subseteq Calls /\ minted' = minted
  BY DEF Grant, GrantAtOnce, TokenTypes
<1>3. got' = [got EXCEPT ![c] = id] /\ newest' \in {newest, id}
  BY <1>1 DEF HandOut
<1>4. id \in 0..minted /\ id # 0
  BY <1>1 DEF TokenTypes
<1> QED
  BY <1>2, <1>3, <1>4 DEF TokenTypes

\* The other steps of the token source that concern one call.
LEMMA AskOrDeny ==
    ASSUME TokenTypes, NEW c \in Calls, Ask(c) \/ Deny(c)
    PROVE  TokenTypes' /\ \A d \in Calls \ {c} : got'[d] = got[d]
<1>1. got' = [got EXCEPT ![c] = 0] /\ UNCHANGED <<minted, newest>>
  BY DEF Ask, Deny
<1>2. asking' \subseteq Calls
  BY DEF Ask, Deny, TokenTypes
<1>3. minted \in Nat
  BY MintedAssumption DEF TokenTypes
<1> QED
  BY <1>1, <1>2, <1>3 DEF TokenTypes

\* The inductive invariant: a call comes to its request only through its checks
\* and its token (upi/client.go:158-171, setu.go:159-237).
THEOREM ClientInvCorrect == Spec => []ClientInv
<1>1. Init => ClientInv
  <2> SUFFICES ASSUME Init PROVE ClientInv
    OBVIOUS
  <2>1. ExchangeTypes /\ \A c \in Calls : phase[c] = "idle" /\ sends[c] = 0
    <3>1. maxAttempts \in Nat \ {0} /\ phase = [c \in Calls |-> "idle"]
          /\ sends = [c \in Calls |-> 0] /\ DOMAIN outcome = Calls
      BY CallsAssumption DEF Init, ExchangeInit
    <3> QED
      BY <3>1 DEF ExchangeTypes
  <2>2. TokenTypes
    BY CallsAssumption, MintedAssumption DEF Init, TokenInit, TokenTypes
  <2>3. CallTypes
    <3>1. \A c \in Calls : op[c] \in Operations
      <4> SUFFICES ASSUME NEW c \in Calls PROVE op[c] \in Operations
        OBVIOUS
      <4>1. OperationsOf[c] \in (SUBSET Operations) \ {{}}
        BY OperationsAssumption
      <4>2. op[c] = CHOOSE o \in OperationsOf[c] : TRUE
        BY DEF Init
      <4> QED
        BY <4>1, <4>2
    <3>2. op \in [Calls -> Operations]
      BY <3>1 DEF Init
    <3>3. stage \in [Calls -> Stages] /\ result \in [Calls -> Results]
      BY DEF Init, Stages, Results
    <3> QED
      BY <3>2, <3>3 DEF Init, CallTypes
  <2> QED
    BY <2>1, <2>2, <2>3 DEF Init, ClientInv, CallInv
<1>2. ClientInv /\ [Next]_vars => ClientInv'
  <2> SUFFICES ASSUME ClientInv, [Next]_vars PROVE ClientInv'
    OBVIOUS
  <2> USE DEF Goto, Return
  <2>t. TokenTypes /\ ExchangeTypes /\ CallTypes /\ \A c \in Calls : CallInv(c)
    BY Zenon DEF ClientInv
  <2>1. ASSUME NEW c \in Calls, Enter(c) PROVE ClientInv'
    <3>1. PICK o \in OperationsOf[c] : \E g \in ArgumentsOf(o) :
            op' = [op EXCEPT ![c] = o] /\ given' = [given EXCEPT ![c] = g]
      BY <2>1, Zenon DEF Enter
    <3>2. PICK g \in ArgumentsOf(o) :
            op' = [op EXCEPT ![c] = o] /\ given' = [given EXCEPT ![c] = g]
      BY <3>1
    <3>3. o \in Operations /\ g \subseteq NamesOf(o)
      BY OperationsAssumption DEF ArgumentsOf
    <3>4. stage[c] = "idle" /\ stage' = [stage EXCEPT ![c] = "validate"]
          /\ Accepts(cfg) /\ UNCHANGED <<cfg, result, asked, tokenVars, exchangeVars>>
      BY <2>1, Zenon DEF Enter
    <3>5. UNCHANGED <<cfg, result, asked, asking, minted, newest, got, maxAttempts,
                      phase, sends, outcome>>
      BY <3>4 DEF tokenVars, exchangeVars
    <3>6. CallTypes'
      BY <2>t, <3>2, <3>3, <3>4, <3>5 DEF CallTypes, Stages
    <3>7. OthersStay(c) /\ CallInv(c)'
      BY <2>t, <3>2, <3>4, <3>5 DEF OthersStay, CallTypes, CallInv
    <3> QED
      BY <2>t, <3>5, <3>6, <3>7, OthersKeepInv DEF ClientInv, TokenTypes, ExchangeTypes
  <2>2. ASSUME NEW c \in Calls,
               Panic(c) \/ Refuse(c) \/ SkipToken(c) \/ BuildFails(c)
        PROVE  ClientInv'
    <3>1. UNCHANGED <<cfg, op, given, asked, asking, minted, newest, got,
                      maxAttempts, phase, sends, outcome>>
      BY <2>2 DEF Panic, Refuse, SkipToken, BuildFails, tokenVars, exchangeVars
    <3>2. PICK place \in Stages : stage' = [stage EXCEPT ![c] = place]
      BY <2>2 DEF Panic, Refuse, SkipToken, BuildFails, Stages
    <3>3. result' \in [Calls -> Results]
      BY <2>t, <2>2 DEF Panic, Refuse, SkipToken, BuildFails, CallTypes, Results
    <3>4. OthersStay(c)
      BY <2>t, <3>1, <3>2 DEF OthersStay, CallTypes
    <3>5. CallInv(c)'
      <4>1. CallInv(c)
        BY <2>t
      <4>2. stage[c] \in {"validate", "build"} /\ stage'[c] = place
        BY <2>t, <2>2, <3>2 DEF Panic, Refuse, SkipToken, BuildFails, CallTypes
      <4>3. place \notin {"idle", "validate", "token", "exchange"}
            /\ (place = "build" => InOrder(c) /\ ~NeedsToken(op[c]))
        BY <2>t, <2>2, <3>2, <4>2 DEF Panic, Refuse, SkipToken, BuildFails, CallTypes
      <4> QED
        BY <3>1, <4>1, <4>2, <4>3 DEF CallInv, InOrder
    <3>6. CallTypes'
      BY <2>t, <3>1, <3>2, <3>3 DEF CallTypes
    <3> QED
      BY <2>t, <3>1, <3>4, <3>5, <3>6, OthersKeepInv
         DEF ClientInv, TokenTypes, ExchangeTypes
  <2>3. ASSUME NEW c \in Calls, AskForToken(c) PROVE ClientInv'
    <3>1. stage[c] = "validate" /\ InOrder(c) /\ asked' = asked \cup {c}
          /\ UNCHANGED <<cfg, op, given, result, exchangeVars>>
          /\ \/ Ask(c) /\ stage' = [stage EXCEPT ![c] = "token"]
             \/ GrantAtOnce(c) /\ stage' = [stage EXCEPT ![c] = "build"]
      BY <2>3, Zenon DEF AskForToken, Goto
    <3>2. UNCHANGED <<maxAttempts, phase, sends, outcome>>
      BY <3>1 DEF exchangeVars
    <3>3. TokenTypes' /\ (GrantAtOnce(c) => got'[c] # 0)
          /\ \A d \in Calls \ {c} : got'[d] = got[d]
      BY <2>t, <3>1, GrantGives, AskOrDeny
    <3>4. CallTypes' /\ OthersStay(c)
      BY <2>t, <3>1, <3>2, <3>3 DEF CallTypes, OthersStay, Stages
    <3>5. CallInv(c)'
      BY <2>t, <3>1, <3>2, <3>3 DEF CallInv, CallTypes, InOrder
    <3> QED
      BY <2>t, <3>2, <3>3, <3>4, <3>5, OthersKeepInv DEF ClientInv, ExchangeTypes
  <2>4. ASSUME NEW c \in Calls, TokenGranted(c) PROVE ClientInv'
    <3>1. stage[c] = "token" /\ Grant(c) /\ stage' = [stage EXCEPT ![c] = "build"]
          /\ UNCHANGED <<cfg, op, given, result, asked, exchangeVars>>
      BY <2>4, Zenon DEF TokenGranted, Goto
    <3>2. UNCHANGED <<maxAttempts, phase, sends, outcome>>
      BY <3>1 DEF exchangeVars
    <3>3. TokenTypes' /\ got'[c] # 0 /\ \A d \in Calls \ {c} : got'[d] = got[d]
      BY <2>t, <3>1, GrantGives
    <3>4. CallTypes' /\ OthersStay(c)
      BY <2>t, <3>1, <3>2, <3>3 DEF CallTypes, OthersStay, Stages
    <3>5. CallInv(c)'
      BY <2>t, <3>1, <3>2, <3>3 DEF CallInv, CallTypes, InOrder
    <3> QED
      BY <2>t, <3>2, <3>3, <3>4, <3>5, OthersKeepInv DEF ClientInv, ExchangeTypes
  <2>5. ASSUME NEW c \in Calls, TokenDenied(c) PROVE ClientInv'
    <3>1. stage[c] = "token" /\ Deny(c) /\ stage' = [stage EXCEPT ![c] = "done"]
          /\ result' = [result EXCEPT ![c] = "token"]
          /\ UNCHANGED <<cfg, op, given, asked, exchangeVars>>
      BY <2>5, Zenon DEF TokenDenied, Return, Goto
    <3>2. UNCHANGED <<maxAttempts, phase, sends, outcome>>
      BY <3>1 DEF exchangeVars
    <3>3. TokenTypes' /\ \A d \in Calls \ {c} : got'[d] = got[d]
      BY <2>t, <3>1, AskOrDeny
    <3>4. CallTypes' /\ OthersStay(c)
      BY <2>t, <3>1, <3>2, <3>3 DEF CallTypes, OthersStay, Stages, Results
    <3>5. CallInv(c)'
      BY <2>t, <3>1, <3>2 DEF CallInv, CallTypes, InOrder
    <3> QED
      BY <2>t, <3>2, <3>3, <3>4, <3>5, OthersKeepInv DEF ClientInv, ExchangeTypes
  <2>6. ASSUME NEW c \in Calls, Build(c) PROVE ClientInv'
    <3>1. stage[c] = "build" /\ stage' = [stage EXCEPT ![c] = "exchange"]
          /\ phase' = [phase EXCEPT ![c] = "busy"]
          /\ UNCHANGED <<cfg, op, given, result, asked, asking, minted, newest, got,
                         maxAttempts, sends, outcome>>
      BY <2>6 DEF Build, Open, tokenVars
    <3>2. CallTypes' /\ ExchangeTypes' /\ OthersStay(c)
      BY <2>t, <3>1 DEF CallTypes, ExchangeTypes, OthersStay, Stages
    <3>3. CallInv(c)'
      BY <2>t, <3>1 DEF CallInv, CallTypes, InOrder
    <3> QED
      BY <2>t, <3>1, <3>2, <3>3, OthersKeepInv DEF ClientInv, TokenTypes
  <2>7. ASSUME NEW c \in Calls, Exchanging(c) PROVE ClientInv'
    <3>1. UNCHANGED <<cfg, stage, op, given, result, asked, asking, minted, newest,
                      got, maxAttempts, phase, outcome>>
          /\ phase[c] = "busy"
      BY <2>7 DEF Exchanging, Post, Settle, callVars, tokenVars
    <3>2. sends' = sends \/ (sends' = [sends EXCEPT ![c] = @ + 1] /\ sends[c] < maxAttempts)
      BY <2>7 DEF Exchanging, Post, Settle
    <3>3. sends' \in [Calls -> 0..maxAttempts]
      <4>1. sends[c] < maxAttempts => sends[c] + 1 \in 0..maxAttempts
        BY <2>t DEF ExchangeTypes
      <4> QED
        BY <2>t, <3>2, <4>1 DEF ExchangeTypes
    <3>4. OthersStay(c)
      BY <2>t, <3>1, <3>2 DEF OthersStay, ExchangeTypes
    <3>5. CallInv(c)'
      BY <2>t, <3>1 DEF CallInv, InOrder
    <3>6. CallTypes' /\ ExchangeTypes' /\ TokenTypes'
      BY <2>t, <3>1, <3>3 DEF CallTypes, ExchangeTypes, TokenTypes
    <3> QED
      BY <2>t, <3>4, <3>5, <3>6, OthersKeepInv DEF ClientInv
  <2>8. ASSUME NEW c \in Calls, Finish(c) PROVE ClientInv'
    <3>1. stage[c] = "exchange" /\ stage' = [stage EXCEPT ![c] = "done"]
          /\ phase' = [phase EXCEPT ![c] = "done"] /\ phase[c] = "busy"
          /\ result' = [result EXCEPT ![c] = outcome'[c]]
          /\ UNCHANGED <<cfg, op, given, asked, asking, minted, newest, got,
                         maxAttempts, sends>>
      BY <2>8 DEF Finish, Close, tokenVars
    <3>2. result' \in [Calls -> Results]
      <4>1. PICK r \in {"ok", "error"} : outcome' = [outcome EXCEPT ![c] = r]
        BY <2>8 DEF Finish, Close
      <4>2. outcome'[c] = r
        BY <2>t, <4>1 DEF ExchangeTypes
      <4> QED
        BY <2>t, <3>1, <4>2 DEF CallTypes, Results
    <3>3. DOMAIN outcome' = Calls
      BY <2>t, <2>8 DEF Finish, Close, ExchangeTypes
    <3>4. CallTypes' /\ ExchangeTypes' /\ OthersStay(c)
      BY <2>t, <3>1, <3>2, <3>3 DEF CallTypes, ExchangeTypes, OthersStay, Stages
    <3>5. CallInv(c)'
      BY <2>t, <3>1 DEF CallInv, CallTypes, ExchangeTypes, InOrder
    <3> QED
      BY <2>t, <3>1, <3>4, <3>5, OthersKeepInv DEF ClientInv, TokenTypes
  <2>9. ASSUME Login PROVE ClientInv'
    <3>1. minted < MaxMinted /\ minted' = minted + 1
          /\ UNCHANGED <<cfg, stage, op, given, result, asked, asking, newest, got,
                         maxAttempts, phase, sends, outcome>>
      BY <2>9 DEF Login, Mint, callVars, exchangeVars
    <3>2. TokenTypes'
      BY <2>t, <3>1, MintedAssumption DEF TokenTypes
    <3> QED
      BY <2>t, <3>1, <3>2 DEF ClientInv, CallTypes, ExchangeTypes, CallInv, InOrder
  <2>10. CASE AllDone \/ UNCHANGED vars
    <3>1. UNCHANGED <<cfg, stage, op, given, result, asked, asking, minted, newest,
                      got, maxAttempts, phase, sends, outcome>>
      BY <2>10 DEF AllDone, vars, callVars, tokenVars, exchangeVars
    <3> QED
      BY <2>t, <3>1 DEF ClientInv, CallTypes, ExchangeTypes, TokenTypes, CallInv,
                        InOrder
  <2> QED
    BY <2>1, <2>2, <2>3, <2>4, <2>5, <2>6, <2>7, <2>8, <2>9, <2>10, Zenon
       DEF Next, Run, TokenAnswers
<1> QED
  BY <1>1, <1>2, PTL DEF Spec

\* The types; in particular no request is posted more often than maxAttempts.
THEOREM TypeCorrect == Spec => []TypeOK
<1>1. ClientInv => TypeOK
  BY DEF ClientInv, CallTypes, TokenTypes, ExchangeTypes, TypeOK
<1> QED
  BY <1>1, ClientInvCorrect, PTL

\* A refused call has no effect, for any operation and any number of calls.
THEOREM RefusedCorrect == Spec => []RefusedCallsAreSilent
<1>1. ClientInv => RefusedCallsAreSilent
  BY DEF ClientInv, CallInv, RefusedCallsAreSilent
<1> QED
  BY <1>1, ClientInvCorrect, PTL

\* Whatever is sent is complete and carries the token it needs.
THEOREM SentCorrect == Spec => []SentIsComplete
<1>1. ClientInv => SentIsComplete
  <2> SUFFICES ASSUME ClientInv, NEW c \in Calls, sends[c] > 0
               PROVE  /\ NeededBy(op[c]) \subseteq given[c]
                      /\ op[c].auth # "keys" => got[c] # 0
    BY DEF SentIsComplete
  <2>1. CallInv(c) /\ op[c] \in Operations /\ sends[c] # 0
    BY DEF ClientInv, CallTypes
  <2>2. phase[c] # "idle" /\ InOrder(c)
    BY <2>1 DEF CallInv
  <2> QED
    BY <2>1, <2>2, InOrderHasAll DEF CallInv, NeedsToken
<1> QED
  BY <1>1, ClientInvCorrect, PTL

-----------------------------------------------------------------------------
(***************************************************************************)
(* What a call ends with.                                                  *)
(***************************************************************************)
\* A call that ended without DoJSON never opened its request, and one that
\* succeeded was posted and answered.
EndInv(c) ==
    /\ result[c] # "none" => stage[c] = "done"
    /\ c \in settled => sends[c] > 0
    /\ result[c] = "ok" => c \in settled
    /\ result[c] \in {"validation", "token", "build"} \/ stage[c] = "panicked"
         => phase[c] = "idle"

\* A step of another call changes nothing of this one.
EndKept(c) ==
    /\ result'[c] = result[c] /\ stage'[c] = stage[c] /\ phase'[c] = phase[c]
    /\ sends'[c] = sends[c] /\ (c \in settled' <=> c \in settled)

LEMMA EndKeptKeeps == ASSUME NEW c, EndInv(c), EndKept(c) PROVE EndInv(c)'
BY DEF EndInv, EndKept

\* Each result comes from the place where it says the call ended
\* (upi/client.go:158-171, transport/client.go:143-166).
THEOREM EndCorrect == Spec => [](\A c \in Calls : EndInv(c))
<1> DEFINE Inv == \A c \in Calls : EndInv(c)
<1>1. Init => Inv
  BY CallsAssumption DEF Init, ExchangeInit, EndInv
<1>2. ClientInv /\ Inv /\ [Next]_vars => Inv'
  <2> SUFFICES ASSUME ClientInv, Inv, [Next]_vars, NEW d \in Calls
               PROVE  EndInv(d)'
    OBVIOUS
  <2> HIDE DEF Inv
  <2> USE DEF Goto, Return
  <2>t. CallTypes /\ ExchangeTypes /\ CallInv(d) /\ EndInv(d)
    BY Zenon DEF ClientInv, Inv
  <2>1. ASSUME NEW c \in Calls, Enter(c) \/ AskForToken(c) \/ SkipToken(c)
                                \/ TokenGranted(c)
        PROVE  EndInv(d)'
    <3>1. PICK place \in {"validate", "token", "build"} :
            stage' = [stage EXCEPT ![c] = place]
      BY <2>1 DEF Enter, AskForToken, SkipToken, TokenGranted
    <3>2. stage[c] \in {"idle", "validate", "token"}
      BY <2>1 DEF Enter, AskForToken, SkipToken, TokenGranted
    <3>3. UNCHANGED <<result, phase, sends, settled>>
      BY <2>1 DEF Enter, AskForToken, SkipToken, TokenGranted, exchangeVars
    <3> QED
      BY <2>t, <3>1, <3>2, <3>3 DEF EndInv, CallTypes
  <2>2. ASSUME NEW c \in Calls,
               Panic(c) \/ Refuse(c) \/ TokenDenied(c) \/ BuildFails(c)
        PROVE  EndInv(d)'
    <3>1. \/ stage' = [stage EXCEPT ![c] = "panicked"] /\ result' = result
          \/ /\ stage' = [stage EXCEPT ![c] = "done"]
             /\ \E r \in {"validation", "token", "build"} :
                  result' = [result EXCEPT ![c] = r]
      BY <2>2 DEF Panic, Refuse, TokenDenied, BuildFails
    <3>2. stage[c] \in {"validate", "token", "build"}
      BY <2>2 DEF Panic, Refuse, TokenDenied, BuildFails
    <3>3. UNCHANGED <<phase, sends, settled>>
      BY <2>2 DEF Panic, Refuse, TokenDenied, BuildFails, exchangeVars
    <3>5. CASE d = c
      <4>1. phase[d] = "idle"
        BY <2>t, <3>2, <3>5 DEF CallInv, ExchangeTypes
      <4>2. result[d] = "none"
        BY <2>t, <3>2, <3>5 DEF EndInv
      <4>3. \/ stage'[d] = "panicked" /\ result'[d] = "none"
            \/ stage'[d] = "done" /\ result'[d] # "ok"
        BY <2>t, <3>1, <3>5, <4>2 DEF CallTypes
      <4> QED
        BY <2>t, <3>3, <4>1, <4>2, <4>3 DEF EndInv
    <3>6. CASE d # c
      <4>1. EndKept(d)
        BY <2>t, <3>1, <3>3, <3>6 DEF EndKept, CallTypes
      <4> QED
        BY <2>t, <4>1, EndKeptKeeps
    <3> QED
      BY <3>5, <3>6
  <2>3. ASSUME NEW c \in Calls, Build(c) PROVE EndInv(d)'
    <3>1. stage[c] = "build" /\ stage' = [stage EXCEPT ![c] = "exchange"]
          /\ phase' = [phase EXCEPT ![c] = "busy"]
          /\ UNCHANGED <<result, sends, settled>>
      BY <2>3 DEF Build, Open
    <3> QED
      BY <2>t, <3>1 DEF EndInv, CallTypes, ExchangeTypes
  <2>4. ASSUME NEW c \in Calls, Exchanging(c) PROVE EndInv(d)'
    <3>1. UNCHANGED <<stage, result, phase>>
      BY <2>4 DEF Exchanging, Post, Settle, callVars
    <3>2. CASE Post(c)
      BY <2>t, <3>1, <3>2 DEF Post, EndInv, ExchangeTypes
    <3>3. CASE Settle(c)
      BY <2>t, <3>1, <3>3 DEF Settle, EndInv
    <3> QED
      BY <2>4, <3>2, <3>3 DEF Exchanging
  <2>5. ASSUME NEW c \in Calls, Finish(c) PROVE EndInv(d)'
    <3>1. PICK o \in {"ok", "error"} :
            (o = "ok" => c \in settled) /\ outcome' = [outcome EXCEPT ![c] = o]
      BY <2>5 DEF Finish, Close
    <3>2. outcome'[c] = o
      BY <2>t, <3>1 DEF ExchangeTypes
    <3>3. stage[c] = "exchange" /\ stage' = [stage EXCEPT ![c] = "done"]
          /\ phase' = [phase EXCEPT ![c] = "done"]
          /\ result' = [result EXCEPT ![c] = o]
          /\ UNCHANGED <<sends, settled>>
      BY <2>5, <3>2 DEF Finish, Close
    <3> QED
      BY <2>t, <3>1, <3>3 DEF EndInv, CallTypes, ExchangeTypes
  <2>6. CASE Login \/ AllDone \/ UNCHANGED vars
    <3>1. UNCHANGED <<stage, result, phase, sends, settled>>
      BY <2>6 DEF Login, AllDone, vars, callVars, exchangeVars
    <3> QED
      BY <2>t, <3>1 DEF EndInv
  <2> QED
    BY <2>1, <2>2, <2>3, <2>4, <2>5, <2>6, Zenon DEF Next, Run, TokenAnswers
<1> QED
  BY <1>1, <1>2, ClientInvCorrect, PTL DEF Spec

\* From what a call returns its program can tell whether anything was sent.
THEOREM ResultCorrect == Spec => []ResultTellsWhatWasSent
<1>1. ClientInv /\ (\A c \in Calls : EndInv(c)) => ResultTellsWhatWasSent
  BY DEF ClientInv, CallInv, EndInv, ResultTellsWhatWasSent
<1> QED
  BY <1>1, ClientInvCorrect, EndCorrect, PTL

-----------------------------------------------------------------------------
(***************************************************************************)
(* The client keeps to the two promises it is built on.                    *)
(***************************************************************************)
\* The calls use the token source as TokenManager implements it
\* (setu.go:203, upi/client.go:1110-1136).
THEOREM TokensKept == Spec => TokenSpec
<1>1. Init => TokenInit
  BY DEF Init
<1>2. [Next]_vars => [TokenNext]_tokenVars
  <2> SUFFICES ASSUME [Next]_vars PROVE [TokenNext]_tokenVars
    OBVIOUS
  <2>1. ASSUME NEW c \in Calls, Enter(c) \/ Panic(c) \/ Refuse(c) \/ SkipToken(c)
                                \/ BuildFails(c) \/ Build(c) \/ Finish(c)
        PROVE  UNCHANGED tokenVars
    BY <2>1, Zenon DEF Enter, Panic, Refuse, SkipToken, BuildFails, Build, Finish
  <2>2. ASSUME NEW c \in Calls, AskForToken(c) PROVE TokenNext
    BY <2>2, CallsAssumption, Zenon DEF AskForToken, TokenNext
  <2>3. ASSUME NEW c \in Calls, TokenAnswers(c) PROVE TokenNext
    BY <2>3, CallsAssumption, Zenon DEF TokenAnswers, TokenGranted, TokenDenied,
         TokenNext
  <2>4. ASSUME NEW c \in Calls, Exchanging(c) PROVE UNCHANGED tokenVars
    BY <2>4, Zenon DEF Exchanging
  <2>5. ASSUME Login PROVE TokenNext
    BY <2>5, Zenon DEF Login, TokenNext
  <2>6. CASE AllDone \/ UNCHANGED vars
    BY <2>6 DEF AllDone, vars
  <2> QED
    BY <2>1, <2>2, <2>3, <2>4, <2>5, <2>6, Zenon DEF Next, Run
<1> QED
  BY <1>1, <1>2, PTL DEF Spec, TokenSpec

\* They use DoJSON as Transport implements it (transport/client.go:143-166).
THEOREM ExchangeKept == Spec => ExchangeSpec
<1>1. Init => ExchangeInit
  BY DEF Init
<1>2. [Next]_vars => [ExchangeNext]_exchangeVars
  <2> SUFFICES ASSUME [Next]_vars PROVE [ExchangeNext]_exchangeVars
    OBVIOUS
  <2>1. ASSUME NEW c \in Calls, Enter(c) \/ Panic(c) \/ Refuse(c) \/ SkipToken(c)
                                \/ BuildFails(c) \/ AskForToken(c) \/ TokenAnswers(c)
        PROVE  UNCHANGED exchangeVars
    BY <2>1, Zenon DEF Enter, Panic, Refuse, SkipToken, BuildFails, AskForToken,
         TokenAnswers, TokenGranted, TokenDenied
  <2>2. ASSUME NEW c \in Calls, Build(c) \/ Exchanging(c) \/ Finish(c)
        PROVE  ExchangeNext
    BY <2>2, CallsAssumption, Zenon DEF Build, Exchanging, Finish, ExchangeNext
  <2>3. CASE Login \/ AllDone \/ UNCHANGED vars
    BY <2>3 DEF Login, AllDone, vars
  <2> QED
    BY <2>1, <2>2, <2>3, Zenon DEF Next, Run
<1> QED
  BY <1>1, <1>2, PTL DEF Spec, ExchangeSpec

=============================================================================
