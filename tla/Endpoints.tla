------------------------------ MODULE Endpoints ------------------------------
(***************************************************************************)
(* The operations of the product clients, payments/* and data/*, as far as *)
(* they differ from one another: how a call is authorised, what it checks  *)
(* before it does anything, in which order, and what goes into the URL.    *)
(*                                                                         *)
(* A check is the set of argument names that must all be in order for it   *)
(* to pass; "req" stands for the request pointer not being nil.  body says *)
(* what a nil request turns into: none (the operation takes no request),   *)
(* plain, open (with a map of any values, a float or a time, which may     *)
(* fail to marshal), or default (nil is replaced by an empty request).     *)
(***************************************************************************)
EXTENDS Integers, Sequences

Operation(name, auth, body, checks, inPath) ==
    [name |-> name, auth |-> auth, body |-> body, checks |-> checks,
     inPath |-> inPath, guarded |-> TRUE]

\* authReq: a bearer token and the merchantId header.
Merchant(name, body, checks, inPath) ==
    Operation(name, "merchant", body, <<{"merchantID"}>> \o checks, inPath)
MerchantByID(name, id) == Merchant(name, "none", <<{id}>>, {id})
MerchantPost(name, body, checks) == Merchant(name, body, checks, {})
\* bearerReq: a bearer token alone.
Bearer(name, body, checks, inPath) == Operation(name, "bearer", body, checks, inPath)
\* The headers x-client-id, x-client-secret and x-product-instance-id.
Keyed(name, body, checks, inPath) == Operation(name, "keys", body, checks, inPath)
KeyedByID(name, id) == Keyed(name, "none", <<{id}>>, {id})

-----------------------------------------------------------------------------
\* payments/upi

CreateDQR == MerchantPost("CreateDQR", "open", <<{"req"}, {"merchantVpa"}>>)
\* GetDQR without its second check (a mutant).
GetDQRUnchecked == Merchant("GetDQR", "none", <<>>, {"dqrID"})
GetDQR == MerchantByID("GetDQR", "dqrID")
CreateSQR == MerchantPost("CreateSQR", "open", <<{"req", "merchantVpa"}>>)
GetSQR == MerchantByID("GetSQR", "sqrID")
GetLastPayment == MerchantByID("GetLastPayment", "productInstanceID")
GetPaymentHistory == MerchantByID("GetPaymentHistory", "productInstanceID")
CreateTPV ==
    MerchantPost("CreateTPV", "open",
        <<{"req"}, {"merchantVpa"}, {"ifsc"}, {"accountNumber"}>>)
GetTPV == MerchantByID("GetTPV", "tpvID")
VerifyVPA == MerchantByID("VerifyVPA", "vpa")
CreateCollect ==
    MerchantPost("CreateCollect", "open",
        <<{"req"}, {"customerVpa"}, {"merchantVpa"}, {"amount"}>>)
GetCollect == MerchantByID("GetCollect", "collectID")

validateCreateMandate ==
    <<{"req"}, {"merchantVpa"}, {"startDate"}, {"endDate"}, {"frequency"}>>
CreateMandate == MerchantPost("CreateMandate", "plain", validateCreateMandate)
GetMandate == MerchantByID("GetMandate", "mandateID")
UpdateMandate ==
    Merchant("UpdateMandate", "plain", <<{"mandateID"}, {"req"}>>, {"mandateID"})
RevokeMandate ==
    Merchant("RevokeMandate", "default", <<{"mandateID"}>>, {"mandateID"})
GetMandateOperation == MerchantByID("GetMandateOperation", "operationID")
PreDebitNotify ==
    Merchant("PreDebitNotify", "plain",
        <<{"mandateID"}, {"req"}, {"umn"}>>, {"mandateID"})
GetPreDebitNotification ==
    MerchantByID("GetPreDebitNotification", "notificationID")
ExecuteMandate ==
    Merchant("ExecuteMandate", "plain",
        <<{"mandateID"}, {"req"}, {"umn"}>>, {"mandateID"})
GetMandateExecution == MerchantByID("GetMandateExecution", "executionID")

CreateRefund ==
    MerchantPost("CreateRefund", "plain", <<{"req"}, {"paymentId"}, {"amount"}>>)
GetRefund == MerchantByID("GetRefund", "refundID")
GetDispute == MerchantByID("GetDispute", "disputeID")
AcceptDispute == MerchantByID("AcceptDispute", "disputeID")
RejectDispute ==
    Merchant("RejectDispute", "plain",
        <<{"disputeID"}, {"req", "evidence"}>>, {"disputeID"})

CreateMerchant ==
    Bearer("CreateMerchant", "plain",
        <<{"req"}, {"aggregatorAccountId"}, {"businessName"}>>, {})
GetMerchant == Bearer("GetMerchant", "none", <<{"merchantID"}>>, {"merchantID"})
CheckVPAAvailability ==
    Bearer("CheckVPAAvailability", "plain", <<{"req", "vpa"}>>, {})
CreateVPA == MerchantPost("CreateVPA", "plain", <<{"req", "vpa"}>>)

-----------------------------------------------------------------------------
\* payments/bbps, payments/billpay, payments/whatsapp

GetTransaction == Bearer("GetTransaction", "none", <<{"txnID"}>>, {"txnID"})
FetchBill == Bearer("FetchBill", "plain", <<{"req", "billerId"}>>, {})
PayBill == Bearer("PayBill", "plain", <<{"req"}, {"billerId"}, {"amount"}>>, {})
SendReminder ==
    Bearer("SendReminder", "open",
        <<{"req"}, {"customerMobile"}, {"billAmount"}, {"billerBillId"}>>, {})
GetReminderStatus == Bearer("GetReminderStatus", "none", <<{"id"}>>, {"id"})

-----------------------------------------------------------------------------
\* data/aa

\* dataRange is in order when it is given or TRANSACTIONS is not asked for.
validateCreateConsent ==
    <<{"req"}, {"vua"}, {"consentDuration"}, {"fiTypes"}, {"consentTypes"},
      {"dataRange"}>>
CreateConsent == Keyed("CreateConsent", "open", validateCreateConsent, {})
GetConsent == KeyedByID("GetConsent", "consent id")
RevokeConsent == KeyedByID("RevokeConsent", "consent id")
CreateMultiConsent ==
    Keyed("CreateMultiConsent", "plain", <<{"req", "mandatoryConsents"}>>, {})
GetLastFetchStatus == KeyedByID("GetLastFetchStatus", "consentID")
ListDataSessions == KeyedByID("ListDataSessions", "consentID")
CreateDataSession ==
    Keyed("CreateDataSession", "open", <<{"req", "consentId"}>>, {})
GetDataSession == KeyedByID("GetDataSession", "sessionID")
FetchFIData == KeyedByID("FetchFIData", "sessionID")

-----------------------------------------------------------------------------
\* data/esign, data/kyc

\* Between one and six signers, each with a name and a mobile.
ESignCreate ==
    Keyed("ESignCreate", "open",
        <<{"req"}, {"documentBase64"}, {"documentName"}, {"a signer"},
          {"six signers at most"}, {"names and mobiles"}>>, {})
ESignGet == KeyedByID("ESignGet", "esign id")
ESignDownload == KeyedByID("ESignDownload", "esign id")

validateAccount == <<{"req"}, {"accountNumber"}, {"ifsc"}>>
\* Both dereference req in the arguments of validateAccount, the call that
\* would find it nil.
VerifySync ==
    [Keyed("VerifySync", "plain", validateAccount, {}) EXCEPT !.guarded = FALSE]
VerifyAsync ==
    [Keyed("VerifyAsync", "plain", validateAccount, {}) EXCEPT !.guarded = FALSE]
GetAsyncStatus == KeyedByID("GetAsyncStatus", "verification id")

DigiLockerCreateSession ==
    Keyed("DigiLockerCreateSession", "plain", <<{"req", "redirectUrl"}>>, {})
DigiLockerGetSession == KeyedByID("DigiLockerGetSession", "sessionID")
DigiLockerGetDocument ==
    Keyed("DigiLockerGetDocument", "none", <<{"sessionID"}, {"documentType"}>>,
        {"sessionID", "documentType"})
EKYCCreate == Keyed("EKYCCreate", "default", <<>>, {})
EKYCGet == KeyedByID("EKYCGet", "ekyc id")
GSTVerify == Keyed("GSTVerify", "plain", <<{"req", "gstin"}>>, {})
NameMatch ==
    Keyed("NameMatch", "plain",
        <<{"req"}, {"name1"}, {"name2"}, {"name1 fits"}, {"name2 fits"}>>, {})
PANVerify ==
    Keyed("PANVerify", "plain", <<{"req"}, {"pan"}, {"consent"}, {"reason"}>>, {})

-----------------------------------------------------------------------------
UPIOperations ==
    {CreateDQR, GetDQR, CreateSQR, GetSQR, GetLastPayment, GetPaymentHistory,
     CreateTPV, GetTPV, VerifyVPA, CreateCollect, GetCollect, CreateMandate,
     GetMandate, UpdateMandate, RevokeMandate, GetMandateOperation,
     PreDebitNotify, GetPreDebitNotification, ExecuteMandate,
     GetMandateExecution, CreateRefund, GetRefund, GetDispute, AcceptDispute,
     RejectDispute, CreateMerchant, GetMerchant, CheckVPAAvailability, CreateVPA}
BillOperations ==
    {GetTransaction, FetchBill, PayBill, SendReminder, GetReminderStatus}
DataOperations ==
    {CreateConsent, GetConsent, RevokeConsent, CreateMultiConsent,
     GetLastFetchStatus, ListDataSessions, CreateDataSession, GetDataSession,
     FetchFIData, ESignCreate, ESignGet, ESignDownload, VerifySync, VerifyAsync,
     GetAsyncStatus, DigiLockerCreateSession, DigiLockerGetSession,
     DigiLockerGetDocument, EKYCCreate, EKYCGet, GSTVerify, NameMatch, PANVerify}
Operations == UPIOperations \cup BillOperations \cup DataOperations

-----------------------------------------------------------------------------
NamesOf(op) == UNION {op.checks[i] : i \in DOMAIN op.checks}
FieldsOf(op) == NamesOf(op) \ (op.inPath \cup {"merchantID", "req"})

\* What a caller may have in order; a nil request has no fields.
ArgumentsOf(op) ==
    {given \in SUBSET NamesOf(op) :
       ("req" \in NamesOf(op) /\ "req" \notin given) =>
           given \cap FieldsOf(op) = {}}

\* No check fails; a call is refused by the first one that does.
Passes(op, given) == \A i \in DOMAIN op.checks : op.checks[i] \subseteq given

\* VerifySync and VerifyAsync handed nil.
Panics(op, given) == ~op.guarded /\ "req" \notin given

=============================================================================
