------------------------------- MODULE Adapters -------------------------------
(***************************************************************************)
(* One transaction as the two provider adapters handle it                     *)
(* (services/palpluss.ts and services/intasend.ts): the request with its        *)
(* authentication, the notices of the provider (routes/webhook.routes.ts), and *)
(* the status read back before anything is believed.                          *)
(*                                                                         *)
(* The provider is external.  PalPluss has one status for a transaction, as     *)
(* IntaSend has for an invoice; an IntaSend payout is a batch with one leg,       *)
(* each with a status of its own.                                             *)
(***************************************************************************)
EXTENDS Integers, FiniteSets

CONSTANTS
    AdapterKinds,   \* pairs of an adapter and DEPOSIT or WITHDRAWAL
    KeyForms,       \* how the provider may want the key encoded, or "revoked"
    MaxNotices      \* bound on notices kept on their way

ASSUME AdaptersAssumption ==
    /\ AdapterKinds \subseteq {"palpluss", "intasend"} \X {"DEPOSIT", "WITHDRAWAL"}
    /\ KeyForms \subseteq {"basic", "raw", "revoked"}
    /\ MaxNotices \in Nat

VARIABLES
    serving,    \* the active adapter and the kind of the transaction
    keyForm,    \* the encoding the provider takes
    authMode,   \* the one the adapter has settled on, or unset
    attempt,    \* the encoding of the attempt in progress
    calling,     \* where the call has got to
    carried,       \* the request, or the answer, between the two
    remote,     \* the provider's record of it
    taken,      \* requests the provider has taken
    notices,    \* what it has sent; each may arrive late, again, or never
    told        \* the end the wallet has been told last, or none

adapterVars == <<serving, keyForm, authMode, attempt, calling, carried, remote, taken, notices, told>>

Adapter == serving[1]
IsBatch == serving = <<"intasend", "WITHDRAWAL">>
ProviderRecord(status, leg) == [status |-> status, leg |-> leg]
NoRecord == ProviderRecord("none", "none")
CallRefused == ProviderRecord("refused", "none")

-----------------------------------------------------------------------------
(* What is read from the provider's words *)

\* mapStatus of PalPluss, mapInvoiceState and mapPayoutState of IntaSend.
Among(status, success, failed, cancelled) ==
    IF status \in success THEN "SUCCESS" ELSE IF status \in failed THEN "FAILED"
    ELSE IF status \in cancelled THEN "CANCELLED" ELSE "PENDING"
MapStatus(s) == IF s = "EXPIRED" THEN s ELSE Among(s, {"SUCCESS"}, {"FAILED"}, {"CANCELLED"})
MapInvoiceState(s) == Among(s, {"COMPLETE"}, {"FAILED"}, {"CANCELLED"})
MapPayoutState(s) == Among(s, {"Successful", "Completed"}, {"Failed"}, {"Cancelled"})

\* Mutant: the status of the batch speaks for its leg.
ReadsBatch(r) == MapPayoutState(r.status)

\* "The batch can read 'Completed' while a leg inside it failed, so the per-transaction
\* status wins whenever there is one."
PayoutStatus(r) == MapPayoutState(IF r.leg = "none" THEN r.status ELSE r.leg)

\* toTxn of PalPluss, collectionStatus of IntaSend.
ToTxn(r) == MapStatus(r.status)
CollectionStatus(r) == MapInvoiceState(r.status)

Reading(r) ==
    CASE Adapter = "palpluss" -> ToTxn(r)
      [] Adapter = "intasend" /\ ~IsBatch -> CollectionStatus(r)
      [] OTHER -> PayoutStatus(r)

\* getStatus asks what the record says now; parseWebhook reads what it said.
GetStatus == Reading(remote)
ParseWebhook(body) == Reading(body)

-----------------------------------------------------------------------------
(* The request *)

Sends(form) == attempt' = form /\ carried' = "request" /\ calling' = "waiting"

\* IntaSend's key has one form.
FirstForm == IF Adapter = "intasend" THEN keyForm ELSE IF authMode = "unset" THEN "basic" ELSE authMode

\* A payment prompt of either adapter, or a payout.
Initiate(kind) ==
    /\ calling = "idle" /\ serving[2] = kind
    /\ Sends(FirstForm)
    /\ UNCHANGED <<serving, keyForm, authMode, remote, taken, notices, told>>
InitiateStkPush == Initiate("DEPOSIT")
InitiateB2CPayout == Initiate("WITHDRAWAL")

\* A 401 of PalPluss while no encoding is settled on: "the other is worth exactly one try".
MayFallBack ==
    /\ calling = "waiting" /\ carried = "unauthorised"
    /\ Adapter = "palpluss" /\ authMode = "unset" /\ attempt = "basic"
Fallback ==
    /\ MayFallBack
    /\ Sends("raw")
    /\ UNCHANGED <<serving, keyForm, authMode, remote, taken, notices, told>>

\* The answer: taken, and the wallet goes on to record its id; or a refusal.
Answered ==
    /\ calling = "waiting" /\ carried \in {"unauthorised", "taken", "refused"} /\ ~MayFallBack
    /\ calling' = IF carried = "taken" THEN "done" ELSE "failed"
    /\ authMode' = IF /\ Adapter = "palpluss" /\ authMode = "unset"
                      /\ \/ carried = "taken"
                         \/ carried = "refused" /\ attempt = "raw"
                   THEN attempt ELSE authMode
    /\ remote' = IF carried = "unauthorised" THEN CallRefused ELSE remote
    /\ carried' = "none"
    /\ UNCHANGED <<serving, keyForm, attempt, taken, notices, told>>

\* Twenty seconds pass, or the connection breaks; the request may arrive all the same.
GivesUp ==
    /\ calling = "waiting"
    /\ calling' = "failed"
    /\ carried' \in {carried, "none"}
    /\ UNCHANGED <<serving, keyForm, authMode, attempt, remote, taken, notices, told>>

\* Another call of the adapter settles the encoding in the meantime.
OtherCall ==
    /\ Adapter = "palpluss" /\ authMode = "unset" /\ keyForm # "revoked"
    /\ authMode' = keyForm
    /\ UNCHANGED <<serving, keyForm, attempt, calling, carried, remote, taken, notices, told>>

-----------------------------------------------------------------------------
(* The provider *)

ProviderTakes ==
    /\ carried = "request"
    /\ IF attempt # keyForm
       THEN carried' = "unauthorised" /\ UNCHANGED <<remote, taken>>
       ELSE \/ carried' = "refused" /\ remote' = CallRefused /\ UNCHANGED taken
            \/ /\ carried' = "taken" /\ taken' = taken + 1
               /\ remote' = ProviderRecord(IF IsBatch THEN "Processing" ELSE "PENDING", "none")
    /\ UNCHANGED <<serving, keyForm, authMode, attempt, calling, notices, told>>

\* How its record goes on.
Onward(r) ==
    CASE IsBatch /\ r.leg = "none" -> {ProviderRecord(r.status, "Pending")}
      [] IsBatch /\ r.leg # "none" ->
            {ProviderRecord("Completed", r.leg)} \cup
            (IF r.leg = "Pending" THEN {ProviderRecord(r.status, l) : l \in {"Successful", "Failed", "Cancelled"}} ELSE {})
      [] ~IsBatch /\ r.status \in {"PENDING", "PROCESSING"} ->
            {ProviderRecord(s, "none") : s \in {"PROCESSING", "FAILED", "CANCELLED"} \cup
                (IF Adapter = "palpluss" THEN {"SUCCESS", "EXPIRED"} ELSE {"COMPLETE"})}
      [] OTHER -> {}

ProviderProceeds ==
    /\ remote \notin {NoRecord, CallRefused}
    /\ remote' \in Onward(remote) \ {remote}
    /\ UNCHANGED <<serving, keyForm, authMode, attempt, calling, carried, taken, notices, told>>

\* A notice of what the record says now.
Notifies ==
    /\ remote \notin {NoRecord, CallRefused} \cup notices /\ Cardinality(notices) < MaxNotices
    /\ notices' = notices \cup {remote}
    /\ UNCHANGED <<serving, keyForm, authMode, attempt, calling, carried, remote, taken, told>>

-----------------------------------------------------------------------------
(* Believing it *)

\* finaliseTransaction, for whatever is no longer pending: a deposit is credited or
\* closed, a payout is closed or refunded.
Finalise(status) ==
    told' = IF status = "PENDING" THEN told ELSE IF status = "SUCCESS" THEN "SUCCESS" ELSE "FAILED"

\* handleProviderCallback: the status is read back; without an answer a success is left
\* to the sweep, and anything else is taken from the notice.
Notice ==
    /\ \E body \in notices :
          \/ Finalise(GetStatus)
          \/ Finalise(IF ParseWebhook(body) = "SUCCESS" THEN "PENDING" ELSE ParseWebhook(body))
    /\ UNCHANGED <<serving, keyForm, authMode, attempt, calling, carried, remote, taken, notices>>
HintLost ==
    /\ \E body \in notices : notices' = notices \ {body}
    /\ UNCHANGED <<serving, keyForm, authMode, attempt, calling, carried, remote, taken, told>>

\* The sweep, of a transaction whose id is known.
SweepReads ==
    /\ calling = "done"
    /\ Finalise(GetStatus)
    /\ UNCHANGED <<serving, keyForm, authMode, attempt, calling, carried, remote, taken, notices>>

-----------------------------------------------------------------------------
AdaptersInit ==
    /\ serving \in AdapterKinds /\ keyForm \in KeyForms
    /\ authMode = "unset" /\ attempt = "basic" /\ calling = "idle" /\ carried = "none"
    /\ remote = NoRecord /\ taken = 0 /\ notices = {} /\ told = "none"

AdaptersNext ==
    \/ InitiateStkPush \/ InitiateB2CPayout \/ Fallback \/ Answered \/ GivesUp \/ OtherCall
    \/ ProviderTakes \/ ProviderProceeds \/ Notifies
    \/ Notice \/ HintLost \/ SweepReads

AdaptersSpec == AdaptersInit /\ [][AdaptersNext]_adapterVars

-----------------------------------------------------------------------------
(* Properties *)

\* Every variable is of the shape the code gives it.
AdaptersTypeOK ==
    /\ serving \in AdapterKinds /\ keyForm \in KeyForms
    /\ authMode \in {"unset", "basic", "raw"} /\ attempt \in KeyForms \cup {"basic", "raw"}
    /\ calling \in {"idle", "waiting", "done", "failed"}
    /\ carried \in {"none", "request", "unauthorised", "taken", "refused"}
    /\ taken \in Nat /\ told \in {"none", "SUCCESS", "FAILED"}

\* What became of the transaction, in the words the wallet knows.
Became ==
    CASE taken > 1 -> "taken twice"
      [] taken = 0 -> IF remote = CallRefused THEN "rejected" ELSE "none"
      [] taken = 1 /\ IsBatch -> CASE remote.leg \in {"none", "Pending"} -> "processing"
                                   [] remote.leg = "Successful" -> "SUCCESS"
                                   [] OTHER -> "FAILED"
      [] OTHER -> CASE remote.status \in {"PENDING", "PROCESSING"} -> "processing"
                    [] remote.status \in {"SUCCESS", "COMPLETE"} -> "SUCCESS"
                    [] OTHER -> "FAILED"

\* "Both adapters normalise to the same shape, so nothing downstream knows or cares which
\* one is live": whatever is retried, late, repeated or lost, each is a provider as the
\* wallet relies on it; it takes a payout once and never tells of an end that is not so.
Contract == INSTANCE ProviderContract WITH provider <- Became
AdaptersKeepContract == Contract!ContractSpec
=============================================================================
