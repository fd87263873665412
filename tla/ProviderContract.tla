--------------------------- MODULE ProviderContract ---------------------------
(***************************************************************************)
(* What the wallet relies on in a payment provider, whichever adapter of     *)
(* services/payments.ts is active; Payments takes the provider to be this.     *)
(* A request is taken or refused, once.  What is taken ends in one way and      *)
(* stays so, and the wallet is told an end only when and as it has happened.   *)
(***************************************************************************)
VARIABLES
    provider,   \* none, processing, rejected, SUCCESS or FAILED, as in Payments
    told        \* the end the wallet has been told last, or none

contractVars == <<provider, told>>

Receives == provider = "none" /\ provider' \in {"processing", "rejected"} /\ UNCHANGED told
Resolves == provider = "processing" /\ provider' \in {"SUCCESS", "FAILED"} /\ UNCHANGED told
Tells == provider \in {"SUCCESS", "FAILED"} /\ told' = provider /\ UNCHANGED provider

ContractInit == provider = "none" /\ told = "none"
ContractNext == Receives \/ Resolves \/ Tells
ContractSpec == ContractInit /\ [][ContractNext]_contractVars
=============================================================================
