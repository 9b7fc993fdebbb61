------------------------------ MODULE Paystack ------------------------------
(***************************************************************************)
(* The payment provider as packages/api sees it through paystackService:  *)
(* transactions keyed by a merchant reference, an amount in kobo fixed when *)
(* the transaction is initialised, and a state the customer drives.        *)
(*                                                                         *)
(* A reference is "order_<order id>_<milliseconds>"; the milliseconds are  *)
(* abstracted to the number of the attempt, so <<o, n>> is the n-th        *)
(* reference generated for order o.                                        *)
(***************************************************************************)
EXTENDS Integers

CONSTANTS Order,     \* ids an order row can get
          MaxRef,    \* bound: payment references generated per order
          Price      \* totals, in naira, the catalogue can give an order

ASSUME MaxRefAssumption == MaxRef \in Nat \ {0}
ASSUME PriceAssumption == Price \subseteq Nat

VARIABLE txns        \* Paystack's own table of transactions

Stamp == 1..MaxRef
Reference == Order \X Stamp

\* "unknown": never initialised. "open": initialised, the customer has not
\* paid. "failed" is not final: the same checkout link can be tried again.
TxnState == {"unknown", "open", "failed", "success"}

Txn == [state : TxnState, kobo : Nat]

PaystackTypeOK == txns \in [Reference -> Txn]

PaystackInit == txns = [ref \in Reference |-> [state |-> "unknown", kobo |-> 0]]

\* initializePayment sends naira * 100 and verifyPayment divides by 100.
ToKobo(naira) == naira * 100
FromKobo(kobo) == kobo \div 100

\* Faulty variant of InitializePayment: an error response is not noticed.
InitializeUnchecked(ref, naira) ==
    /\ txns[ref].state = "unknown"
    /\ \/ txns' = [txns EXCEPT ![ref] = [state |-> "open", kobo |-> ToKobo(naira)]]
       \/ UNCHANGED txns

\* A reference can be initialised once; the amount is fixed from then on.
InitializePayment(ref, naira) ==
    /\ txns[ref].state = "unknown"
    /\ txns' = [txns EXCEPT ![ref] = [state |-> "open", kobo |-> ToKobo(naira)]]

\* Faulty variant of VerifyPayment: the status of the API call is taken for
\* the status of the transaction.
VerifyCall(ref) ==
    [status |-> IF txns[ref].state = "unknown" THEN "error" ELSE "success",
     amount |-> FromKobo(txns[ref].kobo)]

\* What verifyPayment returns: an unknown reference is an API error, and a
\* transaction nobody has paid is reported as "abandoned".
VerifyPayment(ref) ==
    [status |-> CASE txns[ref].state = "unknown" -> "error"
                  [] txns[ref].state = "open"    -> "abandoned"
                  [] OTHER                       -> txns[ref].state,
     amount |-> FromKobo(txns[ref].kobo)]

Charged(ref) == txns[ref].state = "success"

\* The customer completes the checkout, at first try or after a failure.
CustomerPays(ref) ==
    /\ txns[ref].state \in {"open", "failed"}
    /\ txns' = [txns EXCEPT ![ref].state = "success"]

\* The customer's bank declines the charge.
ChargeDeclined(ref) ==
    /\ txns[ref].state = "open"
    /\ txns' = [txns EXCEPT ![ref].state = "failed"]
=============================================================================
