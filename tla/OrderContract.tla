--------------------------- MODULE OrderContract ---------------------------
(***************************************************************************)
(* What the order service promises its customers, with one step for each   *)
(* thing they can notice: an order is placed, quoted while it is pending,  *)
(* charged by Paystack, confirmed once it was charged, announced at most   *)
(* once per charge, worked on by the staff, and withdrawn while it is      *)
(* pending and unpaid. A payment on record stays on record.                *)
(***************************************************************************)
EXTENDS Integers

CONSTANTS Order, Price

VARIABLES
    stage,    \* "none", "pending", "placed" (any later status) or "gone"
    quote,    \* the total the customer sees
    paid,     \* the payment is on record
    charges,  \* references of the order Paystack has charged
    notices   \* confirmations announced

contractVars == <<stage, quote, paid, charges, notices>>

ContractInit ==
    /\ stage = [o \in Order |-> "none"]
    /\ quote = [o \in Order |-> 0]
    /\ paid = [o \in Order |-> FALSE]
    /\ charges = [o \in Order |-> 0]
    /\ notices = [o \in Order |-> 0]

Place(o) ==
    /\ stage[o] = "none"
    /\ stage' = [stage EXCEPT ![o] = "pending"]
    /\ \E p \in Price : quote' = [quote EXCEPT ![o] = p]
    /\ UNCHANGED <<paid, charges, notices>>

Requote(o) ==
    /\ stage[o] = "pending" /\ ~paid[o]
    /\ \E p \in Price : quote' = [quote EXCEPT ![o] = p]
    /\ UNCHANGED <<stage, paid, charges, notices>>

Charge(o) ==
    /\ stage[o] # "none"
    /\ charges' = [charges EXCEPT ![o] = @ + 1]
    /\ UNCHANGED <<stage, quote, paid, notices>>

Confirm(o) ==
    /\ stage[o] \in {"pending", "placed"}
    /\ charges[o] > 0
    /\ ~paid[o]
    /\ stage' = [stage EXCEPT ![o] = "placed"]
    /\ paid' = [paid EXCEPT ![o] = TRUE]
    /\ UNCHANGED <<quote, charges, notices>>

Announce(o) ==
    /\ notices[o] < charges[o]
    /\ notices' = [notices EXCEPT ![o] = @ + 1]
    /\ UNCHANGED <<stage, quote, paid, charges>>

Work(o) ==
    /\ stage[o] = "pending"
    /\ stage' = [stage EXCEPT ![o] = "placed"]
    /\ UNCHANGED <<quote, paid, charges, notices>>

Withdraw(o) ==
    /\ stage[o] = "pending" /\ ~paid[o]
    /\ stage' = [stage EXCEPT ![o] = "gone"]
    /\ quote' = [quote EXCEPT ![o] = 0]
    /\ UNCHANGED <<paid, charges, notices>>

ContractNext ==
    \E o \in Order : \/ Place(o) \/ Requote(o) \/ Charge(o) \/ Confirm(o)
                     \/ Announce(o) \/ Work(o) \/ Withdraw(o)

ContractSpec == ContractInit /\ [][ContractNext]_contractVars
=============================================================================
