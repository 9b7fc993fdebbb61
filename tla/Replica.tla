------------------------------ MODULE Replica ------------------------------
(***************************************************************************)
(* What an asynchronous copy of a table promises: it passes through every  *)
(* state of its source, in order, however late. backlog holds the states   *)
(* the source has been in and the copy has not.                            *)
(***************************************************************************)
EXTENDS Sequences

CONSTANTS Key, Value, None

VARIABLES source, copy, backlog

vars == <<source, copy, backlog>>

Init ==
    /\ source = [k \in Key |-> None]
    /\ copy = source
    /\ backlog = <<>>

(* One key changes, or something that is not in the table does. *)
Write ==
    /\ \/ \E k \in Key, v \in Value: source' = [source EXCEPT ![k] = v]
       \/ UNCHANGED source
    /\ backlog' = Append(backlog, source')
    /\ UNCHANGED copy

CatchUp ==
    /\ backlog # <<>>
    /\ copy' = Head(backlog)
    /\ backlog' = Tail(backlog)
    /\ UNCHANGED source

Next == Write \/ CatchUp

Spec == Init /\ [][Next]_vars
=============================================================================
