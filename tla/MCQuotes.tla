------------------------------ MODULE MCQuotes ------------------------------
(* Instances of Quotes for TLC. *)
EXTENDS Quotes, TLC

CONSTANTS shirt, c1, c2

\* A shirt that fits side by side on the cloth, one that does not, and an
\* order without measurements.
Small == [chest |-> 80, hip |-> 84, length |-> 150, shoulder |-> 40]
Large == [chest |-> 104, hip |-> 98, length |-> 187, shoulder |-> 51]
Unknown == [chest |-> 0, hip |-> 98, length |-> 187, shoulder |-> 51]

It(colour, styled, body) == [product |-> shirt, chosen |-> colour, styled |-> styled, body |-> body]

MCCart == {<<It(c2, TRUE, Large)>>, <<It(c1, FALSE, Small), It(None, TRUE, Unknown)>>}
\* One of them has a fraction of a kobo.
MCPrice == {1000, 2995}
MCStartProduct == [x \in Product |-> [active |-> TRUE, base |-> 2995, style |-> 1000]]
MCStartFabric == [c \in Colour |-> [price |-> 1000, ypu |-> IF c = First THEN 150 ELSE 100]]

Symmetry == Permutations(Request)

\* Profiles and orders share nothing: interleaved they reach nothing more.
Apart == \/ profiles = 0 /\ \A r \in Request : req[r].at # "addProfile"
         \/ order = None /\ \A r \in Request : req[r].at \in {"idle", "addProfile"}

MCPerUnit == {100, 150}
=============================================================================
