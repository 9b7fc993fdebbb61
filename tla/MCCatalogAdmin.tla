---------------------------- MODULE MCCatalogAdmin ----------------------------
(* Instances of CatalogAdmin for TLC. *)
EXTENDS CatalogAdmin, TLC

Symmetry == Permutations(FabricCategory) \cup Permutations(Fabric)
              \cup Permutations(Style) \cup Permutations(Request)

\* Fabrics and products share no document, so their requests interleaved with
\* each other reach nothing that they do not reach apart.
Apart == \/ category = [c \in FabricCategory |-> [is |-> "none", fabrics |-> {}]]
         \/ /\ slug = [k \in Slug |-> "none"]
            /\ \A q \in Request : req[q].at # "addSlug"
=============================================================================
