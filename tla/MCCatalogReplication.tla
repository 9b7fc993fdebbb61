------------------------ MODULE MCCatalogReplication ------------------------
(* Instances of CatalogReplication for TLC. *)
EXTENDS CatalogReplication, TLC

\* Products, slugs, admin requests and API processes are interchangeable: no
\* definition tells two of them apart.
Symmetric == Permutations(Product) \union Permutations(Slug)
             \union Permutations(Admin) \union Permutations(Worker)
=============================================================================
