---------------------------- MODULE CatalogAdmin ----------------------------
(***************************************************************************)
(* What administrators do to the documents of the catalogue service        *)
(* (packages/catalog-service/src/services): fabric categories and the      *)
(* fabrics each lists, product categories, products and their styles.      *)
(* Nothing is in a transaction: an operation awaits one MongoDB command    *)
(* after another, any other request may run at each await, and a command   *)
(* that fails leaves the earlier ones done.  An action is one command with *)
(* the code up to the next one; a request refused before it wrote anything *)
(* is no step at all.  Publications are in CatalogReplication.             *)
(***************************************************************************)
EXTENDS Integers

CONSTANTS FabricCategory, Fabric, Product,  \* ObjectIds, never used twice
          Slug,                             \* slugs of product categories
          Style,                            \* names of style options
          Request,                          \* slots for requests in flight
          None,                             \* no such value, or not in the body
          Blank                             \* a name that is the empty string

ASSUME NoneAssumption ==
  {None, Blank} \cap (FabricCategory \cup Fabric \cup Product \cup Slug \cup Style) = {}
ASSUME ObjectIdAssumption == /\ FabricCategory \cap Fabric = {}
                             /\ FabricCategory \cap Product = {}
                             /\ Fabric \cap Product = {}

VARIABLES category,  \* the FabricCategory documents
          fabric,    \* the Fabric documents
          slug,      \* which product categories the Category collection has
          product,   \* the Product documents
          req,       \* requests in flight
          disturbed  \* not in the code: fabrics and products written by a request
                     \* that met another one on its documents, or stopped half-way

vars == <<category, fabric, slug, product, req, disturbed>>
fabricDocs == <<category, fabric>>
productDocs == <<slug, product>>

Place == {"idle", "create", "push", "pull", "findNew", "add", "write",
          "unlist", "save", "softDelete", "remove",
          "insert", "categories", "set", "addSlug"}

\* met: another request on one of its documents was in flight with it.
Idle == [at |-> "idle", met |-> FALSE, f |-> None, c |-> None, old |-> None,
         saw |-> {}, p |-> None, styles |-> None, default |-> None,
         slugs |-> None]

TypeOK ==
  /\ category \in [FabricCategory -> [is : {"none", "there", "gone"},
                                      fabrics : SUBSET Fabric]]
  /\ fabric \in [Fabric -> [is : {"none", "live", "deleted"},
                            category : FabricCategory \cup {None}]]
  /\ slug \in [Slug -> {"none", "there", "gone"}]
  /\ product \in [Product -> [is : {"none", "there", "gone"},
                              styles : SUBSET Style,
                              default : Style \cup {None, Blank},
                              slugs : SUBSET Slug]]
  /\ req \in [Request -> [at : Place, met : BOOLEAN, f : Fabric \cup {None},
                          c : FabricCategory \cup {None},
                          old : FabricCategory \cup {None},
                          saw : SUBSET Fabric, p : Product \cup {None},
                          styles : (SUBSET Style) \cup {None},
                          default : Style \cup {None, Blank},
                          slugs : (SUBSET Slug) \cup {None}]]
  /\ \A f \in Fabric : fabric[f].is # "none" => fabric[f].category # None
  /\ disturbed \in SUBSET (Fabric \cup Product)

Init ==
  /\ category = [c \in FabricCategory |-> [is |-> "none", fabrics |-> {}]]
  /\ fabric = [f \in Fabric |-> [is |-> "none", category |-> None]]
  /\ slug = [k \in Slug |-> "none"]
  /\ product = [p \in Product |-> [is |-> "none", styles |-> {}, default |-> None,
                                   slugs |-> {}]]
  /\ req = [q \in Request |-> Idle]
  /\ disturbed = {}

There(c) == c # None /\ category[c].is = "there"
Known == {k \in Slug : slug[k] = "there"}

-----------------------------------------------------------------------------
(* Requests *)
Docs(r) == {r.f, r.c, r.old, r.p} \ {None}
Active == {q \in Request : req[q].at # "idle"}

\* A request begins with its first command, which read what r holds.
Begin(q, r) ==
  LET others == {o \in Active : Docs(req[o]) \cap Docs(r) # {}}
  IN /\ req[q].at = "idle"
     /\ req' = [o \in Request |->
                  IF o = q THEN [r EXCEPT !.met = (others # {})]
                  ELSE IF o \in others THEN [req[o] EXCEPT !.met = TRUE]
                  ELSE req[o]]
     /\ UNCHANGED <<fabricDocs, productDocs, disturbed>>

\* The fabrics and products a request is about.
Concerns(q) ==
  ({req[q].f, req[q].p} \ {None}) \cup
  (IF req[q].at \in {"softDelete", "remove"}
   THEN req[q].saw \cup category[req[q].c].fabrics
          \cup {f \in Fabric : fabric[f].category = req[q].c}
   ELSE {})

Disturb(q) == disturbed' = disturbed \cup (IF req[q].met THEN Concerns(q) ELSE {})

Goto(q, place) == req' = [req EXCEPT ![q].at = place]
End(q) == req' = [req EXCEPT ![q] = Idle]

\* The request ends where it is, with what it wrote so far.
Stop(q) == /\ End(q)
           /\ disturbed' = disturbed \cup Concerns(q)
           /\ UNCHANGED <<fabricDocs, productDocs>>

-----------------------------------------------------------------------------
(* Fabrics *)
Unlist(c, f) == IF There(c) THEN [category EXCEPT ![c].fabrics = @ \ {f}] ELSE category
List(c, f) == IF There(c) THEN [category EXCEPT ![c].fabrics = @ \cup {f}] ELSE category

createFabric(q, c) ==
  There(c) /\ Begin(q, [Idle EXCEPT !.at = "create", !.c = c])

InsertFabric(q, f) ==
  /\ req[q].at = "create"
  /\ fabric[f].is = "none"
  /\ fabric' = [fabric EXCEPT ![f] = [is |-> "live", category |-> req[q].c]]
  /\ req' = [req EXCEPT ![q].at = "push", ![q].f = f]
  /\ disturbed' = disturbed \cup (IF req[q].met THEN {f} ELSE {})
  /\ UNCHANGED <<category, productDocs>>

\* save() of a document that has gone is an error.
PushFabric(q) ==
  /\ req[q].at = "push"
  /\ IF There(req[q].c)
     THEN /\ category' = List(req[q].c, req[q].f)
          /\ End(q)
          /\ Disturb(q)
          /\ UNCHANGED <<fabric, productDocs>>
     ELSE Stop(q)

\* c is None when the body has no categoryId.  A move begins with the lists.
updateFabric(q, f, c) ==
  /\ fabric[f].is # "none"
  /\ Begin(q, IF c \in {None, fabric[f].category}
              THEN [Idle EXCEPT !.at = "write", !.f = f, !.c = c]
              ELSE [Idle EXCEPT !.at = "pull", !.f = f, !.c = c, !.old = fabric[f].category])

PullFabric(q) ==
  /\ req[q].at \in {"pull", "unlist"}
  /\ category' = Unlist(req[q].old, req[q].f)
  /\ Goto(q, IF req[q].at = "pull" THEN "findNew" ELSE "save")
  /\ Disturb(q)
  /\ UNCHANGED <<fabric, productDocs>>

\* The new category is looked up when the old one has let the fabric go.
FindNewCategory(q) ==
  /\ req[q].at = "findNew"
  /\ IF There(req[q].c)
     THEN /\ Goto(q, "add")
          /\ UNCHANGED <<fabricDocs, productDocs, disturbed>>
     ELSE Stop(q)

AddFabric(q) ==
  /\ req[q].at = "add"
  /\ category' = List(req[q].c, req[q].f)
  /\ Goto(q, "write")
  /\ Disturb(q)
  /\ UNCHANGED <<fabric, productDocs>>

\* Mutant: the category is taken from the body even when it has none.
CategoryFromBody(q) ==
  /\ req[q].at = "write"
  /\ fabric' = [fabric EXCEPT ![req[q].f].category = req[q].c]
  /\ End(q)
  /\ Disturb(q)
  /\ UNCHANGED <<category, productDocs>>

WriteFabric(q) ==
  /\ req[q].at = "write"
  /\ fabric' = [fabric EXCEPT ![req[q].f].category = IF req[q].c = None THEN @ ELSE req[q].c]
  /\ End(q)
  /\ Disturb(q)
  /\ UNCHANGED <<category, productDocs>>

deleteFabric(q, f) ==
  /\ fabric[f].is # "none"
  /\ Begin(q, [Idle EXCEPT !.at = "unlist", !.f = f, !.old = fabric[f].category])

SaveDeleted(q) ==
  /\ req[q].at = "save"
  /\ fabric' = [fabric EXCEPT ![req[q].f].is = "deleted"]
  /\ End(q)
  /\ Disturb(q)
  /\ UNCHANGED <<category, productDocs>>

-----------------------------------------------------------------------------
(* Fabric categories; a change of name or slug changes nothing here. *)
createFabricCategory(c) ==
  /\ category[c].is = "none"
  /\ category' = [category EXCEPT ![c].is = "there"]
  /\ UNCHANGED <<fabric, productDocs, req, disturbed>>

\* Mutant: the fabrics are left alone.
RemoveCategoryOnly(q, c) ==
  There(c) /\ Begin(q, [Idle EXCEPT !.at = "remove", !.c = c])

deleteFabricCategory(q, c) ==
  /\ There(c)
  /\ Begin(q, [Idle EXCEPT !.at = IF category[c].fabrics = {} THEN "remove" ELSE "softDelete",
                           !.c = c, !.saw = category[c].fabrics])

SoftDeleteFabrics(q) ==
  /\ req[q].at = "softDelete"
  /\ fabric' = [f \in Fabric |-> IF f \in req[q].saw
                                 THEN [fabric[f] EXCEPT !.is = "deleted"] ELSE fabric[f]]
  /\ Goto(q, "remove")
  /\ Disturb(q)
  /\ UNCHANGED <<category, productDocs>>

RemoveCategory(q) ==
  /\ req[q].at = "remove"
  /\ category' = [category EXCEPT ![req[q].c] = [is |-> "gone", fabrics |-> {}]]
  /\ End(q)
  /\ Disturb(q)
  /\ UNCHANGED <<fabric, productDocs>>

-----------------------------------------------------------------------------
(* Products and their categories *)
\* Mutant: the default may be any name.
SomeStyle(styles, default) == styles # {}

validateStyleOptions(styles, default) ==
  styles # {} /\ default \in styles \cup {None, Blank}

\* Mutant: any category will do.
SomeCategory(slugs) == slugs # {}

validateCategoryRefs(slugs) == slugs \subseteq Known

Or(value, other) == IF value = None THEN other ELSE value

createProduct(q, styles, default, slugs) ==
  /\ validateStyleOptions(styles, default)
  /\ validateCategoryRefs(slugs)
  /\ Begin(q, [Idle EXCEPT !.at = "insert", !.styles = styles, !.default = default,
                           !.slugs = slugs])

\* With the hook before a save: the first option is the default if none is set.
InsertProduct(q, p) ==
  /\ req[q].at = "insert"
  /\ req[q].slugs # {}
  /\ product[p].is = "none"
  /\ \E first \in req[q].styles :
       product' = [product EXCEPT ![p] = [is |-> "there", styles |-> req[q].styles,
                                          default |-> IF req[q].default \in {None, Blank}
                                                      THEN first ELSE req[q].default,
                                          slugs |-> req[q].slugs]]
  /\ End(q)
  /\ UNCHANGED <<fabricDocs, slug, disturbed>>

\* The styles and the default that a body would leave behind are judged together,
\* with the document as it is now.
updateProduct(q, p, styles, default, slugs) ==
  /\ \/ styles = None /\ default = None
     \/ /\ product[p].is = "there"
        /\ validateStyleOptions(Or(styles, product[p].styles),
                                Or(default, product[p].default))
  /\ Begin(q, [Idle EXCEPT !.at = IF slugs = None THEN "set" ELSE "categories",
                           !.p = p, !.styles = styles, !.default = default, !.slugs = slugs])

ValidateCategories(q) ==
  /\ req[q].at = "categories"
  /\ IF validateCategoryRefs(req[q].slugs) THEN Goto(q, "set") ELSE End(q)
  /\ UNCHANGED <<fabricDocs, productDocs, disturbed>>

\* Only what is in the body is set.
SetProduct(q) ==
  LET r == req[q]
  IN /\ r.at = "set"
     /\ product' = IF product[r.p].is # "there" \/ r.slugs = {} THEN product
                   ELSE [product EXCEPT ![r.p].styles = Or(r.styles, @),
                                        ![r.p].default = Or(r.default, @),
                                        ![r.p].slugs = Or(r.slugs, @)]
     /\ End(q)
     /\ Disturb(q)
     /\ UNCHANGED <<fabricDocs, slug>>

deleteProduct(p) ==
  /\ product[p].is = "there"
  /\ product' = [product EXCEPT ![p] = [is |-> "gone", styles |-> {}, default |-> None,
                                        slugs |-> {}]]
  /\ UNCHANGED <<fabricDocs, slug, req, disturbed>>

\* The count and the insertion are two commands; the index decides.
addCategory(q, k) ==
  slug[k] # "there" /\ Begin(q, [Idle EXCEPT !.at = "addSlug", !.slugs = {k}])

InsertCategory(q) ==
  /\ req[q].at = "addSlug"
  /\ slug' = [k \in Slug |-> IF k \in req[q].slugs THEN "there" ELSE slug[k]]
  /\ End(q)
  /\ UNCHANGED <<fabricDocs, product, disturbed>>

\* Products keep the name and slug they hold.
deleteCategory(k) ==
  /\ slug[k] = "there"
  /\ slug' = [slug EXCEPT ![k] = "gone"]
  /\ UNCHANGED <<fabricDocs, product, req, disturbed>>

-----------------------------------------------------------------------------
\* A command fails (MongoDB, a slug or name in use, a schema) or the process ends.
Fail(q) == req[q].at # "idle" /\ Stop(q)

FabricStep(q) ==
  \/ \E c \in FabricCategory : createFabric(q, c) \/ deleteFabricCategory(q, c)
  \/ \E f \in Fabric : InsertFabric(q, f) \/ deleteFabric(q, f)
  \/ \E f \in Fabric, c \in FabricCategory \cup {None} : updateFabric(q, f, c)
  \/ PushFabric(q) \/ PullFabric(q) \/ FindNewCategory(q) \/ AddFabric(q)
  \/ WriteFabric(q) \/ SaveDeleted(q) \/ SoftDeleteFabrics(q) \/ RemoveCategory(q)

ProductStep(q) ==
  \/ \E styles \in SUBSET Style, default \in Style \cup {None, Blank}, slugs \in SUBSET Slug :
       createProduct(q, styles, default, slugs)
  \/ \E p \in Product, styles \in (SUBSET Style) \cup {None}, default \in Style \cup {None, Blank},
        slugs \in (SUBSET Slug) \cup {None} : updateProduct(q, p, styles, default, slugs)
  \/ \E p \in Product : InsertProduct(q, p)
  \/ \E k \in Slug : addCategory(q, k)
  \/ ValidateCategories(q) \/ SetProduct(q) \/ InsertCategory(q)

Next ==
  \/ \E q \in Request : FabricStep(q) \/ ProductStep(q) \/ Fail(q)
  \/ \E c \in FabricCategory : createFabricCategory(c)
  \/ \E p \in Product : deleteProduct(p)
  \/ \E k \in Slug : deleteCategory(k)

Spec == Init /\ [][Next]_vars

-----------------------------------------------------------------------------
(* Properties *)

\* The two directions of the reference agree when no request is at work on them: a
\* fabric that is not deleted names a category that exists and lists it, and no
\* category lists a fabric that names another.  Only a fabric written by a request
\* that met another one on it or its categories, or that stopped half-way (a move
\* to a category that does not exist stops after the first pull), is excused.  What
\* a category lists is a document even then: createFabric lists a fabric after it
\* made it, and deleteFabric only marks it.
ListsAgree ==
  /\ \A c \in FabricCategory : \A f \in category[c].fabrics : fabric[f].is # "none"
  /\ \A f \in Fabric \ disturbed :
       (\A q \in Active : f \notin Concerns(q)) =>
         /\ fabric[f].is = "live" => There(fabric[f].category)
         /\ fabric[f].is = "live" => f \in category[fabric[f].category].fabrics
         /\ \A c \in FabricCategory : f \in category[c].fabrics => fabric[f].category = c

\* Every product offers a style, whatever overlaps (the order service and the images
\* of a product start from the first one), and its default is one of those offered,
\* unless two updates of the product met: each is judged with what the other is about
\* to replace.
DefaultIsOffered ==
  \A p \in Product : product[p].is = "there" =>
    /\ product[p].styles # {}
    /\ p \notin disturbed => product[p].default \in product[p].styles \cup {Blank}

\* A product names only categories that there have been: one that is deleted while
\* a request is between its look at them and its write stays in the product.
CategoriesWereKnown ==
  \A p \in Product : \A k \in product[p].slugs : slug[k] # "none"
=============================================================================
