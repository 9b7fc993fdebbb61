------------------------- MODULE CatalogAdminProofs -------------------------
(***************************************************************************)
(* The references between the documents of the catalogue, for any number   *)
(* of documents and of requests on them at a time.                         *)
(***************************************************************************)
EXTENDS CatalogAdmin, TLAPS

-----------------------------------------------------------------------------
(* The inductive invariant *)

\* What a request holds at each place.
Holds(r) ==
  /\ r.at \in {"create", "push", "pull", "findNew", "add", "softDelete", "remove"} => r.c # None
  /\ r.at \in {"push", "pull", "findNew", "add", "write", "unlist", "save"} => r.f # None
  /\ r.at \in {"pull", "findNew", "add", "unlist", "save"} => r.old # None
  /\ r.at \in {"create", "push"} => r.old = None
  /\ r.at = "write" /\ r.old # None => r.c # None
  /\ r.at \in {"categories", "set"} => r.p # None
  /\ r.at = "insert" => /\ r.styles \in SUBSET Style /\ r.styles # {}
                        /\ r.default \in r.styles \cup {None, Blank}
                        /\ r.slugs \in SUBSET Slug
  /\ r.at \in {"categories", "set"} /\ r.styles # None => r.styles # {}

ShapeOK == \A q \in Request : Holds(req[q])

\* Two requests that share a document have met.
MeetOK == \A o, q \in Active :
  o # q /\ Docs(req[o]) \cap Docs(req[q]) # {} => req[q].met

\* What a request names and what a category lists has been made.
MadeOK ==
  /\ \A q \in Active : req[q].f # None => fabric[req[q].f].is # "none"
  /\ \A q \in Active : \A f \in req[q].saw : fabric[f].is # "none"
  /\ \A c \in FabricCategory : \A f \in category[c].fabrics : fabric[f].is # "none"
  /\ \A c \in FabricCategory : category[c].is # "there" => category[c].fabrics = {}

Listed(c, f) == f \in category[c].fabrics
Unlisted(f) == \A c \in FabricCategory : ~Listed(c, f)
ListedOnlyIn(c, f) == \A d \in FabricCategory : Listed(d, f) => d = c

\* The requests that change the reference of a fabric.
Moves(r) == \/ r.at \in {"push", "pull", "findNew", "add", "unlist", "save"}
            \/ r.at = "write" /\ r.c # None
Movers(f) == {q \in Request : Moves(req[q]) /\ req[q].f = f}

\* What a request that met none knows of its fabric.
MoveOK(r) ==
  /\ r.at \in {"pull", "unlist"} => ListedOnlyIn(r.old, r.f)
  /\ r.at \in {"push", "findNew", "add", "save"} => Unlisted(r.f)
  /\ r.at = "add" => There(r.c)
  /\ r.at = "write" => /\ ListedOnlyIn(r.c, r.f)
                       /\ fabric[r.f].is = "live" => Listed(r.c, r.f)

\* The category a fabric names is known to whoever is about to change it.
NameKnown(r) ==
  fabric[r.f].category = IF r.old = None THEN r.c ELSE r.old

Agrees(f) ==
  /\ fabric[f].is = "live" => Listed(fabric[f].category, f)
  /\ ListedOnlyIn(fabric[f].category, f)

FabricOK(f) ==
  /\ \A q \in Movers(f) : NameKnown(req[q]) /\ (req[q].met \/ MoveOK(req[q]))
  /\ Movers(f) = {} => Agrees(f)

FabricsOK == \A f \in Fabric : f \in disturbed \/ FabricOK(f)

\* Whoever deletes a category and met no one leaves no fabric that names it.
DeletionsOK == \A q \in Request : ~req[q].met =>
  \A f \in Fabric \ disturbed :
    fabric[f].is = "live" /\ fabric[f].category = req[q].c =>
      /\ req[q].at = "softDelete" => f \in req[q].saw
      /\ req[q].at # "remove"

\* What an update that met none leaves of its product.
UpdateOK(r) ==
  \/ r.styles = None /\ r.default = None
  \/ /\ product[r.p].is # "none"
     /\ \/ r.met \/ r.p \in disturbed \/ product[r.p].is = "gone"
        \/ Or(r.default, product[r.p].default) \in Or(r.styles, product[r.p].styles) \cup {Blank}

ProductsOK ==
  /\ \A p \in Product : product[p].is = "there" =>
       /\ product[p].styles # {}
       /\ product[p].default # None
       /\ p \notin disturbed => product[p].default \in product[p].styles \cup {Blank}
  /\ \A q \in Request : req[q].at \in {"categories", "set"} => UpdateOK(req[q])

\* Its product will name the categories it holds.
Brings(r) == r.at = "insert" \/ (r.at = "set" /\ r.slugs # None)

SlugsOK ==
  /\ CategoriesWereKnown
  /\ \A q \in Request : Brings(req[q]) => \A k \in req[q].slugs : slug[k] # "none"

IndInv == /\ TypeOK /\ ShapeOK /\ MeetOK /\ MadeOK /\ FabricsOK /\ DeletionsOK
          /\ ProductsOK /\ SlugsOK

-----------------------------------------------------------------------------
(* What the documents and requests are made of *)
Slot == [at : Place, met : BOOLEAN, f : Fabric \cup {None},
         c : FabricCategory \cup {None}, old : FabricCategory \cup {None},
         saw : SUBSET Fabric, p : Product \cup {None},
         styles : (SUBSET Style) \cup {None}, default : Style \cup {None, Blank},
         slugs : (SUBSET Slug) \cup {None}]
CategoryDoc == [is : {"none", "there", "gone"}, fabrics : SUBSET Fabric]
FabricDoc == [is : {"none", "live", "deleted"}, category : FabricCategory \cup {None}]
ProductDoc == [is : {"none", "there", "gone"}, styles : SUBSET Style,
               default : Style \cup {None, Blank}, slugs : SUBSET Slug]

LEMMA Types ==
    ASSUME TypeOK
    PROVE  /\ category \in [FabricCategory -> CategoryDoc]
           /\ fabric \in [Fabric -> FabricDoc]
           /\ product \in [Product -> ProductDoc]
           /\ req \in [Request -> Slot]
BY DEF TypeOK, Slot, CategoryDoc, FabricDoc, ProductDoc

LEMMA Fields ==
    ASSUME TypeOK, NEW q \in Request
    PROVE  /\ req[q] \in Slot
           /\ req[q].at \in Place
           /\ req[q].met \in BOOLEAN
           /\ req[q].f \in Fabric \cup {None}
           /\ req[q].c \in FabricCategory \cup {None}
           /\ req[q].old \in FabricCategory \cup {None}
           /\ req[q].saw \in SUBSET Fabric
           /\ req[q].p \in Product \cup {None}
           /\ req[q].styles \in (SUBSET Style) \cup {None}
           /\ req[q].default \in Style \cup {None, Blank}
           /\ req[q].slugs \in (SUBSET Slug) \cup {None}
<1>1. req[q] \in Slot BY Types
<1> QED BY <1>1, Zenon DEF Slot

LEMMA SlotStep ==
    ASSUME TypeOK, NEW q \in Request, NEW r \in Slot, req' = [req EXCEPT ![q] = r]
    PROVE  /\ req' \in [Request -> Slot]
           /\ req'[q] = r
           /\ \A o \in Request \ {q} : req'[o] = req[o]
BY Types, Zenon

LEMMA IdleSlot == Idle \in Slot BY DEF Idle, Slot, Place

\* Another place.
LEMMA AtSlot ==
    ASSUME NEW r \in Slot, NEW place \in Place
    PROVE  /\ [r EXCEPT !.at = place] \in Slot
           /\ [r EXCEPT !.at = place].at = place
           /\ [r EXCEPT !.at = place].met = r.met
           /\ [r EXCEPT !.at = place].f = r.f
           /\ [r EXCEPT !.at = place].c = r.c
           /\ [r EXCEPT !.at = place].old = r.old
           /\ [r EXCEPT !.at = place].saw = r.saw
           /\ [r EXCEPT !.at = place].p = r.p
           /\ [r EXCEPT !.at = place].styles = r.styles
           /\ [r EXCEPT !.at = place].default = r.default
           /\ [r EXCEPT !.at = place].slugs = r.slugs
BY Zenon DEF Slot

-----------------------------------------------------------------------------
(* A request takes its next step *)

\* The request s is r as far as the invariant tells, or r when it has met another.
Kept(r, s) ==
  /\ s.at = r.at /\ s.f = r.f /\ s.c = r.c /\ s.old = r.old /\ s.saw = r.saw
  /\ s.p = r.p /\ s.styles = r.styles /\ s.default = r.default /\ s.slugs = r.slugs
  /\ r.met => s.met

\* A step of q alone leaves the requests in order.
Turned(q) ==
  /\ req' \in [Request -> Slot]
  /\ ShapeOK' /\ MeetOK'
  /\ Active' \subseteq Active
  /\ \A o \in Request \ {q} : req'[o] = req[o] /\ Kept(req[o], req'[o])

\* The step of a request that was in flight: it ends, or goes on with its documents
\* and those nobody else names.
LEMMA Turn ==
    ASSUME TypeOK, ShapeOK, MeetOK, NEW q \in Active, NEW r \in Slot, Holds(r),
           req' = [req EXCEPT ![q] = r],
           \/ r.at = "idle"
           \/ /\ r.met = req[q].met
              /\ \A d \in Docs(r) : \/ d \in Docs(req[q])
                                    \/ \A o \in Active \ {q} : d \notin Docs(req[o])
    PROVE  Turned(q) /\ req'[q] = r
<1>1. q \in Request BY DEF Active
<1>2. /\ req' \in [Request -> Slot]
      /\ req'[q] = r
      /\ \A o \in Request \ {q} : req'[o] = req[o]
  BY <1>1, SlotStep
<1>3. ShapeOK' BY <1>2 DEF ShapeOK
<1>4. Active' \subseteq Active BY <1>2 DEF Active
<1>5. ASSUME NEW o \in Active', NEW k \in Active', o # k,
             Docs(req'[o]) \cap Docs(req'[k]) # {}
      PROVE  req'[k].met
  <2>1. o \in Active /\ k \in Active BY <1>4
  <2>2. o \in Request /\ k \in Request BY DEF Active
  <2>3. CASE o # q /\ k # q BY <1>2, <1>5, <2>1, <2>2, <2>3 DEF MeetOK
  <2>4. PICK d : d \in Docs(req'[o]) /\ d \in Docs(req'[k]) BY <1>5
  <2>5. CASE o = q
    <3>1. r.at # "idle" BY <1>2, <2>5 DEF Active
    <3>2. d \in Docs(r) /\ d \in Docs(req[k]) BY <1>2, <1>5, <2>2, <2>4, <2>5
    <3>3. d \in Docs(req[q]) BY <1>5, <2>1, <2>5, <3>1, <3>2
    <3>4. Docs(req[q]) \cap Docs(req[k]) # {} BY <3>2, <3>3
    <3>5. req[k].met BY <1>5, <2>1, <2>5, <3>4 DEF MeetOK
    <3> QED BY <1>2, <1>5, <2>2, <2>5, <3>5
  <2>6. CASE k = q
    <3>1. r.at # "idle" BY <1>2, <2>6 DEF Active
    <3>2. d \in Docs(r) /\ d \in Docs(req[o]) BY <1>2, <1>5, <2>2, <2>4, <2>6
    <3>3. d \in Docs(req[q]) BY <1>5, <2>1, <2>6, <3>1, <3>2
    <3>4. Docs(req[o]) \cap Docs(req[q]) # {} BY <3>2, <3>3
    <3>5. req[q].met BY <1>5, <2>1, <2>6, <3>4 DEF MeetOK
    <3> QED BY <1>2, <2>6, <3>1, <3>5
  <2> QED BY <2>3, <2>5, <2>6
<1>6. MeetOK' BY <1>5 DEF MeetOK
<1>7. \A o \in Request \ {q} : Kept(req[o], req'[o]) BY <1>2 DEF Kept
<1> QED BY <1>2, <1>3, <1>4, <1>6, <1>7 DEF Turned

\* Products when nothing is written to them.
LEMMA ProductsKept ==
    ASSUME TypeOK, ProductsOK, SlugsOK, UNCHANGED productDocs,
           disturbed \subseteq disturbed',
           \A o \in Request : \/ Kept(req[o], req'[o])
                              \/ req'[o].at \notin {"insert", "categories", "set"}
    PROVE  ProductsOK' /\ SlugsOK'
<1>0. UNCHANGED <<slug, product>> BY DEF productDocs
<1>1. \A p \in Product : product[p].is = "there" =>
       /\ product[p].styles # {}
       /\ product[p].default # None
       /\ p \notin disturbed' => product[p].default \in product[p].styles \cup {Blank}
  BY DEF ProductsOK
<1>2. ASSUME NEW o \in Request, req'[o].at \in {"categories", "set"}
      PROVE  UpdateOK(req[o])'
  <2>1. Kept(req[o], req'[o]) BY <1>2
  <2>2. UpdateOK(req[o]) BY <1>2, <2>1 DEF ProductsOK, Kept
  <2> QED BY <1>0, <2>1, <2>2 DEF UpdateOK, Kept, Or
<1>3. ProductsOK' BY <1>0, <1>1, <1>2 DEF ProductsOK
<1>4. CategoriesWereKnown' BY <1>0 DEF SlugsOK, CategoriesWereKnown
<1>5. ASSUME NEW o \in Request, Brings(req'[o]),
             NEW k \in req'[o].slugs
      PROVE  slug'[k] # "none"
  BY <1>0, <1>5 DEF SlugsOK, Kept, Brings
<1> QED BY <1>3, <1>4, <1>5 DEF SlugsOK

\* A fabric whose requests stay where they are.
LEMMA SameMovers ==
    ASSUME NEW f \in Fabric, f \in disturbed \/ FabricOK(f),
           TypeOK, ShapeOK,
           disturbed \subseteq disturbed',
           fabric'[f].category = fabric[f].category,
           fabric'[f].is = "live" => fabric[f].is = "live",
           \A c \in FabricCategory : Listed(c, f)' <=> Listed(c, f),
           Movers(f)' = Movers(f),
           \A o \in Movers(f) : /\ Kept(req[o], req'[o])
                                /\ There(req[o].c) => There(req[o].c)' \/ req[o].met
    PROVE  f \in disturbed' \/ FabricOK(f)'
<1> SUFFICES ASSUME FabricOK(f) PROVE FabricOK(f)'
  OBVIOUS
<1>1. Movers(f)' = Movers(f) OBVIOUS
<1>2. \A c : ListedOnlyIn(c, f) => ListedOnlyIn(c, f)' BY DEF ListedOnlyIn
<1>3. Unlisted(f) => Unlisted(f)' BY DEF Unlisted
<1>4. ASSUME NEW o \in Movers(f)'
      PROVE  NameKnown(req[o])' /\ (req'[o].met \/ MoveOK(req[o])')
  <2>1. o \in Request /\ o \in Movers(f) /\ req[o].f = f
    BY <1>1, <1>4 DEF Movers
  <2>2. Kept(req[o], req'[o]) BY <2>1
  <2>3. NameKnown(req[o]) /\ (req[o].met \/ MoveOK(req[o])) BY <2>1 DEF FabricOK
  <2>4. NameKnown(req[o])' BY <2>1, <2>2, <2>3 DEF NameKnown, Kept
  <2>5. CASE req[o].met BY <2>2, <2>4, <2>5 DEF Kept
  <2>6. CASE ~req[o].met /\ MoveOK(req[o])
    <3>1. There(req[o].c) => There(req[o].c)' BY <2>1, <2>6
    <3>3. Holds(req[o]) BY <2>1 DEF ShapeOK
    <3>4. req[o].at = "write" => req[o].c \in FabricCategory
      BY <2>1, Fields DEF Movers, Moves
    <3>5. MoveOK(req[o])'
      BY <1>2, <1>3, <2>1, <2>2, <2>6, <3>1, <3>4 DEF MoveOK, Kept
    <3> QED BY <2>4, <3>5
  <2> QED BY <2>3, <2>5, <2>6
<1>5. Movers(f) = {} => Agrees(f)'
  <2>1. SUFFICES ASSUME Movers(f) = {} PROVE Agrees(f)' OBVIOUS
  <2>2. Agrees(f) BY <2>1 DEF FabricOK
  <2>3. fabric[f].is = "live" => fabric[f].category \in FabricCategory
    BY DEF TypeOK
  <2> QED BY <1>2, <2>2, <2>3 DEF Agrees
<1> QED BY <1>1, <1>4, <1>5 DEF FabricOK

\* A fabric that neither q nor the step of q is about.
LEMMA FabricKept ==
    ASSUME NEW q \in Request, NEW f \in Fabric, f \in disturbed \/ FabricOK(f),
           TypeOK, ShapeOK,
           disturbed \subseteq disturbed',
           fabric'[f].category = fabric[f].category,
           fabric'[f].is = "live" => fabric[f].is = "live",
           \A c \in FabricCategory : Listed(c, f)' <=> Listed(c, f),
           \A o \in Request \ {q} : /\ Kept(req[o], req'[o])
                                    /\ There(req[o].c) => There(req[o].c)' \/ req[o].met,
           q \notin Movers(f), q \notin Movers(f)'
    PROVE  f \in disturbed' \/ FabricOK(f)'
<1>1. Movers(f)' = Movers(f) BY DEF Movers, Moves, Kept
<1>2. \A o \in Movers(f) : o \in Request \ {q} BY DEF Movers
<1> QED BY <1>1, <1>2, SameMovers

\* Deletions of categories that the step of q says nothing new to.
LEMMA DeletionsKept ==
    ASSUME NEW q \in Request, DeletionsOK, disturbed \subseteq disturbed',
           req'[q].met \/ req'[q].at \notin {"softDelete", "remove"},
           \A o \in Request \ {q} : Kept(req[o], req'[o]),
           \A f \in Fabric \ disturbed' : fabric'[f].is = "live" =>
             \/ fabric[f].is = "live" /\ fabric'[f].category = fabric[f].category
             \/ \A o \in Active \ {q} : req[o].c = fabric'[f].category => req[o].met
    PROVE  DeletionsOK'
<1> SUFFICES ASSUME NEW o \in Request, ~req'[o].met, NEW f \in Fabric, f \notin disturbed',
                    fabric'[f].is = "live", fabric'[f].category = req'[o].c
             PROVE  /\ req'[o].at = "softDelete" => f \in req'[o].saw
                    /\ req'[o].at # "remove"
  BY DEF DeletionsOK
<1>1. CASE o = q BY <1>1
<1>2. CASE o # q
  <2>1. Kept(req[o], req'[o]) BY <1>2
  <2>2. ~req[o].met /\ req[o].c = req'[o].c /\ req[o].at = req'[o].at /\ req[o].saw = req'[o].saw
    BY <2>1 DEF Kept
  <2>3. CASE req[o].at = "idle" BY <2>2, <2>3
  <2>4. CASE o \in Active
    <3>1. fabric[f].is = "live" /\ fabric'[f].category = fabric[f].category
      BY <1>2, <2>2, <2>4
    <3> QED BY <2>2, <3>1 DEF DeletionsOK
  <2> QED BY <2>3, <2>4 DEF Active
<1> QED BY <1>1, <1>2

\* Nobody else is at work on the documents of a request that met none.
LEMMA Alone ==
    ASSUME TypeOK, ShapeOK, MeetOK, NEW q \in Active, ~req[q].met
    PROVE  /\ \A o \in Active \ {q} : \A d \in Docs(req[q]) : d \notin Docs(req[o])
           /\ \A f \in Fabric : req[q].f = f => Movers(f) \subseteq {q}
<1>1. \A o \in Active \ {q} : Docs(req[o]) \cap Docs(req[q]) = {} BY DEF MeetOK
<1>2. ASSUME NEW f \in Fabric, req[q].f = f, NEW o \in Movers(f) PROVE o = q
  <2>1. o \in Active /\ req[o].f = f BY DEF Movers, Moves, Active
  <2>2. f # None BY NoneAssumption
  <2>3. f \in Docs(req[o]) /\ f \in Docs(req[q]) BY <1>2, <2>1, <2>2 DEF Docs
  <2> QED BY <1>1, <2>1, <2>3
<1> QED BY <1>1, <1>2

-----------------------------------------------------------------------------
(* A request begins *)

LEMMA MeetSlot ==
    ASSUME NEW r \in Slot, NEW b \in BOOLEAN
    PROVE  /\ [r EXCEPT !.met = b] \in Slot
           /\ [r EXCEPT !.met = b].met = b
           /\ [r EXCEPT !.met = b].at = r.at
           /\ [r EXCEPT !.met = b].f = r.f
           /\ [r EXCEPT !.met = b].c = r.c
           /\ [r EXCEPT !.met = b].old = r.old
           /\ [r EXCEPT !.met = b].saw = r.saw
           /\ [r EXCEPT !.met = b].p = r.p
           /\ [r EXCEPT !.met = b].styles = r.styles
           /\ [r EXCEPT !.met = b].default = r.default
           /\ [r EXCEPT !.met = b].slugs = r.slugs
BY Zenon DEF Slot

LEMMA BeginStep ==
    ASSUME TypeOK, ShapeOK, MeetOK, NEW q \in Request, NEW r \in Slot, r.met = FALSE,
           Holds(r), Begin(q, r)
    PROVE  /\ req' \in [Request -> Slot]
           /\ \A o \in Request \ {q} : Kept(req[o], req'[o])
           /\ Kept(r, req'[q])
           /\ \A o \in Active : o # q
           /\ \A o \in Active : Docs(req[o]) \cap Docs(r) # {} => req'[o].met /\ req'[q].met
           /\ ShapeOK'
           /\ MeetOK'
<1> DEFINE others == {o \in Active : Docs(req[o]) \cap Docs(r) # {}}
           new == [r EXCEPT !.met = (others # {})]
           met(o) == [req[o] EXCEPT !.met = TRUE]
           next(o) == IF o = q THEN new ELSE IF o \in others THEN met(o) ELSE req[o]
<1>1. /\ req[q].at = "idle"
      /\ req' = [o \in Request |-> next(o)]
  BY DEF Begin
<1>2. \A o \in Active : o # q BY <1>1 DEF Active
<1>3. Kept(r, new) /\ new \in Slot /\ new.met = (others # {})
  <2>1. (others # {}) \in BOOLEAN OBVIOUS
  <2> HIDE DEF others
  <2> QED BY <2>1, MeetSlot DEF Kept
<1>4. \A o \in Request : Kept(req[o], met(o)) /\ met(o) \in Slot /\ met(o).met = TRUE
  <2>1. SUFFICES ASSUME NEW o \in Request
                 PROVE  Kept(req[o], met(o)) /\ met(o) \in Slot /\ met(o).met = TRUE
    OBVIOUS
  <2>2. req[o] \in Slot BY Fields
  <2> QED BY <2>2, MeetSlot DEF Kept
<1>5. \A o \in Request : req[o] \in Slot /\ Kept(req[o], req[o]) BY Fields DEF Kept
<1> HIDE DEF new, met
<1>6. \A o \in Request : req'[o] = next(o) BY <1>1
<1>7. /\ req'[q] = new
      /\ \A o \in Request \ {q} : req'[o] = IF o \in others THEN met(o) ELSE req[o]
  BY <1>6
<1>8. \A o \in Request : next(o) \in Slot BY <1>3, <1>4, <1>5
<1>9. req' \in [Request -> Slot] BY <1>1, <1>8
<1>10. \A o \in Request \ {q} : Kept(req[o], req'[o]) BY <1>4, <1>5, <1>7
<1>11. Kept(r, req'[q]) BY <1>3, <1>7
<1>12. ASSUME NEW o \in Active, Docs(req[o]) \cap Docs(r) # {}
       PROVE  req'[o].met /\ req'[q].met
  <2>1. o \in others /\ o \in Request \ {q} BY <1>2, <1>12 DEF Active
  <2>2. req'[o] = met(o) BY <1>7, <2>1
  <2> QED BY <1>3, <1>4, <1>7, <2>1, <2>2
<1> HIDE DEF others
<1>13. ShapeOK' BY <1>10, <1>11 DEF ShapeOK, Holds, Kept
<1>14. \A o \in Request \ {q} : Docs(req'[o]) = Docs(req[o]) BY <1>10 DEF Docs, Kept
<1>15. Docs(req'[q]) = Docs(r) BY <1>11 DEF Docs, Kept
<1>16. \A o \in Active' : o # q => o \in Active BY <1>10 DEF Active, Kept
<1>17. ASSUME NEW o \in Active', NEW k \in Active', o # k,
              Docs(req'[o]) \cap Docs(req'[k]) # {}
       PROVE  req'[k].met
  <2>1. o \in Request /\ k \in Request BY DEF Active
  <2>2. CASE o # q /\ k # q
    <3>1. req[k].met BY <1>14, <1>16, <1>17, <2>1, <2>2 DEF MeetOK
    <3> QED BY <1>10, <2>1, <2>2, <3>1 DEF Kept
  <2>3. CASE o = q
    <3>1. k \in Active /\ Docs(req[k]) \cap Docs(r) # {} BY <1>14, <1>15, <1>16, <1>17, <2>1, <2>3
    <3> QED BY <1>12, <3>1
  <2>4. CASE k = q
    <3>1. o \in Active /\ Docs(req[o]) \cap Docs(r) # {} BY <1>14, <1>15, <1>16, <1>17, <2>1, <2>4
    <3> QED BY <1>12, <2>4, <3>1
  <2> QED BY <2>2, <2>3, <2>4
<1>18. MeetOK' BY <1>17 DEF MeetOK
<1> QED BY <1>2, <1>9, <1>10, <1>11, <1>12, <1>13, <1>18

\* What makes the beginning of a request safe.
LEMMA Begins ==
    ASSUME IndInv, NEW q \in Request, NEW r \in Slot, r.met = FALSE, Holds(r), Begin(q, r),
           r.f # None => fabric[r.f].is # "none",
           \A f \in r.saw : fabric[f].is # "none",
           Moves(r) => NameKnown(r) /\ (Agrees(r.f) => MoveOK(r)),
           r.at = "softDelete" => r.saw = category[r.c].fabrics,
           r.at = "remove" => category[r.c].fabrics = {},
           r.at \in {"categories", "set"} => UpdateOK(r),
           Brings(r) => \A k \in r.slugs : slug[k] # "none"
    PROVE  IndInv'
<1>1. /\ req' \in [Request -> Slot]
      /\ \A o \in Request \ {q} : Kept(req[o], req'[o])
      /\ Kept(r, req'[q])
      /\ \A o \in Active : o # q
      /\ \A o \in Active : Docs(req[o]) \cap Docs(r) # {} => req'[o].met /\ req'[q].met
      /\ ShapeOK' /\ MeetOK'
  BY BeginStep DEF IndInv
<1>2. UNCHANGED <<category, fabric, slug, product, disturbed>>
  BY DEF Begin, fabricDocs, productDocs
<1>3. TypeOK' BY <1>1, <1>2 DEF IndInv, TypeOK, Slot
<1>4. \A o \in Active' : o # q => o \in Active BY <1>1 DEF Active, Kept
<1>5. MadeOK'
  <2>1. \A o \in Active' : /\ req'[o].f # None => fabric[req'[o].f].is # "none"
                           /\ \A f \in req'[o].saw : fabric[f].is # "none"
    BY <1>1, <1>4 DEF IndInv, MadeOK, Kept, Active
  <2> QED BY <1>2, <2>1 DEF IndInv, MadeOK
<1>6. ASSUME NEW f \in Fabric PROVE f \in disturbed' \/ FabricOK(f)'
  <2>1. f \in disturbed \/ FabricOK(f) BY DEF IndInv, FabricsOK
  <2>2. q \notin Movers(f) BY <1>1 DEF Movers, Moves, Active
  <2>3. CASE q \notin Movers(f)'
    <3>1. \A o \in Request \ {q} : There(req[o].c) => There(req[o].c)'
      BY <1>1, <1>2 DEF There, Kept
    <3>2. \A c \in FabricCategory : Listed(c, f)' <=> Listed(c, f) BY <1>2 DEF Listed
    <3> QED BY <1>1, <1>2, <2>1, <2>2, <2>3, <3>1, <3>2, FabricKept DEF IndInv
  <2>4. CASE q \in Movers(f)' /\ FabricOK(f)
    <3>1. Moves(r) /\ r.f = f BY <1>1, <2>4 DEF Movers, Moves, Kept
    <3>2. f \in Docs(r) BY <3>1, NoneAssumption DEF Docs
    <3>3. ASSUME NEW o \in Movers(f)' PROVE NameKnown(req[o])' /\ (req'[o].met \/ MoveOK(req[o])')
      <4>1. CASE o = q
        <5>1. NameKnown(req[o])' BY <1>1, <1>2, <3>1, <4>1 DEF NameKnown, Kept
        <5>2. CASE Movers(f) = {}
          <6>1. MoveOK(r) BY <2>4, <3>1, <5>2 DEF FabricOK
          <6>2. MoveOK(req[o])'
            BY <1>1, <1>2, <4>1, <6>1 DEF MoveOK, There, ListedOnlyIn, Unlisted, Listed, Kept
          <6> QED BY <5>1, <6>2
        <5>3. CASE Movers(f) # {}
          <6>1. PICK k : k \in Movers(f) BY <5>3
          <6>2. k \in Active /\ req[k].f = f BY <6>1 DEF Movers, Moves, Active
          <6>3. f \in Docs(req[k]) BY <6>2, NoneAssumption DEF Docs
          <6> QED BY <1>1, <3>2, <4>1, <5>1, <6>2, <6>3
        <5> QED BY <5>2, <5>3
      <4>2. CASE o # q
        <5>1. o \in Request /\ Kept(req[o], req'[o]) BY <1>1, <3>3, <4>2 DEF Movers
        <5>2. o \in Movers(f) /\ o \in Active /\ req[o].f = f
          BY <3>3, <5>1 DEF Movers, Moves, Kept, Active
        <5>3. NameKnown(req[o])' BY <1>2, <2>4, <5>1, <5>2 DEF FabricOK, NameKnown, Kept
        <5>4. f \in Docs(req[o]) BY <5>2, NoneAssumption DEF Docs
        <5> QED BY <1>1, <3>2, <5>2, <5>3, <5>4
      <4> QED BY <4>1, <4>2
    <3> QED BY <2>4, <3>3 DEF FabricOK
  <2> QED BY <1>2, <2>1, <2>3, <2>4
<1>7. FabricsOK' BY <1>6 DEF FabricsOK
<1>8. DeletionsOK'
  <2> SUFFICES ASSUME NEW o \in Request, ~req'[o].met, NEW f \in Fabric, f \notin disturbed,
                      fabric[f].is = "live", fabric[f].category = req'[o].c
               PROVE  /\ req'[o].at = "softDelete" => f \in req'[o].saw
                      /\ req'[o].at # "remove"
    BY <1>2 DEF DeletionsOK
  <2>1. CASE o # q
    <3>1. Kept(req[o], req'[o]) /\ ~req[o].met BY <1>1, <2>1 DEF Kept
    <3> QED BY <3>1 DEF Kept, IndInv, DeletionsOK
  <2>2. CASE o = q
    <3>1. req'[q].at = r.at /\ req'[q].c = r.c /\ req'[q].saw = r.saw BY <1>1 DEF Kept
    <3>2. r.c # None BY <2>2, <3>1 DEF IndInv, TypeOK
    <3>3. FabricOK(f) BY DEF IndInv, FabricsOK
    <3>4. ASSUME NEW k \in Movers(f) PROVE FALSE
      <4>1. k \in Active /\ req[k].f = f BY DEF Movers, Moves, Active
      <4>2. r.c = IF req[k].old = None THEN req[k].c ELSE req[k].old
        BY <2>2, <3>1, <3>3, <4>1 DEF FabricOK, NameKnown
      <4>3. r.c \in Docs(req[k]) /\ r.c \in Docs(r) BY <3>2, <4>2 DEF Docs
      <4> QED BY <1>1, <2>2, <4>1, <4>3
    <3>5. Agrees(f) BY <3>3, <3>4 DEF FabricOK
    <3>6. f \in category[r.c].fabrics BY <2>2, <3>1, <3>5 DEF Agrees, Listed
    <3> QED BY <2>2, <3>1, <3>6
  <2> QED BY <2>1, <2>2
<1>9. ProductsOK'
  <2>1. ASSUME NEW o \in Request, req'[o].at \in {"categories", "set"}
        PROVE  UpdateOK(req[o])'
    <3>1. CASE o = q BY <1>1, <1>2, <2>1, <3>1 DEF UpdateOK, Kept, Or
    <3>2. CASE o # q
      <4>1. Kept(req[o], req'[o]) BY <1>1, <3>2
      <4>2. UpdateOK(req[o]) BY <2>1, <4>1 DEF IndInv, ProductsOK, Kept
      <4> QED BY <1>2, <4>1, <4>2 DEF UpdateOK, Kept, Or
    <3> QED BY <3>1, <3>2
  <2> QED BY <1>2, <2>1 DEF IndInv, ProductsOK
<1>10. SlugsOK'
  <2>1. ASSUME NEW o \in Request, Brings(req'[o]),
               NEW k \in req'[o].slugs
        PROVE  slug[k] # "none"
    <3>1. CASE o = q BY <1>1, <2>1, <3>1 DEF Kept, Brings
    <3>2. CASE o # q
      <4>1. Kept(req[o], req'[o]) BY <1>1, <3>2
      <4> QED BY <2>1, <4>1 DEF IndInv, SlugsOK, Kept, Brings
    <3> QED BY <3>1, <3>2
  <2> QED BY <1>2, <2>1 DEF IndInv, SlugsOK, CategoriesWereKnown
<1> QED BY <1>1, <1>3, <1>5, <1>7, <1>8, <1>9, <1>10 DEF IndInv

-----------------------------------------------------------------------------
(* The steps of requests on fabrics and their categories *)

LEMMA IdleHolds == Holds(Idle) /\ Idle.at = "idle" /\ ~Moves(Idle)
BY DEF Holds, Idle, Moves

LEMMA Ends ==
    ASSUME IndInv, NEW q \in Active, End(q)
    PROVE  Turned(q) /\ req'[q] = Idle
<1>1. req' = [req EXCEPT ![q] = Idle] BY DEF End
<1> QED BY <1>1, Turn, IdleSlot, IdleHolds DEF IndInv

LEMMA Goes ==
    ASSUME IndInv, NEW q \in Active, NEW place \in Place, Goto(q, place),
           \A r \in Slot : r.at = place /\ r.f = req[q].f /\ r.c = req[q].c /\ r.old = req[q].old
                             /\ r.p = req[q].p /\ r.styles = req[q].styles
                             /\ r.default = req[q].default => Holds(r)
    PROVE  /\ Turned(q)
           /\ req'[q].at = place
           /\ req'[q].met = req[q].met
           /\ req'[q].f = req[q].f /\ req'[q].c = req[q].c /\ req'[q].old = req[q].old
           /\ req'[q].saw = req[q].saw /\ req'[q].p = req[q].p
           /\ req'[q].styles = req[q].styles /\ req'[q].default = req[q].default
           /\ req'[q].slugs = req[q].slugs
<1> DEFINE r == [req[q] EXCEPT !.at = place]
<1>1. req[q] \in Slot BY Fields DEF IndInv, Active
<1>2. /\ r \in Slot /\ r.at = place /\ r.met = req[q].met
      /\ r.f = req[q].f /\ r.c = req[q].c /\ r.old = req[q].old /\ r.saw = req[q].saw
      /\ r.p = req[q].p /\ r.styles = req[q].styles /\ r.default = req[q].default
      /\ r.slugs = req[q].slugs
  BY <1>1, AtSlot
<1>3. req' = [req EXCEPT ![q] = r] BY DEF Goto
<1> HIDE DEF r
<1>4. Holds(r) BY <1>2
<1>5. Docs(r) = Docs(req[q]) BY <1>2 DEF Docs
<1> QED BY <1>2, <1>3, <1>4, <1>5, Turn DEF IndInv

LEMMA Lists ==
    ASSUME TypeOK, MadeOK, NEW c \in FabricCategory \cup {None}, NEW f \in Fabric
    PROVE  /\ List(c, f) \in [FabricCategory -> CategoryDoc]
           /\ Unlist(c, f) \in [FabricCategory -> CategoryDoc]
           /\ \A d \in FabricCategory :
                /\ List(c, f)[d].is = category[d].is
                /\ Unlist(c, f)[d].is = category[d].is
                /\ \A e : e \in List(c, f)[d].fabrics <=>
                            e \in category[d].fabrics \/ (e = f /\ d = c /\ There(c))
                /\ \A e : e \in Unlist(c, f)[d].fabrics <=>
                            e \in category[d].fabrics /\ ~(e = f /\ d = c)
<1>1. category \in [FabricCategory -> CategoryDoc] BY Types
<1>2. CASE There(c)
  <2>1. c \in FabricCategory BY <1>2 DEF There
  <2>2. List(c, f) = [category EXCEPT ![c].fabrics = category[c].fabrics \cup {f}]
    BY <1>2 DEF List
  <2>3. Unlist(c, f) = [category EXCEPT ![c].fabrics = category[c].fabrics \ {f}]
    BY <1>2 DEF Unlist
  <2> QED BY <1>1, <1>2, <2>1, <2>2, <2>3 DEF CategoryDoc
<1>3. CASE ~There(c)
  <2>1. List(c, f) = category /\ Unlist(c, f) = category BY <1>3 DEF List, Unlist
  <2>2. c \in FabricCategory => category[c].fabrics = {}
    BY <1>3, NoneAssumption DEF MadeOK, There
  <2> QED BY <1>1, <1>3, <2>1, <2>2
<1> QED BY <1>2, <1>3

LEMMA ConcernsType ==
    ASSUME TypeOK, ShapeOK, NEW q \in Request
    PROVE  Concerns(q) \subseteq Fabric \cup Product
<1>1. /\ req[q].f \in Fabric \cup {None} /\ req[q].p \in Product \cup {None}
      /\ req[q].c \in FabricCategory \cup {None} /\ req[q].saw \subseteq Fabric
  BY Fields
<1>2. CASE req[q].at \in {"softDelete", "remove"}
  <2>1. req[q].c \in FabricCategory BY <1>1, <1>2 DEF ShapeOK, Holds
  <2>2. category[req[q].c] \in CategoryDoc BY <2>1, Types
  <2>3. category[req[q].c].fabrics \subseteq Fabric BY <2>2 DEF CategoryDoc
  <2> QED BY <1>1, <1>2, <2>3 DEF Concerns
<1>3. CASE req[q].at \notin {"softDelete", "remove"} BY <1>1, <1>3 DEF Concerns
<1> QED BY <1>2, <1>3

\* A request that stops where it is.
LEMMA Stops ==
    ASSUME IndInv, NEW q \in Active, Stop(q)
    PROVE  IndInv'
<1>1. /\ req' \in [Request -> Slot]
      /\ ShapeOK' /\ MeetOK'
      /\ Active' \subseteq Active
      /\ req'[q] = Idle
      /\ \A o \in Request \ {q} : req'[o] = req[o] /\ Kept(req[o], req'[o])
  BY Ends DEF Stop, Turned
<1>2. UNCHANGED <<category, fabric, slug, product>> BY DEF Stop, fabricDocs, productDocs
<1>3. q \in Request /\ q \notin Active' BY <1>1, IdleHolds DEF Active
<1>4. disturbed \subseteq disturbed' /\ Concerns(q) \subseteq disturbed' BY DEF Stop
<1>5. TypeOK'
  <2>1. disturbed' \subseteq Fabric \cup Product
    BY <1>3, ConcernsType DEF Stop, IndInv, TypeOK
  <2>2. \A f \in Fabric : fabric[f].is # "none" => fabric[f].category # None
    BY DEF IndInv, TypeOK
  <2> QED BY <1>1, <1>2, <2>1, <2>2 DEF IndInv, TypeOK, Slot
<1>6. MadeOK'
  <2>1. \A o \in Active' : req'[o] = req[o] /\ o \in Active
    BY <1>1, <1>3 DEF Active
  <2> QED BY <1>2, <2>1 DEF IndInv, MadeOK
<1>7. ASSUME NEW f \in Fabric PROVE f \in disturbed' \/ FabricOK(f)'
  <2>1. f \in disturbed \/ FabricOK(f) BY DEF IndInv, FabricsOK
  <2>2. CASE f = req[q].f
    <3>1. f \in Concerns(q) BY <2>2, NoneAssumption DEF Concerns
    <3> QED BY <1>4, <3>1
  <2>3. CASE f # req[q].f
    <3>1. q \notin Movers(f) /\ q \notin Movers(f)'
      BY <1>1, <2>3, IdleHolds DEF Movers
    <3>2. \A o \in Request \ {q} : There(req[o].c) => There(req[o].c)'
      BY <1>1, <1>2 DEF There
    <3>3. \A c \in FabricCategory : Listed(c, f)' <=> Listed(c, f) BY <1>2 DEF Listed
    <3> QED BY <1>1, <1>2, <1>3, <1>4, <2>1, <3>1, <3>2, <3>3, FabricKept DEF IndInv
  <2> QED BY <2>2, <2>3
<1>8. FabricsOK' BY <1>7 DEF FabricsOK
<1>9. DeletionsOK'
  <2>1. req'[q].at \notin {"softDelete", "remove"} BY <1>1, IdleHolds
  <2> QED BY <1>1, <1>2, <1>3, <1>4, <2>1, DeletionsKept DEF IndInv
<1>10. ProductsOK' /\ SlugsOK'
  <2>1. \A o \in Request : \/ Kept(req[o], req'[o])
                           \/ req'[o].at \notin {"insert", "categories", "set"}
    BY <1>1, IdleHolds
  <2>2. UNCHANGED productDocs BY <1>2 DEF productDocs
  <2> QED BY <1>4, <2>1, <2>2, ProductsKept DEF IndInv
<1> QED BY <1>1, <1>5, <1>6, <1>8, <1>9, <1>10 DEF IndInv

LEMMA Disturbs ==
    ASSUME TypeOK, ShapeOK, NEW q \in Request, Disturb(q)
    PROVE  /\ disturbed \subseteq disturbed'
           /\ disturbed' \subseteq Fabric \cup Product
           /\ req[q].met => Concerns(q) \subseteq disturbed'
           /\ \A f \in Fabric : req[q].met /\ req[q].f = f => f \in disturbed'
           /\ \A p \in Product : req[q].met /\ req[q].p = p => p \in disturbed'
<1>1. Concerns(q) \subseteq Fabric \cup Product BY ConcernsType
<1>2. \A f \in Fabric \cup Product : f # None BY NoneAssumption
<1>3. \A f \in Fabric : req[q].f = f => f \in Concerns(q) BY <1>2 DEF Concerns
<1>4. \A p \in Product : req[q].p = p => p \in Concerns(q) BY <1>2 DEF Concerns
<1>5. disturbed \subseteq Fabric \cup Product BY DEF TypeOK
<1> HIDE DEF Concerns
<1> QED BY <1>1, <1>3, <1>4, <1>5 DEF Disturb

\* What is left to show of a step of a request on fabrics.
LEMMA FabricRequest ==
    ASSUME IndInv, NEW q \in Active, Turned(q), UNCHANGED productDocs,
           req'[q].at \notin {"insert", "categories", "set"},
           disturbed \subseteq disturbed', disturbed' \subseteq Fabric \cup Product,
           category' \in [FabricCategory -> CategoryDoc],
           fabric' \in [Fabric -> FabricDoc],
           \A f \in Fabric : /\ fabric[f].is # "none" => fabric'[f].is # "none"
                             /\ fabric'[f].is # "none" => fabric'[f].category # None,
           \A c \in FabricCategory : \A f \in category'[c].fabrics : fabric'[f].is # "none",
           \A c \in FabricCategory : category'[c].is # "there" => category'[c].fabrics = {},
           req'[q].f # None => fabric'[req'[q].f].is # "none",
           req'[q].saw \subseteq req[q].saw,
           FabricsOK', DeletionsOK'
    PROVE  IndInv'
<1>1. /\ req' \in [Request -> Slot]
      /\ Active' \subseteq Active
      /\ \A o \in Request \ {q} : req'[o] = req[o] /\ Kept(req[o], req'[o])
  BY DEF Turned
<1>2. UNCHANGED <<slug, product>> BY DEF productDocs
<1>3. TypeOK' BY <1>1, <1>2 DEF IndInv, TypeOK, Slot, CategoryDoc, FabricDoc
<1>4. ASSUME NEW o \in Active'
      PROVE  /\ req'[o].f # None => fabric'[req'[o].f].is # "none"
             /\ \A f \in req'[o].saw : fabric'[f].is # "none"
  <2>1. o \in Active /\ o \in Request BY <1>1 DEF Active
  <2>2. /\ req[o].f # None => fabric[req[o].f].is # "none"
        /\ \A f \in req[o].saw : fabric[f].is # "none"
    BY <2>1 DEF IndInv, MadeOK
  <2>3. req[o].saw \subseteq Fabric /\ req[o].f \in Fabric \cup {None}
    BY <2>1, Fields DEF IndInv
  <2>4. CASE o # q BY <1>1, <2>1, <2>2, <2>3, <2>4
  <2>5. CASE o = q BY <2>2, <2>3, <2>5
  <2> QED BY <2>4, <2>5
<1>5. MadeOK' BY <1>4 DEF MadeOK
<1>6. \A o \in Request : \/ Kept(req[o], req'[o])
                         \/ req'[o].at \notin {"insert", "categories", "set"}
  BY <1>1
<1>7. ProductsOK' /\ SlugsOK' BY <1>6, ProductsKept DEF IndInv
<1> QED BY <1>3, <1>5, <1>7 DEF IndInv, Turned

\* The fabric of a request that met none.
LEMMA OwnFabric ==
    ASSUME IndInv, NEW q \in Active, Turned(q), NEW f \in Fabric, req[q].f = f, ~req[q].met,
           req'[q].f = f \/ ~Moves(req'[q]),
           Moves(req'[q]) => NameKnown(req[q])' /\ MoveOK(req[q])',
           ~Moves(req'[q]) => Agrees(f)'
    PROVE  FabricOK(f)'
<1>1. Movers(f) \subseteq {q} BY Alone DEF IndInv
<1>2. \A o \in Request \ {q} : req'[o] = req[o] BY DEF Turned
<1>3. Movers(f)' \subseteq {q} BY <1>1, <1>2 DEF Movers
<1>4. q \in Request BY DEF Active
<1>5. Moves(req'[q]) => q \in Movers(f)' BY <1>4 DEF Movers
<1>6. ~Moves(req'[q]) => Movers(f)' = {} BY <1>3 DEF Movers
<1> QED BY <1>3, <1>5, <1>6 DEF FabricOK

\* A fabric is made: nobody else can name it yet.
LEMMA InsertFabricKeeps ==
    ASSUME IndInv, NEW q \in Request, NEW f \in Fabric, InsertFabric(q, f)
    PROVE  IndInv'
<1> DEFINE r == [[req[q] EXCEPT !.at = "push"] EXCEPT !.f = f]
<1>0. /\ q \in Active /\ req[q].at = "create" /\ fabric[f].is = "none"
      /\ UNCHANGED <<category, productDocs>>
  BY DEF InsertFabric, Active
<1>1. req[q] \in Slot BY Fields DEF IndInv
<1>2. /\ r \in Slot /\ r.at = "push" /\ r.met = req[q].met /\ r.f = f
      /\ r.c = req[q].c /\ r.old = req[q].old /\ r.saw = req[q].saw /\ r.p = req[q].p
  <2> DEFINE s == [req[q] EXCEPT !.at = "push"]
  <2>1. "push" \in Place BY DEF Place
  <2>2. /\ s \in Slot /\ s.at = "push" /\ s.met = req[q].met /\ s.f = req[q].f
        /\ s.c = req[q].c /\ s.old = req[q].old /\ s.saw = req[q].saw /\ s.p = req[q].p
    BY <1>1, <2>1, AtSlot
  <2> HIDE DEF s
  <2>3. LET t == [s EXCEPT !.f = f]
        IN  /\ t \in Slot /\ t.at = s.at /\ t.met = s.met /\ t.f = f
            /\ t.c = s.c /\ t.old = s.old /\ t.saw = s.saw /\ t.p = s.p
    BY <2>2, Zenon DEF Slot
  <2> QED BY <2>2, <2>3 DEF s
<1>3. req' = [req EXCEPT ![q] = r] BY DEF InsertFabric
<1> HIDE DEF r
<1>4. /\ req[q].c \in FabricCategory /\ req[q].old = None
  BY <1>0, Fields DEF IndInv, ShapeOK, Holds
<1>5. Holds(r) BY <1>2, <1>4, NoneAssumption DEF Holds
<1>6. \A o \in Active : f \notin Docs(req[o])
  <2> SUFFICES ASSUME NEW o \in Active, f \in Docs(req[o]) PROVE FALSE
    OBVIOUS
  <2>1. /\ req[o].f \in Fabric \cup {None} /\ req[o].p \in Product \cup {None}
        /\ req[o].c \in FabricCategory \cup {None} /\ req[o].old \in FabricCategory \cup {None}
    BY Fields DEF IndInv, Active
  <2>2. req[o].f # f BY <1>0, NoneAssumption DEF IndInv, MadeOK
  <2> QED BY <2>1, <2>2, NoneAssumption, ObjectIdAssumption DEF Docs
<1>7. \A d \in Docs(r) : d \in Docs(req[q]) \/ \A o \in Active \ {q} : d \notin Docs(req[o])
  BY <1>2, <1>6 DEF Docs
<1>8. Turned(q) /\ req'[q] = r BY <1>0, <1>2, <1>3, <1>5, <1>7, Turn DEF IndInv
<1>9. disturbed \subseteq disturbed' /\ disturbed' \subseteq Fabric \cup Product
  BY DEF InsertFabric, IndInv, TypeOK
<1>10. /\ fabric \in [Fabric -> FabricDoc]
       /\ category \in [FabricCategory -> CategoryDoc]
       /\ fabric' = [fabric EXCEPT ![f] = [is |-> "live", category |-> req[q].c]]
  BY Types DEF IndInv, InsertFabric
<1>11. /\ fabric' \in [Fabric -> FabricDoc]
       /\ fabric'[f].is = "live" /\ fabric'[f].category = req[q].c
       /\ \A g \in Fabric \ {f} : fabric'[g] = fabric[g]
  BY <1>4, <1>10 DEF FabricDoc
<1>12. \A g \in Fabric : /\ fabric[g].is # "none" => fabric'[g].is # "none"
                         /\ fabric'[g].is # "none" => fabric'[g].category # None
  BY <1>4, <1>11, NoneAssumption DEF IndInv, TypeOK
<1>13. \A o \in Request \ {q} : req'[o] = req[o] /\ Kept(req[o], req'[o]) BY <1>8 DEF Turned
<1>14. ASSUME NEW g \in Fabric PROVE g \in disturbed' \/ FabricOK(g)'
  <2>1. \A c \in FabricCategory : Listed(c, g)' <=> Listed(c, g) BY <1>0 DEF Listed
  <2>2. CASE g = f
    <3>1. Movers(f)' \subseteq {q}
      BY <1>6, <1>13, NoneAssumption DEF Movers, Moves, Active, Docs
    <3>2. q \in Movers(f)' BY <1>2, <1>8 DEF Movers, Moves
    <3>3. NameKnown(req[q])' BY <1>2, <1>4, <1>8, <1>11 DEF NameKnown
    <3>4. Unlisted(f)' BY <1>0, <2>1, <2>2 DEF Unlisted, Listed, IndInv, MadeOK
    <3>5. MoveOK(req[q])' BY <1>2, <1>8, <3>4 DEF MoveOK
    <3> QED BY <2>2, <3>1, <3>2, <3>3, <3>5 DEF FabricOK
  <2>3. CASE g # f
    <3>1. g \in disturbed \/ FabricOK(g) BY DEF IndInv, FabricsOK
    <3>2. q \notin Movers(g) /\ q \notin Movers(g)'
      BY <1>0, <1>2, <1>8, <2>3 DEF Movers, Moves
    <3>3. \A o \in Request \ {q} : There(req[o].c) => There(req[o].c)'
      BY <1>0, <1>13 DEF There
    <3> QED BY <1>9, <1>11, <1>13, <2>1, <2>3, <3>1, <3>2, <3>3, FabricKept DEF IndInv
  <2> QED BY <2>2, <2>3
<1>15. FabricsOK' BY <1>14 DEF FabricsOK
<1>16. DeletionsOK'
  <2>1. ASSUME NEW g \in Fabric \ disturbed', fabric'[g].is = "live"
        PROVE  \/ fabric[g].is = "live" /\ fabric'[g].category = fabric[g].category
               \/ \A o \in Active \ {q} : req[o].c = fabric'[g].category => req[o].met
    <3>1. CASE g # f BY <1>11, <2>1, <3>1
    <3>2. CASE g = f
      <4>1. ASSUME NEW o \in Active \ {q}, req[o].c = req[q].c PROVE req[o].met
        <5>1. req[q].c \in Docs(req[o]) /\ req[q].c \in Docs(req[q])
          BY <1>4, <4>1, NoneAssumption DEF Docs
        <5> QED BY <1>0, <5>1 DEF IndInv, MeetOK
      <4> QED BY <1>11, <3>2, <4>1
    <3> QED BY <3>1, <3>2
  <2>2. req'[q].at \notin {"softDelete", "remove"} BY <1>2, <1>8
  <2> QED BY <1>9, <1>13, <2>1, <2>2, DeletionsKept DEF IndInv
<1>17. /\ req'[q].at \notin {"insert", "categories", "set"}
       /\ req'[q].f = f /\ req'[q].saw = req[q].saw
  BY <1>2, <1>8
<1>18. /\ \A c \in FabricCategory : \A g \in category'[c].fabrics : fabric'[g].is # "none"
       /\ \A c \in FabricCategory : category'[c].is # "there" => category'[c].fabrics = {}
  <2>1. \A c \in FabricCategory : category[c].fabrics \subseteq Fabric BY <1>10 DEF CategoryDoc
  <2> QED BY <1>0, <1>12, <2>1 DEF IndInv, MadeOK
<1> QED
  BY <1>0, <1>8, <1>9, <1>10, <1>11, <1>12, <1>15, <1>16, <1>17, <1>18, FabricRequest

\* The other fabrics when the lists change for one.
LEMMA ListChange ==
    ASSUME IndInv, NEW q \in Active, Turned(q), NEW g \in Fabric, g # req[q].f,
           req'[q].f = req[q].f \/ ~Moves(req'[q]), fabric' = fabric,
           disturbed \subseteq disturbed',
           \A d \in FabricCategory : /\ category'[d].is = category[d].is
                                     /\ Listed(d, g)' <=> Listed(d, g)
    PROVE  g \in disturbed' \/ FabricOK(g)'
<1>1. g \in disturbed \/ FabricOK(g) BY DEF IndInv, FabricsOK
<1>2. \A o \in Request \ {q} : req'[o] = req[o] /\ Kept(req[o], req'[o]) BY DEF Turned
<1>3. q \in Request /\ q \notin Movers(g) /\ q \notin Movers(g)' BY DEF Movers, Active
<1>4. \A o \in Request \ {q} : There(req[o].c) => There(req[o].c)'
  <2>1. \A o \in Request : req[o].c \in FabricCategory \cup {None} BY Fields DEF IndInv
  <2> QED BY <1>2, <2>1 DEF There
<1> QED BY <1>1, <1>2, <1>3, <1>4, FabricKept DEF IndInv

\* The fabrics themselves are left alone, and a category lists only one more fabric
\* than before, which there is.
LEMMA ListRequest ==
    ASSUME IndInv, NEW q \in Active, Turned(q), UNCHANGED <<fabric, productDocs>>,
           req'[q].at \notin {"insert", "categories", "set", "softDelete", "remove"},
           disturbed \subseteq disturbed', disturbed' \subseteq Fabric \cup Product,
           category' \in [FabricCategory -> CategoryDoc],
           \A d \in FabricCategory :
             /\ category'[d].is = category[d].is
             /\ \A e \in Fabric : e \in category'[d].fabrics =>
                  e \in category[d].fabrics \/ (e = req[q].f /\ There(d)),
           req'[q].f = req[q].f \/ req'[q].f = None,
           req'[q].saw \subseteq req[q].saw,
           FabricsOK'
    PROVE  IndInv'
<1>1. fabric \in [Fabric -> FabricDoc] BY Types DEF IndInv
<1>2. q \in Request BY DEF Active
<1>3. \A o \in Request \ {q} : Kept(req[o], req'[o]) BY DEF Turned
<1>4. DeletionsOK' BY <1>2, <1>3, DeletionsKept DEF IndInv
<1>5. /\ \A f \in Fabric : fabric[f].is # "none" => fabric[f].category # None
      /\ req[q].f # None => fabric[req[q].f].is # "none"
  BY DEF IndInv, TypeOK, MadeOK
<1>6. \A c \in FabricCategory : category'[c].fabrics \subseteq Fabric BY DEF CategoryDoc
<1>7. \A c \in FabricCategory : \A f \in category'[c].fabrics : fabric[f].is # "none"
  BY <1>5, <1>6, NoneAssumption DEF IndInv, MadeOK
<1>8. \A c \in FabricCategory : category'[c].is # "there" => category'[c].fabrics = {}
  BY <1>6 DEF IndInv, MadeOK, There
<1> QED BY <1>1, <1>4, <1>5, <1>7, <1>8, FabricRequest

LEMMA PushFabricKeeps ==
    ASSUME IndInv, NEW q \in Request, PushFabric(q)
    PROVE  IndInv'
<1>1. q \in Active /\ req[q].at = "push" BY DEF PushFabric, Active
<1>2. CASE ~There(req[q].c) BY <1>1, <1>2, Stops DEF PushFabric
<1>3. CASE There(req[q].c)
  <2>0. /\ req[q].f \in Fabric /\ req[q].c \in FabricCategory /\ req[q].old = None
    BY <1>1, Fields, NoneAssumption DEF IndInv, ShapeOK, Holds
  <2>1. PICK f \in Fabric, c \in FabricCategory :
          req[q].f = f /\ req[q].c = c /\ req[q].old = None
    BY <2>0
  <2>2. /\ category' = List(c, f) /\ End(q) /\ Disturb(q) /\ UNCHANGED <<fabric, productDocs>>
    BY <1>3, <2>1 DEF PushFabric
  <2>3. Turned(q) /\ req'[q] = Idle BY <1>1, <2>2, Ends
  <2>4. /\ category' \in [FabricCategory -> CategoryDoc]
        /\ \A d \in FabricCategory :
             /\ category'[d].is = category[d].is
             /\ \A e : e \in category'[d].fabrics <=>
                         e \in category[d].fabrics \/ (e = f /\ d = c)
    BY <1>3, <2>1, <2>2, Lists DEF IndInv
  <2>5. /\ disturbed \subseteq disturbed' /\ disturbed' \subseteq Fabric \cup Product
        /\ req[q].met => f \in disturbed'
    BY <2>1, <2>2, Disturbs DEF IndInv
  <2>6. ASSUME NEW g \in Fabric PROVE g \in disturbed' \/ FabricOK(g)'
    <3>1. CASE g # f
      <4>1. \A d \in FabricCategory : Listed(d, g)' <=> Listed(d, g)
        BY <2>4, <3>1 DEF Listed
      <4> QED BY <1>1, <2>1, <2>2, <2>3, <2>4, <2>5, <3>1, <4>1, ListChange, IdleHolds
    <3>2. CASE g = f /\ ~req[q].met /\ FabricOK(f)
      <4>1. q \in Movers(f) BY <1>1, <2>1 DEF Movers, Moves
      <4>2. fabric[f].category = c /\ Unlisted(f)
        BY <1>1, <2>1, <3>2, <4>1 DEF FabricOK, NameKnown, MoveOK
      <4>3. Agrees(f)'
        BY <2>1, <2>2, <2>4, <4>2 DEF Agrees, Listed, ListedOnlyIn, Unlisted
      <4> QED BY <1>1, <2>1, <2>3, <3>2, <4>3, OwnFabric, IdleHolds
    <3>3. FabricOK(f) \/ f \in disturbed BY <2>1 DEF IndInv, FabricsOK
    <3> QED BY <2>5, <3>1, <3>2, <3>3
  <2>7. FabricsOK' BY <2>6 DEF FabricsOK
  <2>8. Idle.at \notin {"insert", "categories", "set", "softDelete", "remove"}
        /\ Idle.f = None /\ Idle.saw = {}
    BY DEF Idle
  <2> QED BY <1>1, <1>3, <2>1, <2>2, <2>3, <2>4, <2>5, <2>7, <2>8, ListRequest
<1> QED BY <1>2, <1>3

LEMMA PullFabricKeeps ==
    ASSUME IndInv, NEW q \in Request, PullFabric(q)
    PROVE  IndInv'
<1> DEFINE place == IF req[q].at = "pull" THEN "findNew" ELSE "save"
<1>0. /\ q \in Active /\ req[q].at \in {"pull", "unlist"}
      /\ req[q].f \in Fabric /\ req[q].old \in FabricCategory
  BY Fields, NoneAssumption DEF PullFabric, Active, IndInv, ShapeOK, Holds
<1>1. q \in Active /\ req[q].at \in {"pull", "unlist"} BY <1>0
<1>2. PICK f \in Fabric, c \in FabricCategory :
        req[q].f = f /\ req[q].old = c /\ Holds(req[q])
  BY <1>0 DEF IndInv, ShapeOK
<1>3. /\ category' = Unlist(c, f) /\ Goto(q, place) /\ Disturb(q)
      /\ UNCHANGED <<fabric, productDocs>>
  BY <1>2 DEF PullFabric
<1>4. place \in Place /\ place \in {"findNew", "save"} BY DEF Place
<1>5. \A r \in Slot : r.at = place /\ r.f = req[q].f /\ r.c = req[q].c /\ r.old = req[q].old
        => Holds(r)
  BY <1>1, <1>2, NoneAssumption DEF Holds
<1>6. /\ Turned(q) /\ req'[q].at = place /\ req'[q].met = req[q].met
      /\ req'[q].f = f /\ req'[q].c = req[q].c /\ req'[q].old = c /\ req'[q].saw = req[q].saw
  BY <1>1, <1>2, <1>3, <1>4, <1>5, Goes
<1> HIDE DEF place
<1>7. /\ category' \in [FabricCategory -> CategoryDoc]
      /\ \A d \in FabricCategory :
           /\ category'[d].is = category[d].is
           /\ \A e : e \in category'[d].fabrics <=>
                       e \in category[d].fabrics /\ ~(e = f /\ d = c)
  BY <1>2, <1>3, Lists DEF IndInv
<1>8. /\ disturbed \subseteq disturbed' /\ disturbed' \subseteq Fabric \cup Product
      /\ req[q].met => f \in disturbed'
  BY <1>2, <1>3, Disturbs DEF IndInv
<1>9. ASSUME NEW g \in Fabric PROVE g \in disturbed' \/ FabricOK(g)'
  <2>1. CASE g # f
    <3>1. \A d \in FabricCategory : Listed(d, g)' <=> Listed(d, g)
      BY <1>7, <2>1 DEF Listed
    <3> QED BY <1>1, <1>2, <1>3, <1>6, <1>7, <1>8, <2>1, <3>1, ListChange
  <2>2. CASE g = f /\ ~req[q].met /\ FabricOK(f)
    <3>1. q \in Movers(f) BY <1>1, <1>2 DEF Movers, Moves
    <3>2. fabric[f].category = c /\ ListedOnlyIn(c, f)
      BY <1>1, <1>2, <2>2, <3>1, NoneAssumption DEF FabricOK, NameKnown, MoveOK
    <3>3. Unlisted(f)' BY <1>7, <3>2 DEF Listed, ListedOnlyIn, Unlisted
    <3>4. MoveOK(req[q])' BY <1>4, <1>6, <3>3 DEF MoveOK
    <3>5. NameKnown(req[q])' BY <1>2, <1>3, <1>6, <3>2, NoneAssumption DEF NameKnown
    <3>6. Moves(req'[q]) BY <1>4, <1>6 DEF Moves
    <3> QED BY <1>1, <1>2, <1>6, <2>2, <3>4, <3>5, <3>6, OwnFabric
  <2>3. FabricOK(f) \/ f \in disturbed BY <1>2 DEF IndInv, FabricsOK
  <2> QED BY <1>8, <2>1, <2>2, <2>3
<1>10. FabricsOK' BY <1>9 DEF FabricsOK
<1> QED BY <1>1, <1>2, <1>3, <1>4, <1>6, <1>7, <1>8, <1>10, ListRequest

LEMMA FindNewCategoryKeeps ==
    ASSUME IndInv, NEW q \in Request, FindNewCategory(q)
    PROVE  IndInv'
<1>1. q \in Active /\ req[q].at = "findNew" BY DEF FindNewCategory, Active
<1>2. CASE ~There(req[q].c) BY <1>1, <1>2, Stops DEF FindNewCategory
<1>3. CASE There(req[q].c)
  <2>1. PICK f \in Fabric : req[q].f = f /\ Holds(req[q])
    BY <1>1, Fields, NoneAssumption DEF IndInv, ShapeOK, Holds
  <2>2. /\ Goto(q, "add")
        /\ UNCHANGED <<category, fabric, slug, product, disturbed>>
    BY <1>3 DEF FindNewCategory, fabricDocs, productDocs
  <2>3. "add" \in Place BY DEF Place
  <2>4. \A r \in Slot : r.at = "add" /\ r.f = req[q].f /\ r.c = req[q].c /\ r.old = req[q].old
          => Holds(r)
    BY <1>1, <2>1, NoneAssumption DEF Holds
  <2>5. /\ Turned(q) /\ req'[q].at = "add" /\ req'[q].met = req[q].met
        /\ req'[q].f = f /\ req'[q].c = req[q].c /\ req'[q].old = req[q].old
        /\ req'[q].saw = req[q].saw
    BY <1>1, <2>1, <2>2, <2>3, <2>4, Goes
  <2>6. category \in [FabricCategory -> CategoryDoc] /\ disturbed \subseteq Fabric \cup Product
    BY Types DEF IndInv, TypeOK
  <2>7. \A d \in FabricCategory, g \in Fabric : Listed(d, g)' <=> Listed(d, g)
    BY <2>2 DEF Listed
  <2>8. ASSUME NEW g \in Fabric PROVE g \in disturbed' \/ FabricOK(g)'
    <3>1. CASE g # f
      BY <1>1, <2>1, <2>2, <2>5, <2>7, <3>1, ListChange
    <3>2. CASE g = f /\ FabricOK(f)
      <4>1. q \in Movers(f) /\ Moves(req'[q]) BY <1>1, <2>1, <2>5 DEF Movers, Moves
      <4>2. NameKnown(req[q])' BY <2>2, <2>5, <2>1, <3>2, <4>1 DEF FabricOK, NameKnown
      <4>3. CASE ~req[q].met
        <5>1. Unlisted(f) BY <1>1, <2>1, <3>2, <4>1, <4>3 DEF FabricOK, MoveOK
        <5>2. Unlisted(f)' BY <2>7, <5>1 DEF Unlisted
        <5>3. There(req[q].c)' BY <1>3, <2>2, <2>5 DEF There
        <5>4. MoveOK(req[q])' BY <2>5, <5>2, <5>3 DEF MoveOK
        <5> QED BY <1>1, <2>1, <2>5, <3>2, <4>1, <4>2, <4>3, <5>4, OwnFabric
      <4>4. CASE req[q].met
        <5>1. \A o \in Request \ {q} : req'[o] = req[o] BY <2>5 DEF Turned
        <5>2. ASSUME NEW o \in Movers(f)'
              PROVE  NameKnown(req[o])' /\ req'[o].met
          <6>1. CASE o = q BY <2>5, <4>2, <4>4, <6>1
          <6>2. CASE o # q
            <7>1. o \in Movers(f) /\ o \in Active /\ req[o].f = f /\ req'[o] = req[o]
              BY <5>1, <5>2, <6>2 DEF Movers, Moves, Active
            <7>2. NameKnown(req[o]) BY <3>2, <7>1 DEF FabricOK
            <7>3. NameKnown(req[o])' BY <2>2, <7>1, <7>2 DEF NameKnown
            <7>4. f \in Docs(req[o]) /\ f \in Docs(req[q])
              BY <2>1, <7>1, NoneAssumption DEF Docs
            <7>5. req[o].met BY <1>1, <6>2, <7>1, <7>4 DEF IndInv, MeetOK
            <7> QED BY <7>1, <7>3, <7>5
          <6> QED BY <6>1, <6>2
        <5>3. Movers(f)' # {} BY <1>1, <2>5, <4>1 DEF Movers, Active
        <5> QED BY <3>2, <5>2, <5>3 DEF FabricOK
      <4> QED BY <4>3, <4>4
    <3>3. FabricOK(f) \/ f \in disturbed BY <2>1 DEF IndInv, FabricsOK
    <3> QED BY <2>2, <3>1, <3>2, <3>3
  <2>9. FabricsOK' BY <2>8 DEF FabricsOK
  <2> QED BY <1>1, <2>1, <2>2, <2>5, <2>6, <2>9, ListRequest DEF productDocs
<1> QED BY <1>2, <1>3

LEMMA AddFabricKeeps ==
    ASSUME IndInv, NEW q \in Request, AddFabric(q)
    PROVE  IndInv'
<1>0. /\ q \in Active /\ req[q].at = "add"
      /\ req[q].f \in Fabric /\ req[q].c \in FabricCategory
  BY Fields, NoneAssumption DEF AddFabric, Active, IndInv, ShapeOK, Holds
<1>1. PICK f \in Fabric, c \in FabricCategory :
        req[q].f = f /\ req[q].c = c /\ Holds(req[q])
  BY <1>0 DEF IndInv, ShapeOK
<1>2. /\ category' = List(c, f) /\ Goto(q, "write") /\ Disturb(q)
      /\ UNCHANGED <<fabric, productDocs>>
  BY <1>1 DEF AddFabric
<1>3. "write" \in Place BY DEF Place
<1>4. \A r \in Slot : r.at = "write" /\ r.f = req[q].f /\ r.c = req[q].c /\ r.old = req[q].old
        => Holds(r)
  BY <1>0, <1>1, NoneAssumption DEF Holds
<1>5. /\ Turned(q) /\ req'[q].at = "write" /\ req'[q].met = req[q].met
      /\ req'[q].f = f /\ req'[q].c = c /\ req'[q].old = req[q].old /\ req'[q].saw = req[q].saw
  BY <1>0, <1>1, <1>2, <1>3, <1>4, Goes
<1>6. /\ category' \in [FabricCategory -> CategoryDoc]
      /\ \A d \in FabricCategory :
           /\ category'[d].is = category[d].is
           /\ \A e : e \in category'[d].fabrics <=>
                       e \in category[d].fabrics \/ (e = f /\ d = c /\ There(c))
  BY <1>2, Lists DEF IndInv
<1>7. /\ disturbed \subseteq disturbed' /\ disturbed' \subseteq Fabric \cup Product
      /\ req[q].met => f \in disturbed'
  BY <1>1, <1>2, Disturbs DEF IndInv
<1>8. ASSUME NEW g \in Fabric PROVE g \in disturbed' \/ FabricOK(g)'
  <2>1. CASE g # f
    <3>1. \A d \in FabricCategory : Listed(d, g)' <=> Listed(d, g)
      BY <1>6, <2>1 DEF Listed
    <3> QED BY <1>0, <1>1, <1>2, <1>5, <1>6, <1>7, <2>1, <3>1, ListChange
  <2>2. CASE g = f /\ ~req[q].met /\ FabricOK(f)
    <3>1. q \in Movers(f) BY <1>0, <1>1 DEF Movers, Moves
    <3>2. NameKnown(req[q]) /\ Unlisted(f) /\ There(c)
      BY <1>0, <1>1, <2>2, <3>1 DEF FabricOK, MoveOK
    <3>3. ListedOnlyIn(c, f)' /\ Listed(c, f)'
      BY <1>6, <3>2 DEF Listed, ListedOnlyIn, Unlisted
    <3>4. MoveOK(req[q])' BY <1>5, <3>3 DEF MoveOK
    <3>5. NameKnown(req[q])' BY <1>1, <1>2, <1>5, <3>2 DEF NameKnown
    <3>6. Moves(req'[q]) BY <1>5, NoneAssumption DEF Moves
    <3> QED BY <1>0, <1>1, <1>5, <2>2, <3>4, <3>5, <3>6, OwnFabric
  <2>3. FabricOK(f) \/ f \in disturbed BY DEF IndInv, FabricsOK
  <2> QED BY <1>7, <2>1, <2>2, <2>3
<1>9. FabricsOK' BY <1>8 DEF FabricsOK
<1> QED BY <1>0, <1>1, <1>2, <1>5, <1>6, <1>7, <1>9, ListRequest

\* The last step of a request that writes its fabric.
LEMMA FabricWrite ==
    ASSUME IndInv, NEW q \in Active, End(q), Disturb(q), UNCHANGED <<category, productDocs>>,
           NEW f \in Fabric, req[q].f = f,
           NEW doc \in FabricDoc, fabric' = [fabric EXCEPT ![f] = doc],
           doc.is # "none", doc.category # None,
           doc.is = "live" => \/ doc.category \in Docs(req[q])
                              \/ fabric[f].is = "live" /\ doc.category = fabric[f].category,
           ~req[q].met /\ FabricOK(f) => Agrees(f)'
    PROVE  IndInv'
<1>1. Turned(q) /\ req'[q] = Idle BY Ends
<1>2. /\ fabric \in [Fabric -> FabricDoc] /\ category \in [FabricCategory -> CategoryDoc]
  BY Types DEF IndInv
<1>3. /\ fabric' \in [Fabric -> FabricDoc]
      /\ fabric'[f] = doc /\ \A g \in Fabric \ {f} : fabric'[g] = fabric[g]
  BY <1>2
<1>4. q \in Request /\ \A o \in Request \ {q} : req'[o] = req[o] /\ Kept(req[o], req'[o])
  BY <1>1 DEF Turned, Active
<1>5. /\ disturbed \subseteq disturbed' /\ disturbed' \subseteq Fabric \cup Product
      /\ req[q].met => f \in disturbed'
  BY <1>4, Disturbs DEF IndInv
<1>6. ASSUME NEW g \in Fabric PROVE g \in disturbed' \/ FabricOK(g)'
  <2>1. CASE g # f
    <3>1. q \notin Movers(g) /\ q \notin Movers(g)' BY <1>1, <2>1, IdleHolds DEF Movers
    <3>2. \A o \in Request \ {q} : There(req[o].c) => There(req[o].c)' BY <1>4 DEF There
    <3>3. \A c \in FabricCategory : Listed(c, g)' <=> Listed(c, g) BY DEF Listed
    <3>4. g \in disturbed \/ FabricOK(g) BY DEF IndInv, FabricsOK
    <3>5. fabric'[g] = fabric[g] BY <1>3, <2>1
    <3> QED BY <1>4, <1>5, <3>1, <3>2, <3>3, <3>4, <3>5, FabricKept DEF IndInv
  <2>2. CASE g = f /\ ~req[q].met /\ FabricOK(f)
    BY <1>1, <2>2, OwnFabric, IdleHolds
  <2>3. FabricOK(f) \/ f \in disturbed BY DEF IndInv, FabricsOK
  <2> QED BY <1>5, <2>1, <2>2, <2>3
<1>7. FabricsOK' BY <1>6 DEF FabricsOK
<1>8. DeletionsOK'
  <2>1. ASSUME NEW g \in Fabric \ disturbed', fabric'[g].is = "live"
        PROVE  \/ fabric[g].is = "live" /\ fabric'[g].category = fabric[g].category
               \/ \A o \in Active \ {q} : req[o].c = fabric'[g].category => req[o].met
    <3>1. CASE g # f BY <1>3, <2>1, <3>1
    <3>2. CASE g = f /\ doc.category \in Docs(req[q])
      <4>1. ASSUME NEW o \in Active \ {q}, req[o].c = doc.category PROVE req[o].met
        <5>1. doc.category \in Docs(req[o]) BY <4>1 DEF Docs
        <5> QED BY <3>2, <5>1 DEF IndInv, MeetOK
      <4> QED BY <1>3, <3>2, <4>1
    <3> QED BY <1>3, <2>1, <3>1, <3>2
  <2>2. req'[q].at \notin {"softDelete", "remove"} BY <1>1, IdleHolds
  <2> QED BY <1>4, <1>5, <2>1, <2>2, DeletionsKept DEF IndInv
<1>9. \A g \in Fabric : /\ fabric[g].is # "none" => fabric'[g].is # "none"
                        /\ fabric'[g].is # "none" => fabric'[g].category # None
  BY <1>3 DEF IndInv, TypeOK
<1>10. /\ \A c \in FabricCategory : \A g \in category'[c].fabrics : fabric'[g].is # "none"
       /\ \A c \in FabricCategory : category'[c].is # "there" => category'[c].fabrics = {}
  <2>1. \A c \in FabricCategory : category[c].fabrics \subseteq Fabric BY <1>2 DEF CategoryDoc
  <2> QED BY <1>9, <2>1 DEF IndInv, MadeOK
<1>11. /\ req'[q].at \notin {"insert", "categories", "set"}
       /\ req'[q].f = None /\ req'[q].saw = {}
  BY <1>1 DEF Idle
<1> QED
  BY <1>1, <1>2, <1>3, <1>5, <1>7, <1>8, <1>9, <1>10, <1>11, FabricRequest

LEMMA WriteFabricKeeps ==
    ASSUME IndInv, NEW q \in Request, WriteFabric(q)
    PROVE  IndInv'
<1>1. /\ q \in Active /\ req[q].at = "write" /\ req[q].f \in Fabric /\ Holds(req[q])
      /\ req[q].c \in FabricCategory \cup {None}
  BY Fields, NoneAssumption DEF WriteFabric, Active, IndInv, ShapeOK, Holds
<1>2. PICK f \in Fabric, c \in FabricCategory \cup {None} : req[q].f = f /\ req[q].c = c
  BY <1>1
<1> DEFINE doc == [fabric[f] EXCEPT !.category = IF c = None THEN fabric[f].category ELSE c]
<1>3. fabric[f] \in FabricDoc BY Types DEF IndInv
<1>4. /\ doc \in FabricDoc /\ doc.is = fabric[f].is
      /\ doc.category = IF c = None THEN fabric[f].category ELSE c
  BY <1>3 DEF FabricDoc
<1>5. fabric' = [fabric EXCEPT ![f] = doc] BY <1>2 DEF WriteFabric
<1> HIDE DEF doc
<1>6. fabric'[f] = doc BY <1>5, Types DEF IndInv
<1>7. fabric[f].is # "none" /\ fabric[f].category # None
  BY <1>1, <1>2, NoneAssumption DEF IndInv, MadeOK, TypeOK
<1>8. End(q) /\ Disturb(q) /\ UNCHANGED <<category, productDocs>> BY DEF WriteFabric
<1>9. doc.is = "live" => \/ doc.category \in Docs(req[q])
                         \/ fabric[f].is = "live" /\ doc.category = fabric[f].category
  BY <1>2, <1>4 DEF Docs
<1>10. ASSUME ~req[q].met, FabricOK(f) PROVE Agrees(f)'
  <2>1. CASE c = None
    <3>1. Movers(f) = {}
      <4>1. Movers(f) \subseteq {q} BY <1>1, <1>2, <1>10, Alone DEF IndInv
      <4>2. q \notin Movers(f) BY <1>1, <1>2, <2>1 DEF Movers, Moves
      <4> QED BY <4>1, <4>2
    <3>2. Agrees(f) BY <1>10, <3>1 DEF FabricOK
    <3> QED BY <1>4, <1>6, <1>8, <2>1, <3>2 DEF Agrees, Listed, ListedOnlyIn
  <2>2. CASE c # None
    <3>1. q \in Movers(f) BY <1>1, <1>2, <2>2 DEF Movers, Moves
    <3>2. ListedOnlyIn(c, f) /\ (fabric[f].is = "live" => Listed(c, f))
      BY <1>1, <1>2, <1>10, <3>1 DEF FabricOK, MoveOK
    <3> QED BY <1>4, <1>6, <1>8, <2>2, <3>2 DEF Agrees, Listed, ListedOnlyIn
  <2> QED BY <2>1, <2>2
<1> QED BY <1>1, <1>2, <1>4, <1>5, <1>7, <1>8, <1>9, <1>10, FabricWrite

LEMMA SaveDeletedKeeps ==
    ASSUME IndInv, NEW q \in Request, SaveDeleted(q)
    PROVE  IndInv'
<1>1. /\ q \in Active /\ req[q].at = "save" /\ req[q].f \in Fabric
  BY Fields, NoneAssumption DEF SaveDeleted, Active, IndInv, ShapeOK, Holds
<1>2. PICK f \in Fabric : req[q].f = f BY <1>1
<1> DEFINE doc == [fabric[f] EXCEPT !.is = "deleted"]
<1>3. fabric[f] \in FabricDoc BY Types DEF IndInv
<1>4. doc \in FabricDoc /\ doc.is = "deleted" /\ doc.category = fabric[f].category
  BY <1>3 DEF FabricDoc
<1>5. fabric' = [fabric EXCEPT ![f] = doc] BY <1>2 DEF SaveDeleted
<1> HIDE DEF doc
<1>6. fabric'[f] = doc BY <1>5, Types DEF IndInv
<1>7. fabric[f].category # None
  BY <1>1, <1>2, NoneAssumption DEF IndInv, MadeOK, TypeOK
<1>8. End(q) /\ Disturb(q) /\ UNCHANGED <<category, productDocs>> BY DEF SaveDeleted
<1>9. ASSUME ~req[q].met, FabricOK(f) PROVE Agrees(f)'
  <2>1. q \in Movers(f) BY <1>1, <1>2 DEF Movers, Moves
  <2>2. Unlisted(f) BY <1>1, <1>2, <1>9, <2>1 DEF FabricOK, MoveOK
  <2> QED BY <1>4, <1>6, <1>8, <2>2 DEF Agrees, Unlisted, Listed, ListedOnlyIn
<1> QED BY <1>1, <1>2, <1>4, <1>5, <1>7, <1>8, <1>9, FabricWrite

LEMMA SoftDeleteFabricsKeeps ==
    ASSUME IndInv, NEW q \in Request, SoftDeleteFabrics(q)
    PROVE  IndInv'
<1>1. /\ q \in Active /\ req[q].at = "softDelete" /\ Holds(req[q])
      /\ req[q].c \in FabricCategory /\ req[q].saw \subseteq Fabric
  BY Fields DEF SoftDeleteFabrics, Active, IndInv, ShapeOK, Holds
<1>2. Goto(q, "remove") /\ Disturb(q) /\ UNCHANGED <<category, productDocs>>
  BY DEF SoftDeleteFabrics
<1>3. "remove" \in Place BY DEF Place
<1>4. \A r \in Slot : r.at = "remove" /\ r.f = req[q].f /\ r.c = req[q].c /\ r.old = req[q].old
        => Holds(r)
  BY <1>1, NoneAssumption DEF Holds
<1>5. /\ Turned(q) /\ req'[q].at = "remove" /\ req'[q].met = req[q].met
      /\ req'[q].f = req[q].f /\ req'[q].c = req[q].c /\ req'[q].saw = req[q].saw
  BY <1>1, <1>2, <1>3, <1>4, Goes
<1>6. \A o \in Request \ {q} : req'[o] = req[o] /\ Kept(req[o], req'[o]) BY <1>5 DEF Turned
<1>7. /\ disturbed \subseteq disturbed' /\ disturbed' \subseteq Fabric \cup Product
  BY <1>2, Disturbs DEF IndInv
<1>8. /\ fabric \in [Fabric -> FabricDoc] /\ category \in [FabricCategory -> CategoryDoc]
  BY Types DEF IndInv
<1>9. \A f \in Fabric : fabric'[f] = IF f \in req[q].saw THEN [fabric[f] EXCEPT !.is = "deleted"]
                                     ELSE fabric[f]
  BY DEF SoftDeleteFabrics
<1>10. \A f \in Fabric : /\ fabric'[f] \in FabricDoc
                         /\ fabric'[f].category = fabric[f].category
                         /\ f \in req[q].saw => fabric'[f].is = "deleted"
                         /\ f \notin req[q].saw => fabric'[f] = fabric[f]
  BY <1>8, <1>9 DEF FabricDoc
<1>11. fabric' \in [Fabric -> FabricDoc] BY <1>10 DEF SoftDeleteFabrics
<1>12. \A f \in Fabric : fabric'[f].is = "live" => fabric[f].is = "live" /\ f \notin req[q].saw
  BY <1>10
<1>13. \A f \in req[q].saw : fabric[f].is # "none" BY <1>1 DEF IndInv, MadeOK
<1>14. \A f \in Fabric : /\ fabric[f].is # "none" => fabric'[f].is # "none"
                         /\ fabric'[f].is # "none" => fabric'[f].category # None
  BY <1>10, <1>13 DEF IndInv, TypeOK
<1>15. ASSUME NEW f \in Fabric PROVE f \in disturbed' \/ FabricOK(f)'
  <2>1. q \notin Movers(f) /\ q \notin Movers(f)' BY <1>1, <1>5 DEF Movers, Moves
  <2>2. \A o \in Request \ {q} : There(req[o].c) => There(req[o].c)'
    BY <1>2, <1>6 DEF There
  <2>3. \A c \in FabricCategory : Listed(c, f)' <=> Listed(c, f) BY <1>2 DEF Listed
  <2>4. f \in disturbed \/ FabricOK(f) BY DEF IndInv, FabricsOK
  <2> QED BY <1>6, <1>7, <1>10, <1>12, <2>1, <2>2, <2>3, <2>4, FabricKept DEF IndInv
<1>16. FabricsOK' BY <1>15 DEF FabricsOK
<1>17. DeletionsOK'
  <2> SUFFICES ASSUME NEW o \in Request, ~req'[o].met, NEW f \in Fabric, f \notin disturbed',
                      fabric'[f].is = "live", fabric'[f].category = req'[o].c
               PROVE  /\ req'[o].at = "softDelete" => f \in req'[o].saw
                      /\ req'[o].at # "remove"
    BY DEF DeletionsOK
  <2>1. fabric[f].is = "live" /\ f \notin disturbed /\ fabric[f].category = req[o].c
        /\ ~req[o].met
    BY <1>5, <1>6, <1>7, <1>10, <1>12
  <2>2. /\ req[o].at = "softDelete" => f \in req[o].saw
        /\ req[o].at # "remove"
    BY <2>1 DEF IndInv, DeletionsOK
  <2>3. o # q BY <1>1, <1>12, <2>2
  <2> QED BY <1>6, <2>2, <2>3
<1>18. /\ \A c \in FabricCategory : \A g \in category'[c].fabrics : fabric'[g].is # "none"
       /\ \A c \in FabricCategory : category'[c].is # "there" => category'[c].fabrics = {}
  <2>1. \A c \in FabricCategory : category[c].fabrics \subseteq Fabric BY <1>8 DEF CategoryDoc
  <2> QED BY <1>2, <1>14, <2>1 DEF IndInv, MadeOK
<1>19. req'[q].f # None => fabric'[req'[q].f].is # "none"
  <2>1. req[q].f # None => fabric[req[q].f].is # "none" BY <1>1 DEF IndInv, MadeOK
  <2> QED BY <1>5, <1>14, <2>1, Fields DEF IndInv
<1> QED
  BY <1>1, <1>2, <1>5, <1>7, <1>8, <1>11, <1>14, <1>16, <1>17, <1>18, <1>19, FabricRequest

LEMMA RemoveCategoryKeeps ==
    ASSUME IndInv, NEW q \in Request, RemoveCategory(q)
    PROVE  IndInv'
<1>0. /\ q \in Active /\ req[q].at = "remove" /\ req[q].c \in FabricCategory
  BY Fields DEF RemoveCategory, Active, IndInv, ShapeOK, Holds
<1>1. PICK c \in FabricCategory : req[q].c = c BY <1>0
<1>2. End(q) /\ Disturb(q) /\ UNCHANGED <<fabric, productDocs>> BY DEF RemoveCategory
<1>3. Turned(q) /\ req'[q] = Idle BY <1>0, <1>2, Ends
<1>4. \A o \in Request \ {q} : req'[o] = req[o] /\ Kept(req[o], req'[o]) BY <1>3 DEF Turned
<1>5. /\ disturbed \subseteq disturbed' /\ disturbed' \subseteq Fabric \cup Product
      /\ req[q].met => Concerns(q) \subseteq disturbed'
  BY <1>2, Disturbs DEF IndInv
<1>6. /\ fabric \in [Fabric -> FabricDoc] /\ category \in [FabricCategory -> CategoryDoc]
      /\ category' = [category EXCEPT ![c] = [is |-> "gone", fabrics |-> {}]]
  BY <1>1, Types DEF IndInv, RemoveCategory
<1>7. /\ category' \in [FabricCategory -> CategoryDoc]
      /\ category'[c].is = "gone" /\ category'[c].fabrics = {}
      /\ \A d \in FabricCategory \ {c} : category'[d] = category[d]
  BY <1>6 DEF CategoryDoc
<1>8. ASSUME NEW o \in Active \ {q}, c \in Docs(req[o]) PROVE req[o].met
  <2>1. c \in Docs(req[q]) BY <1>1, NoneAssumption DEF Docs
  <2> QED BY <1>0, <1>8, <2>1 DEF IndInv, MeetOK
\* What names or was listed in the category, and is not excused, is deleted.
<1>9. ASSUME NEW f \in Fabric, f \notin disturbed', fabric[f].category = c
      PROVE  fabric[f].is # "live"
  <2>1. f \in Concerns(q) BY <1>0, <1>1, <1>9 DEF Concerns
  <2>2. ~req[q].met BY <1>5, <1>9, <2>1
  <2> QED BY <1>0, <1>1, <1>5, <1>9, <2>2 DEF IndInv, DeletionsOK
<1>10. \A d \in FabricCategory, f \in Fabric : Listed(d, f)' <=> Listed(d, f) /\ d # c
  BY <1>7 DEF Listed
<1>11. ASSUME NEW f \in Fabric PROVE f \in disturbed' \/ FabricOK(f)'
  <2> SUFFICES ASSUME f \notin disturbed' PROVE FabricOK(f)' OBVIOUS
  <2>1. FabricOK(f) BY <1>5 DEF IndInv, FabricsOK
  <2>2. q \notin Movers(f) /\ q \notin Movers(f)'
    BY <1>0, <1>3, IdleHolds DEF Movers, Moves
  <2>3. Movers(f)' = Movers(f) BY <1>4, <2>2 DEF Movers
  <2>4. \A d : ListedOnlyIn(d, f) => ListedOnlyIn(d, f)' BY <1>10 DEF ListedOnlyIn
  <2>5. Unlisted(f) => Unlisted(f)' BY <1>10 DEF Unlisted
  <2>6. ASSUME NEW o \in Movers(f)'
        PROVE  NameKnown(req[o])' /\ (req'[o].met \/ MoveOK(req[o])')
    <3>1. o \in Active \ {q} /\ req[o].f = f /\ req'[o] = req[o] /\ o \in Movers(f)
      BY <1>4, <2>2, <2>3, <2>6 DEF Movers, Moves, Active
    <3>2. NameKnown(req[o]) /\ (req[o].met \/ MoveOK(req[o])) BY <2>1, <3>1 DEF FabricOK
    <3>3. NameKnown(req[o])' BY <1>2, <3>1, <3>2 DEF NameKnown
    <3>4. CASE req[o].met BY <3>1, <3>3, <3>4
    <3>5. CASE ~req[o].met /\ MoveOK(req[o])
      <4>1. c \notin Docs(req[o]) BY <1>8, <3>1, <3>5
      <4>2. req[o].c # c BY <4>1, NoneAssumption DEF Docs
      <4>3. req[o].c \in FabricCategory \cup {None} BY <3>1, Fields DEF IndInv, Active
      <4>4. There(req[o].c) => There(req[o].c)' BY <1>7, <3>1, <4>2, <4>3 DEF There
      <4>5. req[o].at = "write" => req[o].c \in FabricCategory
        BY <3>1, <4>3, <2>3 DEF Movers, Moves
      <4>6. MoveOK(req[o])'
        BY <1>2, <1>10, <2>4, <2>5, <3>1, <3>5, <4>2, <4>4, <4>5 DEF MoveOK
      <4> QED BY <3>3, <4>6
    <3> QED BY <3>2, <3>4, <3>5
  <2>7. Movers(f) = {} => Agrees(f)'
    <3> SUFFICES ASSUME Movers(f) = {} PROVE Agrees(f)' OBVIOUS
    <3>1. Agrees(f) BY <2>1 DEF FabricOK
    <3>2. fabric[f].is = "live" => fabric[f].category \in FabricCategory \ {c}
      BY <1>9 DEF IndInv, TypeOK
    <3> QED BY <1>2, <1>10, <2>4, <3>1, <3>2 DEF Agrees
  <2> QED BY <2>3, <2>6, <2>7 DEF FabricOK
<1>12. FabricsOK' BY <1>11 DEF FabricsOK
<1>13. DeletionsOK'
  <2>1. req'[q].at \notin {"softDelete", "remove"} BY <1>3, IdleHolds
  <2> QED BY <1>2, <1>4, <1>5, <2>1, DeletionsKept DEF IndInv
<1>14. \A f \in Fabric : fabric[f].is # "none" => fabric[f].category # None
  BY DEF IndInv, TypeOK
<1>15. /\ \A d \in FabricCategory : \A f \in category'[d].fabrics : fabric[f].is # "none"
       /\ \A d \in FabricCategory : category'[d].is # "there" => category'[d].fabrics = {}
  BY <1>7 DEF IndInv, MadeOK
<1>16. /\ req'[q].at \notin {"insert", "categories", "set"}
       /\ req'[q].f = None /\ req'[q].saw = {}
  BY <1>3 DEF Idle
<1> QED
  BY <1>0, <1>2, <1>3, <1>5, <1>6, <1>7, <1>12, <1>13, <1>14, <1>15, <1>16, FabricRequest

LEMMA CreateCategoryKeeps ==
    ASSUME IndInv, NEW c \in FabricCategory, createFabricCategory(c)
    PROVE  IndInv'
<1>1. /\ category[c].is = "none"
      /\ category' = [category EXCEPT ![c].is = "there"]
      /\ UNCHANGED <<fabric, slug, product, req, disturbed>>
  BY DEF createFabricCategory, productDocs
<1>2. category \in [FabricCategory -> CategoryDoc] BY Types DEF IndInv
<1>3. /\ category' \in [FabricCategory -> CategoryDoc]
      /\ category'[c].is = "there"
      /\ \A d \in FabricCategory : /\ category'[d].fabrics = category[d].fabrics
                                   /\ d # c => category'[d].is = category[d].is
  BY <1>1, <1>2 DEF CategoryDoc
<1>4. TypeOK' BY <1>1, <1>3 DEF IndInv, TypeOK, CategoryDoc
<1>5. ShapeOK' /\ MeetOK' BY <1>1 DEF IndInv, ShapeOK, MeetOK, Active
<1>6. MadeOK' BY <1>1, <1>3 DEF IndInv, MadeOK, Active
<1>7. \A d \in FabricCategory, f \in Fabric : Listed(d, f)' <=> Listed(d, f)
  BY <1>3 DEF Listed
<1>8. ASSUME NEW f \in Fabric PROVE f \in disturbed' \/ FabricOK(f)'
  <2>1. f \in disturbed \/ FabricOK(f) BY DEF IndInv, FabricsOK
  <2>2. Movers(f)' = Movers(f) BY <1>1 DEF Movers
  <2>3. \A o \in Movers(f) : /\ Kept(req[o], req'[o])
                             /\ There(req[o].c) => There(req[o].c)'
    <3>1. \A o \in Request : req[o].c \in FabricCategory \cup {None} BY Fields DEF IndInv
    <3> QED BY <1>1, <1>3, <3>1 DEF Movers, Kept, There
  <2> QED BY <1>1, <1>7, <2>1, <2>2, <2>3, SameMovers DEF IndInv
<1>9. FabricsOK' BY <1>8 DEF FabricsOK
<1>10. DeletionsOK' BY <1>1 DEF IndInv, DeletionsOK
<1>11. ProductsOK' BY <1>1 DEF IndInv, ProductsOK, UpdateOK
<1>12. SlugsOK' BY <1>1 DEF IndInv, SlugsOK, CategoriesWereKnown
<1> QED BY <1>4, <1>5, <1>6, <1>9, <1>10, <1>11, <1>12 DEF IndInv

-----------------------------------------------------------------------------
(* The steps of requests on products and their categories *)

\* Fabrics when nothing is written to them and no request on them takes a step.
LEMMA FabricsKept ==
    ASSUME IndInv, UNCHANGED fabricDocs, disturbed \subseteq disturbed',
           Active' \subseteq Active,
           \A o \in Request :
             \/ Kept(req[o], req'[o])
             \/ /\ ~Moves(req[o]) /\ ~Moves(req'[o])
                /\ req'[o].at \notin {"softDelete", "remove"}
                /\ req'[o].f \in {req[o].f, None} /\ req'[o].saw \subseteq req[o].saw
    PROVE  MadeOK' /\ FabricsOK' /\ DeletionsOK'
<1>1. UNCHANGED <<category, fabric>> BY DEF fabricDocs
<1>2. MadeOK'
  <2>1. \A o \in Active' : /\ req'[o].f # None => fabric[req'[o].f].is # "none"
                           /\ \A f \in req'[o].saw : fabric[f].is # "none"
    BY DEF IndInv, MadeOK, Active, Kept
  <2> QED BY <1>1, <2>1 DEF IndInv, MadeOK
<1>3. ASSUME NEW f \in Fabric PROVE f \in disturbed' \/ FabricOK(f)'
  <2>1. f \in disturbed \/ FabricOK(f) BY DEF IndInv, FabricsOK
  <2>2. Movers(f)' = Movers(f) BY DEF Movers, Kept, Moves
  <2>3. \A o \in Movers(f) : Kept(req[o], req'[o]) BY DEF Movers
  <2>4. \A o \in Movers(f) : There(req[o].c) => There(req[o].c)'
    BY <1>1, <2>3 DEF There, Kept
  <2>5. \A c \in FabricCategory : Listed(c, f)' <=> Listed(c, f) BY <1>1 DEF Listed
  <2> QED BY <1>1, <2>1, <2>2, <2>3, <2>4, <2>5, SameMovers DEF IndInv
<1>4. FabricsOK' BY <1>3 DEF FabricsOK
<1>5. DeletionsOK'
  <2> SUFFICES ASSUME NEW o \in Request, ~req'[o].met, NEW f \in Fabric, f \notin disturbed',
                      fabric'[f].is = "live", fabric'[f].category = req'[o].c
               PROVE  /\ req'[o].at = "softDelete" => f \in req'[o].saw
                      /\ req'[o].at # "remove"
    BY DEF DeletionsOK
  <2>1. CASE Kept(req[o], req'[o]) BY <1>1, <2>1 DEF Kept, IndInv, DeletionsOK
  <2>2. CASE req'[o].at \notin {"softDelete", "remove"} BY <2>2
  <2> QED BY <2>1, <2>2
<1> QED BY <1>2, <1>4, <1>5

\* What is left to show of a step of a request on products.
LEMMA ProductRequest ==
    ASSUME IndInv, NEW q \in Active, Turned(q), UNCHANGED fabricDocs,
           req[q].at \in {"insert", "categories", "set", "addSlug"},
           req'[q].at \in {"idle", "set"},
           req'[q].f \in {req[q].f, None}, req'[q].saw \subseteq req[q].saw,
           disturbed \subseteq disturbed', disturbed' \subseteq Fabric \cup Product,
           slug' \in [Slug -> {"none", "there", "gone"}],
           product' \in [Product -> ProductDoc],
           ProductsOK', SlugsOK'
    PROVE  IndInv'
<1>1. q \in Request /\ \A o \in Request \ {q} : Kept(req[o], req'[o])
  BY DEF Turned, Active
<1>2. ~Moves(req[q]) /\ ~Moves(req'[q]) BY DEF Moves
<1>3. MadeOK' /\ FabricsOK' /\ DeletionsOK'
  BY <1>1, <1>2, FabricsKept DEF Turned
<1>4. TypeOK' BY DEF Turned, Slot, IndInv, TypeOK, fabricDocs, ProductDoc
<1> QED BY <1>3, <1>4 DEF Turned, IndInv

LEMMA ProductFields ==
    ASSUME TypeOK, NEW p \in Product
    PROVE  /\ product[p].is \in {"none", "there", "gone"}
           /\ product[p].styles \subseteq Style
           /\ product[p].default \in Style \cup {None, Blank}
           /\ product[p].slugs \subseteq Slug
BY Types DEF ProductDoc

LEMMA InsertProductKeeps ==
    ASSUME IndInv, NEW q \in Request, NEW p \in Product, InsertProduct(q, p)
    PROVE  IndInv'
<1>1. /\ q \in Active /\ req[q].at = "insert" /\ product[p].is = "none" /\ End(q)
      /\ UNCHANGED <<fabricDocs, slug, disturbed>>
  BY DEF InsertProduct, Active
<1>2. PICK first \in req[q].styles :
        product' = [product EXCEPT ![p] = [is |-> "there", styles |-> req[q].styles,
                                           default |-> IF req[q].default \in {None, Blank}
                                                       THEN first ELSE req[q].default,
                                           slugs |-> req[q].slugs]]
  BY DEF InsertProduct
<1>3. /\ req[q].styles \in SUBSET Style /\ req[q].styles # {} /\ req[q].slugs \in SUBSET Slug
      /\ req[q].default \in req[q].styles \cup {None, Blank}
  BY <1>1 DEF IndInv, ShapeOK, Holds
<1>4. Turned(q) /\ req'[q] = Idle BY <1>1, Ends
<1>5. product \in [Product -> ProductDoc] BY Types DEF IndInv
<1>6. /\ product' \in [Product -> ProductDoc]
      /\ product'[p].is = "there" /\ product'[p].styles = req[q].styles
      /\ product'[p].slugs = req[q].slugs
      /\ product'[p].default \in req[q].styles
      /\ \A o \in Product \ {p} : product'[o] = product[o]
  <2> DEFINE default == IF req[q].default \in {None, Blank} THEN first ELSE req[q].default
             doc == [is |-> "there", styles |-> req[q].styles, default |-> default,
                     slugs |-> req[q].slugs]
  <2>1. default \in req[q].styles /\ default \in Style BY <1>3
  <2>2. product' = [product EXCEPT ![p] = doc] BY <1>2
  <2> HIDE DEF default
  <2>3. doc \in ProductDoc BY <1>3, <2>1 DEF ProductDoc
  <2>4. /\ doc.is = "there" /\ doc.styles = req[q].styles /\ doc.slugs = req[q].slugs
        /\ doc.default \in req[q].styles
    BY <2>1
  <2> HIDE DEF doc
  <2>5. /\ product' \in [Product -> ProductDoc] /\ product'[p] = doc
        /\ \A o \in Product \ {p} : product'[o] = product[o]
    BY <1>5, <2>2, <2>3
  <2> QED BY <2>4, <2>5
<1>7. \A o \in Request \ {q} : req'[o] = req[o] BY <1>4 DEF Turned
<1>8. Idle.at = "idle" /\ Idle.f = None /\ Idle.saw = {} BY DEF Idle
<1>9. ProductsOK'
  <2>1. ASSUME NEW o \in Product, product'[o].is = "there"
        PROVE  /\ product'[o].styles # {}
               /\ product'[o].default # None
               /\ o \notin disturbed' => product'[o].default \in product'[o].styles \cup {Blank}
    <3>1. CASE o = p BY <1>3, <1>6, <3>1, NoneAssumption
    <3>2. CASE o # p BY <1>1, <1>6, <2>1, <3>2 DEF IndInv, ProductsOK
    <3> QED BY <3>1, <3>2
  <2>2. ASSUME NEW o \in Request, req'[o].at \in {"categories", "set"}
        PROVE  UpdateOK(req[o])'
    <3>1. req'[o] = req[o] BY <1>4, <1>7, <1>8, <2>2
    <3>2. UpdateOK(req[o]) BY <2>2, <3>1 DEF IndInv, ProductsOK
    <3>3. req[o].p \in Product
      BY <2>2, <3>1, Fields DEF IndInv, ShapeOK, Holds
    <3> QED BY <1>1, <1>6, <3>1, <3>2, <3>3 DEF UpdateOK
  <2> QED BY <2>1, <2>2 DEF ProductsOK
<1>10. SlugsOK'
  <2>1. \A k \in req[q].slugs : slug[k] # "none" BY <1>1 DEF IndInv, SlugsOK, Brings
  <2>2. CategoriesWereKnown' BY <1>1, <1>6, <2>1 DEF IndInv, SlugsOK, CategoriesWereKnown
  <2>3. \A o \in Request : Brings(req'[o]) => req'[o] = req[o]
    BY <1>4, <1>7, <1>8 DEF Brings
  <2> QED BY <1>1, <2>2, <2>3 DEF IndInv, SlugsOK
<1>11. slug \in [Slug -> {"none", "there", "gone"}] /\ disturbed \subseteq Fabric \cup Product
  BY DEF IndInv, TypeOK
<1> QED BY <1>1, <1>4, <1>6, <1>8, <1>9, <1>10, <1>11, ProductRequest

LEMMA ValidateCategoriesKeeps ==
    ASSUME IndInv, NEW q \in Request, ValidateCategories(q)
    PROVE  IndInv'
<1>1. q \in Active /\ req[q].at = "categories" BY DEF ValidateCategories, Active
<1>2. UNCHANGED <<fabricDocs, slug, product, disturbed>>
  BY DEF ValidateCategories, productDocs
<1>3. req[q].p # None /\ (req[q].styles # None => req[q].styles # {})
  BY <1>1 DEF IndInv, ShapeOK, Holds
<1>4. /\ Turned(q) /\ req'[q].at \in {"idle", "set"}
      /\ req'[q].f \in {req[q].f, None} /\ req'[q].saw \subseteq req[q].saw
      /\ req'[q].at = "set" =>
           /\ req[q].slugs \subseteq Known
           /\ req'[q].met = req[q].met /\ req'[q].p = req[q].p
           /\ req'[q].styles = req[q].styles /\ req'[q].default = req[q].default
           /\ req'[q].slugs = req[q].slugs
  <2>1. CASE validateCategoryRefs(req[q].slugs)
    <3>1. Goto(q, "set") BY <2>1 DEF ValidateCategories
    <3>2. "set" \in Place BY DEF Place
    <3>3. \A r \in Slot :
            r.at = "set" /\ r.p = req[q].p /\ r.styles = req[q].styles => Holds(r)
      BY <1>3 DEF Holds
    <3>4. /\ Turned(q) /\ req'[q].at = "set" /\ req'[q].met = req[q].met
          /\ req'[q].f = req[q].f /\ req'[q].saw = req[q].saw /\ req'[q].p = req[q].p
          /\ req'[q].styles = req[q].styles /\ req'[q].default = req[q].default
          /\ req'[q].slugs = req[q].slugs
      BY <1>1, <3>1, <3>2, <3>3, Goes
    <3> QED BY <2>1, <3>4 DEF validateCategoryRefs
  <2>2. CASE ~validateCategoryRefs(req[q].slugs)
    <3>1. End(q) BY <2>2 DEF ValidateCategories
    <3>2. Turned(q) /\ req'[q] = Idle BY <1>1, <3>1, Ends
    <3> QED BY <3>2 DEF Idle
  <2> QED BY <2>1, <2>2
<1>5. \A o \in Request \ {q} : req'[o] = req[o] BY <1>4 DEF Turned
<1>6. ProductsOK'
  <2>1. ASSUME NEW o \in Request, req'[o].at \in {"categories", "set"}
        PROVE  UpdateOK(req[o])'
    <3>1. req[o].at \in {"categories", "set"} BY <1>1, <1>5, <2>1
    <3>2. UpdateOK(req[o]) BY <3>1 DEF IndInv, ProductsOK
    <3>3. /\ req'[o].styles = req[o].styles /\ req'[o].default = req[o].default
          /\ req'[o].p = req[o].p /\ req'[o].met = req[o].met
      BY <1>4, <1>5, <2>1
    <3> QED BY <1>2, <3>2, <3>3 DEF UpdateOK
  <2> QED BY <1>2, <2>1 DEF IndInv, ProductsOK
<1>7. SlugsOK'
  <2>1. ASSUME NEW o \in Request, Brings(req'[o]), NEW k \in req'[o].slugs
        PROVE  slug[k] # "none"
    <3>1. CASE o = q BY <1>4, <2>1, <3>1 DEF Brings, Known
    <3>2. CASE o # q BY <1>5, <2>1, <3>2 DEF IndInv, SlugsOK
    <3> QED BY <3>1, <3>2
  <2> QED BY <1>2, <2>1 DEF IndInv, SlugsOK, CategoriesWereKnown
<1>8. /\ slug \in [Slug -> {"none", "there", "gone"}] /\ disturbed \subseteq Fabric \cup Product
      /\ product \in [Product -> ProductDoc]
  BY Types DEF IndInv, TypeOK
<1> QED BY <1>1, <1>2, <1>4, <1>6, <1>7, <1>8, ProductRequest

LEMMA SetProductKeeps ==
    ASSUME IndInv, NEW q \in Request, SetProduct(q)
    PROVE  IndInv'
<1>0. q \in Active /\ req[q].at = "set" /\ req[q].p \in Product
  BY Fields DEF SetProduct, Active, IndInv, ShapeOK, Holds
<1>1. PICK p \in Product : req[q].p = p BY <1>0
<1> DEFINE writes == product[p].is = "there" /\ req[q].slugs # {}
           doc == [product[p] EXCEPT !.styles = Or(req[q].styles, @),
                                     !.default = Or(req[q].default, @),
                                     !.slugs = Or(req[q].slugs, @)]
<1>2. /\ End(q) /\ Disturb(q) /\ UNCHANGED <<fabricDocs, slug>>
      /\ product' = IF writes THEN [product EXCEPT ![p] = doc] ELSE product
  <2>1. /\ End(q) /\ Disturb(q) /\ UNCHANGED <<fabricDocs, slug>>
        /\ product' = IF product[p].is # "there" \/ req[q].slugs = {} THEN product
                      ELSE [product EXCEPT ![p].styles = Or(req[q].styles, @),
                                           ![p].default = Or(req[q].default, @),
                                           ![p].slugs = Or(req[q].slugs, @)]
    BY <1>1, Zenon DEF SetProduct
  <2>2. [product EXCEPT ![p].styles = Or(req[q].styles, @),
                                           ![p].default = Or(req[q].default, @),
                                           ![p].slugs = Or(req[q].slugs, @)]
        = [product EXCEPT ![p] = doc]
    BY Types DEF IndInv, ProductDoc
  <2> HIDE DEF doc
  <2> QED BY <2>1, <2>2
<1>3. Turned(q) /\ req'[q] = Idle BY <1>0, <1>2, Ends
<1>4. /\ disturbed \subseteq disturbed' /\ disturbed' \subseteq Fabric \cup Product
      /\ req[q].met => p \in disturbed'
  BY <1>0, <1>1, <1>2, Disturbs DEF IndInv
<1>5. product \in [Product -> ProductDoc] BY Types DEF IndInv
<1>6. /\ doc \in ProductDoc /\ doc.is = product[p].is
      /\ doc.styles = Or(req[q].styles, product[p].styles)
      /\ doc.default = Or(req[q].default, product[p].default)
      /\ doc.slugs = Or(req[q].slugs, product[p].slugs)
  <2> DEFINE styles == Or(req[q].styles, product[p].styles)
             default == Or(req[q].default, product[p].default)
             slugs == Or(req[q].slugs, product[p].slugs)
  <2>1. styles \in SUBSET Style /\ default \in Style \cup {None, Blank} /\ slugs \in SUBSET Slug
    BY Fields, ProductFields DEF Or, IndInv
  <2>2. product[p] \in ProductDoc BY <1>5
  <2> HIDE DEF styles, default, slugs
  <2> QED BY <2>1, <2>2, Zenon DEF ProductDoc, styles, default, slugs
<1> HIDE DEF doc
<1>7. /\ product' \in [Product -> ProductDoc]
      /\ writes => product'[p] = doc
      /\ ~writes => product'[p] = product[p]
      /\ \A o \in Product \ {p} : product'[o] = product[o]
  BY <1>2, <1>5, <1>6
<1>8. \A o \in Product : product'[o].is = product[o].is
  BY <1>6, <1>7
<1>9. \A o \in Request \ {q} : req'[o] = req[o] BY <1>3 DEF Turned
<1>10. Idle.at = "idle" /\ Idle.f = None /\ Idle.saw = {} BY DEF Idle
<1>11. Holds(req[q]) /\ UpdateOK(req[q]) BY <1>0 DEF IndInv, ShapeOK, ProductsOK
<1>12. \A o \in Product : product[o].is = "there" =>
         /\ product[o].styles # {} /\ product[o].default # None
         /\ o \notin disturbed => product[o].default \in product[o].styles \cup {Blank}
  BY DEF IndInv, ProductsOK
<1>13. ProductsOK'
  <2>1. ASSUME NEW o \in Product, product'[o].is = "there"
        PROVE  /\ product'[o].styles # {}
               /\ product'[o].default # None
               /\ o \notin disturbed' => product'[o].default \in product'[o].styles \cup {Blank}
    <3>1. CASE o # p \/ ~writes
      <4>1. product'[o] = product[o] BY <1>7, <3>1
      <4> QED BY <1>4, <1>12, <2>1, <4>1
    <3>2. CASE o = p /\ writes
      <4>1. product'[p] = doc BY <1>7, <3>2
      <4>2. product[p].is = "there" BY <3>2
      <4>3. /\ product[p].styles # {} /\ product[p].default # None
            /\ p \notin disturbed => product[p].default \in product[p].styles \cup {Blank}
        BY <1>12, <4>2
      <4>4. req[q].styles # None => req[q].styles # {} BY <1>0, <1>11 DEF Holds
      <4>5. doc.styles # {} /\ doc.default # None BY <1>6, <4>3, <4>4 DEF Or
      <4>6. p \notin disturbed' => doc.default \in doc.styles \cup {Blank}
        BY <1>1, <1>4, <1>6, <1>11, <4>2, <4>3 DEF UpdateOK, Or
      <4> QED BY <3>2, <4>1, <4>5, <4>6
    <3> QED BY <3>1, <3>2
  <2>2. ASSUME NEW o \in Request, req'[o].at \in {"categories", "set"}
        PROVE  UpdateOK(req[o])'
    <3>1. o # q /\ req'[o] = req[o] BY <1>3, <1>9, <1>10, <2>2
    <3>2. UpdateOK(req[o]) BY <2>2, <3>1 DEF IndInv, ProductsOK
    <3>3. req[o].p \in Product /\ o \in Active
      BY <2>2, <3>1, Fields DEF IndInv, ShapeOK, Holds, Active
    <3>4. CASE req[o].p # p
      <4>1. product'[req[o].p] = product[req[o].p] BY <1>7, <3>3, <3>4
      <4> QED BY <1>4, <3>1, <3>2, <4>1 DEF UpdateOK
    <3>5. CASE req[o].p = p
      <4>1. p \in Docs(req[o]) /\ p \in Docs(req[q]) BY <1>1, <3>5, NoneAssumption DEF Docs
      <4>2. req[o].met BY <1>0, <3>1, <3>3, <4>1 DEF IndInv, MeetOK
      <4> QED BY <1>8, <3>1, <3>2, <3>3, <4>2 DEF UpdateOK
    <3> QED BY <3>4, <3>5
  <2> QED BY <2>1, <2>2 DEF ProductsOK
<1>14. SlugsOK'
  <2>1. req[q].slugs # None => \A k \in req[q].slugs : slug[k] # "none"
    BY <1>0 DEF IndInv, SlugsOK, Brings
  <2>2. \A k \in doc.slugs : slug[k] # "none"
    BY <1>6, <2>1 DEF Or, IndInv, SlugsOK, CategoriesWereKnown
  <2>3. ASSUME NEW o \in Product, NEW k \in product'[o].slugs PROVE slug[k] # "none"
    BY <1>7, <2>2, <2>3 DEF IndInv, SlugsOK, CategoriesWereKnown
  <2>4. CategoriesWereKnown' BY <1>2, <2>3 DEF CategoriesWereKnown
  <2>5. \A o \in Request : Brings(req'[o]) => req'[o] = req[o]
    BY <1>3, <1>9, <1>10 DEF Brings
  <2> QED BY <1>2, <2>4, <2>5 DEF IndInv, SlugsOK
<1>15. slug \in [Slug -> {"none", "there", "gone"}] BY DEF IndInv, TypeOK
<1> HIDE DEF writes
<1> QED BY <1>0, <1>2, <1>3, <1>4, <1>7, <1>10, <1>13, <1>14, <1>15, ProductRequest

LEMMA InsertCategoryKeeps ==
    ASSUME IndInv, NEW q \in Request, InsertCategory(q)
    PROVE  IndInv'
<1>1. /\ q \in Active /\ req[q].at = "addSlug" /\ End(q)
      /\ UNCHANGED <<fabricDocs, product, disturbed>>
  BY DEF InsertCategory, Active
<1>2. Turned(q) /\ req'[q] = Idle BY <1>1, Ends
<1>3. \A o \in Request \ {q} : req'[o] = req[o] BY <1>2 DEF Turned
<1>4. Idle.at = "idle" /\ Idle.f = None /\ Idle.saw = {} BY DEF Idle
<1>5. slug' = [k \in Slug |-> IF k \in req[q].slugs THEN "there" ELSE slug[k]]
  BY DEF InsertCategory
<1>6. slug \in [Slug -> {"none", "there", "gone"}] /\ disturbed \subseteq Fabric \cup Product
  BY DEF IndInv, TypeOK
<1>7. slug' \in [Slug -> {"none", "there", "gone"}]
  BY <1>5, <1>6
<1>8. \A k \in Slug : slug[k] # "none" => slug'[k] # "none" BY <1>5
<1>9. ProductsOK'
  <2>1. ASSUME NEW o \in Request, req'[o].at \in {"categories", "set"}
        PROVE  UpdateOK(req[o])'
    <3>1. req'[o] = req[o] BY <1>2, <1>3, <1>4, <2>1
    <3>2. UpdateOK(req[o]) BY <2>1, <3>1 DEF IndInv, ProductsOK
    <3> QED BY <1>1, <3>1, <3>2 DEF UpdateOK
  <2> QED BY <1>1, <2>1 DEF IndInv, ProductsOK
<1>10. SlugsOK'
  <2>1. \A o \in Product : product[o].slugs \subseteq Slug BY ProductFields DEF IndInv
  <2>2. CategoriesWereKnown'
    BY <1>1, <1>8, <2>1 DEF IndInv, SlugsOK, CategoriesWereKnown
  <2>3. ASSUME NEW o \in Request, Brings(req'[o]), NEW k \in req'[o].slugs
        PROVE  slug'[k] # "none"
    <3>1. req'[o] = req[o] BY <1>2, <1>3, <1>4, <2>3 DEF Brings
    <3>2. slug[k] # "none" BY <2>3, <3>1 DEF IndInv, SlugsOK
    <3>3. req[o].slugs \subseteq Slug
      BY <2>3, <3>1, Fields DEF IndInv, ShapeOK, Holds, Brings
    <3> QED BY <1>8, <2>3, <3>1, <3>2, <3>3
  <2> QED BY <2>2, <2>3 DEF SlugsOK
<1>11. product \in [Product -> ProductDoc] BY Types DEF IndInv
<1> QED BY <1>1, <1>2, <1>4, <1>6, <1>7, <1>9, <1>10, <1>11, ProductRequest

LEMMA DeleteProductKeeps ==
    ASSUME IndInv, NEW p \in Product, deleteProduct(p)
    PROVE  IndInv'
<1> DEFINE doc == [is |-> "gone", styles |-> {}, default |-> None, slugs |-> {}]
<1>1. /\ product[p].is = "there" /\ product' = [product EXCEPT ![p] = doc]
      /\ UNCHANGED <<fabricDocs, slug, req, disturbed>>
  BY DEF deleteProduct
<1>2. product \in [Product -> ProductDoc] BY Types DEF IndInv
<1>3. doc \in ProductDoc /\ doc.is = "gone" /\ doc.slugs = {} BY DEF ProductDoc
<1> HIDE DEF doc
<1>4. /\ product' \in [Product -> ProductDoc] /\ product'[p] = doc
      /\ \A o \in Product \ {p} : product'[o] = product[o]
  BY <1>1, <1>2, <1>3
<1>5. UNCHANGED <<category, fabric, slug, req, disturbed>> BY <1>1 DEF fabricDocs
<1>6. TypeOK' BY <1>4, <1>5 DEF IndInv, TypeOK, ProductDoc
<1>7. ShapeOK' /\ MeetOK' BY <1>5 DEF IndInv, ShapeOK, MeetOK, Active
<1>8. MadeOK' /\ FabricsOK' /\ DeletionsOK'
  <2>1. \A o \in Request : Kept(req[o], req'[o]) BY <1>5 DEF Kept
  <2>2. Active' \subseteq Active BY <1>5 DEF Active
  <2> QED BY <1>1, <2>1, <2>2, FabricsKept
<1>9. ProductsOK'
  <2>1. ASSUME NEW o \in Product, product'[o].is = "there"
        PROVE  product'[o] = product[o]
    BY <1>3, <1>4, <2>1
  <2>2. ASSUME NEW o \in Request, req[o].at \in {"categories", "set"}
        PROVE  UpdateOK(req[o])'
    <3>1. UpdateOK(req[o]) BY <2>2 DEF IndInv, ProductsOK
    <3>2. req[o].p \in Product BY <2>2, Fields DEF IndInv, ShapeOK, Holds
    <3> QED BY <1>3, <1>4, <1>5, <3>1, <3>2 DEF UpdateOK
  <2> QED BY <1>5, <2>1, <2>2 DEF IndInv, ProductsOK
<1>10. SlugsOK' BY <1>3, <1>4, <1>5 DEF IndInv, SlugsOK, CategoriesWereKnown
<1> QED BY <1>6, <1>7, <1>8, <1>9, <1>10 DEF IndInv

LEMMA DeleteCategoryKeeps ==
    ASSUME IndInv, NEW s \in Slug, deleteCategory(s)
    PROVE  IndInv'
<1>1. /\ slug[s] = "there" /\ slug' = [slug EXCEPT ![s] = "gone"]
      /\ UNCHANGED <<fabricDocs, product, req, disturbed>>
  BY DEF deleteCategory
<1>2. UNCHANGED <<category, fabric, product, req, disturbed>> BY <1>1 DEF fabricDocs
<1>3. slug \in [Slug -> {"none", "there", "gone"}] BY DEF IndInv, TypeOK
<1>4. /\ slug' \in [Slug -> {"none", "there", "gone"}]
      /\ \A k \in Slug : slug[k] # "none" => slug'[k] # "none"
  BY <1>1, <1>3
<1>5. TypeOK' BY <1>2, <1>4 DEF IndInv, TypeOK
<1>6. ShapeOK' /\ MeetOK' BY <1>2 DEF IndInv, ShapeOK, MeetOK, Active
<1>7. MadeOK' /\ FabricsOK' /\ DeletionsOK'
  <2>1. \A o \in Request : Kept(req[o], req'[o]) BY <1>2 DEF Kept
  <2>2. Active' \subseteq Active BY <1>2 DEF Active
  <2> QED BY <1>1, <2>1, <2>2, FabricsKept
<1>8. ProductsOK' BY <1>2 DEF IndInv, ProductsOK, UpdateOK
<1>9. SlugsOK'
  <2>1. \A o \in Product : product[o].slugs \subseteq Slug BY ProductFields DEF IndInv
  <2>2. CategoriesWereKnown'
    BY <1>2, <1>4, <2>1 DEF IndInv, SlugsOK, CategoriesWereKnown
  <2>3. ASSUME NEW o \in Request, Brings(req[o]), NEW k \in req[o].slugs
        PROVE  slug'[k] # "none"
    <3>1. slug[k] # "none" BY <2>3 DEF IndInv, SlugsOK
    <3>2. req[o].slugs \subseteq Slug BY <2>3, Fields DEF IndInv, ShapeOK, Holds, Brings
    <3> QED BY <1>4, <2>3, <3>1, <3>2
  <2> QED BY <1>2, <2>2, <2>3 DEF SlugsOK
<1> QED BY <1>5, <1>6, <1>7, <1>8, <1>9 DEF IndInv

-----------------------------------------------------------------------------
(* What each request begins with *)

LEMMA CreateFabricKeeps ==
    ASSUME IndInv, NEW q \in Request, NEW c \in FabricCategory, createFabric(q, c)
    PROVE  IndInv'
<1> DEFINE r == [Idle EXCEPT !.at = "create", !.c = c]
<1>1. /\ r \in Slot /\ r.at = "create" /\ r.c = c /\ r.met = FALSE /\ r.f = None
      /\ r.old = None /\ r.saw = {}
  BY DEF Slot, Idle, Place
<1>2. Begin(q, r) BY DEF createFabric
<1> HIDE DEF r
<1>3. Holds(r) BY <1>1, NoneAssumption DEF Holds
<1>4. ~Moves(r) /\ ~Brings(r) BY <1>1 DEF Moves, Brings
<1> QED BY <1>1, <1>2, <1>3, <1>4, Begins

LEMMA UpdateFabricKeeps ==
    ASSUME IndInv, NEW q \in Request, NEW f \in Fabric, NEW c \in FabricCategory \cup {None},
           updateFabric(q, f, c)
    PROVE  IndInv'
<1> DEFINE write == [Idle EXCEPT !.at = "write", !.f = f, !.c = c]
           pull == [Idle EXCEPT !.at = "pull", !.f = f, !.c = c, !.old = fabric[f].category]
<1>1. /\ fabric[f].is # "none" /\ fabric[f].category \in FabricCategory
      /\ fabric[f].category # None
  BY Types, NoneAssumption DEF updateFabric, IndInv, TypeOK
<1>2. CASE c \in {None, fabric[f].category}
  <2>1. Begin(q, write) BY <1>2 DEF updateFabric
  <2>2. /\ write \in Slot /\ write.at = "write" /\ write.f = f /\ write.c = c
        /\ write.old = None /\ write.met = FALSE /\ write.saw = {}
    BY DEF Slot, Idle, Place
  <2> HIDE DEF write
  <2>3. Holds(write) BY <2>2, NoneAssumption DEF Holds
  <2>4. ~Brings(write) BY <2>2 DEF Brings
  <2>5. Moves(write) => NameKnown(write) /\ (Agrees(write.f) => MoveOK(write))
    BY <1>1, <1>2, <2>2 DEF Moves, NameKnown, Agrees, MoveOK
  <2> QED BY <1>1, <2>1, <2>2, <2>3, <2>4, <2>5, Begins
<1>3. CASE c \notin {None, fabric[f].category}
  <2>1. Begin(q, pull) BY <1>3 DEF updateFabric
  <2>2. /\ pull \in Slot /\ pull.at = "pull" /\ pull.f = f /\ pull.c = c
        /\ pull.old = fabric[f].category /\ pull.met = FALSE /\ pull.saw = {}
    BY <1>1 DEF Slot, Idle, Place
  <2> HIDE DEF pull
  <2>3. Holds(pull) BY <1>1, <1>3, <2>2, NoneAssumption DEF Holds
  <2>4. ~Brings(pull) BY <2>2 DEF Brings
  <2>5. NameKnown(pull) /\ (Agrees(pull.f) => MoveOK(pull))
    BY <1>1, <2>2 DEF NameKnown, Agrees, MoveOK
  <2> QED BY <1>1, <2>1, <2>2, <2>3, <2>4, <2>5, Begins
<1> QED BY <1>2, <1>3

LEMMA DeleteFabricKeeps ==
    ASSUME IndInv, NEW q \in Request, NEW f \in Fabric, deleteFabric(q, f)
    PROVE  IndInv'
<1> DEFINE r == [Idle EXCEPT !.at = "unlist", !.f = f, !.old = fabric[f].category]
<1>1. /\ fabric[f].is # "none" /\ fabric[f].category \in FabricCategory
      /\ fabric[f].category # None
  BY Types, NoneAssumption DEF deleteFabric, IndInv, TypeOK
<1>2. Begin(q, r) BY DEF deleteFabric
<1>3. /\ r \in Slot /\ r.at = "unlist" /\ r.f = f /\ r.c = None
      /\ r.old = fabric[f].category /\ r.met = FALSE /\ r.saw = {}
  BY <1>1 DEF Slot, Idle, Place
<1> HIDE DEF r
<1>4. Holds(r) BY <1>1, <1>3, NoneAssumption DEF Holds
<1>5. ~Brings(r) BY <1>3 DEF Brings
<1>6. NameKnown(r) /\ (Agrees(r.f) => MoveOK(r))
  BY <1>1, <1>3 DEF NameKnown, Agrees, MoveOK
<1> QED BY <1>1, <1>2, <1>3, <1>4, <1>5, <1>6, Begins

LEMMA DeleteFabricCategoryKeeps ==
    ASSUME IndInv, NEW q \in Request, NEW c \in FabricCategory, deleteFabricCategory(q, c)
    PROVE  IndInv'
<1> DEFINE place == IF category[c].fabrics = {} THEN "remove" ELSE "softDelete"
           r == [Idle EXCEPT !.at = place, !.c = c, !.saw = category[c].fabrics]
<1>1. category[c].fabrics \subseteq Fabric BY Types DEF IndInv, CategoryDoc
<1>2. Begin(q, r) BY DEF deleteFabricCategory
<1>3. place \in Place /\ place \in {"remove", "softDelete"} BY DEF Place
<1>4. place = "remove" => category[c].fabrics = {} OBVIOUS
<1> HIDE DEF place
<1>5. /\ r \in Slot /\ r.at = place /\ r.c = c /\ r.saw = category[c].fabrics
      /\ r.met = FALSE /\ r.f = None /\ r.old = None
  BY <1>1, <1>3 DEF Slot, Idle
<1> HIDE DEF r
<1>6. Holds(r) BY <1>3, <1>5, NoneAssumption DEF Holds
<1>7. ~Moves(r) /\ ~Brings(r) BY <1>3, <1>5 DEF Moves, Brings
<1>8. \A f \in r.saw : fabric[f].is # "none" BY <1>5 DEF IndInv, MadeOK
<1>9. r.at \notin {"categories", "set"} BY <1>3, <1>5
<1> QED BY <1>2, <1>4, <1>5, <1>6, <1>7, <1>8, <1>9, Begins

LEMMA CreateProductKeeps ==
    ASSUME IndInv, NEW q \in Request, NEW styles \in SUBSET Style,
           NEW default \in Style \cup {None, Blank}, NEW slugs \in SUBSET Slug,
           createProduct(q, styles, default, slugs)
    PROVE  IndInv'
<1> DEFINE r == [Idle EXCEPT !.at = "insert", !.styles = styles, !.default = default,
                             !.slugs = slugs]
<1>1. /\ styles # {} /\ default \in styles \cup {None, Blank} /\ slugs \subseteq Known
      /\ Begin(q, r)
  BY DEF createProduct, validateStyleOptions, validateCategoryRefs
<1>2. /\ r \in Slot /\ r.at = "insert" /\ r.styles = styles /\ r.default = default
      /\ r.slugs = slugs /\ r.met = FALSE /\ r.f = None /\ r.old = None /\ r.saw = {}
  BY DEF Slot, Idle, Place
<1> HIDE DEF r
<1>3. Holds(r) BY <1>1, <1>2 DEF Holds
<1>4. ~Moves(r) BY <1>2 DEF Moves
<1>5. \A k \in r.slugs : slug[k] # "none" BY <1>1, <1>2 DEF Known
<1> QED BY <1>1, <1>2, <1>3, <1>4, <1>5, Begins

LEMMA UpdateProductKeeps ==
    ASSUME IndInv, NEW q \in Request, NEW p \in Product,
           NEW styles \in (SUBSET Style) \cup {None},
           NEW default \in Style \cup {None, Blank}, NEW slugs \in (SUBSET Slug) \cup {None},
           updateProduct(q, p, styles, default, slugs)
    PROVE  IndInv'
<1> DEFINE place == IF slugs = None THEN "set" ELSE "categories"
           r == [Idle EXCEPT !.at = place, !.p = p, !.styles = styles, !.default = default,
                             !.slugs = slugs]
<1>1. /\ Begin(q, r)
      /\ \/ styles = None /\ default = None
         \/ /\ product[p].is = "there"
            /\ Or(styles, product[p].styles) # {}
            /\ Or(default, product[p].default) \in Or(styles, product[p].styles) \cup {None, Blank}
  BY DEF updateProduct, validateStyleOptions
<1>2. place \in Place /\ place \in {"set", "categories"} /\ (place = "set" => slugs = None)
  BY DEF Place
<1> HIDE DEF place
<1>3. /\ r \in Slot /\ r.at = place /\ r.p = p /\ r.styles = styles /\ r.default = default
      /\ r.slugs = slugs /\ r.met = FALSE /\ r.f = None /\ r.old = None /\ r.saw = {}
  BY <1>2 DEF Slot, Idle
<1> HIDE DEF r
<1>4. styles # None => styles # {} BY <1>1 DEF Or
<1>5. p # None BY NoneAssumption
<1>6. Holds(r) BY <1>2, <1>3, <1>4, <1>5 DEF Holds
<1>7. ~Moves(r) /\ ~Brings(r) BY <1>2, <1>3 DEF Moves, Brings
<1>8. UpdateOK(r)
  <2>1. product[p].is = "there" => product[p].default # None BY DEF IndInv, ProductsOK
  <2> QED BY <1>1, <1>3, <2>1 DEF UpdateOK, Or
<1>9. r.at \notin {"softDelete", "remove"} BY <1>2, <1>3
<1> QED BY <1>1, <1>3, <1>6, <1>7, <1>8, <1>9, Begins

LEMMA AddCategoryKeeps ==
    ASSUME IndInv, NEW q \in Request, NEW k \in Slug, addCategory(q, k)
    PROVE  IndInv'
<1> DEFINE r == [Idle EXCEPT !.at = "addSlug", !.slugs = {k}]
<1>1. Begin(q, r) BY DEF addCategory
<1>2. /\ r \in Slot /\ r.at = "addSlug" /\ r.met = FALSE /\ r.f = None /\ r.old = None
      /\ r.saw = {}
  BY DEF Slot, Idle, Place
<1> HIDE DEF r
<1>3. Holds(r) /\ ~Moves(r) /\ ~Brings(r) BY <1>2 DEF Holds, Moves, Brings
<1> QED BY <1>1, <1>2, <1>3, Begins

-----------------------------------------------------------------------------
(* The theorems *)

LEMMA Inductive == IndInv /\ [Next]_vars => IndInv'
<1> SUFFICES ASSUME IndInv, [Next]_vars PROVE IndInv'
  OBVIOUS
<1>1. ASSUME NEW q \in Request, FabricStep(q) PROVE IndInv'
  <2>1. ASSUME NEW c \in FabricCategory, createFabric(q, c) PROVE IndInv'
    BY <2>1, CreateFabricKeeps
  <2>2. ASSUME NEW c \in FabricCategory, deleteFabricCategory(q, c) PROVE IndInv'
    BY <2>2, DeleteFabricCategoryKeeps
  <2>3. ASSUME NEW f \in Fabric, InsertFabric(q, f) PROVE IndInv'
    BY <2>3, InsertFabricKeeps
  <2>4. ASSUME NEW f \in Fabric, deleteFabric(q, f) PROVE IndInv'
    BY <2>4, DeleteFabricKeeps
  <2>5. ASSUME NEW f \in Fabric, NEW c \in FabricCategory \cup {None}, updateFabric(q, f, c)
        PROVE  IndInv'
    BY <2>5, UpdateFabricKeeps
  <2>6. CASE PushFabric(q) BY <2>6, PushFabricKeeps
  <2>7. CASE PullFabric(q) BY <2>7, PullFabricKeeps
  <2>8. CASE FindNewCategory(q) BY <2>8, FindNewCategoryKeeps
  <2>9. CASE AddFabric(q) BY <2>9, AddFabricKeeps
  <2>10. CASE WriteFabric(q) BY <2>10, WriteFabricKeeps
  <2>11. CASE SaveDeleted(q) BY <2>11, SaveDeletedKeeps
  <2>12. CASE SoftDeleteFabrics(q) BY <2>12, SoftDeleteFabricsKeeps
  <2>13. CASE RemoveCategory(q) BY <2>13, RemoveCategoryKeeps
  <2> QED
    BY <1>1, <2>1, <2>2, <2>3, <2>4, <2>5, <2>6, <2>7, <2>8, <2>9, <2>10, <2>11, <2>12, <2>13
       DEF FabricStep
<1>2. ASSUME NEW q \in Request, ProductStep(q) PROVE IndInv'
  <2>1. ASSUME NEW styles \in SUBSET Style, NEW default \in Style \cup {None, Blank},
               NEW slugs \in SUBSET Slug, createProduct(q, styles, default, slugs)
        PROVE  IndInv'
    BY <2>1, CreateProductKeeps
  <2>2. ASSUME NEW p \in Product, NEW styles \in (SUBSET Style) \cup {None},
               NEW default \in Style \cup {None, Blank},
               NEW slugs \in (SUBSET Slug) \cup {None},
               updateProduct(q, p, styles, default, slugs)
        PROVE  IndInv'
    BY <2>2, UpdateProductKeeps
  <2>3. ASSUME NEW p \in Product, InsertProduct(q, p) PROVE IndInv'
    BY <2>3, InsertProductKeeps
  <2>4. ASSUME NEW k \in Slug, addCategory(q, k) PROVE IndInv'
    BY <2>4, AddCategoryKeeps
  <2>5. CASE ValidateCategories(q) BY <2>5, ValidateCategoriesKeeps
  <2>6. CASE SetProduct(q) BY <2>6, SetProductKeeps
  <2>7. CASE InsertCategory(q) BY <2>7, InsertCategoryKeeps
  <2> QED BY <1>2, <2>1, <2>2, <2>3, <2>4, <2>5, <2>6, <2>7 DEF ProductStep
<1>3. ASSUME NEW q \in Request, Fail(q) PROVE IndInv'
  <2>1. q \in Active /\ Stop(q) BY <1>3 DEF Fail, Active
  <2> QED BY <2>1, Stops
<1>4. ASSUME NEW c \in FabricCategory, createFabricCategory(c) PROVE IndInv'
  BY <1>4, CreateCategoryKeeps
<1>5. ASSUME NEW p \in Product, deleteProduct(p) PROVE IndInv'
  BY <1>5, DeleteProductKeeps
<1>6. ASSUME NEW k \in Slug, deleteCategory(k) PROVE IndInv'
  BY <1>6, DeleteCategoryKeeps
<1>7. CASE UNCHANGED vars
  <2>1. UNCHANGED <<category, fabric, slug, product, req, disturbed>>
    BY <1>7 DEF vars
  <2> QED
    BY <2>1 DEF IndInv, TypeOK, ShapeOK, MeetOK, Active, MadeOK, FabricsOK, FabricOK, Movers,
                NameKnown, MoveOK, There, Agrees, ListedOnlyIn, Unlisted, Listed, DeletionsOK,
                ProductsOK, UpdateOK, SlugsOK, CategoriesWereKnown
<1> QED BY <1>1, <1>2, <1>3, <1>4, <1>5, <1>6, <1>7 DEF Next

LEMMA Initially == Init => IndInv
<1> SUFFICES ASSUME Init PROVE IndInv
  OBVIOUS
<1>2. \A q \in Request : req[q] = Idle BY DEF Init
<1>3. Idle \in Slot /\ Idle.at = "idle" BY IdleSlot, IdleHolds
<1>4. Active = {} /\ \A f : Movers(f) = {} BY <1>2, <1>3, IdleHolds DEF Active, Movers
<1>5. \A c \in FabricCategory : category[c].is = "none" /\ category[c].fabrics = {}
  BY DEF Init
<1>6. \A f \in Fabric : fabric[f].is = "none" BY DEF Init
<1>7. \A p \in Product : product[p].is = "none" /\ product[p].slugs = {} BY DEF Init
<1>8. TypeOK
  <2>1. req \in [Request -> Slot] BY <1>3 DEF Init
  <2> QED BY <1>6, <2>1 DEF Init, TypeOK, Slot
<1>9. ShapeOK BY <1>2, IdleHolds DEF ShapeOK
<1>10. MeetOK /\ MadeOK BY <1>4, <1>5 DEF MeetOK, MadeOK
<1>11. FabricsOK BY <1>4, <1>5, <1>6 DEF FabricsOK, FabricOK, Agrees, ListedOnlyIn, Listed
<1>12. DeletionsOK BY <1>6 DEF DeletionsOK
<1>13. ProductsOK BY <1>2, <1>3, <1>7 DEF ProductsOK
<1>14. SlugsOK BY <1>2, <1>3, <1>7 DEF SlugsOK, Brings, CategoriesWereKnown
<1> QED BY <1>8, <1>9, <1>10, <1>11, <1>12, <1>13, <1>14 DEF IndInv

LEMMA Invariant == Spec => []IndInv
BY Initially, Inductive, PTL DEF Spec

\* Documents, requests and what was disturbed have the types of the code's models.
THEOREM TypeCorrect == Spec => []TypeOK
<1>1. IndInv => TypeOK BY DEF IndInv
<1> QED BY <1>1, Invariant, PTL

\* The fabrics of a category and the category of a fabric agree when nobody is at
\* work on them, whatever the number of requests and the order of their commands.
THEOREM ListsStayInStep == Spec => []ListsAgree
<1>1. ASSUME IndInv PROVE ListsAgree
  <2>1. \A c \in FabricCategory : \A f \in category[c].fabrics : fabric[f].is # "none"
    BY <1>1 DEF IndInv, MadeOK
  <2>2. ASSUME NEW f \in Fabric \ disturbed, \A q \in Active : f \notin Concerns(q)
        PROVE  /\ fabric[f].is = "live" => There(fabric[f].category)
               /\ fabric[f].is = "live" => f \in category[fabric[f].category].fabrics
               /\ \A c \in FabricCategory : f \in category[c].fabrics => fabric[f].category = c
    <3>1. f # None BY NoneAssumption
    <3>2. \A q \in Active : req[q].f # f BY <2>2, <3>1 DEF Concerns
    <3>3. Movers(f) = {} BY <3>2 DEF Movers, Moves, Active
    <3>4. Agrees(f) BY <1>1, <3>3 DEF IndInv, FabricsOK, FabricOK
    <3>5. fabric[f].is = "live" => fabric[f].category \in FabricCategory
      BY <1>1 DEF IndInv, TypeOK
    <3>6. \A c \in FabricCategory : f \in category[c].fabrics => category[c].is = "there"
      BY <1>1 DEF IndInv, MadeOK
    <3> QED
      BY <3>4, <3>5, <3>6, NoneAssumption DEF Agrees, ListedOnlyIn, Listed, There
  <2> QED BY <2>1, <2>2 DEF ListsAgree
<1> QED BY <1>1, Invariant, PTL

\* A product always offers a style, and a default among those it offers unless two
\* updates of it met.
THEOREM DefaultStaysOffered == Spec => []DefaultIsOffered
<1>1. IndInv => DefaultIsOffered BY DEF IndInv, ProductsOK, DefaultIsOffered
<1> QED BY <1>1, Invariant, PTL

\* A product names only categories that there have been.
THEOREM CategoriesStayKnown == Spec => []CategoriesWereKnown
<1>1. IndInv => CategoriesWereKnown BY DEF IndInv, SlugsOK
<1> QED BY <1>1, Invariant, PTL
=============================================================================
