-------------------------- MODULE CatalogueProofs --------------------------
(***************************************************************************)
(* Safety of the catalogue for any products, services, synchronisations,   *)
(* administrators and customers: the conjunction of the type invariant and *)
(* the two properties is inductive.  Then the watches of its products, for *)
(* any users, prices and stock.                                            *)
(***************************************************************************)
EXTENDS Catalogue, Watches, FiniteSetTheorems, TLAPS

LEMMA InitType == CatalogueInit => CatalogueTypeOK
  BY CatalogueAssumption
  DEF CatalogueInit, CatalogueTypeOK, Providers, ServiceStatus, ProductRow, Job

\* The jobs of the synchronisations.
LEMMA SyncType ==
  ASSUME CatalogueTypeOK, NEW s \in Syncs,
         SyncFetch(s) \/ SyncLoad(s) \/ SyncSave(s)
  PROVE  CatalogueTypeOK'
<1>1. CASE SyncFetch(s)
  BY <1>1 DEF CatalogueTypeOK, SyncFetch, rows, Job
<1>2. CASE SyncLoad(s)
  BY <1>2 DEF CatalogueTypeOK, SyncLoad, rows, Job
<1>3. CASE SyncSave(s)
  <2>1. syncs' \in [Syncs ->
       {Job("free")}
         \cup [at : {"fetched"}, list : SUBSET Services]
         \cup [at : {"loaded"}, list : SUBSET Services,
               seen : [Services -> ServiceStatus \cup {None}]]]
    BY <1>3 DEF CatalogueTypeOK, SyncSave, Done, Job
  <2>2. service' \in [Services -> ServiceStatus \cup {None}]
    BY <1>3 DEF CatalogueTypeOK, SyncSave, ServiceStatus
  <2>3. product' \in [Products -> ProductRow \cup {None}]
    <3>1. ASSUME NEW p \in Products
          PROVE  Paused(s)[p] \in ProductRow \cup {None}
      <4>1. p \in Affected(s) => product[p] \in ProductRow
        BY DEF Affected, Linked, CatalogueTypeOK
      <4>2. QED
        BY <4>1 DEF Paused, CatalogueTypeOK, ProductRow, ProductStatus
    <3>2. QED
      BY <3>1, <1>3 DEF SyncSave, Pause, Paused, CatalogueTypeOK
  <2>4. late' \subseteq Products
    BY <1>3 DEF CatalogueTypeOK, SyncSave
  <2>5. QED
    BY <1>3, <2>1, <2>2, <2>3, <2>4 DEF CatalogueTypeOK, SyncSave
<1>4. QED
  BY <1>1, <1>2, <1>3

\* What administrators do in steps of their own.
AdminStep(a) ==
  \/ ProdServiceSelected(a) \/ SaveProduct(a) \/ ProdToggle(a)
  \/ AprovToggleRead(a) \/ AprovToggle(a)
  \/ SectionRead(a) \/ SectionLog(a) \/ SectionLoad(a) \/ SectionDelete(a)
  \/ \E p \in Products : ProdToggleRead(a, p)

AdminJobs ==
  {Job("free"), Job("logging"), Job("deleting")}
    \cup [at : {"choosing"}, link : Services \cup {None}]
    \cup [at : {"product"}, product : Products, to : ProductStatus]
    \cup [at : {"provider"}, to : Providers]
    \cup [at : {"section"}, loaded : SUBSET Products]

LEMMA AdminJobTypes ==
  ASSUME CatalogueTypeOK, NEW a \in Admins
  PROVE  /\ admins[a].at = "choosing" => admins[a].link \in Services \cup {None}
         /\ admins[a].at = "product" =>
              admins[a].product \in Products /\ admins[a].to \in ProductStatus
         /\ admins[a].at = "provider" => admins[a].to \in Providers
         /\ admins[a].at = "section" => admins[a].loaded \subseteq Products
  BY DEF CatalogueTypeOK, Job

LEMMA AdminType ==
  ASSUME CatalogueTypeOK, NEW a \in Admins, AdminStep(a)
  PROVE  CatalogueTypeOK'
<1> USE DEF CatalogueTypeOK, rows
<1>0. Done(admins, a) \in [Admins -> AdminJobs]
  BY DEF Done, AdminJobs
<1>1. CASE ProdServiceSelected(a)
  BY <1>1 DEF ProdServiceSelected
<1>2. CASE SaveProduct(a)
  <2>1. product' \in [Products -> ProductRow \cup {None}]
    <3>1. CASE UNCHANGED product
      BY <3>1
    <3>2. ASSUME NEW p \in Products,
                 product' = [product EXCEPT ![p] =
                   [status |-> "active", link |-> admins[a].link, of |-> TRUE]]
          PROVE  product' \in [Products -> ProductRow \cup {None}]
      <4>1. admins[a].link \in Services \cup {None}
        BY <1>2, AdminJobTypes DEF SaveProduct
      <4>2. [status |-> "active", link |-> admins[a].link, of |-> TRUE]
              \in ProductRow
        BY <4>1 DEF ProductRow, ProductStatus
      <4>3. QED
        BY <3>2, <4>2
    <3>3. QED
      BY <1>2, <3>1, <3>2 DEF SaveProduct
  <2>2. late' \subseteq Products
    BY <1>2 DEF SaveProduct
  <2>3. QED
    BY <1>0, <1>2, <2>1, <2>2 DEF SaveProduct, AdminJobs
<1>3. CASE ProdToggle(a)
  <2> DEFINE job == admins[a]
             row == product[job.product]
  <2>1. job.product \in Products /\ job.to \in ProductStatus
    BY <1>3, AdminJobTypes DEF ProdToggle
  <2>2. product' \in [Products -> ProductRow \cup {None}]
    <3>1. CASE row # None
      <4>1. row \in ProductRow
        BY <2>1, <3>1
      <4>2. [row EXCEPT !.status = job.to] \in ProductRow
        BY <2>1, <4>1 DEF ProductRow
      <4>3. product' = [product EXCEPT ![job.product] =
                          [row EXCEPT !.status = job.to]]
        BY <1>3, <3>1 DEF ProdToggle
      <4>4. QED
        BY <2>1, <4>2, <4>3
    <3>2. QED
      BY <1>3, <3>1 DEF ProdToggle
  <2>3. late' \subseteq Products
    BY <1>3, <2>1 DEF ProdToggle
  <2>4. QED
    BY <1>0, <1>3, <2>2, <2>3 DEF ProdToggle, AdminJobs
<1>4. CASE AprovToggleRead(a)
  BY <1>4 DEF AprovToggleRead, Providers
<1>5. CASE AprovToggle(a)
  BY <1>0, <1>5, AdminJobTypes DEF AprovToggle, AdminJobs
<1>6. CASE SectionRead(a)
  BY <1>6 DEF SectionRead
<1>7. CASE SectionLog(a)
  BY <1>0, <1>7 DEF SectionLog, AdminJobs
<1>8. CASE SectionLoad(a)
  BY <1>8 DEF SectionLoad
<1>9. CASE SectionDelete(a)
  <2>1. /\ product' \in [Products -> ProductRow \cup {None}]
        /\ late' \subseteq Products
    BY <1>9 DEF SectionDelete
  <2>2. section' \in BOOLEAN
    BY <1>9 DEF SectionDelete
  <2>3. QED
    BY <1>0, <1>9, <2>1, <2>2 DEF SectionDelete, AdminJobs
<1>10. CASE \E p \in Products : ProdToggleRead(a, p)
  BY <1>10 DEF ProdToggleRead, ProductStatus
<1>11. QED
  BY <1>1, <1>2, <1>3, <1>4, <1>5, <1>6, <1>7, <1>8, <1>9, <1>10 DEF AdminStep

\* The deletions that are one step, and the customers.
OtherStep ==
  \/ \E p \in Products : ProdDelete(p)
  \/ AprovDelete
  \/ \E b \in Buyers : SaveOrder(b) \/ \E p \in Products : PurchaseCheck(b, p)

LEMMA OtherType ==
  ASSUME CatalogueTypeOK, OtherStep
  PROVE  CatalogueTypeOK'
<1> USE DEF CatalogueTypeOK, rows
<1>1. ASSUME NEW p \in Products, ProdDelete(p)
      PROVE  CatalogueTypeOK'
  BY <1>1 DEF ProdDelete
<1>2. CASE AprovDelete
  <2>1. product' \in [Products -> ProductRow \cup {None}]
    <3>1. ASSUME NEW p \in Products, product[p] # None
          PROVE  [product[p] EXCEPT !.link = None, !.of = FALSE] \in ProductRow
      <4>1. product[p] \in ProductRow
        BY <3>1
      <4>2. QED
        BY <4>1 DEF ProductRow
    <3>2. DEFINE row(p) ==
            IF product[p] # None
              THEN [product[p] EXCEPT !.link = None, !.of = FALSE] ELSE None
    <3>3. \A p \in Products : row(p) \in ProductRow \cup {None}
      BY <3>1
    <3>4. product' = [p \in Products |-> row(p)]
      BY <1>2 DEF AprovDelete
    <3>5. HIDE DEF row
    <3>6. QED
      BY <3>3, <3>4
  <2>2. QED
    BY <1>2, <2>1 DEF AprovDelete
<1>3. ASSUME NEW b \in Buyers, SaveOrder(b)
      PROVE  CatalogueTypeOK'
  <2>1. buyers[b].product \in Products
    BY <1>3 DEF SaveOrder, Job
  <2>2. QED
    BY <1>3, <2>1 DEF SaveOrder, Done
<1>4. ASSUME NEW b \in Buyers, NEW p \in Products, PurchaseCheck(b, p)
      PROVE  CatalogueTypeOK'
  BY <1>4 DEF PurchaseCheck
<1>5. QED
  BY <1>1, <1>2, <1>3, <1>4 DEF OtherStep

LEMMA NextSplit ==
  ASSUME CatalogueNext
  PROVE  \/ \E s \in Syncs : SyncFetch(s) \/ SyncLoad(s) \/ SyncSave(s)
         \/ \E a \in Admins : AdminStep(a)
         \/ OtherStep
  BY DEF CatalogueNext, AdminStep, OtherStep

LEMMA NextType ==
  CatalogueTypeOK /\ [CatalogueNext]_catalogueVars => CatalogueTypeOK'
<1>1. ASSUME CatalogueTypeOK, CatalogueNext
      PROVE  CatalogueTypeOK'
  BY <1>1, NextSplit, SyncType, AdminType, OtherType
<1>2. ASSUME CatalogueTypeOK, UNCHANGED catalogueVars
      PROVE  CatalogueTypeOK'
  BY <1>2 DEF CatalogueTypeOK, catalogueVars, rows
<1>3. QED
  BY <1>1, <1>2

\* Every row and every job has its type.
THEOREM CatalogueTypeCorrect == CatalogueSpec => []CatalogueTypeOK
  BY InitType, NextType, PTL DEF CatalogueSpec

-----------------------------------------------------------------------------
(* References                                                              *)

\* A product keeps what it refers to, or refers to nothing.
LEMMA PausedRows ==
  ASSUME CatalogueTypeOK, NEW s \in Syncs, NEW p \in Products
  PROVE  /\ Paused(s)[p] = None <=> product[p] = None
         /\ product[p] # None =>
              /\ Paused(s)[p].link = product[p].link
              /\ Paused(s)[p].of = product[p].of
              /\ p \in Affected(s) => Paused(s)[p].status = "inactive"
              /\ p \notin Affected(s) => Paused(s)[p] = product[p]
<1>1. p \in Affected(s) => product[p] # None
  BY DEF Affected, Linked
<1>2. CASE product[p] # None
  <2>1. product[p] \in ProductRow
    BY <1>2 DEF CatalogueTypeOK
  <2>2. [product[p] EXCEPT !.status = "inactive"] \in ProductRow
    BY <2>1 DEF ProductRow, ProductStatus
  <2>3. QED
    BY <1>2, <2>1, <2>2, CatalogueAssumption DEF Paused, ProductRow
<1>3. CASE product[p] = None
  BY <1>1, <1>3 DEF Paused
<1>4. QED
  BY <1>2, <1>3

LEMMA SyncReferences ==
  ASSUME CatalogueTypeOK, RowsHaveTheirParents, NEW s \in Syncs,
         SyncFetch(s) \/ SyncLoad(s) \/ SyncSave(s)
  PROVE  RowsHaveTheirParents'
<1>1. CASE SyncFetch(s) \/ SyncLoad(s)
  BY <1>1 DEF SyncFetch, SyncLoad, rows, RowsHaveTheirParents
<1>2. CASE SyncSave(s) /\ ~Savable(s)
  BY <1>2 DEF SyncSave, RowsHaveTheirParents
<1>3. CASE SyncSave(s) /\ Savable(s)
  <2>1. provider' # None /\ UNCHANGED <<section, orders>>
    BY <1>3 DEF SyncSave, Savable
  <2>2. ASSUME NEW x \in Services, service[x] # None
        PROVE  service'[x] # None
    BY <1>3, <2>2, CatalogueAssumption DEF SyncSave, ServiceStatus
  <2>3. product' = Paused(s)
    BY <1>3 DEF SyncSave, Pause
  <2>4. ASSUME NEW p \in Products, product'[p] # None
        PROVE  /\ section'
               /\ product'[p].link # None => service'[product'[p].link] # None
               /\ product'[p].of => provider' # None
    <3>1. /\ product[p] # None
          /\ product'[p].link = product[p].link
      BY <2>3, <2>4, PausedRows
    <3>2. section /\ (product[p].link # None => service[product[p].link] # None)
      BY <3>1 DEF RowsHaveTheirParents
    <3>3. product[p].link \in Services \cup {None}
      BY <3>1 DEF CatalogueTypeOK, ProductRow
    <3>4. QED
      BY <2>1, <2>2, <3>1, <3>2, <3>3
  <2>5. \A p \in orders' : product'[p] # None /\ provider' # None
    BY <2>1, <2>3, PausedRows DEF RowsHaveTheirParents, CatalogueTypeOK
  <2>6. QED
    BY <2>1, <2>4, <2>5 DEF RowsHaveTheirParents
<1>4. QED
  BY <1>1, <1>2, <1>3

LEMMA AdminReferences ==
  ASSUME CatalogueTypeOK, RowsHaveTheirParents, NEW a \in Admins, AdminStep(a)
  PROVE  RowsHaveTheirParents'
<1>1. ASSUME UNCHANGED <<provider, service, product, section, orders>>
      PROVE  RowsHaveTheirParents'
  BY <1>1 DEF RowsHaveTheirParents
<1>2. CASE \/ ProdServiceSelected(a) \/ AprovToggleRead(a) \/ SectionRead(a)
           \/ SectionLog(a) \/ SectionLoad(a)
           \/ \E p \in Products : ProdToggleRead(a, p)
  BY <1>1, <1>2 DEF ProdServiceSelected, AprovToggleRead, SectionRead,
    SectionLog, SectionLoad, ProdToggleRead, rows
<1>3. CASE SaveProduct(a)
  <2>1. CASE UNCHANGED product
    BY <1>1, <1>3, <2>1 DEF SaveProduct
  <2>2. CASE ParentsExist(admins[a].link)
    <3>1. PICK p \in Products :
            /\ product[p] = None
            /\ product' = [product EXCEPT ![p] =
                 [status |-> "active", link |-> admins[a].link, of |-> TRUE]]
      BY <1>3, <2>2 DEF SaveProduct
    <3>2. UNCHANGED <<provider, service, section, orders>>
      BY <1>3 DEF SaveProduct
    <3>3. product'[p] =
            [status |-> "active", link |-> admins[a].link, of |-> TRUE]
      BY <3>1 DEF CatalogueTypeOK
    <3>4. \A q \in Products \ {p} : product'[q] = product[q]
      BY <3>1 DEF CatalogueTypeOK
    <3>5. p \notin orders
      BY <3>1 DEF RowsHaveTheirParents
    <3>6. product'[p].link # None => service'[product'[p].link] # None
      BY <2>2, <3>2, <3>3 DEF ParentsExist
    <3>7. QED
      BY <2>2, <3>2, <3>4, <3>5, <3>6
      DEF RowsHaveTheirParents, ParentsExist, CatalogueTypeOK
  <2>3. QED
    BY <1>3, <2>1, <2>2 DEF SaveProduct
<1>4. CASE ProdToggle(a)
  <2> DEFINE job == admins[a]
             row == product[job.product]
  <2>1. CASE row = None
    BY <1>1, <1>4, <2>1 DEF ProdToggle
  <2>2. CASE row # None
    <3>1. /\ job.product \in Products /\ row \in ProductRow
          /\ job.to \in ProductStatus
      BY <1>4, <2>2, AdminJobTypes DEF ProdToggle, CatalogueTypeOK
    <3>2. product' = [product EXCEPT ![job.product] =
                        [row EXCEPT !.status = job.to]]
      BY <1>4, <2>2 DEF ProdToggle
    <3>3. [row EXCEPT !.status = job.to] # None
      BY <3>1, CatalogueAssumption DEF ProductRow
    <3>4. /\ [row EXCEPT !.status = job.to].link = row.link
          /\ [row EXCEPT !.status = job.to].of = row.of
      BY <3>1 DEF ProductRow
    <3>5. \A p \in Products :
            /\ product'[p] # None <=> product[p] # None
            /\ product'[p].link = product[p].link
            /\ product'[p].of = product[p].of
      BY <2>2, <3>1, <3>2, <3>3, <3>4 DEF CatalogueTypeOK
    <3>6. UNCHANGED <<provider, service, section, orders>>
      BY <1>4 DEF ProdToggle
    <3>7. QED
      BY <3>5, <3>6 DEF RowsHaveTheirParents, CatalogueTypeOK
  <2>3. QED
    BY <2>1, <2>2
<1>5. CASE AprovToggle(a)
  <2>1. provider' # None <=> provider # None
    BY <1>5, AdminJobTypes, CatalogueAssumption DEF AprovToggle
  <2>2. QED
    BY <1>5, <2>1 DEF AprovToggle, RowsHaveTheirParents
<1>6. CASE SectionDelete(a)
  <2>1. CASE UNCHANGED product
    BY <1>1, <1>6, <2>1 DEF SectionDelete, RowsHaveTheirParents
  <2>2. QED
    BY <1>6 DEF SectionDelete, RowsHaveTheirParents, CatalogueTypeOK
<1>7. QED
  BY <1>2, <1>3, <1>4, <1>5, <1>6 DEF AdminStep

LEMMA OtherReferences ==
  ASSUME CatalogueTypeOK, RowsHaveTheirParents, OtherStep
  PROVE  RowsHaveTheirParents'
<1>1. ASSUME NEW p \in Products, ProdDelete(p)
      PROVE  RowsHaveTheirParents'
  BY <1>1 DEF ProdDelete, RowsHaveTheirParents, CatalogueTypeOK
<1>2. CASE AprovDelete
  <2>1. ASSUME NEW p \in Products, product'[p] # None
        PROVE  product[p] # None /\ product'[p].link = None /\ ~product'[p].of
    <3>1. product[p] # None
      BY <1>2, <2>1 DEF AprovDelete
    <3>2. product[p] \in ProductRow
      BY <3>1 DEF CatalogueTypeOK
    <3>3. product'[p] = [product[p] EXCEPT !.link = None, !.of = FALSE]
      BY <1>2, <3>1 DEF AprovDelete
    <3>4. QED
      BY <3>1, <3>2, <3>3 DEF ProductRow
  <2>2. /\ orders' = {} /\ section' = section
        /\ \A x \in Services : service'[x] = None
    BY <1>2 DEF AprovDelete
  <2>3. QED
    BY <2>1, <2>2 DEF RowsHaveTheirParents
<1>3. ASSUME NEW b \in Buyers, SaveOrder(b)
      PROVE  RowsHaveTheirParents'
  BY <1>3 DEF SaveOrder, RowsHaveTheirParents
<1>4. ASSUME NEW b \in Buyers, NEW p \in Products, PurchaseCheck(b, p)
      PROVE  RowsHaveTheirParents'
  BY <1>4 DEF PurchaseCheck, rows, RowsHaveTheirParents
<1>5. QED
  BY <1>1, <1>2, <1>3, <1>4 DEF OtherStep

\* Whatever is deleted, no row is left that refers to a missing one.
THEOREM NothingDangles == CatalogueSpec => []RowsHaveTheirParents
<1>1. CatalogueInit => RowsHaveTheirParents
  BY CatalogueAssumption DEF CatalogueInit, RowsHaveTheirParents
<1>2. CatalogueTypeOK /\ RowsHaveTheirParents /\ [CatalogueNext]_catalogueVars
        => RowsHaveTheirParents'
  <2>1. ASSUME CatalogueTypeOK, RowsHaveTheirParents, CatalogueNext
        PROVE  RowsHaveTheirParents'
    BY <2>1, NextSplit, SyncReferences, AdminReferences, OtherReferences
  <2>2. ASSUME RowsHaveTheirParents, UNCHANGED catalogueVars
        PROVE  RowsHaveTheirParents'
    BY <2>2 DEF RowsHaveTheirParents, catalogueVars, rows
  <2>3. QED
    BY <2>1, <2>2
<1>3. QED
  BY <1>1, <1>2, CatalogueTypeCorrect, PTL DEF CatalogueSpec

-----------------------------------------------------------------------------
(* Withdrawn services                                                      *)

LEMMA SyncPauses ==
  ASSUME CatalogueTypeOK, DelistedIsPaused, NEW s \in Syncs,
         SyncFetch(s) \/ SyncLoad(s) \/ SyncSave(s)
  PROVE  DelistedIsPaused'
<1>1. CASE SyncFetch(s) \/ SyncLoad(s)
  BY <1>1 DEF SyncFetch, SyncLoad, rows, DelistedIsPaused, Withdrawn
<1>2. CASE SyncSave(s) /\ ~Savable(s)
  BY <1>2 DEF SyncSave, DelistedIsPaused, Withdrawn
<1>3. CASE SyncSave(s) /\ Savable(s)
  <2>1. product' = Paused(s) /\ late' = late \ Affected(s)
    BY <1>3 DEF SyncSave, Pause
  <2>2. SUFFICES ASSUME NEW p \in Products,
                        product'[p] # None, product'[p].status = "active",
                        Withdrawn(product[p].link)'
                 PROVE  p \in late'
    <3>1. ASSUME NEW p \in Products, product'[p] # None
          PROVE  Withdrawn(product[p].link)' => product'[p].link # None
      BY DEF Withdrawn
    <3>2. QED
      BY <3>1 DEF DelistedIsPaused
  <2>3. product[p] # None /\ product'[p].link = product[p].link
    BY <2>1, <2>2, PausedRows
  <2>4. p \notin Affected(s)
    BY <2>1, <2>2, <2>3, PausedRows
  <2>5. product'[p] = product[p]
    BY <2>1, <2>3, <2>4, PausedRows
  <2> DEFINE x == product[p].link
  <2>6. x \in Services /\ service'[x] = "deleted"
    BY <2>2, <2>3, <2>5 DEF Withdrawn, CatalogueTypeOK, ProductRow
  <2>7. x \notin Deactivated(s)
    BY <2>3, <2>4, <2>6 DEF Affected, Linked
  <2>8. service[x] = "deleted"
    BY <1>3, <2>6, <2>7 DEF SyncSave
  <2>9. p \in late
    BY <2>2, <2>3, <2>5, <2>6, <2>8
    DEF DelistedIsPaused, Withdrawn, CatalogueTypeOK
  <2>10. QED
    BY <2>1, <2>4, <2>9
<1>4. QED
  BY <1>1, <1>2, <1>3

LEMMA AdminPauses ==
  ASSUME CatalogueTypeOK, DelistedIsPaused, NEW a \in Admins, AdminStep(a)
  PROVE  DelistedIsPaused'
<1>1. ASSUME UNCHANGED <<service, product, late>>
      PROVE  DelistedIsPaused'
  BY <1>1 DEF DelistedIsPaused, Withdrawn
<1>2. CASE \/ ProdServiceSelected(a) \/ AprovToggleRead(a) \/ AprovToggle(a)
           \/ SectionRead(a) \/ SectionLog(a) \/ SectionLoad(a)
           \/ \E p \in Products : ProdToggleRead(a, p)
  BY <1>1, <1>2 DEF ProdServiceSelected, AprovToggleRead, AprovToggle,
    SectionRead, SectionLog, SectionLoad, ProdToggleRead, rows
<1>3. CASE SaveProduct(a)
  <2> DEFINE link == admins[a].link
  <2>1. CASE UNCHANGED <<product, late>>
    BY <1>1, <1>3, <2>1 DEF SaveProduct
  <2>2. ASSUME NEW p \in Products,
               product' = [product EXCEPT ![p] =
                 [status |-> "active", link |-> link, of |-> TRUE]],
               late' = IF Withdrawn(link) THEN late \cup {p} ELSE late
        PROVE  DelistedIsPaused'
    <3>1. service' = service
      BY <1>3 DEF SaveProduct
    <3>2. /\ product'[p].link = link
          /\ \A q \in Products \ {p} : product'[q] = product[q]
      BY <2>2 DEF CatalogueTypeOK
    <3>3. Withdrawn(link) => p \in late'
      BY <2>2
    <3>4. late \subseteq late'
      BY <2>2
    <3>5. ASSUME NEW q \in Products, product'[q] # None,
                 product'[q].status = "active", Withdrawn(product[q].link)'
          PROVE  q \in late'
      <4>1. CASE q = p
        BY <3>1, <3>2, <3>3, <3>5, <4>1 DEF Withdrawn
      <4>2. CASE q # p
        BY <3>1, <3>2, <3>4, <3>5, <4>2 DEF Withdrawn, DelistedIsPaused
      <4>3. QED
        BY <4>1, <4>2
    <3>6. QED
      BY <3>5 DEF DelistedIsPaused
  <2>3. QED
    BY <1>3, <2>1, <2>2 DEF SaveProduct
<1>4. CASE ProdToggle(a)
  <2> DEFINE job == admins[a]
             row == product[job.product]
  <2>1. CASE row = None
    BY <1>1, <1>4, <2>1 DEF ProdToggle
  <2>2. CASE row # None
    <3>1. /\ job.product \in Products /\ row \in ProductRow
          /\ job.to \in ProductStatus
      BY <1>4, <2>2, AdminJobTypes DEF ProdToggle, CatalogueTypeOK
    <3>2. /\ product' = [product EXCEPT ![job.product] =
                           [row EXCEPT !.status = job.to]]
          /\ late' = IF job.to = "active" /\ Withdrawn(row.link)
                       THEN late \cup {job.product} ELSE late
          /\ service' = service
      BY <1>4, <2>2 DEF ProdToggle
    <3>3. /\ product'[job.product].link = row.link
          /\ product'[job.product].status = job.to
          /\ \A q \in Products \ {job.product} : product'[q] = product[q]
      BY <3>1, <3>2 DEF CatalogueTypeOK, ProductRow
    <3>4. ASSUME NEW q \in Products, product'[q] # None,
                 product'[q].status = "active", Withdrawn(product[q].link)'
          PROVE  q \in late'
      <4>1. CASE q = job.product
        BY <3>2, <3>3, <3>4, <4>1 DEF Withdrawn
      <4>2. CASE q # job.product
        BY <3>2, <3>3, <3>4, <4>2 DEF Withdrawn, DelistedIsPaused
      <4>3. QED
        BY <4>1, <4>2
    <3>5. QED
      BY <3>4 DEF DelistedIsPaused
  <2>3. QED
    BY <2>1, <2>2
<1>5. CASE SectionDelete(a)
  <2>1. CASE UNCHANGED <<product, late>>
    BY <1>1, <1>5, <2>1 DEF SectionDelete
  <2>2. CASE product' = [p \in Products |-> None]
    BY <2>2 DEF DelistedIsPaused
  <2>3. QED
    BY <1>5, <2>1, <2>2 DEF SectionDelete
<1>6. QED
  BY <1>2, <1>3, <1>4, <1>5 DEF AdminStep

LEMMA OtherPauses ==
  ASSUME CatalogueTypeOK, DelistedIsPaused, OtherStep
  PROVE  DelistedIsPaused'
<1>1. ASSUME NEW p \in Products, ProdDelete(p)
      PROVE  DelistedIsPaused'
  <2>1. /\ product'[p] = None /\ service' = service /\ late' = late \ {p}
        /\ \A q \in Products \ {p} : product'[q] = product[q]
    BY <1>1 DEF ProdDelete, CatalogueTypeOK
  <2>2. QED
    BY <2>1 DEF DelistedIsPaused, Withdrawn
<1>2. CASE AprovDelete
  <2>1. \A x \in Services : service'[x] # "deleted"
    BY <1>2, CatalogueAssumption DEF AprovDelete, ServiceStatus
  <2>2. ASSUME NEW p \in Products, product'[p] # None
        PROVE  product'[p].link = None
    <3>1. product[p] \in ProductRow
      BY <1>2, <2>2 DEF AprovDelete, CatalogueTypeOK
    <3>2. product'[p] = [product[p] EXCEPT !.link = None, !.of = FALSE]
      BY <1>2, <2>2 DEF AprovDelete
    <3>3. QED
      BY <3>1, <3>2 DEF ProductRow
  <2>3. QED
    BY <2>2 DEF DelistedIsPaused, Withdrawn
<1>3. ASSUME NEW b \in Buyers, SaveOrder(b)
      PROVE  DelistedIsPaused'
  BY <1>3 DEF SaveOrder, DelistedIsPaused, Withdrawn
<1>4. ASSUME NEW b \in Buyers, NEW p \in Products, PurchaseCheck(b, p)
      PROVE  DelistedIsPaused'
  BY <1>4 DEF PurchaseCheck, rows, DelistedIsPaused, Withdrawn
<1>5. QED
  BY <1>1, <1>2, <1>3, <1>4 DEF OtherStep

\* A product whose service was withdrawn is not on sale, unless it was put
\* there after the withdrawal.
THEOREM WithdrawnIsOffSale == CatalogueSpec => []DelistedIsPaused
<1>1. CatalogueInit => DelistedIsPaused
  BY DEF CatalogueInit, DelistedIsPaused
<1>2. CatalogueTypeOK /\ DelistedIsPaused /\ [CatalogueNext]_catalogueVars
        => DelistedIsPaused'
  <2>1. ASSUME CatalogueTypeOK, DelistedIsPaused, CatalogueNext
        PROVE  DelistedIsPaused'
    BY <2>1, NextSplit, SyncPauses, AdminPauses, OtherPauses
  <2>2. ASSUME DelistedIsPaused, UNCHANGED catalogueVars
        PROVE  DelistedIsPaused'
    BY <2>2 DEF DelistedIsPaused, Withdrawn, catalogueVars, rows
  <2>3. QED
    BY <2>1, <2>2
<1>3. QED
  BY <1>1, <1>2, CatalogueTypeCorrect, PTL DEF CatalogueSpec

-----------------------------------------------------------------------------
(* Numbers                                                                 *)

\* A set of natural numbers that is not empty has a smallest element.
LEMMA LeastElement ==
  ASSUME NEW S \in SUBSET Nat, S # {}
  PROVE  \E m \in S : \A i \in S : m <= i
<1>1. OpToRel(<, Nat) = {r \in Nat \X Nat : r[1] < r[2]}
  BY DEF OpToRel
<1>2. PICK m \in S : \A i \in S : ~ (<<i, m>> \in OpToRel(<, Nat))
  BY WFMin, NatLessThanWellFounded
<1>3. ASSUME NEW i \in S
      PROVE  ~ (i < m)
  BY <1>1, <1>2
<1>4. QED
  BY <1>3

LEMMA FiniteIsBounded ==
  ASSUME NEW S \in SUBSET Nat, IsFiniteSet(S)
  PROVE  \E b \in Nat : \A i \in S : i <= b
<1>1. PICK n \in Nat : ExistsSurjection(1 .. n, S)
  BY FS_NatSurjection
<1>2. PICK f \in [1 .. n -> S] : \A i \in S : \E k \in 1 .. n : f[k] = i
  BY <1>1 DEF ExistsSurjection, Surjection
<1> DEFINE Bounded(m) == \E b \in Nat : \A k \in 1 .. n : k <= m => f[k] <= b
           Unbounded == {m \in Nat : ~Bounded(m)}
<1>3. \A k \in 1 .. n : f[k] \in Nat
  OBVIOUS
<1>4. Bounded(0)
  <2>1. \A k \in 1 .. n : k <= 0 => f[k] <= 0
    OBVIOUS
  <2>2. QED
    BY <2>1
<1>5. ASSUME NEW m \in Nat, Bounded(m)
      PROVE  Bounded(m + 1)
  <2>1. PICK b \in Nat : \A k \in 1 .. n : k <= m => f[k] <= b
    BY <1>5
  <2>2. CASE m + 1 \in 1 .. n
    <3>1. PICK c \in Nat : b <= c /\ f[m + 1] <= c
      BY <1>3, <2>2
    <3>2. \A k \in 1 .. n : k <= m + 1 => f[k] <= c
      BY <1>3, <2>1, <3>1
    <3>3. QED
      BY <3>2
  <2>3. CASE m + 1 \notin 1 .. n
    <3>1. \A k \in 1 .. n : k <= m + 1 => f[k] <= b
      BY <2>1, <2>3
    <3>2. QED
      BY <3>1
  <2>4. QED
    BY <2>2, <2>3
<1>6. Unbounded = {}
  <2>1. SUFFICES ASSUME Unbounded # {}
                 PROVE  FALSE
    OBVIOUS
  <2> HIDE DEF Bounded
  <2>2. PICK m \in Unbounded : \A k \in Unbounded : m <= k
    BY <2>1, LeastElement
  <2>3. m \in Nat /\ m # 0
    BY <1>4
  <2>4. m - 1 \in Nat /\ Bounded(m - 1)
    BY <2>2, <2>3
  <2>5. Bounded(m - 1 + 1)
    BY <1>5, <2>4
  <2>6. m - 1 + 1 = m
    BY <2>3
  <2>7. QED
    BY <2>5, <2>6
<1>7. Bounded(n)
  BY <1>6
<1>8. PICK b \in Nat : \A k \in 1 .. n : k <= n => f[k] <= b
  BY <1>7
<1>9. \A k \in 1 .. n : f[k] <= b
  BY <1>8
<1>10. QED
  BY <1>2, <1>9

\* A finite set of natural numbers that is not empty has a largest element.
LEMMA FiniteHasMaximum ==
  ASSUME NEW S \in SUBSET Nat, IsFiniteSet(S), S # {}
  PROVE  \E m \in S : \A i \in S : i <= m
<1> DEFINE Bounds == {b \in Nat : \A i \in S : i <= b}
<1>1. Bounds # {}
  BY FiniteIsBounded
<1>2. PICK m \in Bounds : \A b \in Bounds : m <= b
  BY <1>1, LeastElement
<1>3. m \in S
  <2>1. SUFFICES ASSUME m \notin S
                 PROVE  FALSE
    OBVIOUS
  <2>2. \A i \in S : i <= m - 1
    BY <2>1
  <2>3. PICK i \in S : i <= m - 1
    BY <2>2
  <2>4. m - 1 \in Nat
    BY <2>3
  <2>5. QED
    BY <1>2, <2>2, <2>4
<1>4. QED
  BY <1>3

-----------------------------------------------------------------------------
(* Watches                                                                 *)

DistinctIds(w) ==
  \A u, v \in Watchers :
    w[u] # NoWatch /\ w[v] # NoWatch /\ w[u].id = w[v].id => u = v

LEMMA NewId ==
  ASSUME WatchesTypeOK
  PROVE  /\ NextId \in Nat
         /\ \A u \in Watchers : watch[u] # NoWatch => watch[u].id < NextId
<1> DEFINE holders == {v \in Watchers : watch[v] # NoWatch}
<1>1. \A u \in holders : watch[u] \in Watch
  BY DEF WatchesTypeOK
<1>2. Ids \in SUBSET Nat
  BY <1>1 DEF Ids, Watch
<1>3. IsFiniteSet(Ids)
  <2>1. IsFiniteSet(holders)
    BY WatchesAssumption, FS_Subset
  <2>2. [u \in holders |-> watch[u].id] \in Surjection(holders, Ids)
    BY DEF Surjection, Ids
  <2>3. QED
    BY <2>1, <2>2, FS_Surjection DEF ExistsSurjection
<1>4. CASE Ids = {}
  BY <1>4 DEF NextId, Ids
<1>5. CASE Ids # {}
  <2> DEFINE last == CHOOSE i \in Ids : \A j \in Ids : j <= i
  <2>1. last \in Ids /\ \A j \in Ids : j <= last
    BY <1>2, <1>3, <1>5, FiniteHasMaximum
  <2>2. NextId = 1 + last
    BY <1>5 DEF NextId
  <2>3. /\ last \in Nat
        /\ \A u \in holders : watch[u].id \in Nat /\ watch[u].id <= last
    BY <1>2, <2>1 DEF Ids
  <2> HIDE DEF last
  <2>4. QED
    BY <2>2, <2>3
<1>6. QED
  BY <1>4, <1>5

\* The copies of a running pass.  The row of a user who watched when it began
\* is either the one it loaded, and then what it will save agrees with what it
\* told, or younger than the pass, and then it is as the user knows it unless
\* the pass sent the user something.
RowCopied(u) ==
  /\ u \in pass.todo => pass.old[u] # NoWatch /\ pass.new[u] = pass.old[u]
  /\ pass.old[u] = NoWatch => pass.new[u] = NoWatch
  /\ pass.old[u] # NoWatch =>
       pass.new[u] # NoWatch /\ pass.new[u].id = pass.old[u].id
RowCurrent(u) ==
  watch[u] # NoWatch =>
    /\ u \notin renewed => watch[u] = pass.old[u]
    /\ u \notin renewed \cup apart => Agrees(pass.new[u], known[u])
    /\ u \in renewed \ (Touched \cup apart) => Agrees(watch[u], known[u])
PassWorking ==
  pass # NoPass =>
    DistinctIds(pass.old) /\ \A u \in Watchers : RowCopied(u) /\ RowCurrent(u)

WatchesInv ==
  /\ WatchesTypeOK /\ SeenIsTold /\ DistinctIds(watch) /\ PassWorking
  /\ \A u \in Watchers : known[u] = NoWatch <=> watch[u] = NoWatch

LEMMA WatchesInvInit == WatchesInit => WatchesInv
<1>1. ASSUME WatchesInit
      PROVE  WatchesTypeOK
  <2>1. item \in Item
    BY <1>1 DEF WatchesInit, Item
  <2>2. QED
    BY <1>1, <2>1, WatchesAssumption DEF WatchesInit, WatchesTypeOK, NoToggle
<1>2. QED
  BY <1>1 DEF WatchesInit, WatchesInv, SeenIsTold, DistinctIds, PassWorking

\* What a call of toggle has loaded.
Toggle ==
  [at : {"no", "end"}] \cup [at : {"begin"}, price : Prices]
    \cup [at : {"counted"}, price : Prices, stock : Stocks]

LEMMA Loaded ==
  ASSUME WatchesTypeOK, NEW u \in Watchers, BeginWatch(u)
  PROVE  toggling[u].price \in Prices /\ toggling[u].stock \in Stocks
<1>1. toggling[u] \in Toggle /\ toggling[u].at = "counted"
  BY DEF WatchesTypeOK, Toggle, BeginWatch
<1>2. QED
  BY <1>1 DEF Toggle

\* What users and administrators do.
LEMMA WatchesUserType ==
  ASSUME WatchesTypeOK, Change \/ \E u \in Watchers :
           \/ ToggleRead(u) \/ ToggleCount(u) \/ RemoveRead(u)
           \/ BeginWatch(u) \/ EndWatch(u)
  PROVE  WatchesTypeOK'
<1>1. CASE Change
  <2>1. changes' \in 0 .. MaxChanges
    BY <1>1, WatchesAssumption DEF Change, WatchesTypeOK
  <2>2. item' \in Item
    BY <1>1 DEF Change, WatchesTypeOK, Item
  <2>3. QED
    BY <1>1, <2>1, <2>2 DEF Change, WatchesTypeOK
<1>2. ASSUME NEW u \in Watchers,
             ToggleRead(u) \/ ToggleCount(u) \/ RemoveRead(u)
      PROVE  WatchesTypeOK'
  <2>1. changes' \in 0 .. MaxChanges
    BY <1>2, WatchesAssumption
    DEF ToggleRead, ToggleCount, RemoveRead, WatchesTypeOK
  <2>2. \E t \in Toggle : toggling' = [toggling EXCEPT ![u] = t]
    <3>1. /\ item.price \in Prices /\ item.stock \in Stocks
          /\ toggling[u] \in Toggle
      BY DEF WatchesTypeOK, Item, Toggle, WatchesInv
    <3>2. CASE ToggleRead(u)
      BY <3>1, <3>2 DEF ToggleRead, Toggle
    <3>3. CASE ToggleCount(u)
      BY <3>1, <3>3 DEF ToggleCount, Toggle
    <3>4. CASE RemoveRead(u)
      BY <3>4 DEF RemoveRead, Toggle
    <3>5. QED
      BY <1>2, <3>2, <3>3, <3>4
  <2>3. QED
    BY <1>2, <2>1, <2>2
    DEF ToggleRead, ToggleCount, RemoveRead, WatchesTypeOK, Toggle
<1>3. ASSUME NEW u \in Watchers, BeginWatch(u)
      PROVE  WatchesTypeOK'
  <2>1. /\ toggling[u].price \in Prices /\ toggling[u].stock \in Stocks
        /\ NoToggle \in Toggle
    BY <1>3, Loaded DEF Toggle, NoToggle
  <2>2. /\ [id |-> NextId, price |-> toggling[u].price,
            stock |-> toggling[u].stock] \in Watch
        /\ [price |-> toggling[u].price, stock |-> toggling[u].stock] \in Seen
    BY <2>1, NewId DEF WatchesTypeOK, Watch, Seen
  <2>3. QED
    BY <1>3, <2>1, <2>2 DEF BeginWatch, WatchesTypeOK, Toggle
<1>4. ASSUME NEW u \in Watchers, EndWatch(u)
      PROVE  WatchesTypeOK'
  BY <1>4 DEF EndWatch, WatchesTypeOK, NoToggle
<1>5. QED
  BY <1>1, <1>2, <1>3, <1>4

LEMMA WatchRow ==
  ASSUME NEW w \in [Watchers -> Watch \cup {NoWatch}],
         NEW u \in Watchers, w[u] # NoWatch
  PROVE  /\ w[u] \in Watch /\ w[u].id \in Nat
         /\ w[u] = [id |-> w[u].id, price |-> w[u].price, stock |-> w[u].stock]
         /\ w[u].price \in Prices /\ w[u].stock \in Stocks
<1>1. w[u] \in Watch
  OBVIOUS
<1>2. \A r \in Watch : r = [id |-> r.id, price |-> r.price, stock |-> r.stock]
  BY DEF Watch
<1>3. QED
  BY <1>1, <1>2 DEF Watch

LEMMA UserKeeps ==
  ASSUME WatchesInv, NEW u \in Watchers, BeginWatch(u) \/ EndWatch(u)
  PROVE  WatchesInv'
<1>1. WatchesTypeOK'
  BY WatchesUserType DEF WatchesInv
<1>2. /\ pass' = pass
      /\ \A v \in Watchers \ {u} : watch'[v] = watch[v] /\ known'[v] = known[v]
  BY DEF BeginWatch, EndWatch, WatchesInv, WatchesTypeOK
<1>3. CASE EndWatch(u)
  <2>1. /\ watch'[u] = NoWatch /\ known'[u] = NoWatch
        /\ renewed' = renewed /\ apart' = apart
    BY <1>3 DEF EndWatch, WatchesInv, WatchesTypeOK
  <2>2. SeenIsTold' /\ DistinctIds(watch)'
    BY <1>2, <2>1 DEF WatchesInv, SeenIsTold, Agrees, DistinctIds
  <2>3. PassWorking'
    <3>1. Touched' = Touched
      BY <1>2 DEF Touched
    <3>2. \A v \in Watchers \ {u} : RowCurrent(v) => RowCurrent(v)'
      BY <1>2, <2>1, <3>1 DEF RowCurrent, Agrees
    <3>3. RowCurrent(u)'
      BY <2>1 DEF RowCurrent
    <3>4. QED
      BY <1>2, <3>2, <3>3 DEF WatchesInv, PassWorking, RowCopied, DistinctIds
  <2>4. QED
    BY <1>1, <1>2, <2>1, <2>2, <2>3 DEF WatchesInv
<1>4. CASE BeginWatch(u) /\ watch[u] # NoWatch
  BY <1>1, <1>2, <1>4
  DEF BeginWatch, WatchesInv, SeenIsTold, DistinctIds, PassWorking, RowCopied,
    RowCurrent, Touched
<1>5. CASE BeginWatch(u) /\ watch[u] = NoWatch
  <2>1. /\ watch'[u] = [id |-> NextId, price |-> toggling[u].price,
                        stock |-> toggling[u].stock]
        /\ known'[u] = [price |-> toggling[u].price,
                        stock |-> toggling[u].stock]
        /\ renewed' = renewed \cup {u} /\ apart' = apart \ {u}
    BY <1>5 DEF BeginWatch, WatchesInv, WatchesTypeOK
  <2>2. watch'[u] # NoWatch /\ known'[u] # NoWatch
    <3>1. watch'[u] \in Watch /\ known'[u] \in Seen
      BY <1>5, <2>1, NewId, Loaded DEF Watch, Seen, WatchesInv, WatchesTypeOK
    <3>2. QED
      BY <3>1, WatchesAssumption
  <2>3. Agrees(watch[u], known[u])'
    BY <2>1, <2>2 DEF Agrees
  <2>4. SeenIsTold'
    BY <1>2, <2>1, <2>3 DEF WatchesInv, SeenIsTold, Agrees
  <2>5. DistinctIds(watch)'
    <3>1. \A v \in Watchers \ {u} :
            watch'[v] # NoWatch => watch'[v].id # watch'[u].id
      <4>1. ASSUME NEW v \in Watchers \ {u}, watch[v] # NoWatch
            PROVE  watch[v].id < NextId /\ watch[v].id \in Nat /\ NextId \in Nat
        BY <4>1, NewId, WatchRow DEF WatchesInv, WatchesTypeOK
      <4>2. QED
        BY <1>2, <2>1, <4>1
    <3>2. QED
      BY <1>2, <3>1 DEF WatchesInv, DistinctIds
  <2>6. PassWorking'
    <3>1. Touched' = Touched
      BY <1>2 DEF Touched
    <3>2. \A v \in Watchers \ {u} : RowCurrent(v) => RowCurrent(v)'
      BY <1>2, <2>1, <3>1 DEF RowCurrent, Agrees
    <3>3. RowCurrent(u)'
      BY <2>1, <2>3 DEF RowCurrent
    <3>4. QED
      BY <1>2, <3>2, <3>3 DEF WatchesInv, PassWorking, RowCopied, DistinctIds
  <2>7. QED
    BY <1>1, <1>2, <2>2, <2>4, <2>5, <2>6 DEF WatchesInv
<1>6. QED
  BY <1>3, <1>4, <1>5

LEMMA BeginKeeps ==
  ASSUME WatchesInv, PassBegins
  PROVE  WatchesInv'
<1> DEFINE new == [at |-> "running", item |-> item, old |-> watch,
                   new |-> watch,
                   todo |-> {u \in Watchers : watch[u] # NoWatch}]
<1>1. /\ pass' = new /\ renewed' = {} /\ pass = NoPass
      /\ UNCHANGED <<item, watch, toggling, known, apart, changes, faults>>
  BY DEF PassBegins
<1>2. WatchesTypeOK'
  BY <1>1 DEF WatchesInv, WatchesTypeOK
<1>3. pass' # NoPass
  BY <1>1 DEF NoPass
<1>4. Touched' = {}
  BY <1>1 DEF Touched
<1>5. \A u \in Watchers : RowCopied(u)' /\ RowCurrent(u)'
  BY <1>1, <1>4 DEF WatchesInv, RowCopied, RowCurrent, SeenIsTold, Agrees
<1>6. QED
  BY <1>1, <1>2, <1>3, <1>5 DEF WatchesInv, SeenIsTold, PassWorking, DistinctIds

LEMMA FailKeeps ==
  ASSUME WatchesInv, PassFails
  PROVE  WatchesInv'
<1>1. /\ pass' = NoPass /\ pass # NoPass /\ apart' = apart \cup Touched
      /\ UNCHANGED <<item, watch, toggling, known, renewed, changes>>
      /\ faults' \in 0 .. MaxFaults
  BY WatchesAssumption DEF PassFails, WatchesInv, WatchesTypeOK
<1>2. Touched \subseteq Watchers
  BY DEF Touched
<1>3. WatchesTypeOK'
  BY <1>1, <1>2 DEF WatchesInv, WatchesTypeOK
<1>4. SeenIsTold'
  <2>1. SUFFICES ASSUME NEW u \in Watchers, u \notin apart, u \notin Touched,
                        watch[u] # NoWatch
                 PROVE  Agrees(watch[u], known[u])
    BY <1>1 DEF SeenIsTold, Agrees
  <2>2. RowCurrent(u)
    BY <1>1 DEF WatchesInv, PassWorking
  <2>3. u \notin renewed => watch[u] = pass.new[u]
    BY <2>1, <2>2 DEF RowCurrent, Touched
  <2>4. QED
    BY <2>1, <2>2, <2>3 DEF RowCurrent
<1>5. QED
  BY <1>1, <1>3, <1>4 DEF WatchesInv, PassWorking, DistinctIds

LEMMA TurnKeeps ==
  ASSUME WatchesInv, NEW u \in Watchers, Turn(u)
  PROVE  WatchesInv'
<1> DEFINE w == pass.new[u]
           saved == IF pass.item.active
                      THEN [id |-> w.id, price |-> Recorded,
                            stock |-> item.stock]
                      ELSE w
<1>1. /\ pass # NoPass /\ u \in pass.todo
      /\ pass' = [pass EXCEPT !.todo = @ \ {u}, !.new[u] = saved]
      /\ UNCHANGED <<item, watch, toggling, renewed, apart, changes, faults>>
  BY DEF Turn
<1>2. /\ pass.item \in Item /\ pass.todo \in SUBSET Watchers
      /\ pass.new \in [Watchers -> Watch \cup {NoWatch}]
      /\ pass' = [at |-> "running", item |-> pass.item,
                  todo |-> pass.todo \ {u}, old |-> pass.old, new |-> [pass.new EXCEPT ![u] = saved]]
  BY <1>1 DEF WatchesInv, WatchesTypeOK
<1>3. /\ w = pass.old[u] /\ w # NoWatch /\ RowCurrent(u)
      /\ \A v \in Watchers : RowCopied(v) /\ RowCurrent(v)
  BY <1>1 DEF WatchesInv, PassWorking, RowCopied
<1>4. w \in Watch /\ w.id \in Nat /\ w.price \in Prices /\ w.stock \in Stocks
  BY <1>2, <1>3, WatchRow
<1>5. saved \in Watch /\ saved # NoWatch /\ saved.id = w.id
  BY <1>2, <1>4, WatchesAssumption
  DEF Watch, Recorded, Item, WatchesInv, WatchesTypeOK
<1>6. /\ pass'.old = pass.old /\ pass'.todo = pass.todo \ {u} /\ pass' # NoPass
      /\ pass'.new[u] = saved
      /\ \A v \in Watchers \ {u} : pass'.new[v] = pass.new[v]
  BY <1>2 DEF NoPass
<1>7. \A v \in Watchers : RowCopied(v)'
  BY <1>3, <1>5, <1>6 DEF RowCopied
<1>8. /\ known' \in [Watchers -> Seen \cup {NoWatch}]
      /\ \A v \in Watchers \ {u} : known'[v] = known[v]
      /\ known'[u] = NoWatch <=> known[u] = NoWatch
      /\ known[u] # NoWatch /\ pass.item.active =>
           known'[u] =
             [price |-> IF w.price # pass.item.price THEN pass.item.price
                        ELSE known[u].price,
              stock |-> IF w.stock = 0 /\ item.stock > 0 THEN item.stock
                        ELSE known[u].stock]
      /\ ~pass.item.active => known' = known
  <2>1. CASE pass.item.active /\ known[u] # NoWatch
    <3> DEFINE told ==
                 [price |-> IF w.price # pass.item.price THEN pass.item.price
                            ELSE known[u].price,
                  stock |-> IF w.stock = 0 /\ item.stock > 0 THEN item.stock
                            ELSE known[u].stock]
    <3>1. known' = [known EXCEPT ![u] = told]
      BY <2>1 DEF Turn
    <3>2. known[u] \in Seen
      BY <2>1 DEF WatchesInv, WatchesTypeOK
    <3>3. told \in Seen /\ told # NoWatch
      BY <1>2, <3>2, WatchesAssumption
      DEF Seen, Item, WatchesInv, WatchesTypeOK
    <3>4. QED
      BY <2>1, <3>1, <3>3 DEF WatchesInv, WatchesTypeOK
  <2>2. CASE ~(pass.item.active /\ known[u] # NoWatch)
    BY <2>2 DEF Turn, WatchesInv, WatchesTypeOK
  <2>3. QED
    BY <2>1, <2>2
<1>9. WatchesTypeOK'
  <2>1. [pass.new EXCEPT ![u] = saved] \in [Watchers -> Watch \cup {NoWatch}]
    BY <1>2, <1>5
  <2>2. pass.old \in [Watchers -> Watch \cup {NoWatch}]
    BY <1>1 DEF WatchesInv, WatchesTypeOK
  <2>3. pass.todo \ {u} \in SUBSET Watchers
    BY <1>2
  <2>4. pass' \in
          [at : {"running"}, item : Item, todo : SUBSET Watchers,
           old : [Watchers -> Watch \cup {NoWatch}],
           new : [Watchers -> Watch \cup {NoWatch}]]
    BY <1>2, <2>1, <2>2, <2>3
  <2>5. QED
    BY <1>1, <1>8, <2>4 DEF WatchesInv, WatchesTypeOK
<1>10. \A v \in Watchers \ {u} : RowCurrent(v)'
  <2>1. ASSUME NEW v \in Watchers \ {u}
        PROVE  v \in Touched' <=> v \in Touched
    BY <1>6 DEF Touched
  <2>2. QED
    BY <1>1, <1>3, <1>6, <1>8, <2>1 DEF RowCurrent, Agrees
<1>11. RowCurrent(u)'
  <2>1. SUFFICES ASSUME watch[u] # NoWatch
                 PROVE  /\ u \notin renewed => watch[u] = pass.old[u]
                        /\ u \notin renewed \cup apart =>
                             Agrees(saved, known'[u])
                        /\ u \in renewed \ (Touched' \cup apart) =>
                             Agrees(watch[u], known'[u])
    BY <1>1, <1>6 DEF RowCurrent, Agrees
  <2>2. known[u] # NoWatch /\ known[u] \in Seen
    BY <2>1 DEF WatchesInv, WatchesTypeOK
  <2>3. u \notin renewed => watch[u] = pass.old[u]
    BY <1>3, <2>1 DEF RowCurrent
  <2>4. CASE ~pass.item.active
    <3>1. saved = w /\ known' = known
      BY <1>8, <2>4
    <3>2. Touched' = Touched
      BY <1>3, <1>6, <3>1 DEF Touched
    <3>3. QED
      BY <1>3, <2>1, <2>3, <3>1, <3>2 DEF RowCurrent
  <2>5. CASE pass.item.active
    <3>1. /\ saved.price = pass.item.price /\ saved.stock = item.stock
          /\ known'[u].price = IF w.price # pass.item.price THEN pass.item.price
                               ELSE known[u].price
          /\ known'[u].stock = IF w.stock = 0 /\ item.stock > 0 THEN item.stock
                               ELSE known[u].stock
      BY <1>8, <2>2, <2>5 DEF Recorded
    <3>2. ASSUME u \notin renewed \cup apart
          PROVE  Agrees(saved, known'[u])
      <4>1. w.price = known[u].price /\ (known[u].stock = 0 => w.stock = 0)
        BY <1>3, <2>1, <3>2 DEF RowCurrent, Agrees
      <4>2. item.stock \in Nat
        BY WatchesAssumption DEF WatchesInv, WatchesTypeOK, Item, Stocks
      <4>3. QED
        BY <1>5, <3>1, <4>1, <4>2 DEF Agrees
    <3>3. ASSUME u \in renewed \ (Touched' \cup apart)
          PROVE  Agrees(watch[u], known'[u])
      <4>1. saved = w
        BY <1>3, <1>6, <3>3 DEF Touched
      <4>2. /\ item.stock \in Nat /\ w.price = pass.item.price
            /\ w.stock = item.stock
        BY <3>1, <4>1, WatchesAssumption
        DEF WatchesInv, WatchesTypeOK, Item, Stocks
      <4>3. known'[u].price = known[u].price /\ known'[u].stock = known[u].stock
        BY <3>1, <4>2
      <4>4. u \notin Touched
        BY <1>3 DEF Touched
      <4>5. Agrees(watch[u], known[u])
        BY <1>3, <2>1, <3>3, <4>4 DEF RowCurrent
      <4>6. QED
        BY <4>3, <4>5 DEF Agrees
    <3>4. QED
      BY <2>3, <3>2, <3>3
  <2>6. QED
    BY <2>4, <2>5
<1>12. QED
  BY <1>1, <1>6, <1>7, <1>8, <1>9, <1>10, <1>11
  DEF WatchesInv, SeenIsTold, PassWorking, DistinctIds

\* What the commit makes of a row: the columns that a pass has changed in the
\* row with this id when it loaded it, if there was one.
LEMMA UpdatedRow ==
  ASSUME WatchesInv, pass # NoPass, NEW v \in Watchers
  PROVE  /\ (\A u \in Touched : ~Holder(u, v)) => Updated(v) = watch[v]
         /\ \A u \in Touched : Holder(u, v) =>
              Updated(v) =
                [id |-> watch[v].id,
                 price |-> IF pass.old[u].price = pass.new[u].price
                             THEN watch[v].price ELSE pass.new[u].price,
                 stock |-> IF pass.old[u].stock = pass.new[u].stock
                             THEN watch[v].stock ELSE pass.new[u].stock]
<1> DEFINE us == {u \in Touched : Holder(u, v)}
<1>1. CASE us = {}
  BY <1>1 DEF Updated
<1>2. ASSUME NEW u \in Touched, Holder(u, v)
      PROVE  Updated(v) =
                [id |-> watch[v].id,
                 price |-> IF pass.old[u].price = pass.new[u].price
                             THEN watch[v].price ELSE pass.new[u].price,
                 stock |-> IF pass.old[u].stock = pass.new[u].stock
                             THEN watch[v].stock ELSE pass.new[u].stock]
  <2>1. us = {u}
    <3>1. \A x \in us : x \in Watchers /\ pass.old[x] # NoWatch
      BY DEF Touched, WatchesInv, PassWorking, RowCopied
    <3>2. \A x \in us : pass.old[x].id = watch[v].id
      BY DEF Holder
    <3>3. u \in us
      BY <1>2
    <3>4. \A x \in us : x = u
      BY <3>1, <3>2, <3>3 DEF WatchesInv, PassWorking, DistinctIds
    <3>5. QED
      BY <3>3, <3>4
  <2>2. (CHOOSE x \in us : TRUE) = u
    BY <2>1
  <2>3. QED
    BY <1>2, <2>1, <2>2 DEF Updated
<1>3. QED
  BY <1>1, <1>2

LEMMA CommitKeeps ==
  ASSUME WatchesInv, PassCommits
  PROVE  WatchesInv'
<1>1. /\ pass # NoPass /\ pass' = NoPass
      /\ UNCHANGED <<item, toggling, known, renewed, changes, faults>>
  BY DEF PassCommits
<1>2. Touched \subseteq Watchers
  BY DEF Touched
<1>3. CASE Lost
  <2>1. apart' = apart \cup Touched /\ watch' = watch
    BY <1>3 DEF PassCommits
  <2>2. WatchesTypeOK'
    BY <1>1, <1>2, <2>1 DEF WatchesInv, WatchesTypeOK
  <2>3. SeenIsTold'
    <3>1. SUFFICES ASSUME NEW u \in Watchers, u \notin apart, u \notin Touched,
                          watch[u] # NoWatch
                   PROVE  Agrees(watch[u], known[u])
      BY <1>1, <2>1 DEF SeenIsTold, Agrees
    <3>2. RowCurrent(u)
      BY <1>1 DEF WatchesInv, PassWorking
    <3>3. u \notin renewed => watch[u] = pass.new[u]
      BY <3>1, <3>2 DEF RowCurrent, Touched
    <3>4. QED
      BY <3>1, <3>2, <3>3 DEF RowCurrent
  <2>4. QED
    BY <1>1, <2>1, <2>2, <2>3 DEF WatchesInv, PassWorking, DistinctIds
<1>4. CASE ~Lost
  <2>1. /\ watch' = [v \in Watchers |-> Updated(v)]
        /\ apart' = {v \in apart : ~Agrees(watch'[v], known[v])} \cup
             {v \in renewed : \/ v \in Touched
                              \/ \E u \in Touched : Holder(u, v)}
    BY <1>4 DEF PassCommits
  <2>2. \A u \in Touched :
          pass.old[u] \in Watch /\ pass.new[u] \in Watch
    <3>1. \A u \in Touched : pass.old[u] # NoWatch /\ pass.new[u] # NoWatch
      BY <1>1, <1>2 DEF Touched, WatchesInv, PassWorking, RowCopied
    <3>2. QED
      BY <1>1, <1>2, <3>1 DEF WatchesInv, WatchesTypeOK
  <2>3. ASSUME NEW v \in Watchers
        PROVE  /\ watch'[v] \in Watch \cup {NoWatch}
               /\ watch'[v] = NoWatch <=> watch[v] = NoWatch
               /\ watch[v] # NoWatch => watch'[v].id = watch[v].id
    <3>1. CASE \A u \in Touched : ~Holder(u, v)
      BY <1>1, <2>1, <3>1, UpdatedRow DEF WatchesInv, WatchesTypeOK
    <3>2. ASSUME NEW u \in Touched, Holder(u, v)
          PROVE  /\ watch'[v] \in Watch /\ watch'[v].id = watch[v].id
                 /\ watch[v] # NoWatch
      <4>1. watch[v] # NoWatch /\ watch[v] \in Watch
        BY <3>2 DEF Holder, WatchesInv, WatchesTypeOK
      <4>2. Updated(v) =
              [id |-> watch[v].id,
               price |-> IF pass.old[u].price = pass.new[u].price
                           THEN watch[v].price ELSE pass.new[u].price,
               stock |-> IF pass.old[u].stock = pass.new[u].stock
                           THEN watch[v].stock ELSE pass.new[u].stock]
        BY <1>1, <3>2, UpdatedRow
      <4>3. QED
        BY <2>1, <2>2, <4>1, <4>2 DEF Watch
    <3>3. QED
      BY <3>1, <3>2, WatchesAssumption
  <2>4. WatchesTypeOK'
    <3>1. watch' \in [Watchers -> Watch \cup {NoWatch}]
      BY <2>1, <2>3
    <3>2. apart' \subseteq Watchers
      BY <2>1 DEF WatchesInv, WatchesTypeOK
    <3>3. QED
      BY <1>1, <3>1, <3>2 DEF WatchesInv, WatchesTypeOK
  <2>5. DistinctIds(watch')
    BY <2>3 DEF WatchesInv, DistinctIds
  <2>6. ASSUME NEW u \in Watchers, u \notin apart', watch'[u] # NoWatch
        PROVE  Agrees(watch'[u], known[u])
    <3>1. \/ watch[u] # NoWatch /\ u \notin apart
          \/ Agrees(watch'[u], known[u])
      BY <2>1, <2>3, <2>6
    <3>2. SUFFICES ASSUME watch[u] # NoWatch, u \notin apart
                   PROVE  Agrees(watch'[u], known[u])
      BY <3>1
    <3>3. RowCurrent(u) /\ RowCopied(u)
      BY <1>1 DEF WatchesInv, PassWorking
    <3>4. CASE u \in renewed
      <4>1. u \notin Touched /\ \A x \in Touched : ~Holder(x, u)
        BY <2>1, <2>6, <3>4
      <4>2. watch'[u] = watch[u]
        BY <1>1, <2>1, <4>1, UpdatedRow
      <4>3. QED
        BY <3>2, <3>3, <3>4, <4>1, <4>2 DEF RowCurrent
    <3>5. CASE u \notin renewed
      <4>1. watch[u] = pass.old[u] /\ Agrees(pass.new[u], known[u])
        BY <3>2, <3>3, <3>5 DEF RowCurrent
      <4>2. watch'[u] = pass.new[u]
        <5>1. CASE u \in Touched
          <6>1. Holder(u, u)
            BY <3>2, <4>1 DEF Holder
          <6>2. Updated(u) =
                  [id |-> watch[u].id,
                   price |-> IF pass.old[u].price = pass.new[u].price
                               THEN watch[u].price ELSE pass.new[u].price,
                   stock |-> IF pass.old[u].stock = pass.new[u].stock
                               THEN watch[u].stock ELSE pass.new[u].stock]
            BY <1>1, <5>1, <6>1, UpdatedRow
          <6>3. Updated(u) = [id |-> pass.new[u].id,
                              price |-> pass.new[u].price,
                              stock |-> pass.new[u].stock]
            BY <3>2, <3>3, <4>1, <6>2 DEF RowCopied
          <6>4. pass.new \in [Watchers -> Watch \cup {NoWatch}]
                /\ pass.new[u] # NoWatch
            BY <1>1, <3>2, <3>3, <4>1 DEF WatchesInv, WatchesTypeOK, RowCopied
          <6>5. QED
            BY <2>1, <6>3, <6>4, WatchRow
        <5>2. CASE u \notin Touched
          <6>1. pass.new[u] = watch[u]
            BY <4>1, <5>2 DEF Touched
          <6>2. \A x \in Touched : ~Holder(x, u)
            <7>1. ASSUME NEW x \in Touched, Holder(x, u)
                  PROVE  FALSE
              <8>1. /\ x \in Watchers /\ pass.old[x] # NoWatch
                    /\ pass.old[u] # NoWatch /\ pass.old[u].id = pass.old[x].id
                BY <1>1, <2>2, <4>1, <7>1, WatchesAssumption DEF Holder, Touched
              <8>2. x = u
                BY <1>1, <8>1 DEF WatchesInv, PassWorking, DistinctIds
              <8>3. QED
                BY <5>2, <7>1, <8>2
            <7>2. QED
              BY <7>1
          <6>3. QED
            BY <1>1, <2>1, <6>1, <6>2, UpdatedRow
        <5>3. QED
          BY <5>1, <5>2
      <4>3. QED
        BY <4>1, <4>2
    <3>6. QED
      BY <3>4, <3>5
  <2>7. SeenIsTold'
    BY <1>1, <2>6 DEF SeenIsTold, Agrees
  <2>8. QED
    BY <1>1, <2>3, <2>4, <2>5, <2>7 DEF WatchesInv, PassWorking, DistinctIds
<1>5. QED
  BY <1>3, <1>4

LEMMA WatchesInvNext ==
  WatchesInv /\ [WatchesNext]_watchVars => WatchesInv'
<1>1. ASSUME WatchesInv, UNCHANGED <<watch, pass, known, renewed, apart>>
      PROVE  /\ SeenIsTold' /\ DistinctIds(watch)' /\ PassWorking'
             /\ \A u \in Watchers : (known[u] = NoWatch <=> watch[u] = NoWatch)'
  BY <1>1 DEF WatchesInv, SeenIsTold, DistinctIds, PassWorking, RowCopied,
    RowCurrent, Agrees, Touched
<1>2. ASSUME WatchesInv,
             Change \/ \E u \in Watchers :
               ToggleRead(u) \/ ToggleCount(u) \/ RemoveRead(u)
      PROVE  WatchesInv'
  <2>1. WatchesTypeOK'
    BY <1>2, WatchesUserType DEF WatchesInv
  <2>2. UNCHANGED <<watch, pass, known, renewed, apart>>
    BY <1>2 DEF Change, ToggleRead, ToggleCount, RemoveRead
  <2>3. QED
    BY <1>1, <1>2, <2>1, <2>2 DEF WatchesInv
<1>3. ASSUME WatchesInv, UNCHANGED watchVars
      PROVE  WatchesInv'
  <2>1. WatchesTypeOK'
    BY <1>3 DEF WatchesInv, WatchesTypeOK, watchVars
  <2>2. QED
    BY <1>1, <1>3, <2>1 DEF WatchesInv, watchVars
<1>4. QED
  BY <1>2, <1>3, UserKeeps, BeginKeeps, FailKeeps, TurnKeeps, CommitKeeps
  DEF WatchesNext

\* Product, rows and the copies of the pass have their types.
THEOREM WatchesTypeCorrect == WatchesSpec => []WatchesTypeOK
<1>1. WatchesInv => WatchesTypeOK
  BY DEF WatchesInv
<1>2. QED
  BY <1>1, WatchesInvInit, WatchesInvNext, PTL DEF WatchesSpec

\* Between passes a row holds what its user was told last, except for the users
\* whose message was sent by a pass that did not save it in their row.
THEOREM SeenIsWhatWasTold == WatchesSpec => []SeenIsTold
<1>1. WatchesInv => SeenIsTold
  BY DEF WatchesInv
<1>2. QED
  BY <1>1, WatchesInvInit, WatchesInvNext, PTL DEF WatchesSpec
=============================================================================
