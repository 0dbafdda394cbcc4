----------------------------- MODULE Catalogue -----------------------------
(***************************************************************************)
(* One API provider with the services it lists, one section of the         *)
(* catalogue, the products an administrator makes of the services, and the *)
(* orders that refer to them (database/models.py:644-923, 1109-1157).      *)
(*                                                                         *)
(* Synchronisation runs in the background (asyncio.create_task,            *)
(* handlers/admin/api_providers.py:718): any number of passes, each with   *)
(* the list it fetched and the rows it loaded, alongside administrators    *)
(* and customers.  The database is SQLite with foreign keys                *)
(* (database/engine.py:13-20): the first write of a transaction takes the  *)
(* write lock, so what a handler does from there to its commit is one step *)
(* that happens as a whole or not at all.                                  *)
(***************************************************************************)
EXTENDS Naturals

CONSTANTS Products, Services,  \* rows that may come to exist
          Syncs,               \* synchronisation passes at the same time
          Admins,              \* handlers of administrators
          Buyers,              \* handlers of customers
          None                 \* no row, no reference

Providers == {"active", "inactive"}
\* ProviderServiceStatus.INACTIVE is never assigned.
ServiceStatus == {"active", "deleted"}
ProductStatus == {"active", "inactive"}
\* link: provider_service_ref_id; of: api_provider_id is set
ProductRow ==
  [status : ProductStatus, link : Services \cup {None}, of : BOOLEAN]
Job(at) == [at |-> at]

ASSUME CatalogueAssumption ==
  /\ None \notin Services \cup ProductRow \cup ProductStatus
  /\ None \notin Providers \cup ServiceStatus

VARIABLES provider,  \* the provider's row
          service,   \* its services' rows
          product,   \* the products' rows
          section,   \* does the section exist?
          orders,    \* the products of the orders, which also refer to
                     \* the provider
          late,      \* history: products that were activated or created by
                     \* hand while their service was already deleted
          syncs, admins, buyers

rows == <<provider, service, product, section, orders, late>>
catalogueVars == <<rows, syncs, admins, buyers>>

Linked(x) == {p \in Products : product[p] # None /\ product[p].link = x}
Withdrawn(link) == link # None /\ service[link] = "deleted"

CatalogueTypeOK ==
  /\ provider \in Providers \cup {None}
  /\ service \in [Services -> ServiceStatus \cup {None}]
  /\ product \in [Products -> ProductRow \cup {None}]
  /\ section \in BOOLEAN
  /\ orders \subseteq Products
  /\ late \subseteq Products
  /\ syncs \in [Syncs ->
       {Job("free")}
         \cup [at : {"fetched"}, list : SUBSET Services]
         \cup [at : {"loaded"}, list : SUBSET Services,
               seen : [Services -> ServiceStatus \cup {None}]]]
  /\ admins \in [Admins ->
       {Job("free"), Job("logging"), Job("deleting")}
         \cup [at : {"choosing"}, link : Services \cup {None}]
         \cup [at : {"product"}, product : Products, to : ProductStatus]
         \cup [at : {"provider"}, to : Providers]
         \cup [at : {"section"}, loaded : SUBSET Products]]
  /\ buyers \in [Buyers ->
       {Job("free")} \cup [at : {"paid"}, product : Products]]

CatalogueInit ==
  /\ provider = "active" /\ service = [x \in Services |-> None]
  /\ product = [p \in Products |-> None] /\ section = TRUE
  /\ orders = {} /\ late = {}
  /\ syncs = [s \in Syncs |-> Job("free")]
  /\ admins = [a \in Admins |-> Job("free")]
  /\ buyers = [b \in Buyers |-> Job("free")]

Free(jobs, t) == jobs[t].at = "free"
Done(jobs, t) == [jobs EXCEPT ![t] = Job("free")]

-----------------------------------------------------------------------------
(* ProviderSyncService.sync_provider_services                              *)

\* The provider is there and answers; a provider that fails changes nothing
\* but last_error.
SyncFetch(s) ==
  /\ Free(syncs, s) /\ provider # None
  /\ \E list \in SUBSET Services :
       syncs' = [syncs EXCEPT ![s] = [at |-> "fetched", list |-> list]]
  /\ UNCHANGED <<rows, admins, buyers>>

\* existing_services
SyncLoad(s) ==
  /\ syncs[s].at = "fetched"
  /\ syncs' = [syncs EXCEPT ![s] =
       [at |-> "loaded", list |-> syncs[s].list, seen |-> service]]
  /\ UNCHANGED <<rows, admins, buyers>>

Inserted(s) == {x \in syncs[s].list : syncs[s].seen[x] = None}
Reactivated(s) == {x \in syncs[s].list : syncs[s].seen[x] = "deleted"}
Deactivated(s) ==
  {x \in Services \ syncs[s].list : syncs[s].seen[x] = "active"}

\* The rows it loaded are still there (they go with the provider), and none
\* that it inserts exists by now (uq_provider_service): else StaleDataError
\* or IntegrityError.
Savable(s) ==
  /\ provider # None
  /\ \A x \in Inserted(s) : service[x] = None

\* The products linked to a service are selected after the flush and paused
\* by the same commit.  Mutant: by a commit of their own, which may fail.
Affected(s) == UNION {Linked(x) : x \in Deactivated(s)}
Paused(s) ==
  [p \in Products |->
    IF p \in Affected(s) THEN [product[p] EXCEPT !.status = "inactive"]
    ELSE product[p]]
PauseApart(s) == product' \in {Paused(s), product}
Pause(s) == product' = Paused(s)

\* Everything after the load is saved by one commit, or nothing is.
SyncSave(s) ==
  /\ syncs[s].at = "loaded"
  /\ IF Savable(s)
       THEN /\ service' = [x \in Services |->
                 IF x \in Inserted(s) \cup Reactivated(s) THEN "active"
                 ELSE IF x \in Deactivated(s) THEN "deleted" ELSE service[x]]
            /\ Pause(s)
            /\ late' = late \ Affected(s)
       ELSE UNCHANGED <<service, product, late>>
  /\ syncs' = Done(syncs, s)
  /\ UNCHANGED <<provider, section, orders, admins, buyers>>

-----------------------------------------------------------------------------
(* Administrators                                                          *)

\* The product wizard takes a service that is active, or an id that is typed.
ProdServiceSelected(a) ==
  /\ Free(admins, a)
  /\ \E link \in Services \cup {None} :
       /\ IF link = None THEN provider # None ELSE service[link] = "active"
       /\ admins' = [admins EXCEPT ![a] = [at |-> "choosing", link |-> link]]
  /\ UNCHANGED <<rows, syncs, buyers>>

\* Rows that a new product refers to must exist.  Mutant: they need not.
NoForeignKeys(link) == TRUE
ParentsExist(link) ==
  /\ section /\ provider # None
  /\ link # None => service[link] # None

\* _save_product: the product is created active, whatever became of the
\* service meanwhile.
SaveProduct(a) ==
  LET job == admins[a]
  IN /\ job.at = "choosing"
     /\ \/ /\ ParentsExist(job.link)
           /\ \E p \in Products :
                /\ product[p] = None
                /\ product' = [product EXCEPT ![p] =
                     [status |-> "active", link |-> job.link, of |-> TRUE]]
                /\ late' = IF Withdrawn(job.link) THEN late \cup {p} ELSE late
        \/ /\ ~ParentsExist(job.link)
           /\ UNCHANGED <<product, late>>
     /\ admins' = Done(admins, a)
     /\ UNCHANGED <<provider, service, section, orders, syncs, buyers>>

\* prod_toggle reads the status, and commits the opposite.
ProdToggleRead(a, p) ==
  /\ Free(admins, a) /\ product[p] # None
  /\ admins' = [admins EXCEPT ![a] =
       [at |-> "product", product |-> p,
        to |-> IF product[p].status = "active" THEN "inactive" ELSE "active"]]
  /\ UNCHANGED <<rows, syncs, buyers>>

ProdToggle(a) ==
  LET job == admins[a]
      row == product[job.product]
  IN /\ job.at = "product"
     /\ IF row # None
          THEN /\ product' = [product EXCEPT ![job.product].status = job.to]
               /\ late' = IF job.to = "active" /\ Withdrawn(row.link)
                            THEN late \cup {job.product} ELSE late
          ELSE UNCHANGED <<product, late>>
     /\ admins' = Done(admins, a)
     /\ UNCHANGED <<provider, service, section, orders, syncs, buyers>>

\* Deleted unless an order refers to it.
ProdDelete(p) ==
  /\ product[p] # None /\ p \notin orders
  /\ product' = [product EXCEPT ![p] = None]
  /\ late' = late \ {p}
  /\ UNCHANGED <<provider, service, section, orders, syncs, admins, buyers>>

AprovToggleRead(a) ==
  /\ Free(admins, a) /\ provider # None
  /\ admins' = [admins EXCEPT ![a] =
       [at |-> "provider",
        to |-> IF provider = "active" THEN "inactive" ELSE "active"]]
  /\ UNCHANGED <<rows, syncs, buyers>>

AprovToggle(a) ==
  /\ admins[a].at = "provider"
  /\ provider' = IF provider # None THEN admins[a].to ELSE None
  /\ admins' = Done(admins, a)
  /\ UNCHANGED <<service, product, section, orders, late, syncs, buyers>>

\* aprov_delete: the products are unlinked, the services go with the
\* provider; refused when an order refers to the provider.
AprovDelete ==
  /\ provider # None /\ orders = {}
  /\ provider' = None
  /\ service' = [x \in Services |-> None]
  /\ product' = [p \in Products |->
       IF product[p] # None THEN [product[p] EXCEPT !.link = None, !.of = FALSE]
       ELSE None]
  /\ UNCHANGED <<section, orders, late, syncs, admins, buyers>>

\* cat_delete and subcat_delete: the section is loaded; the audit log commits
\* in the handler's session, and when that fails the session needs a rollback
\* and the rest raises; its products are loaded; the deletion.
SectionRead(a) ==
  /\ Free(admins, a) /\ section
  /\ admins' = [admins EXCEPT ![a] = Job("logging")]
  /\ UNCHANGED <<rows, syncs, buyers>>

SectionLog(a) ==
  /\ admins[a].at = "logging"
  /\ \/ admins' = [admins EXCEPT ![a] = Job("deleting")]
     \/ admins' = Done(admins, a)
  /\ UNCHANGED <<rows, syncs, buyers>>

SectionLoad(a) ==
  /\ admins[a].at = "deleting"
  /\ admins' = [admins EXCEPT ![a] =
       [at |-> "section", loaded |-> {p \in Products : product[p] # None}]]
  /\ UNCHANGED <<rows, syncs, buyers>>

\* Refused when an order refers to one of its products, or another product
\* was added since they were loaded.
SectionDelete(a) ==
  LET loaded == admins[a].loaded
  IN /\ admins[a].at = "section"
     /\ IF /\ \A p \in Products : product[p] # None => p \in loaded
           /\ \A p \in loaded : p \notin orders
          THEN /\ section' = FALSE
               /\ product' = [p \in Products |-> None]
               /\ late' = {}
          ELSE UNCHANGED <<section, product, late>>
     /\ admins' = Done(admins, a)
     /\ UNCHANGED <<provider, service, orders, syncs, buyers>>

-----------------------------------------------------------------------------
(* Customers: _execute_purchase, _finalize_purchase, CheckoutService       *)

\* The product and its provider are active when the customer pays.
PurchaseCheck(b, p) ==
  /\ Free(buyers, b)
  /\ product[p] # None /\ product[p].status = "active"
  /\ product[p].of /\ provider = "active"
  /\ buyers' = [buyers EXCEPT ![b] = [at |-> "paid", product |-> p]]
  /\ UNCHANGED <<rows, syncs, admins>>

\* The order refers to the copies of the check; it raises when they are gone.
SaveOrder(b) ==
  LET p == buyers[b].product
  IN /\ buyers[b].at = "paid"
     /\ orders' = IF product[p] # None /\ provider # None THEN orders \cup {p}
                  ELSE orders
     /\ buyers' = Done(buyers, b)
     /\ UNCHANGED <<provider, service, product, section, late, syncs, admins>>

CatalogueNext ==
  \/ \E s \in Syncs : SyncFetch(s) \/ SyncLoad(s) \/ SyncSave(s)
  \/ \E a \in Admins :
       \/ ProdServiceSelected(a) \/ SaveProduct(a) \/ ProdToggle(a)
       \/ AprovToggleRead(a) \/ AprovToggle(a)
       \/ SectionRead(a) \/ SectionLog(a) \/ SectionLoad(a) \/ SectionDelete(a)
       \/ \E p \in Products : ProdToggleRead(a, p)
  \/ \E p \in Products : ProdDelete(p)
  \/ AprovDelete
  \/ \E b \in Buyers : SaveOrder(b) \/ \E p \in Products : PurchaseCheck(b, p)

CatalogueSpec == CatalogueInit /\ [][CatalogueNext]_catalogueVars

-----------------------------------------------------------------------------
\* A product whose service the provider has withdrawn is not on sale, unless
\* an administrator put it there after the withdrawal: two passes, a wizard
\* and a toggle may overlap, each with rows it loaded earlier
\* (services/provider_sync_service.py:337-366).
DelistedIsPaused ==
  \A p \in Products :
    product[p] # None /\ product[p].status = "active"
      /\ Withdrawn(product[p].link) => p \in late

\* Whatever is deleted while a wizard, a purchase or a synchronisation that
\* has read it goes on, no row is left that refers to a missing one.
RowsHaveTheirParents ==
  /\ \A p \in Products :
       product[p] # None =>
         /\ section
         /\ product[p].link # None => service[product[p].link] # None
         /\ product[p].of => provider # None
  /\ \A p \in orders : product[p] # None /\ provider # None
  /\ \A x \in Services : service[x] # None => provider # None
=============================================================================
