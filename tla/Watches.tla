------------------------------ MODULE Watches ------------------------------
(***************************************************************************)
(* The users who watch a product of the inventory are told when its price  *)
(* changes or when it is in stock again (services/watch_service.py).  The  *)
(* job check_product_watches loads all watches and the product once, reads *)
(* the stock for each watch, sends its messages, and saves what it has     *)
(* seen with one commit at the end, while administrators change the        *)
(* product and users begin and end their watches.                          *)
(***************************************************************************)
EXTENDS Naturals, FiniteSets

CONSTANTS Watchers,    \* users
          Prices,
          MaxStock,    \* a bound
          MaxChanges,  \* a bound: changes by administrators and users
          MaxFaults,   \* a bound: passes that fail or die
          NoWatch

Stocks == 0 .. MaxStock
Item == [price : Prices, stock : Stocks, active : BOOLEAN]
\* ProductWatch: last_seen_price, last_seen_stock
Seen == [price : Prices, stock : Stocks]
Watch == [id : Nat, price : Prices, stock : Stocks]

ASSUME WatchesAssumption ==
  /\ IsFiniteSet(Watchers) /\ MaxStock \in Nat /\ MaxChanges \in Nat
  /\ MaxFaults \in Nat /\ NoWatch \notin Watch \cup Seen

NoPass == [at |-> "idle"]
NoToggle == [at |-> "no"]

VARIABLES item,     \* the product
          watch,    \* the rows of product_watches
          toggling, \* per user: what a call of toggle or remove_watch has
                    \* loaded so far
          pass,     \* the job's pass: what it loaded and what it will save
          known,    \* history: price and stock as loaded when the user began to
                    \* watch, or as last sent to the user
          renewed,  \* history: users whose row is younger than the pass
          apart,    \* history: users who were told what was then not saved
                    \* in their row, or whose row a pass took for an older one
          changes, faults

watchVars == <<item, watch, toggling, pass, known, renewed, apart, changes,
               faults>>

WatchesTypeOK ==
  /\ item \in Item
  /\ watch \in [Watchers -> Watch \cup {NoWatch}]
  /\ toggling \in [Watchers ->
       [at : {"no", "end"}] \cup [at : {"begin"}, price : Prices]
         \cup [at : {"counted"}, price : Prices, stock : Stocks]]
  /\ pass \in {NoPass} \cup
       [at : {"running"}, item : Item, todo : SUBSET Watchers,
        old : [Watchers -> Watch \cup {NoWatch}],
        new : [Watchers -> Watch \cup {NoWatch}]]
  /\ known \in [Watchers -> Seen \cup {NoWatch}]
  /\ renewed \subseteq Watchers /\ apart \subseteq Watchers
  /\ changes \in 0 .. MaxChanges /\ faults \in 0 .. MaxFaults

WatchesInit ==
  /\ item \in [price : Prices, stock : Stocks, active : {TRUE}]
  /\ watch = [u \in Watchers |-> NoWatch]
  /\ toggling = [u \in Watchers |-> NoToggle]
  /\ pass = NoPass
  /\ known = [u \in Watchers |-> NoWatch]
  /\ renewed = {} /\ apart = {}
  /\ changes = 0 /\ faults = 0

-----------------------------------------------------------------------------
\* Administrators change the price, add to or sell from the stock, and switch
\* the product off and on.
Change ==
  /\ changes < MaxChanges /\ changes' = changes + 1
  /\ \/ \E p \in Prices \ {item.price} : item' = [item EXCEPT !.price = p]
     \/ \E n \in Stocks \ {item.stock} : item' = [item EXCEPT !.stock = n]
     \/ item' = [item EXCEPT !.active = ~@]
  /\ UNCHANGED <<watch, toggling, pass, known, renewed, apart, faults>>

\* WatchService.toggle: the product is active; is there a watch?
ToggleRead(u) ==
  /\ changes < MaxChanges /\ changes' = changes + 1
  /\ toggling[u] = NoToggle /\ item.active
  /\ toggling' = [toggling EXCEPT ![u] =
       IF watch[u] = NoWatch THEN [at |-> "begin", price |-> item.price]
                             ELSE [at |-> "end"]]
  /\ UNCHANGED <<item, watch, pass, known, renewed, apart, faults>>

\* available_count, of a product that was loaded before.
ToggleCount(u) ==
  /\ toggling[u].at = "begin"
  /\ toggling' = [toggling EXCEPT ![u] =
       [at |-> "counted", price |-> toggling[u].price, stock |-> item.stock]]
  /\ UNCHANGED <<item, watch, pass, known, renewed, apart, changes, faults>>

\* remove_watch of the HTTP API asks nothing of the product.
RemoveRead(u) ==
  /\ changes < MaxChanges /\ changes' = changes + 1
  /\ toggling[u] = NoToggle /\ watch[u] # NoWatch
  /\ toggling' = [toggling EXCEPT ![u] = [at |-> "end"]]
  /\ UNCHANGED <<item, watch, pass, known, renewed, apart, faults>>

\* SQLite gives a new row the largest id in use plus one.
Ids == {watch[u].id : u \in {v \in Watchers : watch[v] # NoWatch}}
NextId ==
  IF Ids = {} THEN 1 ELSE 1 + CHOOSE i \in Ids : \A j \in Ids : j <= i

\* The row has the price and the stock as loaded, which may be others by now.
\* A row that exists already is a conflict (uq_product_watch).
BeginWatch(u) ==
  /\ toggling[u].at = "counted"
  /\ toggling' = [toggling EXCEPT ![u] = NoToggle]
  /\ LET price == toggling[u].price
         stock == toggling[u].stock
     IN IF watch[u] = NoWatch
          THEN /\ watch' = [watch EXCEPT ![u] =
                    [id |-> NextId, price |-> price, stock |-> stock]]
               /\ known' = [known EXCEPT ![u] =
                    [price |-> price, stock |-> stock]]
               /\ renewed' = renewed \cup {u} /\ apart' = apart \ {u}
          ELSE UNCHANGED <<watch, known, renewed, apart>>
  /\ UNCHANGED <<item, pass, changes, faults>>

EndWatch(u) ==
  /\ toggling[u].at = "end"
  /\ toggling' = [toggling EXCEPT ![u] = NoToggle]
  /\ watch' = [watch EXCEPT ![u] = NoWatch]
  /\ known' = [known EXCEPT ![u] = NoWatch]
  /\ UNCHANGED <<item, pass, renewed, apart, changes, faults>>

-----------------------------------------------------------------------------
\* WatchService.check_all
PassBegins ==
  /\ pass = NoPass
  /\ pass' = [at |-> "running", item |-> item, old |-> watch, new |-> watch,
              todo |-> {u \in Watchers : watch[u] # NoWatch}]
  /\ renewed' = {}
  /\ UNCHANGED <<item, watch, toggling, known, apart, changes, faults>>

\* What the pass will save as seen: the price it loaded, which is the price
\* it told.  Mutants: the price by now; the stock, in the wrong column.
RecordedNow == item.price
RecordedStock == item.stock
Recorded == pass.item.price

\* One watch: a message when the loaded price differs from the one last seen,
\* or there is stock where none was seen; notify_user swallows every error.
\* The watch of an inactive product is passed over.
Turn(u) ==
  LET w == pass.new[u]
      priceChanged == w.price # pass.item.price
      restocked == w.stock = 0 /\ item.stock > 0
  IN /\ pass # NoPass /\ u \in pass.todo
     /\ pass' = [pass EXCEPT !.todo = @ \ {u}, !.new[u] =
          IF pass.item.active
            THEN [id |-> w.id, price |-> Recorded, stock |-> item.stock]
            ELSE w]
     /\ known' = IF pass.item.active /\ known[u] # NoWatch
          THEN [known EXCEPT ![u] =
                 [price |-> IF priceChanged THEN pass.item.price ELSE @.price,
                  stock |-> IF restocked THEN item.stock ELSE @.stock]]
          ELSE known
     /\ UNCHANGED <<item, watch, toggling, renewed, apart, changes, faults>>

Touched == {u \in Watchers : pass.new[u] # pass.old[u]}
Holder(u, v) == watch[v] # NoWatch /\ watch[v].id = pass.old[u].id
\* The columns that changed are written to the row with the loaded id.
Updated(v) ==
  LET us == {u \in Touched : Holder(u, v)}
      u == CHOOSE w \in us : TRUE
      Column(old, new, now) == IF old = new THEN now ELSE new
  IN IF us = {} THEN watch[v]
     ELSE [id |-> watch[v].id,
           price |-> Column(pass.old[u].price, pass.new[u].price,
                            watch[v].price),
           stock |-> Column(pass.old[u].stock, pass.new[u].stock,
                            watch[v].stock)]

Agrees(row, k) ==
  row # NoWatch /\ row.price = k.price /\ (k.stock = 0 => row.stock = 0)

\* A row that is gone makes the UPDATE fail (StaleDataError).
Lost == \E u \in Touched : \A v \in Watchers : ~Holder(u, v)

\* One commit for all.
PassCommits ==
  /\ pass # NoPass /\ pass.todo = {}
  /\ IF Lost
       THEN /\ apart' = apart \cup Touched
            /\ UNCHANGED watch
       ELSE /\ watch' = [v \in Watchers |-> Updated(v)]
            /\ apart' = {v \in apart : ~Agrees(watch'[v], known[v])} \cup
                 {v \in renewed : \/ v \in Touched
                                  \/ \E u \in Touched : Holder(u, v)}
  /\ pass' = NoPass
  /\ UNCHANGED <<item, toggling, known, renewed, changes, faults>>

\* The database fails, the process dies and is restarted, or reading the stock
\* of a later watch writes (autoflush) what was seen for a row that is gone.
PassFails ==
  /\ pass # NoPass
  /\ IF Lost THEN faults' = faults
     ELSE faults < MaxFaults /\ faults' = faults + 1
  /\ pass' = NoPass /\ apart' = apart \cup Touched
  /\ UNCHANGED <<item, watch, toggling, known, renewed, changes>>

Pass == PassBegins \/ (\E u \in Watchers : Turn(u)) \/ PassCommits

WatchesNext ==
  \/ Change \/ PassBegins \/ PassCommits \/ PassFails
  \/ \E u \in Watchers :
       \/ ToggleRead(u) \/ ToggleCount(u) \/ RemoveRead(u)
       \/ BeginWatch(u) \/ EndWatch(u) \/ Turn(u)

\* The scheduler starts the job every ten minutes, one at a time, and it ends.
WatchesFairness == WF_watchVars(Pass)

WatchesSpec == WatchesInit /\ [][WatchesNext]_watchVars /\ WatchesFairness

-----------------------------------------------------------------------------
\* A pass compares the product with the row, not with its messages: between
\* passes the row must hold what its user was told last, although users end
\* and begin watches while a pass works on copies of their rows, and SQLite
\* hands out the id of a row that is gone again (check_all).
SeenIsTold ==
  pass = NoPass =>
    \A u \in Watchers \ apart :
      watch[u] # NoWatch => Agrees(watch[u], known[u])

Owed(u) ==
  /\ watch[u] # NoWatch /\ item.active
  /\ known[u].price # item.price \/ (known[u].stock = 0 /\ item.stock > 0)

\* Whoever watches an active product is sent its price and that it is in stock
\* again, although passes work on copies, fail, or lose everything they have
\* seen because one user stopped watching meanwhile.  Excused are users whose
\* last message was sent by a pass that was lost, or that did not find their
\* row, and those whose row a pass took for an older one with the same id,
\* until a pass agrees with them.
WatcherIsTold == \A u \in Watchers : []<>(~Owed(u) \/ u \in apart)
=============================================================================
