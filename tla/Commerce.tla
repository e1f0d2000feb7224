------------------------------ MODULE Commerce ------------------------------
(***************************************************************************)
(* The generator of the synthetic commerce data (simulator/events.py,      *)
(* simulator/operations.py) and the validator of its tables                *)
(* (simulator/validation.py).                                              *)
(*                                                                         *)
(* The generator writes one table after another and goes back to earlier   *)
(* ones: an approved payment takes the total of the order made of it, the  *)
(* session its completion, the order the state of its shipment, the        *)
(* shipment the number of its scans.  The validator sees tables only and   *)
(* must find them to agree.  Rows are known by the session they stem from; *)
(* what the random streams may draw for a session is Draw[s].              *)
(*                                                                         *)
(* Amounts are cents, times half hours.  The rates the validator bounds    *)
(* are statistics of thousands of sessions and are left out, as are the    *)
(* dimension tables and the seller, pipeline and deployment records, which *)
(* depend on no other row.                                                 *)
(***************************************************************************)
EXTENDS Sums, SequencesExt, FiniteSetsExt, Functions

CONSTANTS Sessions,     \* 1..n, in the order of their identifiers
          Draw,         \* Draw[s].x: what may be drawn as x for session s
          Price,        \* Price[product], in cents
          TaxRate,      \* hundredths of a per cent
          EndAt,        \* the exclusive end of the simulated window
          ReorderPoint, \* of every product
          FirstStock,   \* on hand before the first day
          Null          \* no value in a cell

VARIABLES phase, todo,  \* the table being written, and the rows it lacks
          sessions, payments, orders, items,
          stock,        \* the day, what is on hand, the snapshot of the day
          shipments, scans, returns, refunds

tables == <<sessions, payments, orders, items, stock, shipments, scans, returns, refunds>>
simulationVars == <<phase, todo, tables>>

Product == DOMAIN Price

(* What SimulationConfig demands and the random streams can draw: prices   *)
(* and rates from nothing upwards, baskets of up to four lines, delays     *)
(* that are not negative, and positive ones where the code adds at least   *)
(* half an hour or a second.                                               *)
SimulationAssumption ==
    /\ IsFiniteSet(Sessions) /\ Sessions = 1 .. Cardinality(Sessions)
    /\ {EndAt, TaxRate, ReorderPoint, FirstStock} \subseteq Nat
    /\ \A product \in Product : Price[product] \in Nat
    /\ Null \notin Int /\ Null # "campaign"
    /\ \A s \in Sessions : LET d == Draw[s] IN
          /\ d.start \subseteq 0 .. (EndAt - 1) /\ d.level \subseteq 0..4
          /\ d.discount \subseteq 0..100 /\ d.approved \subseteq BOOLEAN
          /\ \A basket \in d.basket : /\ basket \in Seq(Product \X Nat)
                                      /\ Len(basket) \in 1..4
          /\ UNION {d.orderDelay, d.handling, d.promise, d.pack, d.depart,
                    d.out} \subseteq Nat
          /\ UNION {d.transit, d.lag, d.returnAfter, d.receiveAfter, d.refundAfter,
                    d.settleAfter} \subseteq Nat \ {0}
          /\ \A pack \in d.pack, depart \in d.depart : depart <= pack

ASSUME SimulationAssumption

Days == EndAt \div 48
Empty == [s \in {} |-> Null]
With(table, s, row) == [t \in DOMAIN table \cup {s} |->
                           IF t = s THEN row ELSE table[t]]

(* Rounding to cents; how a float lying on a tie is rounded is open.       *)
Nearest(x, unit) ==
    LET low == x \div unit
    IN  {r \in {low, low + 1} :
            2 * (unit * r - x) <= unit /\ 2 * (x - unit * r) <= unit}
-----------------------------------------------------------------------------
(* Sessions, payments and orders.                                          *)

SimulationInit ==
    /\ phase = "sessions" /\ todo = Sessions
    /\ sessions = Empty /\ payments = Empty /\ orders = Empty /\ items = Empty
    /\ stock = [day |-> 0, onHand |-> FirstStock, reserved |-> 0,
                available |-> FirstStock, reported |-> FirstStock]
    /\ shipments = Empty /\ scans = Empty /\ returns = Empty /\ refunds = Empty

NextRow(p, s) == phase = p /\ s \in todo /\ \A t \in todo : s <= t
Done(s) == todo' = todo \ {s} /\ UNCHANGED phase

(* A session gets as far as its level says: 1 reached the address form,    *)
(* 2 passed it, 3 found its product in stock, 4 started to pay.            *)
GenerateSession(s) ==
    /\ NextRow("sessions", s) /\ Done(s)
    /\ \E start \in Draw[s].start, level \in Draw[s].level,
          channel \in Draw[s].channel, discount \in Draw[s].discount :
         sessions' = With(sessions, s,
            [start |-> start, level |-> level, channel |-> channel,
             campaign |-> IF channel = "direct" THEN Null ELSE "campaign",
             discount |-> discount, amount |-> 0, approved |-> FALSE,
             addressAt |-> IF level >= 1 THEN start ELSE Null,
             inventoryAt |-> IF level >= 2 THEN start ELSE Null,
             paymentAt |-> IF level >= 4 THEN start + 1 ELSE Null,
             completedAt |-> Null, stage |-> Null, reason |-> Null])
    /\ UNCHANGED <<payments, orders, items, stock, shipments, scans, returns, refunds>>

GeneratePayment(s) ==
    /\ NextRow("payments", s) /\ Done(s)
    /\ \E approved \in Draw[s].approved :
         /\ payments' = With(payments, s,
               [at |-> sessions[s].paymentAt, amount |-> sessions[s].amount,
                approved |-> approved])
         /\ sessions' = [sessions EXCEPT ![s].approved = approved]
    /\ UNCHANGED <<orders, items, stock, shipments, scans, returns, refunds>>

(* A line of a basket is a product and a quantity.                         *)
Gross(line) == Price[line[1]] * line[2]

Nets(basket, pct) ==
    LET near(l) == Nearest(Gross(l) * (100 - pct), 100)
    IN  {n \in [DOMAIN basket -> UNION {near(l) : l \in Range(basket)}] :
            \A i \in DOMAIN basket : n[i] \in near(basket[i])}

(* Orders of 75 and more are shipped for nothing.                          *)
Shipping(taxable) == IF taxable >= 750000 THEN 0 ELSE 599

Taxes(taxable) == Nearest(taxable * TaxRate, 1000000)

(* A defect for the runs: the payment keeps the amount it was tried for.   *)
SettleNothing(pay, total) == pay

Settle(pay, total) == [pay EXCEPT !.amount = total]

Lines(basket, nets) ==
    [i \in DOMAIN basket |->
        [product |-> basket[i][1], quantity |-> basket[i][2], net |-> nets[i]]]

(* The orders that may be placed of a session at a time for a basket.      *)
Placed(s, at, basket) ==
    LET pct      == sessions[s].discount
        subtotal == Total([i \in DOMAIN basket |-> Gross(basket[i])])
        taxable  == subtotal * (100 - pct)
        shipping == Shipping(taxable)
        order(discount, tax, total) ==
            [at |-> at, channel |-> sessions[s].channel,
             campaign |-> sessions[s].campaign, status |-> "placed",
             subtotal |-> subtotal, discount |-> discount, tax |-> tax,
             shipping |-> shipping, total |-> total, itemCount |-> Len(basket)]
        totalled(discount, tax) ==
            {order(discount, tax, total) :
                total \in Nearest(taxable + 100 * (tax + shipping), 100)}
    IN  UNION {UNION {totalled(discount, tax) : tax \in Taxes(taxable)} :
               discount \in Nearest(subtotal * pct, 100)}

(* The order of an approved payment, its items, and what they change in    *)
(* the payment and the session.                                            *)
GenerateOrder(s) ==
    /\ NextRow("orders", s) /\ Done(s)
    /\ \E basket \in Draw[s].basket, delay \in Draw[s].orderDelay :
       \E nets \in Nets(basket, sessions[s].discount),
          o \in Placed(s, payments[s].at + delay, basket) :
         /\ orders' = With(orders, s, o)
         /\ items' = With(items, s, Lines(basket, nets))
         /\ payments' = [payments EXCEPT ![s] = Settle(@, o.total)]
         /\ sessions' = [sessions EXCEPT ![s].completedAt = o.at,
                                         ![s].amount = o.total]
    /\ UNCHANGED <<stock, shipments, scans, returns, refunds>>

(* The masks of _finalize_sessions, each overwriting the ones before.      *)
Finalized(row) ==
    LET marks == <<<<row.level >= 0, "checkout_started", "customer_abandoned">>,
                   <<row.level >= 1, "address_submitted", "address_validation_failed">>,
                   <<row.level >= 2, "inventory_checked", "inventory_unavailable">>,
                   <<row.level >= 3, "inventory_confirmed", "before_payment">>,
                   <<row.level >= 4, "payment_started", "payment_declined">>,
                   <<row.approved, "order_completed", Null>>>>
        last == Max({i \in DOMAIN marks : marks[i][1]})
    IN  [row EXCEPT !.stage = marks[last][2], !.reason = marks[last][3]]
-----------------------------------------------------------------------------
(* Inventory, shipments, scans, returns and refunds.                       *)

Demand(day) == Total([s \in Sessions |->
    IF s \in DOMAIN orders /\ orders[s].at \div 48 = day
    THEN Total([i \in DOMAIN items[s] |->
                   IF items[s][i].product = 1 THEN items[s][i].quantity ELSE 0])
    ELSE 0])

(* The last snapshot of product 1: demand of the day, restock, reservation *)
(* and the quantity its feed reports.                                      *)
GenerateInventory ==
    /\ phase = "inventory" /\ stock.day < Days
    /\ \E reserve \in {0, 3}, noise \in {-1, 0, 1} :
         LET left      == Max({0, stock.onHand - Demand(stock.day)})
             onHand    == IF left < ReorderPoint THEN left + 3 * ReorderPoint ELSE left
             reserved  == Min({reserve, onHand})
             available == onHand - reserved
         IN  stock' = [day |-> stock.day + 1, onHand |-> onHand,
                       reserved |-> reserved, available |-> available,
                       reported |-> Max({0, available + noise})]
    /\ UNCHANGED <<phase, todo, sessions, payments, orders, items, shipments,
                   scans, returns, refunds>>

GenerateShipment(s) ==
    /\ NextRow("shipments", s) /\ Done(s)
    /\ \E handling \in Draw[s].handling, transit \in Draw[s].transit,
          promise \in Draw[s].promise :
         LET shipped   == orders[s].at + handling
             arrival   == shipped + transit
             delivered == IF arrival <= EndAt THEN arrival ELSE Null
             status    == IF delivered # Null THEN "delivered" ELSE "in_transit"
         IN  /\ shipments' = With(shipments, s,
                   [shippedAt |-> shipped, promisedAt |-> orders[s].at + promise,
                    deliveredAt |-> delivered, status |-> status, scanCount |-> 0,
                    late |-> delivered # Null /\ arrival > orders[s].at + promise])
             /\ orders' = [orders EXCEPT ![s].status = status]
    /\ UNCHANGED <<sessions, payments, items, stock, scans, returns, refunds>>

(* The times of the scans of a shipment, in the order of their sequence    *)
(* numbers.                                                                *)
ScanTimes(sh, pack, depart, out) ==
    LET packed   == sh.shippedAt - pack
        departed == sh.shippedAt - depart
    IN  IF sh.deliveredAt = Null THEN <<packed, departed, sh.shippedAt>>
        ELSE <<packed, departed, sh.shippedAt,
               Max({sh.shippedAt, sh.deliveredAt - out}), sh.deliveredAt>>

GenerateScans(s) ==
    /\ NextRow("scans", s) /\ Done(s)
    /\ \E pack \in Draw[s].pack, depart \in Draw[s].depart, out \in Draw[s].out :
         LET at == ScanTimes(shipments[s], pack, depart, out)
         IN  \E lag \in [DOMAIN at -> Draw[s].lag] :
                /\ scans' = With(scans, s, [i \in DOMAIN at |->
                      [sequence |-> i, source |-> at[i],
                       received |-> at[i] + lag[i], lag |-> lag[i]]])
                /\ shipments' = [shipments EXCEPT ![s].scanCount = Len(at)]
    /\ UNCHANGED <<sessions, payments, orders, items, stock, returns, refunds>>

(* At most one item of a delivered order comes back, if it is asked for in *)
(* the window; it may be received after the window has closed.             *)
GenerateReturn(s) ==
    /\ NextRow("returns", s) /\ Done(s)
    /\ \E i \in DOMAIN items[s], after \in Draw[s].returnAfter,
          receive \in Draw[s].receiveAfter :
         LET requested == shipments[s].deliveredAt + after
             arrival   == requested + receive
         IN  /\ requested <= EndAt
             /\ returns' = With(returns, s,
                   [item |-> i, requestedAt |-> requested,
                    receivedAt |-> IF arrival <= EndAt THEN arrival ELSE Null,
                    status |-> IF arrival <= EndAt THEN "received" ELSE "in_transit",
                    amount |-> items[s][i].net])
    /\ UNCHANGED <<sessions, payments, orders, items, stock, shipments, scans, refunds>>

KeepOrder(s) ==
    NextRow("returns", s) /\ Done(s) /\ UNCHANGED tables

(* A defect for the runs: a refund does not wait for the item.             *)
AsSoonAsRequested(r) == r.requestedAt

RefundableFrom(r) == IF r.receivedAt # Null THEN r.receivedAt ELSE r.requestedAt

(* The refund of an item that is not received in the window never          *)
(* completes in it.                                                        *)
GenerateRefund(s) ==
    /\ NextRow("refunds", s) /\ Done(s)
    /\ \E after \in Draw[s].refundAfter, settle \in Draw[s].settleAfter,
          completes \in BOOLEAN :
         LET r         == returns[s]
             initiated == RefundableFrom(r) + after
             completed == IF completes /\ r.receivedAt # Null
                             /\ initiated + settle <= EndAt
                          THEN initiated + settle ELSE Null
         IN  refunds' = With(refunds, s,
                [initiatedAt |-> initiated, completedAt |-> completed,
                 status |-> IF completed # Null THEN "completed" ELSE "pending",
                 amount |-> r.amount])
    /\ UNCHANGED <<sessions, payments, orders, items, stock, shipments, scans, returns>>
-----------------------------------------------------------------------------
(* The order in which simulate() writes the tables, and the rows of each.  *)

Paying == {s \in DOMAIN sessions : sessions[s].level >= 4}
Approved == {s \in DOMAIN payments : payments[s].approved}
Delivered == {s \in DOMAIN shipments : shipments[s].status = "delivered"}

Begin(from, to, set) == phase = from /\ todo = {} /\ phase' = to /\ todo' = set

BeginPayments ==
    Begin("sessions", "payments", Paying) /\ Paying # {} /\ UNCHANGED tables

BeginOrders ==
    Begin("payments", "orders", Approved) /\ Approved # {} /\ UNCHANGED tables

(* A run without any payment, or any approval, is not a baseline.          *)
SimulationRefused ==
    /\ todo = {} /\ phase' = "refused" /\ UNCHANGED <<todo, tables>>
    /\ \/ phase = "sessions" /\ Paying = {}
       \/ phase = "payments" /\ Approved = {}

FinalizeSessions ==
    /\ Begin("orders", "inventory", {})
    /\ sessions' = [s \in DOMAIN sessions |-> Finalized(sessions[s])]
    /\ UNCHANGED <<payments, orders, items, stock, shipments, scans, returns, refunds>>

BeginShipments ==
    /\ stock.day = Days
    /\ Begin("inventory", "shipments", DOMAIN orders) /\ UNCHANGED tables

BeginScans == Begin("shipments", "scans", DOMAIN shipments) /\ UNCHANGED tables
BeginReturns == Begin("scans", "returns", Delivered) /\ UNCHANGED tables
BeginRefunds == Begin("returns", "refunds", DOMAIN returns) /\ UNCHANGED tables
Simulated == Begin("refunds", "simulated", {}) /\ UNCHANGED tables

SimulationNext ==
    \/ \E s \in Sessions :
          \/ GenerateSession(s) \/ GeneratePayment(s) \/ GenerateOrder(s)
          \/ GenerateShipment(s) \/ GenerateScans(s)
          \/ GenerateReturn(s) \/ KeepOrder(s) \/ GenerateRefund(s)
    \/ GenerateInventory
    \/ BeginPayments \/ BeginOrders \/ SimulationRefused \/ FinalizeSessions
    \/ BeginShipments \/ BeginScans \/ BeginReturns \/ BeginRefunds \/ Simulated

Simulation == SimulationInit /\ [][SimulationNext]_simulationVars
-----------------------------------------------------------------------------
(* The validator.                                                          *)

Before(a, b) == a = Null \/ b = Null \/ a <= b
Within(a, b, cents) == a - b \in -cents .. cents

ForeignKeys ==
    /\ DOMAIN payments \subseteq DOMAIN sessions
    /\ DOMAIN orders \subseteq DOMAIN payments
    /\ DOMAIN items = DOMAIN orders
    /\ DOMAIN shipments \subseteq DOMAIN orders
    /\ DOMAIN scans \subseteq DOMAIN shipments
    /\ DOMAIN returns \subseteq DOMAIN orders
    /\ DOMAIN refunds \subseteq DOMAIN returns
    /\ \A s \in DOMAIN returns : returns[s].item \in DOMAIN items[s]

TemporalOrder ==
    /\ \A s \in DOMAIN sessions : LET r == sessions[s] IN
          /\ Before(r.start, r.addressAt) /\ Before(r.addressAt, r.inventoryAt)
          /\ Before(r.inventoryAt, r.paymentAt) /\ Before(r.paymentAt, r.completedAt)
    /\ \A s \in DOMAIN shipments : Before(shipments[s].shippedAt, shipments[s].deliveredAt)
    /\ \A s \in DOMAIN scans : \A i \in DOMAIN scans[s] :
          Before(scans[s][i].source, scans[s][i].received)
    /\ \A s \in DOMAIN returns : Before(returns[s].requestedAt, returns[s].receivedAt)
    /\ \A s \in DOMAIN refunds : Before(refunds[s].initiatedAt, refunds[s].completedAt)

CommerceReconciles ==
    /\ Approved = DOMAIN orders
    /\ {s \in DOMAIN sessions : sessions[s].stage = "order_completed"} = DOMAIN orders
    /\ \A s \in DOMAIN orders : LET o == orders[s] IN
          /\ o.itemCount = Len(items[s])
          /\ Within(Total([i \in DOMAIN items[s] |-> items[s][i].net]),
                    o.subtotal - o.discount, 2)
          /\ Within(o.total, o.subtotal - o.discount + o.tax + o.shipping, 2)
          /\ Within(payments[s].amount, o.total, 2)

(* Per stage: the reason of the abandonment, and the last of the four      *)
(* times of the funnel that is set; the later ones are not.                *)
Expectation ==
    [checkout_started    |-> <<"customer_abandoned", 0>>,
     address_submitted   |-> <<"address_validation_failed", 1>>,
     inventory_checked   |-> <<"inventory_unavailable", 2>>,
     inventory_confirmed |-> <<"before_payment", 2>>,
     payment_started     |-> <<"payment_declined", 3>>,
     order_completed     |-> <<Null, 4>>]

FunnelStates ==
    \A s \in DOMAIN sessions :
        LET r     == sessions[s]
            times == <<r.addressAt, r.inventoryAt, r.paymentAt, r.completedAt>>
        IN  /\ r.stage \in DOMAIN Expectation
            /\ r.reason = Expectation[r.stage][1]
            /\ \A i \in 1..4 : times[i] # Null <=> i <= Expectation[r.stage][2]
            /\ r.channel = "direct" <=> r.campaign = Null

OperationsReconcile ==
    /\ DOMAIN scans = DOMAIN shipments
    /\ \A s \in DOMAIN shipments :
          /\ shipments[s].scanCount = Len(scans[s])
          /\ \A i \in DOMAIN scans[s] :
                /\ scans[s][i].sequence = i
                /\ scans[s][i].lag = scans[s][i].received - scans[s][i].source
                /\ scans[s][i].lag > 0
    /\ \A s \in DOMAIN orders : /\ orders[s].channel = sessions[s].channel
                                /\ orders[s].campaign = sessions[s].campaign

InventoryBalances ==
    /\ stock.available = stock.onHand - stock.reserved
    /\ stock.onHand >= 0 /\ stock.reserved >= 0 /\ stock.available >= 0
    /\ Within(stock.reported, stock.available, 1)

ValidTables ==
    /\ ForeignKeys /\ TemporalOrder /\ CommerceReconciles /\ FunnelStates
    /\ OperationsReconcile /\ InventoryBalances
    /\ \A s \in DOMAIN sessions : sessions[s].start \in 0 .. (EndAt - 1)
-----------------------------------------------------------------------------
(* Whatever the random streams draw, the tables the generator leaves pass  *)
(* the validator's reconciliation (docs/SYNTHETIC_COMMERCE_ENVIRONMENT.md, *)
(* "Validation"); rounding each line of an order, its discount, its tax and *)
(* its total on their own stays within the two cents it allows.            *)
GeneratedIsValid == phase = "simulated" => ValidTables

(* What the validator does not look at: the state of an order is that of   *)
(* its shipment; a shipment is scanned in the order of its scans, the last *)
(* at its delivery; money goes back for delivered orders only, once per    *)
(* order, for an item that was received, in the amount it cost, and never  *)
(* more than was paid (but for a cent where nothing is taxed and an item   *)
(* and the total of its order are rounded either way); and nothing is      *)
(* dated after the window but what is still open when it closes.           *)
OddCent == IF TaxRate = 0 THEN 1 ELSE 0

OneStoryPerOrder ==
    phase = "simulated" =>
    \A s \in DOMAIN orders :
        LET sh == shipments[s] IN
        /\ orders[s].status = sh.status
        /\ \A i \in 2 .. Len(scans[s]) : scans[s][i-1].source <= scans[s][i].source
        /\ sh.deliveredAt # Null <=> Len(scans[s]) = 5
        /\ sh.deliveredAt # Null => /\ Last(scans[s]).source = sh.deliveredAt
                                    /\ sh.deliveredAt <= EndAt
        /\ s \in DOMAIN returns =>
              /\ sh.status = "delivered"
              /\ returns[s].requestedAt > sh.deliveredAt
              /\ refunds[s].amount = returns[s].amount
              /\ refunds[s].amount <= payments[s].amount + OddCent
              /\ refunds[s].status = "completed" =>
                    /\ returns[s].status = "received"
                    /\ refunds[s].completedAt > returns[s].receivedAt
                    /\ refunds[s].completedAt <= EndAt
=============================================================================
