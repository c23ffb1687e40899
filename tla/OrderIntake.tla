---------------------------- MODULE OrderIntake ----------------------------
(***************************************************************************)
(* A customer's draft cart, which several requests of its user may write   *)
(* at once, and its submission, which turns it into an order.              *)
(*                                                                         *)
(* apps/api/src/cart/cart.service.ts (upsertItem) and                      *)
(* apps/api/src/orders/orders.service.ts (submitOrder)                     *)
(*                                                                         *)
(* A request reads the cart in one step and writes it in a later one.  The *)
(* transaction of a submission is two steps: it writes the order and       *)
(* deletes the lines the cart has by then, and locks them; then it deletes *)
(* the cart's row, which is refused when it is gone or a line still refers *)
(* to it (cart_order_lines has no cascade), and commits.                   *)
(*                                                                         *)
(* Abstractions.  Carts of different users do not meet: there is one user, *)
(* of one distributor.  A line's quantity, price and tax are resolved and  *)
(* frozen together: an entry.  A request may fail at any point for reasons *)
(* that are not the cart's (no ACTIVE relationship, an unknown product, no *)
(* price, a date or a minimum spend that does not hold, a call that        *)
(* fails).  What it answers is left out, and so are the events and the     *)
(* status an order is committed with: OrderLifecycle starts from them.     *)
(***************************************************************************)
EXTENDS Naturals, Sequences

CONSTANTS
  Requests, \* requests of the user that may be under way at once
  Products,
  Entries,  \* quantities with the price and the tax resolved for them
  NoEntry,
  MaxCarts  \* bound: draft carts created

ASSUME OrderIntakeAssumption ==
  /\ NoEntry \notin Entries \cup Products
  /\ MaxCarts \in Nat

VARIABLES
  cart,    \* the draft: [id, lines], id = 0 when there is none
  carts,   \* drafts created
  orders,  \* the orders placed: [cart, lines, late]
  pc,      \* pc[r]: where request r is
  item,    \* item[r]: the [product, entry] it is to write
  held,    \* held[r]: the id of the cart it found
  seen,    \* seen[r]: the lines a submission loaded
  late,    \* late[r]: products written between its load and its transaction
  cleared  \* cleared[r]: products whose lines its transaction deleted, locked

vars == <<cart, carts, orders, pc, item, held, seen, late, cleared>>

Lines == [Products -> Entries \cup {NoEntry}]
Empty == [p \in Products |-> NoEntry]
NoCart == [id |-> 0, lines |-> Empty]
Items == [product : Products, entry : Entries \cup {NoEntry}]
NoItem == [product |-> NoEntry, entry |-> NoEntry]

Steps == {"idle", "find", "create", "put", "findDrop", "drop", "load", "loaded", "delete"}

TypeOK ==
  /\ cart \in [id : 0..MaxCarts, lines : Lines] /\ carts \in 0..MaxCarts
  /\ orders \in Seq([cart : 1..MaxCarts, lines : Lines, late : SUBSET Products])
  /\ Len(orders) <= carts
  /\ pc \in [Requests -> Steps]
  /\ item \in [Requests -> Items \cup {NoItem}]
  /\ held \in [Requests -> 0..MaxCarts]
  /\ seen \in [Requests -> Lines]
  /\ late \in [Requests -> SUBSET Products]
  /\ cleared \in [Requests -> SUBSET Products]

Init ==
  /\ cart = NoCart /\ carts = 0 /\ orders = <<>>
  /\ pc = [r \in Requests |-> "idle"]
  /\ item = [r \in Requests |-> NoItem]
  /\ held = [r \in Requests |-> 0]
  /\ seen = [r \in Requests |-> Empty]
  /\ late = [r \in Requests |-> {}]
  /\ cleared = [r \in Requests |-> {}]

-----------------------------------------------------------------------------
(* Steps of requests.                                                      *)

Goes(r, s) == pc' = [pc EXCEPT ![r] = s]

\* The request is over and forgotten.
Ends(r) ==
  /\ Goes(r, "idle")
  /\ item' = [item EXCEPT ![r] = NoItem] /\ held' = [held EXCEPT ![r] = 0]
  /\ seen' = [seen EXCEPT ![r] = Empty] /\ cleared' = [cleared EXCEPT ![r] = {}]

\* It fails, or is refused, and leaves no trace: its transaction, if any, is
\* rolled back.
Fail(r) ==
  /\ pc[r] # "idle"
  /\ Ends(r) /\ late' = [late EXCEPT ![r] = {}]
  /\ UNCHANGED <<cart, carts, orders>>

\* upsertItem, in which quantity 0 removes, or submitOrder.
Begin(r) ==
  /\ pc[r] = "idle"
  /\ \/ \E i \in Items :
          /\ item' = [item EXCEPT ![r] = i]
          /\ Goes(r, IF i.entry = NoEntry THEN "findDrop" ELSE "find")
     \/ Goes(r, "load") /\ UNCHANGED item
  /\ UNCHANGED <<cart, carts, orders, held, seen, late, cleared>>

-----------------------------------------------------------------------------
(* upsertItem.                                                             *)

\* findOrCreateDraft finds the draft, or finds that there is none.
FindOrCreate(r) ==
  /\ pc[r] = "find"
  /\ held' = [held EXCEPT ![r] = cart.id]
  /\ Goes(r, IF cart.id = 0 THEN "create" ELSE "put")
  /\ UNCHANGED <<cart, carts, orders, item, seen, late, cleared>>

\* It creates one; it fails when another request has (a user has one draft).
Create(r) ==
  /\ pc[r] = "create" /\ cart.id = 0 /\ carts < MaxCarts
  /\ carts' = carts + 1
  /\ cart' = [id |-> carts + 1, lines |-> Empty]
  /\ held' = [held EXCEPT ![r] = carts + 1] /\ Goes(r, "put")
  /\ UNCHANGED <<orders, item, seen, late, cleared>>

\* The draft to remove a line from; without one there is nothing to do.
FindDraft(r) ==
  /\ pc[r] = "findDrop"
  /\ IF cart.id = 0
     THEN Ends(r)
     ELSE held' = [held EXCEPT ![r] = cart.id] /\ Goes(r, "drop") /\ UNCHANGED <<item, seen, cleared>>
  /\ UNCHANGED <<cart, carts, orders, late>>

\* No open transaction holds the line of p in the cart's row c.
Free(c, p) == \A q \in Requests : ~(held[q] = c /\ p \in cleared[q])

\* The line is upserted or deleted, once no transaction holds it.  The line of a
\* cart that is gone is refused by its foreign key, and the request fails.
WriteLine(r) ==
  LET p == item[r].product IN
  /\ pc[r] \in {"put", "drop"} /\ cart.id = held[r]
  /\ Free(cart.id, p)
  /\ cart' = [cart EXCEPT !.lines[p] = item[r].entry]
  /\ late' = [q \in Requests |->
       IF pc[q] = "loaded" /\ held[q] = cart.id THEN late[q] \cup {p} ELSE late[q]]
  /\ Ends(r)
  /\ UNCHANGED <<carts, orders>>

-----------------------------------------------------------------------------
(* submitOrder.                                                            *)

\* The cart and its lines are loaded; an empty one is refused.
Load(r) ==
  /\ pc[r] = "load" /\ cart.id # 0 /\ cart.lines # Empty
  /\ held' = [held EXCEPT ![r] = cart.id]
  /\ seen' = [seen EXCEPT ![r] = cart.lines]
  /\ Goes(r, "loaded")
  /\ UNCHANGED <<cart, carts, orders, item, late, cleared>>

\* The transaction has written the order with the lines loaded, and deletes those
\* the cart has now; it waits for a transaction that deletes them too.
ClearLines(r) ==
  LET present == {p \in Products : cart.id = held[r] /\ cart.lines[p] # NoEntry} IN
  /\ pc[r] = "loaded"
  /\ \A p \in present : Free(held[r], p)
  /\ cleared' = [cleared EXCEPT ![r] = present]
  /\ Goes(r, "delete")
  /\ UNCHANGED <<cart, carts, orders, item, held, seen, late>>

Placed(r) == [cart |-> held[r], lines |-> seen[r], late |-> late[r]]

DeleteIfAny(r) == \* mutant: a cart that is already gone does not fail the transaction
  /\ pc[r] = "delete"
  /\ cart.id = held[r] => \A p \in Products : cart.lines[p] # NoEntry => p \in cleared[r]
  /\ orders' = Append(orders, Placed(r))
  /\ cart' = IF cart.id = held[r] THEN NoCart ELSE cart
  /\ Ends(r) /\ late' = [late EXCEPT ![r] = {}]
  /\ UNCHANGED carts

DeleteCascading(r) == \* mutant: lines added since are deleted with their cart
  /\ pc[r] = "delete" /\ cart.id = held[r]
  /\ orders' = Append(orders, Placed(r))
  /\ cart' = NoCart
  /\ Ends(r) /\ late' = [late EXCEPT ![r] = {}]
  /\ UNCHANGED carts

\* The cart's row is deleted, which fails when it is gone or when a line still
\* refers to it, and the order is committed with its events.
DeleteCart(r) ==
  /\ pc[r] = "delete" /\ cart.id = held[r]
  /\ \A p \in Products : cart.lines[p] # NoEntry => p \in cleared[r]
  /\ orders' = Append(orders, Placed(r))
  /\ cart' = NoCart
  /\ Ends(r) /\ late' = [late EXCEPT ![r] = {}]
  /\ UNCHANGED carts

-----------------------------------------------------------------------------

Step(r) ==
  \/ Begin(r) \/ FindOrCreate(r) \/ Create(r) \/ FindDraft(r) \/ WriteLine(r)
  \/ Load(r) \/ ClearLines(r) \/ DeleteCart(r) \/ Fail(r)

Next == \E r \in Requests : Step(r)

Spec == Init /\ [][Next]_vars

-----------------------------------------------------------------------------
(* Properties.                                                             *)

\* A cart goes when, and only when, one order is placed for it, and the order
\* holds what the cart held.  The exception is what was written to the cart
\* between the submission's load and its deletion of the lines: that is lost.
CartBecomesItsOrder ==
  [][/\ orders' # orders <=> cart.id # 0 /\ cart'.id # cart.id
     /\ orders' # orders =>
          \E o \in {orders'[Len(orders')]} :
            /\ orders' = Append(orders, o) /\ o.cart = cart.id
            /\ \A p \in Products \ o.late : o.lines[p] = cart.lines[p]]_vars

=============================================================================
