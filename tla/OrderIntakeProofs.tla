------------------------- MODULE OrderIntakeProofs -------------------------
(***************************************************************************)
(* OrderIntake: type correctness, and a cart becomes one order that holds  *)
(* what it held.                                                           *)
(***************************************************************************)
EXTENDS OrderIntake, TLAPS

\* Ids are given out in order, and a request past its first read has one.
IdsGiven ==
  /\ cart.id <= carts
  /\ cart.id = 0 => cart.lines = Empty
  /\ Len(orders) + (IF cart.id = 0 THEN 0 ELSE 1) <= carts
  /\ \A r \in Requests :
       /\ held[r] <= carts
       /\ pc[r] \in {"put", "drop", "loaded", "delete"} => held[r] >= 1
       /\ pc[r] \in {"find", "create", "put", "findDrop", "drop"} => item[r] \in Items
       /\ cleared[r] # {} => pc[r] = "delete"

\* A load is right but for the lines written since.
LoadsHold ==
  \A r \in Requests :
    pc[r] = "loaded" /\ held[r] = cart.id =>
      \A p \in Products \ late[r] : seen[r][p] = cart.lines[p]

\* Lines a transaction has deleted stay as they were until it ends; it loaded no
\* others, unless they were removed before it began.
LocksHold ==
  \A r \in Requests :
    pc[r] = "delete" /\ held[r] = cart.id =>
      \A p \in Products \ late[r] :
        seen[r][p] = IF p \in cleared[r] THEN cart.lines[p] ELSE NoEntry

IInv == TypeOK /\ IdsGiven /\ LoadsHold /\ LocksHold

-----------------------------------------------------------------------------

LEMMA EmptyIsLines == Empty \in Lines /\ NoItem \notin Items
  <1>1. Empty \in Lines BY DEF Empty, Lines
  <1>2. NoItem \notin Items BY OrderIntakeAssumption DEF NoItem, Items
  <1> QED BY <1>1, <1>2

\* A request that ends leaves nothing behind, and the others alone.
LEMMA EndsType ==
  ASSUME TypeOK, NEW r \in Requests, Ends(r)
  PROVE  /\ pc' \in [Requests -> Steps]
         /\ item' \in [Requests -> Items \cup {NoItem}]
         /\ held' \in [Requests -> 0..MaxCarts]
         /\ seen' \in [Requests -> Lines]
         /\ cleared' \in [Requests -> SUBSET Products]
  <1>1. pc' \in [Requests -> Steps] BY DEF TypeOK, Ends, Goes, Steps
  <1>2. item' \in [Requests -> Items \cup {NoItem}] BY DEF TypeOK, Ends
  <1>3. held' \in [Requests -> 0..MaxCarts]
    BY OrderIntakeAssumption DEF TypeOK, Ends
  <1>4. seen' \in [Requests -> Lines] BY EmptyIsLines DEF TypeOK, Ends
  <1>5. cleared' \in [Requests -> SUBSET Products] BY DEF TypeOK, Ends
  <1> QED BY <1>1, <1>2, <1>3, <1>4, <1>5

LEMMA EndsOthers ==
  ASSUME TypeOK, NEW r \in Requests, Ends(r)
  PROVE  /\ pc'[r] = "idle" /\ cleared'[r] = {} /\ held'[r] = 0
         /\ \A q \in Requests \ {r} :
              /\ pc'[q] = pc[q] /\ item'[q] = item[q] /\ held'[q] = held[q]
              /\ seen'[q] = seen[q] /\ cleared'[q] = cleared[q]
  BY DEF TypeOK, Ends, Goes

\* A request that only ends disturbs nothing.
LEMMA EndingKeeps ==
  ASSUME IInv, NEW r \in Requests, Ends(r),
         UNCHANGED <<cart, carts, orders>>,
         late' \in {late, [late EXCEPT ![r] = {}]}
  PROVE  IInv'
  <1> USE OrderIntakeAssumption DEF IInv
  <1>0. /\ late' \in [Requests -> SUBSET Products]
        /\ \A q \in Requests \ {r} : late'[q] = late[q]
    BY DEF TypeOK
  <1>1. TypeOK' BY <1>0, EndsType DEF TypeOK
  <1>2. IdsGiven'
    <2>1. \A q \in Requests :
            /\ held'[q] <= carts
            /\ pc'[q] \in {"put", "drop", "loaded", "delete"} => held'[q] >= 1
            /\ pc'[q] \in {"find", "create", "put", "findDrop", "drop"} => item'[q] \in Items
            /\ cleared'[q] # {} => pc'[q] = "delete"
      BY EndsOthers DEF TypeOK, IdsGiven
    <2> QED BY <2>1 DEF IdsGiven
  <1>3. LoadsHold' BY <1>0, EndsOthers DEF LoadsHold
  <1>4. LocksHold' BY <1>0, EndsOthers DEF LocksHold
  <1> QED BY <1>1, <1>2, <1>3, <1>4

LEMMA InitInvariant == Init => IInv
  <1> SUFFICES ASSUME Init PROVE IInv
    OBVIOUS
  <1>1. TypeOK
    <2>1. cart \in [id : 0..MaxCarts, lines : Lines]
      BY OrderIntakeAssumption, EmptyIsLines DEF Init, NoCart
    <2>2. orders \in Seq([cart : 1..MaxCarts, lines : Lines, late : SUBSET Products])
      BY DEF Init
    <2> QED BY <2>1, <2>2, OrderIntakeAssumption, EmptyIsLines DEF Init, TypeOK, Steps
  <1>2. IdsGiven BY DEF Init, IdsGiven, NoCart
  <1>3. LoadsHold /\ LocksHold BY DEF Init, LoadsHold, LocksHold
  <1> QED BY <1>1, <1>2, <1>3 DEF IInv

LEMMA BeginKeeps ==
  ASSUME IInv, NEW r \in Requests, Begin(r)
  PROVE  IInv'
  <1> USE OrderIntakeAssumption DEF IInv
  <1>1. TypeOK'
    <2>1. pc' \in [Requests -> Steps] BY DEF Begin, Goes, TypeOK, Steps
    <2>2. item' \in [Requests -> Items \cup {NoItem}] BY DEF Begin, TypeOK
    <2> QED BY <2>1, <2>2 DEF Begin, TypeOK
  <1>2. IdsGiven' BY DEF Begin, Goes, TypeOK, IdsGiven
  <1>3. LoadsHold' BY DEF Begin, Goes, TypeOK, LoadsHold
  <1>4. LocksHold' BY DEF Begin, Goes, TypeOK, LocksHold
  <1> QED BY <1>1, <1>2, <1>3, <1>4

LEMMA FindOrCreateKeeps ==
  ASSUME IInv, NEW r \in Requests, FindOrCreate(r)
  PROVE  IInv'
  <1> USE OrderIntakeAssumption DEF IInv
  <1>1. TypeOK'
    BY EmptyIsLines DEF FindOrCreate, Goes, TypeOK, Steps
  <1>2. IdsGiven'
    BY EmptyIsLines DEF FindOrCreate, Goes, TypeOK, IdsGiven
  <1>3. LoadsHold'
    BY EmptyIsLines DEF FindOrCreate, Goes, TypeOK, IdsGiven, LoadsHold
  <1>4. LocksHold'
    BY EmptyIsLines DEF FindOrCreate, Goes, TypeOK, IdsGiven, LoadsHold, LocksHold
  <1> QED BY <1>1, <1>2, <1>3, <1>4

LEMMA CreateKeeps ==
  ASSUME IInv, NEW r \in Requests, Create(r)
  PROVE  IInv'
  <1> USE OrderIntakeAssumption DEF IInv
  <1>1. TypeOK'
    BY EmptyIsLines DEF Create, Goes, TypeOK, Steps
  <1>2. IdsGiven'
    BY EmptyIsLines DEF Create, Goes, TypeOK, IdsGiven
  <1>3. LoadsHold'
    BY EmptyIsLines DEF Create, Goes, TypeOK, IdsGiven, LoadsHold
  <1>4. LocksHold'
    BY EmptyIsLines DEF Create, Goes, TypeOK, IdsGiven, LoadsHold, LocksHold
  <1> QED BY <1>1, <1>2, <1>3, <1>4

LEMMA FindDraftKeeps ==
  ASSUME IInv, NEW r \in Requests, FindDraft(r)
  PROVE  IInv'
  <1> USE OrderIntakeAssumption DEF IInv
  <1>1. CASE cart.id = 0
    BY <1>1, EndingKeeps DEF FindDraft
  <1>2. CASE cart.id # 0
    <2>0. /\ held' = [held EXCEPT ![r] = cart.id] /\ pc' = [pc EXCEPT ![r] = "drop"]
          /\ pc[r] = "findDrop"
          /\ UNCHANGED <<cart, carts, orders, item, seen, late, cleared>>
      BY <1>2 DEF FindDraft, Goes
    <2>1. TypeOK' BY <2>0 DEF TypeOK, Steps
    <2>2. IdsGiven' BY <1>2, <2>0 DEF TypeOK, IdsGiven
    <2>3. LoadsHold' BY <2>0 DEF TypeOK, LoadsHold
    <2>4. LocksHold' BY <2>0 DEF TypeOK, LocksHold
    <2> QED BY <2>1, <2>2, <2>3, <2>4
  <1> QED BY <1>1, <1>2

LEMMA WriteLineKeeps ==
  ASSUME IInv, NEW r \in Requests, WriteLine(r)
  PROVE  IInv'
  <1> DEFINE w == item[r].product
             e == item[r].entry
  <1> USE OrderIntakeAssumption DEF IInv
  <1>0. /\ Ends(r) /\ UNCHANGED <<carts, orders>>
        /\ pc[r] \in {"put", "drop"} /\ cart.id = held[r] /\ Free(cart.id, w)
        /\ cart' = [cart EXCEPT !.lines[w] = e]
        /\ late' = [q \in Requests |->
             IF pc[q] = "loaded" /\ held[q] = cart.id THEN late[q] \cup {w} ELSE late[q]]
    BY DEF WriteLine
  <1>a. w \in Products /\ e \in Entries \cup {NoEntry}
    BY <1>0 DEF IdsGiven, Items
  <1>b. /\ cart.id \in 0..MaxCarts /\ cart.id >= 1 /\ cart.lines \in Lines
        /\ cart'.id = cart.id /\ cart'.lines \in Lines
        /\ cart' \in [id : 0..MaxCarts, lines : Lines]
        /\ \A p \in Products \ {w} : cart'.lines[p] = cart.lines[p]
    BY <1>0, <1>a DEF TypeOK, IdsGiven, Lines
  <1>c. late' \in [Requests -> SUBSET Products]
    BY <1>0, <1>a DEF TypeOK
  <1>1. TypeOK' BY <1>0, <1>b, <1>c, EndsType DEF TypeOK
  <1>2. IdsGiven'
    <2>1. \A q \in Requests :
            /\ held'[q] <= carts
            /\ pc'[q] \in {"put", "drop", "loaded", "delete"} => held'[q] >= 1
            /\ pc'[q] \in {"find", "create", "put", "findDrop", "drop"} => item'[q] \in Items
            /\ cleared'[q] # {} => pc'[q] = "delete"
      BY <1>0, EndsOthers DEF TypeOK, IdsGiven
    <2> QED BY <1>0, <1>b, <2>1 DEF IdsGiven
  <1>3. LoadsHold'
    <2> SUFFICES ASSUME NEW q \in Requests, pc'[q] = "loaded", held'[q] = cart'.id,
                        NEW p \in Products \ late'[q]
                 PROVE  seen'[q][p] = cart'.lines[p]
      BY DEF LoadsHold
    <2>1. q # r /\ pc[q] = "loaded" /\ held[q] = cart.id /\ seen'[q] = seen[q]
      BY <1>0, <1>b, EndsOthers
    <2>2. p # w /\ p \notin late[q] BY <1>0, <2>1
    <2> QED BY <1>b, <2>1, <2>2 DEF LoadsHold
  <1>4. LocksHold'
    <2> SUFFICES ASSUME NEW q \in Requests, pc'[q] = "delete", held'[q] = cart'.id,
                        NEW p \in Products \ late'[q]
                 PROVE  seen'[q][p] = IF p \in cleared'[q] THEN cart'.lines[p] ELSE NoEntry
      BY DEF LocksHold
    <2>1. /\ q # r /\ pc[q] = "delete" /\ held[q] = cart.id
          /\ seen'[q] = seen[q] /\ cleared'[q] = cleared[q]
      BY <1>0, <1>b, EndsOthers
    <2>2. p \notin late[q] /\ (p \in cleared[q] => p # w)
      BY <1>0, <2>1 DEF Free
    <2> QED BY <1>b, <2>1, <2>2 DEF LocksHold
  <1> QED BY <1>1, <1>2, <1>3, <1>4

LEMMA LoadKeeps ==
  ASSUME IInv, NEW r \in Requests, Load(r)
  PROVE  IInv'
  <1> USE OrderIntakeAssumption DEF IInv
  <1>1. TypeOK'
    BY EmptyIsLines DEF Load, Goes, TypeOK, Steps
  <1>2. IdsGiven'
    BY EmptyIsLines DEF Load, Goes, TypeOK, IdsGiven
  <1>3. LoadsHold'
    BY EmptyIsLines DEF Load, Goes, TypeOK, IdsGiven, LoadsHold
  <1>4. LocksHold'
    BY EmptyIsLines DEF Load, Goes, TypeOK, IdsGiven, LoadsHold, LocksHold
  <1> QED BY <1>1, <1>2, <1>3, <1>4

LEMMA ClearLinesKeeps ==
  ASSUME IInv, NEW r \in Requests, ClearLines(r)
  PROVE  IInv'
  <1> USE OrderIntakeAssumption DEF IInv
  <1>1. TypeOK'
    BY EmptyIsLines DEF ClearLines, Goes, TypeOK, Steps
  <1>2. IdsGiven'
    BY EmptyIsLines DEF ClearLines, Goes, TypeOK, IdsGiven
  <1>3. LoadsHold'
    BY EmptyIsLines DEF ClearLines, Goes, TypeOK, IdsGiven, LoadsHold
  <1>4. LocksHold'
    BY EmptyIsLines DEF ClearLines, Goes, TypeOK, IdsGiven, LoadsHold, LocksHold
  <1> QED BY <1>1, <1>2, <1>3, <1>4

LEMMA DeleteCartKeeps ==
  ASSUME IInv, NEW r \in Requests, DeleteCart(r)
  PROVE  IInv'
  <1> USE OrderIntakeAssumption DEF IInv
  <1>0. /\ Ends(r) /\ late' = [late EXCEPT ![r] = {}] /\ UNCHANGED carts
        /\ pc[r] = "delete" /\ cart.id = held[r] /\ cart' = NoCart
        /\ orders' = Append(orders, Placed(r))
    BY DEF DeleteCart
  <1>a. held[r] \in 1..MaxCarts /\ cart.id # 0
    BY <1>0 DEF TypeOK, IdsGiven
  <1>b. Placed(r) \in [cart : 1..MaxCarts, lines : Lines, late : SUBSET Products]
    BY <1>a DEF Placed, TypeOK
  <1>c. /\ orders' \in Seq([cart : 1..MaxCarts, lines : Lines, late : SUBSET Products])
        /\ Len(orders') = Len(orders) + 1
    BY <1>0, <1>b DEF TypeOK
  <1>d. cart'.id = 0 /\ cart'.lines = Empty /\ cart' \in [id : 0..MaxCarts, lines : Lines]
    BY <1>0, EmptyIsLines DEF NoCart
  <1>e. /\ late' \in [Requests -> SUBSET Products] /\ Len(orders) \in Nat
        /\ carts' = carts /\ carts \in 0..MaxCarts
    BY <1>0 DEF TypeOK
  <1>f. Len(orders') <= carts
    BY <1>a, <1>c, <1>e DEF IdsGiven
  <1>1. TypeOK' BY <1>c, <1>d, <1>e, <1>f, <1>0, EndsType DEF TypeOK
  <1>2. \A q \in Requests :
          /\ held'[q] <= carts
          /\ pc'[q] \in {"put", "drop", "loaded", "delete"} => held'[q] >= 1
          /\ pc'[q] \in {"find", "create", "put", "findDrop", "drop"} => item'[q] \in Items
          /\ cleared'[q] # {} => pc'[q] = "delete"
    BY <1>0, EndsOthers DEF TypeOK, IdsGiven
  <1>3. IdsGiven' BY <1>c, <1>d, <1>e, <1>f, <1>2 DEF IdsGiven
  <1>4. LoadsHold' BY <1>d, <1>2 DEF LoadsHold
  <1>5. LocksHold' BY <1>d, <1>2 DEF LocksHold
  <1> QED BY <1>1, <1>3, <1>4, <1>5

LEMMA FailKeeps ==
  ASSUME IInv, NEW r \in Requests, Fail(r)
  PROVE  IInv'
  BY EndingKeeps DEF Fail

-----------------------------------------------------------------------------

LEMMA StepKeeps == IInv /\ [Next]_vars => IInv'
  <1> SUFFICES ASSUME IInv, [Next]_vars PROVE IInv'
    OBVIOUS
  <1>1. CASE UNCHANGED vars
    BY <1>1 DEF vars, IInv, TypeOK, IdsGiven, LoadsHold, LocksHold
  <1>2. ASSUME NEW r \in Requests, Step(r) PROVE IInv'
    BY <1>2, BeginKeeps, FindOrCreateKeeps, CreateKeeps, FindDraftKeeps, WriteLineKeeps,
       LoadKeeps, ClearLinesKeeps, DeleteCartKeeps, FailKeeps DEF Step
  <1> QED BY <1>1, <1>2 DEF Next

\* The variables keep their types: among them, that no more orders are placed
\* than there were carts.
THEOREM OrderIntakeTypeCorrect == Spec => []TypeOK
  <1>1. Spec => []IInv BY InitInvariant, StepKeeps, PTL DEF Spec
  <1>2. IInv => TypeOK BY DEF IInv
  <1> QED BY <1>1, <1>2, PTL

\* Placing an order takes the cart, and the order holds what the cart held.
LEMMA DeleteCartPlaces ==
  ASSUME IInv, NEW r \in Requests, DeleteCart(r)
  PROVE  /\ orders' = Append(orders, Placed(r)) /\ orders' # orders
         /\ orders'[Len(orders')] = Placed(r)
         /\ cart.id # 0 /\ cart'.id # cart.id
         /\ Placed(r).cart = cart.id
         /\ \A p \in Products \ Placed(r).late : Placed(r).lines[p] = cart.lines[p]
  <1> USE DEF IInv
  <1>0. /\ pc[r] = "delete" /\ cart.id = held[r] /\ cart' = NoCart
        /\ \A p \in Products : cart.lines[p] # NoEntry => p \in cleared[r]
        /\ orders' = Append(orders, Placed(r))
    BY DEF DeleteCart
  <1>1. cart.id # 0 /\ cart'.id # cart.id
    BY <1>0 DEF IdsGiven, NoCart
  <1>2. /\ Len(orders') = Len(orders) + 1 /\ Len(orders) \in Nat
        /\ orders'[Len(orders')] = Placed(r)
    BY <1>0 DEF TypeOK
  <1>3. orders' # orders BY <1>2
  <1>4. \A p \in Products \ late[r] : seen[r][p] = cart.lines[p]
    BY <1>0 DEF LocksHold
  <1> QED BY <1>0, <1>1, <1>2, <1>3, <1>4 DEF Placed

\* The other steps place no order and end no cart.
LEMMA OthersPlaceNothing ==
  ASSUME IInv, NEW r \in Requests, Step(r), ~DeleteCart(r)
  PROVE  orders' = orders /\ (cart.id # 0 => cart'.id = cart.id)
  <1>1. CASE WriteLine(r)
    BY <1>1 DEF WriteLine, IInv, TypeOK
  <1>2. CASE Create(r)
    BY <1>2 DEF Create
  <1>3. CASE \/ Begin(r) \/ FindOrCreate(r) \/ FindDraft(r)
             \/ Load(r) \/ ClearLines(r) \/ Fail(r)
    BY <1>3 DEF Begin, FindOrCreate, FindDraft, Load, ClearLines, Fail
  <1> QED BY <1>1, <1>2, <1>3 DEF Step

\* A cart goes when, and only when, one order is placed for it, and the order
\* holds what the cart held, but for what was written while it was submitted.
THEOREM CartIsOrderedWhole == Spec => CartBecomesItsOrder
  <1> DEFINE Good ==
        /\ orders' # orders <=> cart.id # 0 /\ cart'.id # cart.id
        /\ orders' # orders =>
             \E o \in {orders'[Len(orders')]} :
               /\ orders' = Append(orders, o) /\ o.cart = cart.id
               /\ \A p \in Products \ o.late : o.lines[p] = cart.lines[p]
  <1>1. ASSUME IInv, [Next]_vars PROVE [Good]_vars
    <2>1. CASE UNCHANGED vars
      BY <2>1
    <2>2. ASSUME NEW r \in Requests, Step(r) PROVE Good
      <3>1. CASE DeleteCart(r)
        BY <1>1, <3>1, DeleteCartPlaces
      <3>2. CASE ~DeleteCart(r)
        BY <1>1, <2>2, <3>2, OthersPlaceNothing
      <3> QED BY <3>1, <3>2
    <2> QED BY <1>1, <2>1, <2>2 DEF Next
  <1>2. Spec => []IInv BY InitInvariant, StepKeeps, PTL DEF Spec
  <1> QED BY <1>1, <1>2, PTL DEF Spec, CartBecomesItsOrder

=============================================================================
