------------------------- MODULE SideServicesProofs -------------------------
(***************************************************************************)
(* The invariants of the services beside the analysis, proved for every     *)
(* number of requests, prices, days, periods, callers and every limit.  The *)
(* services share no state: each has an inductive invariant of its own,     *)
(* which its initial states satisfy and its steps keep, and the theorems at *)
(* the end put them together.                                               *)
(***************************************************************************)
EXTENDS SideServices, RateLimiterProofs, FiniteSetTheorems, WellFoundedInduction

-----------------------------------------------------------------------------
\* Paper trading

Account == [cash : Nat, pnl : Int]
Position == [id : Requests, qty : Nat \ {0}, cost : Int]
Held == [id : Requests \cup {"none"}, qty : Nat, cost : Int]
OrderPcs == {"unsent", "account", "create", "price", "position", "book", "pay", "order",
             "trade", "wipe positions", "wipe trades", "done"}
Order == [pc : OrderPcs, side : {"none", "buy", "sell", "reset"}, qty : Nat, price : Nat,
          cash : Nat, held : Held]

OrderOK(o) ==
  /\ o.pc \in {"account", "create", "price", "position", "book", "pay", "order", "trade"} =>
       \/ o.side = "reset" /\ o.pc \in {"account", "create"}
       \/ o.side \in {"buy", "sell"} /\ o.qty > 0
  /\ o.pc \in {"wipe positions", "wipe trades"} => o.side = "reset"
  /\ o.pc \in {"position", "book", "pay", "order", "trade"} => o.price > 0
  /\ o.pc \in {"book", "pay"} /\ o.side = "buy" => o.cash >= o.price * o.qty
  /\ o.pc = "book" /\ o.side = "sell" => o.held.qty >= o.qty

OrdersOK == order \in [Requests -> Order] /\ \A r \in Requests : OrderOK(order[r])

PaperInv ==
  /\ accounts \in Seq(Account)
  /\ positions \in Seq(Position)
  /\ wasReset \in BOOLEAN
  /\ OrdersOK

\* A handler changes its own order only.
LEMMA OrderChanges ==
  ASSUME OrdersOK, NEW r \in Requests, NEW o \in Order, OrderOK(o),
         order' = [order EXCEPT ![r] = o]
  PROVE  OrdersOK'
<1>1. order' \in [Requests -> Order]
  BY DEF OrdersOK
<1>2. \A q \in Requests : OrderOK(order'[q])
  BY DEF OrdersOK
<1> QED
  BY <1>1, <1>2 DEF OrdersOK, OrderOK

\* A handler that only moves on keeps what it has read.
LEMMA OrderGoesOn ==
  ASSUME OrdersOK, NEW r \in Requests, NEW pc \in OrderPcs, OrderGoesTo(r, pc),
         OrderOK([order[r] EXCEPT !.pc = pc])
  PROVE  OrdersOK'
<1> DEFINE o == [order[r] EXCEPT !.pc = pc]
<1>1. order[r] \in Order
  BY DEF OrdersOK
<1>2. o \in Order
  BY <1>1 DEF Order
<1>3. order' = [order EXCEPT ![r] = o]
  BY DEF OrderGoesTo
<1> QED
  BY <1>2, <1>3, OrderChanges

\* The price of a purchase is a number of money units.
LEMMA NotionalType ==
  ASSUME NEW o \in Order
  PROVE  o.price * o.qty \in Nat
BY DEF Order

\* What a sale earns is an integer, possibly negative.
LEMMA PnlType ==
  ASSUME NEW o \in Order
  PROVE  (o.price - o.held.cost) * o.qty \in Int
BY DEF Order, Held

\* Integer division of an integer by a positive number.
LEMMA QuotientType ==
  ASSUME NEW a \in Int, NEW b \in Nat \ {0}
  PROVE  a \div b \in Int
OBVIOUS

\* The average cost is an integer, whatever position the handler has read.
LEMMA AverageType ==
  ASSUME NEW r \in Requests, order[r] \in Order, order[r].qty > 0
  PROVE  AverageCost(r) \in Int
<1> DEFINE h == order[r].held
<1>1. h.cost \in Int /\ h.qty \in Nat /\ order[r].qty \in Nat \ {0}
  BY DEF Order, Held
<1>2. Notional(r) \in Nat
  BY NotionalType DEF Notional
<1>3. h.cost * h.qty \in Int
  BY <1>1
<1>4. h.cost * h.qty + Notional(r) \in Int
  BY <1>2, <1>3
<1>5. h.qty + order[r].qty \in Nat \ {0}
  BY <1>1
<1> QED
  BY <1>4, <1>5, QuotientType DEF AverageCost

\* No request has been sent: no account and no position yet.
LEMMA PaperInitially ==
  PaperInit => PaperInv
<1> SUFFICES ASSUME PaperInit PROVE PaperInv
  OBVIOUS
<1>1. Unsent \in Order /\ OrderOK(Unsent)
  BY DEF Unsent, Order, Held, NoPosition, OrderPcs, OrderOK
<1> QED
  <2>1. order \in [Requests -> Order] /\ \A r \in Requests : order[r] = Unsent
    BY <1>1 DEF PaperInit
  <2> QED
    BY <1>1, <2>1, EmptySeq DEF PaperInit, PaperInv, OrdersOK

\* Every step of every handler keeps money and shares from going below zero.
LEMMA PaperKept ==
  PaperInv /\ PaperNext => PaperInv'
<1> SUFFICES ASSUME PaperInv, NEW r \in Requests,
                    \/ PlaceOrder(r) \/ FindAccount(r) \/ CreateAccount(r) \/ GetLastPrice(r)
                    \/ ReadPosition(r) \/ BookPosition(r) \/ SettleAccount(r)
                    \/ InsertOrder(r) \/ InsertTrade(r)
                    \/ ResetAccount(r) \/ WipePositions(r) \/ WipeTrades(r)
                    \/ HandlerFails(r)
             PROVE  PaperInv'
  BY DEF PaperNext
<1> DEFINE o == order[r]
<1>o. OrdersOK /\ o \in Order /\ OrderOK(o)
  BY DEF PaperInv, OrdersOK
<1>p. /\ Prices \subseteq Nat \ {0} /\ Quantities \subseteq Nat \ {0} /\ InitialCash \in Nat
  BY PaperAssumption
<1>1. CASE PlaceOrder(r)
  <2>1. PICK side \in {"buy", "sell"}, qty \in Quantities :
          order' = [order EXCEPT ![r].pc = "account", ![r].side = side, ![r].qty = qty]
    BY <1>1 DEF PlaceOrder
  <2> DEFINE n == [o EXCEPT !.pc = "account", !.side = side, !.qty = qty]
  <2>2. n \in Order
    BY <1>o, <1>p DEF Order, OrderPcs
  <2>3. OrderOK(n)
    <3>1. n.pc = "account" /\ n.side \in {"buy", "sell"} /\ n.qty > 0
      BY <1>o, <1>p DEF Order
    <3> QED
      BY <3>1 DEF OrderOK
  <2>4. order' = [order EXCEPT ![r] = n]
    BY <2>1
  <2>5. OrdersOK'
    BY <1>o, <2>2, <2>3, <2>4, OrderChanges
  <2> QED
    BY <1>1, <2>5 DEF PlaceOrder, PaperRest, PaperInv
<1>2. CASE FindAccount(r)
  <2>1. OrdersOK'
    <3>1. CASE accounts = <<>>
      BY <1>2, <1>o, <3>1, OrderGoesOn DEF FindAccount, OrderAt, OrderOK, Order, OrderPcs
    <3>2. CASE accounts # <<>>
      <4> DEFINE n == [o EXCEPT !.cash = accounts[1].cash, !.pc = AfterAccount(r)]
      <4>1. accounts[1] \in Account
        BY <3>2 DEF PaperInv
      <4>2. n \in Order
        BY <1>o, <4>1 DEF Order, OrderPcs, Account, AfterAccount
      <4>3. OrderOK(n)
        BY <1>2, <1>o, <4>1 DEF FindAccount, OrderAt, OrderOK, Order, AfterAccount, Account
      <4>4. order' = [order EXCEPT ![r] = n]
        BY <1>2, <3>2 DEF FindAccount
      <4> QED
        BY <1>o, <4>2, <4>3, <4>4, OrderChanges
    <3> QED
      BY <3>1, <3>2
  <2> QED
    BY <1>2, <2>1 DEF FindAccount, PaperRest, PaperInv
<1>3. CASE CreateAccount(r)
  <2> DEFINE n == [o EXCEPT !.cash = InitialCash, !.pc = AfterAccount(r)]
  <2>1. n \in Order
    BY <1>o, <1>p DEF Order, OrderPcs, AfterAccount
  <2>2. OrderOK(n)
    BY <1>3, <1>o, <1>p DEF CreateAccount, OrderAt, OrderOK, Order, AfterAccount
  <2>3. order' = [order EXCEPT ![r] = n]
    BY <1>3 DEF CreateAccount
  <2>4. OrdersOK'
    BY <1>o, <2>1, <2>2, <2>3, OrderChanges
  <2>5. accounts' \in Seq(Account)
    BY <1>3, <1>p DEF CreateAccount, NewAccount, Account, PaperInv
  <2> QED
    BY <1>3, <2>4, <2>5 DEF CreateAccount, PaperRest, PaperInv
<1>4. CASE GetLastPrice(r)
  <2>1. PICK price \in Prices \cup {0} :
          order' = [order EXCEPT ![r].price = price,
                                 ![r].pc = IF price = 0 THEN "done" ELSE "position"]
    BY <1>4 DEF GetLastPrice
  <2> DEFINE n == [o EXCEPT !.price = price, !.pc = IF price = 0 THEN "done" ELSE "position"]
  <2>2. n \in Order
    <3>1. price \in Nat
      BY <1>p
    <3>2. (IF price = 0 THEN "done" ELSE "position") \in OrderPcs
      BY DEF OrderPcs
    <3> QED
      BY <1>o, <3>1, <3>2 DEF Order
  <2>3. OrderOK(n)
    BY <1>4, <1>o, <1>p DEF GetLastPrice, OrderAt, OrderOK, Order
  <2>4. order' = [order EXCEPT ![r] = n]
    BY <2>1
  <2>5. OrdersOK'
    BY <1>o, <2>2, <2>3, <2>4, OrderChanges
  <2> QED
    BY <1>4, <2>5 DEF GetLastPrice, PaperRest, PaperInv
<1>5. CASE ReadPosition(r)
  <2> DEFINE f == FirstPosition
             n == [o EXCEPT !.held = f, !.pc = IF Affordable(r, f) THEN "book" ELSE "done"]
  <2>1. f \in Held
    <3>1. CASE positions = <<>>
      BY <3>1 DEF FirstPosition, NoPosition, Held
    <3>2. CASE positions # <<>>
      <4>1. positions[1] \in Position
        BY <3>2 DEF PaperInv
      <4> QED
        BY <3>2, <4>1 DEF FirstPosition, Position, Held
    <3> QED
      BY <3>1, <3>2
  <2> HIDE DEF f
  <2>2. n \in Order
    BY <1>o, <2>1 DEF Order, OrderPcs
  <2>3. OrderOK(n)
    BY <1>5, <1>o, <2>1 DEF ReadPosition, OrderAt, OrderOK, Order, Affordable, Notional
  <2>4. order' = [order EXCEPT ![r] = n]
    BY <1>5 DEF ReadPosition, f
  <2>5. OrdersOK'
    BY <1>o, <2>2, <2>3, <2>4, OrderChanges
  <2> QED
    BY <1>5, <2>5 DEF ReadPosition, PaperRest, PaperInv
<1>6. CASE BookPosition(r)
  <2> DEFINE held == o.held
             bought == held.qty + o.qty
             left == held.qty - o.qty
  <2>t. /\ held \in Held /\ o.qty \in Nat \ {0} /\ o.price \in Nat /\ o.pc = "book"
        /\ positions \in Seq(Position)
    BY <1>6, <1>o DEF BookPosition, OrderAt, Order, OrderOK, PaperInv
  <2>1. positions' \in Seq(Position)
    <3>1. ASSUME held = NoPosition,
                 positions' = Append(positions, [id |-> r, qty |-> o.qty, cost |-> o.price])
          PROVE  positions' \in Seq(Position)
      BY <3>1, <2>t DEF Position
    <3>2. ASSUME held # NoPosition,
                 SetPosition([held EXCEPT !.qty = bought, !.cost = AverageCost(r)])
          PROVE  positions' \in Seq(Position)
      <4> DEFINE new == [held EXCEPT !.qty = bought, !.cost = AverageCost(r)]
      <4>1. bought \in Nat \ {0} /\ AverageCost(r) \in Int
        BY <1>o, <2>t, AverageType DEF Held
      <4>2. new.id \in Requests => new \in Position
        BY <4>1, <2>t DEF Position, Held
      <4>3. positions' = [k \in 1 .. Len(positions) |->
                            IF positions[k].id = new.id THEN new ELSE positions[k]]
        BY <3>2 DEF SetPosition
      <4> HIDE DEF new
      <4>4. ASSUME NEW k \in 1 .. Len(positions)
            PROVE  (IF positions[k].id = new.id THEN new ELSE positions[k]) \in Position
        <5>1. positions[k] \in Position
          BY <2>t
        <5>2. positions[k].id \in Requests
          BY <5>1 DEF Position
        <5> QED
          BY <4>2, <5>1, <5>2
      <4>5. Len(positions) \in Nat
        BY <2>t
      <4> QED
        BY <4>3, <4>4, <4>5
    <3>3. ASSUME DropPosition(held.id)
          PROVE  positions' \in Seq(Position)
      <4>1. ASSUME NEW k \in 1 .. Len(positions),
                   positions' = [j \in 1 .. Len(positions) - 1 |->
                                   positions[IF j < k THEN j ELSE j + 1]]
            PROVE  positions' \in Seq(Position)
        <5>1. \A j \in 1 .. Len(positions) - 1 :
                positions[IF j < k THEN j ELSE j + 1] \in Position
          BY <2>t
        <5>2. Len(positions) - 1 \in Nat
          BY <2>t
        <5> QED
          BY <4>1, <5>1, <5>2
      <4> QED
        BY <3>3, <4>1, <2>t DEF DropPosition
    <3>4. ASSUME o.side = "sell", left # 0,
                 positions' = [k \in 1 .. Len(positions) |->
                   IF positions[k].id = held.id THEN [positions[k] EXCEPT !.qty = left]
                                                ELSE positions[k]]
          PROVE  positions' \in Seq(Position)
      <4>1. left \in Nat \ {0}
        BY <1>o, <2>t, <3>4 DEF OrderOK, Held
      <4> HIDE DEF left
      <4>2. ASSUME NEW k \in 1 .. Len(positions)
            PROVE  (IF positions[k].id = held.id THEN [positions[k] EXCEPT !.qty = left]
                                                 ELSE positions[k]) \in Position
        <5>1. positions[k] \in Position
          BY <2>t
        <5>2. [positions[k] EXCEPT !.qty = left] \in Position
          BY <4>1, <5>1 DEF Position
        <5> QED
          BY <5>1, <5>2
      <4>3. Len(positions) \in Nat
        BY <2>t
      <4> QED
        BY <4>2, <4>3, <3>4
    <3> QED
      BY <1>6, <3>1, <3>2, <3>3, <3>4 DEF BookPosition
  <2>2. OrdersOK'
    BY <1>6, <1>o, OrderGoesOn DEF BookPosition, OrderAt, OrderOK, Order, OrderPcs
  <2> QED
    BY <1>6, <2>1, <2>2 DEF BookPosition, PaperRest, PaperInv
<1>7. CASE SettleAccount(r)
  <2>1. accounts' \in Seq(Account)
    <3>1. ASSUME NEW cash \in Nat, NEW inc \in Int, UpdateAccount(cash, inc)
          PROVE  accounts' \in Seq(Account)
      <4>1. CASE accounts = <<>>
        BY <3>1, <4>1 DEF UpdateAccount
      <4>2. CASE accounts # <<>>
        <5>1. accounts[1] \in Account /\ accounts \in Seq(Account)
          BY <4>2 DEF PaperInv
        <5>2. [cash |-> cash, pnl |-> accounts[1].pnl + inc] \in Account
          BY <5>1, <3>1 DEF Account
        <5>3. accounts' = [accounts EXCEPT ![1] = [cash |-> cash, pnl |-> accounts[1].pnl + inc]]
          BY <3>1, <4>2 DEF UpdateAccount
        <5> DEFINE new == [cash |-> cash, pnl |-> accounts[1].pnl + inc]
        <5>4. 1 \in 1 .. Len(accounts)
          BY <4>2, <5>1
        <5> HIDE DEF new
        <5>5. [accounts EXCEPT ![1] = new] \in Seq(Account)
          BY <5>1, <5>2, <5>4, ExceptSeq DEF new
        <5> QED
          BY <5>3, <5>5 DEF new
      <4> QED
        BY <4>1, <4>2
    <3>2. Notional(r) \in Nat /\ Pnl(r) \in Int
      BY <1>o, NotionalType, PnlType DEF Notional, Pnl
    <3>3. CASE o.side = "buy"
      <4>1. o.cash - Notional(r) \in Nat
        BY <1>7, <1>o, <3>2, <3>3 DEF SettleAccount, OrderAt, OrderOK, Order, Notional
      <4> QED
        BY <1>7, <3>1, <3>3, <4>1 DEF SettleAccount
    <3>4. CASE o.side # "buy"
      <4>1. o.cash + Notional(r) \in Nat
        BY <1>o, <3>2 DEF Order
      <4> QED
        BY <1>7, <3>1, <3>2, <3>4, <4>1 DEF SettleAccount
    <3> QED
      BY <3>3, <3>4
  <2>2. OrdersOK'
    BY <1>7, <1>o, OrderGoesOn DEF SettleAccount, OrderAt, OrderOK, Order, OrderPcs
  <2> QED
    BY <1>7, <2>1, <2>2 DEF SettleAccount, PaperRest, PaperInv
<1>8. CASE InsertOrder(r)
  <2>1. OrdersOK'
    BY <1>8, <1>o, OrderGoesOn DEF InsertOrder, OrderAt, OrderOK, Order, OrderPcs
  <2> QED
    BY <1>8, <2>1 DEF InsertOrder, PaperRest, PaperInv
<1>9. CASE InsertTrade(r)
  <2>1. OrdersOK'
    BY <1>9, <1>o, OrderGoesOn DEF InsertTrade, OrderAt, OrderOK, Order, OrderPcs
  <2> QED
    BY <1>9, <2>1 DEF InsertTrade, PaperRest, PaperInv
<1>10. CASE ResetAccount(r)
  <2> DEFINE n == [o EXCEPT !.pc = "wipe positions", !.side = "reset"]
  <2>1. n \in Order
    BY <1>o DEF Order, OrderPcs
  <2>2. OrderOK(n)
    BY <1>o DEF OrderOK, Order
  <2>3. order' = [order EXCEPT ![r] = n]
    BY <1>10 DEF ResetAccount
  <2>4. OrdersOK'
    BY <1>o, <2>1, <2>2, <2>3, OrderChanges
  <2>5. accounts' \in Seq(Account) /\ positions' = positions /\ wasReset' = TRUE
    BY <1>10, EmptySeq DEF ResetAccount
  <2> QED
    BY <2>4, <2>5 DEF PaperInv
<1>11. CASE WipePositions(r)
  <2>1. OrdersOK'
    BY <1>11, <1>o, OrderGoesOn DEF WipePositions, OrderAt, OrderOK, Order, OrderPcs
  <2> QED
    BY <1>11, <2>1, EmptySeq DEF WipePositions, PaperRest, PaperInv
<1>12. CASE WipeTrades(r)
  <2>1. OrdersOK'
    BY <1>12, <1>o, OrderGoesOn DEF WipeTrades, OrderAt, OrderOK, Order, OrderPcs
  <2> QED
    BY <1>12, <2>1 DEF WipeTrades, PaperRest, PaperInv
<1>13. CASE HandlerFails(r)
  <2>1. OrdersOK'
    BY <1>13, <1>o, OrderGoesOn DEF HandlerFails, OrderOK, Order, OrderPcs
  <2> QED
    BY <1>13, <2>1 DEF HandlerFails, PaperInv
<1> QED
  BY <1>1, <1>2, <1>3, <1>4, <1>5, <1>6, <1>7, <1>8, <1>9, <1>10, <1>11, <1>12, <1>13

-----------------------------------------------------------------------------
\* Sums over finite sets.  SumFunctionOnSet is a fold, a recursive function on
\* the subsets of its set; SumEquation is the equation that defines it.
One(s) == CHOOSE x \in s : TRUE

SumEquation(f, D, v) ==
  f = [s \in SUBSET D |-> IF s = {} THEN 0 ELSE v[One(s)] + f[s \ {One(s)}]]

\* Taking the chosen element out of a finite set makes it smaller by one.
LEMMA TakeOne ==
  ASSUME NEW D, IsFiniteSet(D), NEW s \in SUBSET D
  PROVE  /\ IsFiniteSet(s) /\ Cardinality(s) \in Nat
         /\ Cardinality(s) <= Cardinality(D)
         /\ Cardinality(s) = 0 <=> s = {}
         /\ \A x \in s : /\ x \in D /\ s \ {x} \in SUBSET D
                         /\ Cardinality(s \ {x}) = Cardinality(s) - 1
         /\ s # {} => One(s) \in s
<1>1. IsFiniteSet(s) /\ Cardinality(s) \in Nat /\ Cardinality(s) <= Cardinality(D)
  BY FS_Subset, FS_CardinalityType
<1>2. Cardinality(s) = 0 <=> s = {}
  BY <1>1, FS_EmptySet
<1>3. \A x \in s : x \in D /\ s \ {x} \in SUBSET D /\ Cardinality(s \ {x}) = Cardinality(s) - 1
  BY <1>1, FS_RemoveElement
<1>4. s # {} => One(s) \in s
  BY DEF One
<1> QED
  BY <1>1, <1>2, <1>3, <1>4

\* A non-empty set of naturals has a least element.
LEMMA LeastNatural ==
  ASSUME NEW T \in SUBSET Nat, T # {}
  PROVE  \E m \in T : \A k \in Nat : k < m => k \notin T
<1>1. PICK m \in T : \A x \in T : ~(<<x, m>> \in OpToRel(<, Nat))
  BY NatLessThanWellFounded, WFMin
<1> QED
  BY <1>1 DEF OpToRel

\* The equation has a solution, built from the small sets to the large ones.
LEMMA SumsExist ==
  ASSUME NEW D, IsFiniteSet(D), NEW v, \A x \in D : v[x] \in Int
  PROVE  \E f \in [SUBSET D -> Int] : SumEquation(f, D, v)
<1> DEFINE K(n) == {s \in SUBSET D : Cardinality(s) <= n}
           Ok(n) == \E f \in [K(n) -> Int] : \A s \in K(n) :
                      f[s] = IF s = {} THEN 0 ELSE v[One(s)] + f[s \ {One(s)}]
<1>1. \A s \in SUBSET D :
        /\ Cardinality(s) \in Nat /\ Cardinality(s) <= Cardinality(D)
        /\ Cardinality(s) = 0 <=> s = {}
        /\ s # {} => /\ One(s) \in D /\ s \ {One(s)} \in SUBSET D
                     /\ Cardinality(s \ {One(s)}) = Cardinality(s) - 1
  BY TakeOne
<1>2. Ok(0)
  <2>1. ASSUME NEW s \in K(0) PROVE s = {}
    <3>1. Cardinality(s) \in Nat /\ Cardinality(s) <= 0 /\ (Cardinality(s) = 0 <=> s = {})
      BY <1>1
    <3> QED
      BY <3>1
  <2>2. [s \in K(0) |-> 0] \in [K(0) -> Int]
    OBVIOUS
  <2> QED
    BY <2>1, <2>2
<1>3. ASSUME NEW n \in Nat, Ok(n) PROVE Ok(n + 1)
  <2>1. PICK f \in [K(n) -> Int] : \A s \in K(n) :
               f[s] = IF s = {} THEN 0 ELSE v[One(s)] + f[s \ {One(s)}]
    BY <1>3
  <2> DEFINE g == [s \in K(n + 1) |-> IF s = {} THEN 0 ELSE v[One(s)] + f[s \ {One(s)}]]
  <2>2. \A s \in K(n + 1) : s # {} => s \ {One(s)} \in K(n)
    BY <1>1
  <2>3. \A s \in K(n) : s \in K(n + 1) /\ g[s] = f[s]
    <3>1. ASSUME NEW s \in K(n) PROVE s \in K(n + 1)
      <4>1. s \in SUBSET D /\ Cardinality(s) \in Nat /\ Cardinality(s) <= n
        BY <1>1
      <4> QED
        BY <4>1
    <3> QED
      BY <2>1, <3>1
  <2>4. g \in [K(n + 1) -> Int]
    BY <1>1, <2>2
  <2>5. \A s \in K(n + 1) : g[s] = IF s = {} THEN 0 ELSE v[One(s)] + g[s \ {One(s)}]
    BY <2>2, <2>3
  <2> QED
    BY <2>4, <2>5
<1>4. \A n \in Nat : Ok(n)
  <2> HIDE DEF Ok
  <2> DEFINE Bad == {n \in Nat : ~Ok(n)}
  <2>1. ASSUME Bad # {} PROVE FALSE
    <3>1. PICK m \in Bad : \A k \in Nat : k < m => k \notin Bad
      BY <2>1, LeastNatural
    <3>2. m # 0
      BY <1>2, <3>1
    <3>3. m - 1 \in Nat /\ m - 1 < m /\ (m - 1) + 1 = m
      BY <3>1, <3>2
    <3> QED
      BY <1>3, <3>1, <3>3
  <2> QED
    BY <2>1
<1>5. Cardinality(D) \in Nat /\ K(Cardinality(D)) = SUBSET D
  BY <1>1
<1>6. PICK f \in [SUBSET D -> Int] : \A s \in SUBSET D :
             f[s] = IF s = {} THEN 0 ELSE v[One(s)] + f[s \ {One(s)}]
  <2>1. Ok(Cardinality(D))
    BY <1>4, <1>5
  <2> QED
    BY <1>5, <2>1
<1> QED
  BY <1>6 DEF SumEquation

\* Two solutions agree where both are defined.
LEMMA SumsAgree ==
  ASSUME NEW D, IsFiniteSet(D), NEW E \in SUBSET D, NEW v, NEW f, NEW g,
         SumEquation(f, D, v), SumEquation(g, E, v)
  PROVE  \A s \in SUBSET E : f[s] = g[s]
<1> DEFINE Bad == {Cardinality(s) : s \in {t \in SUBSET E : f[t] # g[t]}}
<1>1. IsFiniteSet(E)
  BY FS_Subset
<1>2. Bad \in SUBSET Nat
  BY <1>1, TakeOne
<1>3. ASSUME Bad # {} PROVE FALSE
  <2>1. PICK m \in Bad : \A k \in Nat : k < m => k \notin Bad
    BY <1>2, <1>3, LeastNatural
  <2>2. PICK s \in SUBSET E : m = Cardinality(s) /\ f[s] # g[s]
    BY <2>1
  <2>3. /\ f[s] = IF s = {} THEN 0 ELSE v[One(s)] + f[s \ {One(s)}]
        /\ g[s] = IF s = {} THEN 0 ELSE v[One(s)] + g[s \ {One(s)}]
    BY DEF SumEquation
  <2>4. s # {}
    BY <2>2, <2>3
  <2>5. /\ s \ {One(s)} \in SUBSET E /\ Cardinality(s) \in Nat
        /\ Cardinality(s \ {One(s)}) = Cardinality(s) - 1
        /\ Cardinality(s \ {One(s)}) \in Nat
    <3>1. s \ {One(s)} \in SUBSET E
      OBVIOUS
    <3> QED
      BY <1>1, <2>4, <3>1, TakeOne
  <2>6. Cardinality(s \ {One(s)}) \notin Bad
    BY <2>1, <2>2, <2>5
  <2>7. f[s \ {One(s)}] = g[s \ {One(s)}]
    BY <2>5, <2>6
  <2> QED
    BY <2>2, <2>3, <2>7
<1> QED
  BY <1>3

\* Any element of a set may be the one that is added last.
OrderFree(f, D, v) == \A s \in SUBSET D : \A x \in s : f[s] = v[x] + f[s \ {x}]

\* The order in which a sum takes its elements does not matter.
LEMMA AnyOrder ==
  ASSUME NEW D, IsFiniteSet(D), NEW v, \A x \in D : v[x] \in Int,
         NEW f \in [SUBSET D -> Int], SumEquation(f, D, v)
  PROVE  OrderFree(f, D, v)
<1> DEFINE Fine(s) == \A x \in s : f[s] = v[x] + f[s \ {x}]
           Bad == {Cardinality(s) : s \in {t \in SUBSET D : ~Fine(t)}}
<1>1. Bad \in SUBSET Nat
  BY TakeOne
<1>2. ASSUME Bad # {} PROVE FALSE
  <2>1. PICK m \in Bad : \A k \in Nat : k < m => k \notin Bad
    BY <1>1, <1>2, LeastNatural
  <2>2. PICK s \in SUBSET D : m = Cardinality(s) /\ ~Fine(s)
    BY <2>1
  <2>3. PICK x \in s : f[s] # v[x] + f[s \ {x}]
    BY <2>2
  <2> DEFINE y == One(s)
             rest == (s \ {x}) \ {y}
  <2>4. y \in s /\ f[s] = v[y] + f[s \ {y}]
    <3>1. s # {}
      BY <2>3
    <3>2. One(s) \in s
      BY <3>1, TakeOne
    <3> QED
      BY <3>1, <3>2 DEF SumEquation
  <2> HIDE DEF y
  <2>5. x # y
    BY <2>3, <2>4
  <2>6. ASSUME NEW z \in s PROVE s \ {z} \in SUBSET D /\ Fine(s \ {z})
    <3>1. /\ s \ {z} \in SUBSET D /\ Cardinality(s) \in Nat
          /\ Cardinality(s \ {z}) = Cardinality(s) - 1
          /\ Cardinality(s \ {z}) \in Nat
      <4>1. s \ {z} \in SUBSET D
        OBVIOUS
      <4> QED
        BY <4>1, TakeOne
    <3>2. Cardinality(s \ {z}) \notin Bad
      BY <2>1, <2>2, <3>1
    <3> QED
      BY <3>1, <3>2
  <2>7. f[s \ {y}] = v[x] + f[(s \ {y}) \ {x}]
    BY <2>4, <2>5, <2>6
  <2>8. f[s \ {x}] = v[y] + f[(s \ {x}) \ {y}]
    BY <2>4, <2>5, <2>6
  <2>9. (s \ {y}) \ {x} = rest
    OBVIOUS
  <2>10. v[x] \in Int /\ v[y] \in Int /\ f[rest] \in Int
    BY <2>4
  <2> HIDE DEF rest
  <2>11. f[s] = v[y] + (v[x] + f[rest])
    BY <2>4, <2>7, <2>9
  <2>12. f[s \ {x}] = v[y] + f[rest]
    BY <2>8 DEF rest
  <2> QED
    BY <2>3, <2>10, <2>11, <2>12
<1>3. \A s \in SUBSET D : Fine(s)
  BY <1>2
<1> QED
  BY <1>3 DEF OrderFree

\* The sum of the community modules solves the equation of any larger set.
LEMMA SumSolves ==
  ASSUME NEW D, IsFiniteSet(D), NEW v, \A x \in D : v[x] \in Int,
         NEW f, SumEquation(f, D, v), NEW S \in SUBSET D
  PROVE  SumFunctionOnSet(v, S) = f[S]
<1> DEFINE g == CHOOSE h : SumEquation(h, S, v)
<1>1. SumFunctionOnSet(v, S) = g[S]
  BY DEF SumFunctionOnSet, FoldFunctionOnSet, MapThenFoldSet, SumEquation, One
<1>2. IsFiniteSet(S)
  BY FS_Subset
<1>3. \E h : SumEquation(h, S, v)
  BY <1>2, SumsExist
<1>4. SumEquation(g, S, v)
  BY <1>3
<1>5. f[S] = g[S]
  <2> HIDE DEF g
  <2> QED
    BY <1>4, SumsAgree
<1> QED
  BY <1>1, <1>5

\* What a sum over a finite set is: nothing for no elements, and any element's
\* value beside the sum of the others.
LEMMA SumOfSet ==
  ASSUME NEW S, IsFiniteSet(S), NEW v, \A x \in S : v[x] \in Int
  PROVE  /\ SumFunctionOnSet(v, S) \in Int
         /\ S = {} => SumFunctionOnSet(v, S) = 0
         /\ \A x \in S : SumFunctionOnSet(v, S) = v[x] + SumFunctionOnSet(v, S \ {x})
<1>1. PICK f \in [SUBSET S -> Int] : SumEquation(f, S, v)
  BY SumsExist
<1>2. \A T \in SUBSET S : SumFunctionOnSet(v, T) = f[T]
  BY <1>1, SumSolves
<1>3. \A x \in S : f[S] = v[x] + f[S \ {x}]
  <2>1. OrderFree(f, S, v)
    BY <1>1, AnyOrder
  <2> QED
    BY <2>1 DEF OrderFree
<1>4. S = {} => f[S] = 0
  BY <1>1 DEF SumEquation
<1>5. S \in SUBSET S /\ \A x \in S : S \ {x} \in SUBSET S
  OBVIOUS
<1> QED
  BY <1>1, <1>2, <1>3, <1>4, <1>5

\* A sum depends on the values inside its set only.
LEMMA SumIsLocal ==
  ASSUME NEW S, IsFiniteSet(S), NEW v, NEW w,
         \A x \in S : v[x] \in Int /\ w[x] = v[x]
  PROVE  SumFunctionOnSet(w, S) = SumFunctionOnSet(v, S)
<1>1. PICK f \in [SUBSET S -> Int] : SumEquation(f, S, v)
  BY SumsExist
<1>2. \A s \in SUBSET S : s # {} => One(s) \in S
  BY TakeOne
<1>3. SumEquation(f, S, w)
  BY <1>1, <1>2 DEF SumEquation
<1>4. SumFunctionOnSet(v, S) = f[S]
  BY <1>1, SumSolves
<1>5. SumFunctionOnSet(w, S) = f[S]
  BY <1>3, SumSolves
<1> QED
  BY <1>4, <1>5

-----------------------------------------------------------------------------
\* The realized profit of the paper account

\* Two sums whose sets and values agree outside r differ by r's shares of them.
LEMMA OneShare ==
  ASSUME NEW S, IsFiniteSet(S), NEW v, \A x \in S : v[x] \in Int,
         NEW T, IsFiniteSet(T), NEW w, \A x \in T : w[x] \in Int,
         NEW r, S \ {r} = T \ {r}, \A x \in S \ {r} : w[x] = v[x]
  PROVE  /\ SumFunctionOnSet(v, S) \in Int /\ SumFunctionOnSet(w, T) \in Int
         /\ SumFunctionOnSet(w, T) - (IF r \in T THEN w[r] ELSE 0)
              = SumFunctionOnSet(v, S) - (IF r \in S THEN v[r] ELSE 0)
<1>1. /\ SumFunctionOnSet(v, S) \in Int
      /\ \A x \in S : SumFunctionOnSet(v, S) = v[x] + SumFunctionOnSet(v, S \ {x})
  BY SumOfSet
<1>2. /\ SumFunctionOnSet(w, T) \in Int
      /\ \A x \in T : SumFunctionOnSet(w, T) = w[x] + SumFunctionOnSet(w, T \ {x})
  BY SumOfSet
<1> DEFINE rest == SumFunctionOnSet(v, S \ {r})
<1>3. IsFiniteSet(S \ {r})
  BY FS_RemoveElement
<1>4. rest \in Int
  BY <1>3, SumOfSet
<1>5. SumFunctionOnSet(w, T \ {r}) = rest
  <2>1. \A x \in S \ {r} : v[x] \in Int /\ w[x] = v[x]
    OBVIOUS
  <2>2. SumFunctionOnSet(w, S \ {r}) = rest
    BY <1>3, <2>1, SumIsLocal
  <2> QED
    BY <2>2
<1>6. SumFunctionOnSet(v, S) - (IF r \in S THEN v[r] ELSE 0) = rest
  <2>1. CASE r \in S
    BY <1>1, <1>4, <2>1
  <2>2. CASE r \notin S
    <3>1. S \ {r} = S
      BY <2>2
    <3> QED
      BY <1>1, <2>2, <3>1
  <2> QED
    BY <2>1, <2>2
<1>7. SumFunctionOnSet(w, T) - (IF r \in T THEN w[r] ELSE 0) = rest
  <2>1. CASE r \in T
    BY <1>2, <1>4, <1>5, <2>1
  <2>2. CASE r \notin T
    <3>1. T \ {r} = T
      BY <2>2
    <3>2. SumFunctionOnSet(w, T) = rest
      BY <1>5, <3>1
    <3> QED
      BY <1>4, <2>2, <3>2
  <2> QED
    BY <2>1, <2>2
<1> QED
  BY <1>1, <1>2, <1>6, <1>7

Owed == SumFunctionOnSet(Earned, OnTheWay)
Share(r) == IF r \in OnTheWay THEN Pnl(r) ELSE 0
Sent == {r \in Requests : order[r].pc # "unsent"}

\* Before the first account nobody has got further than asking for one.
PnlInv ==
  /\ tradePnl \in Int /\ unrecorded \in Int
  /\ IsFiniteSet(Sent)
  /\ ~wasReset =>
       /\ \A r \in Requests : order[r].side # "reset"
       /\ accounts = <<>> => /\ tradePnl = 0 /\ unrecorded = 0
                             /\ \A r \in Requests :
                                  order[r].pc \in {"unsent", "account", "create", "done"}
       /\ accounts # <<>> => accounts[1].pnl = tradePnl + unrecorded + Owed

\* A step of one handler moves what is owed by that handler's share.
LEMMA OwedMoves ==
  ASSUME OrdersOK, OrdersOK', IsFiniteSet(Sent), NEW r \in Requests,
         \A q \in Requests : q # r => order'[q] = order[q]
  PROVE  /\ IsFiniteSet(Sent')
         /\ Owed \in Int /\ Owed' \in Int /\ Share(r) \in Int /\ Share(r)' \in Int
         /\ Share(r)' = Share(r) => Owed' = Owed
         /\ Share(r) = 0 => Owed' = Owed + Share(r)'
         /\ Share(r)' = 0 => Owed' = Owed - Share(r)
<1>1. IsFiniteSet(Sent')
  <2>1. IsFiniteSet(Sent \cup {r})
    BY FS_AddElement
  <2>2. Sent' \subseteq Sent \cup {r}
    BY DEF Sent
  <2> QED
    BY <2>1, <2>2, FS_Subset
<1>2. /\ \A q \in Requests : Pnl(q) \in Int /\ Pnl(q)' \in Int
      /\ \A q \in Requests : q # r => Pnl(q)' = Pnl(q)
  <2>1. \A q \in Requests : order[q] \in Order /\ order'[q] \in Order
    BY DEF OrdersOK
  <2> QED
    BY <2>1, PnlType DEF Pnl
<1>3. /\ OnTheWay \subseteq Requests /\ OnTheWay' \subseteq Requests
      /\ \A q \in Requests : Earned[q] = Pnl(q) /\ Earned'[q] = Pnl(q)'
  BY DEF OnTheWay, Earned
<1>4. IsFiniteSet(OnTheWay) /\ IsFiniteSet(OnTheWay')
  <2>1. OnTheWay \subseteq Sent /\ OnTheWay' \subseteq Sent'
    BY DEF OnTheWay, Sent
  <2> QED
    BY <1>1, <2>1, FS_Subset
<1>5. OnTheWay \ {r} = OnTheWay' \ {r}
  BY DEF OnTheWay
<1> DEFINE S == OnTheWay
           T == OnTheWay'
           v == Earned
           w == Earned'
<1>6. /\ IsFiniteSet(S) /\ IsFiniteSet(T) /\ S \ {r} = T \ {r}
      /\ \A x \in S : v[x] \in Int
      /\ \A x \in T : w[x] \in Int
      /\ \A x \in S \ {r} : w[x] = v[x]
  BY <1>2, <1>3, <1>4, <1>5
<1> HIDE DEF S, T, v, w
<1>7. /\ SumFunctionOnSet(v, S) \in Int /\ SumFunctionOnSet(w, T) \in Int
      /\ SumFunctionOnSet(w, T) - (IF r \in T THEN w[r] ELSE 0)
           = SumFunctionOnSet(v, S) - (IF r \in S THEN v[r] ELSE 0)
  BY <1>6, OneShare
<1>8. Owed = SumFunctionOnSet(v, S) /\ Owed' = SumFunctionOnSet(w, T)
  BY DEF Owed, S, T, v, w
<1>9. /\ Share(r) = (IF r \in S THEN v[r] ELSE 0)
      /\ Share(r)' = (IF r \in T THEN w[r] ELSE 0)
  BY <1>3 DEF Share, S, T, v, w
<1>10. Share(r) \in Int /\ Share(r)' \in Int
  BY <1>2 DEF Share
<1>11. /\ Share(r)' = Share(r) => Owed' = Owed
       /\ Share(r) = 0 => Owed' = Owed + Share(r)'
       /\ Share(r)' = 0 => Owed' = Owed - Share(r)
  <2> DEFINE x == SumFunctionOnSet(v, S)
             y == SumFunctionOnSet(w, T)
             c == IF r \in S THEN v[r] ELSE 0
             e == IF r \in T THEN w[r] ELSE 0
  <2>1. x \in Int /\ y \in Int /\ c \in Int /\ e \in Int /\ y - e = x - c
    BY <1>7, <1>9, <1>10
  <2> HIDE DEF x, y, c, e
  <2>2. (e = c => y = x) /\ (c = 0 => y = x + e) /\ (e = 0 => y = x - c)
    BY <2>1
  <2>3. Owed = x /\ Owed' = y /\ Share(r) = c /\ Share(r)' = e
    BY <1>8, <1>9 DEF x, y, c, e
  <2> QED
    BY <2>2, <2>3
<1> QED
  BY <1>1, <1>7, <1>8, <1>10, <1>11

\* A request before its first database call, or that has got no account yet.
Early == {"unsent", "account", "create", "done"}
Late == {"order", "trade"}

\* Outside these places a handler has no share in what is owed.
LEMMA NoShare ==
  ASSUME NEW r \in Requests
  PROVE  /\ order[r].pc \notin Late => Share(r) = 0
         /\ order'[r].pc \notin Late => Share(r)' = 0
BY DEF Share, OnTheWay, Late

\* What is earned moves between the account, the trades and the sales in between.
LEMMA Moves ==
  ASSUME NEW t \in Int, NEW u \in Int, NEW w \in Int, NEW e \in Int
  PROVE  /\ t + u + (w + e) = (t + u + w) + e
         /\ (t + e) + u + (w - e) = t + u + w
         /\ t + (u + e) + (w - e) = t + u + w
OBVIOUS

\* What a step has to show while no reset has begun.
LEMMA Balanced ==
  ASSUME PaperInv, PaperInv', PnlInv, NEW r \in Requests,
         \A q \in Requests : q # r => order'[q] = order[q],
         ~wasReset, order'[r].side # "reset",
         tradePnl' \in Int, unrecorded' \in Int,
         accounts = <<>> => order'[r].pc \in Early /\ tradePnl' = 0 /\ unrecorded' = 0,
         accounts' = <<>> <=> accounts = <<>>,
         accounts # <<>> => accounts'[1].pnl = tradePnl' + unrecorded' + Owed'
  PROVE  PnlInv'
<1>1. OrdersOK /\ OrdersOK' /\ IsFiniteSet(Sent)
  BY DEF PaperInv, PnlInv, OrdersOK, OrderOK
<1>2. IsFiniteSet(Sent')
  BY <1>1, OwedMoves
<1>3. /\ \A q \in Requests : order[q].side # "reset"
      /\ accounts = <<>> => \A q \in Requests : order[q].pc \in Early
  BY DEF PnlInv, Early
<1>5. \A q \in Requests : order'[q].side # "reset"
  BY <1>3
<1>6. accounts' = <<>> => /\ tradePnl' = 0 /\ unrecorded' = 0
                          /\ \A q \in Requests : order'[q].pc \in Early
  BY <1>3
<1> QED
  BY <1>2, <1>5, <1>6 DEF PnlInv, Early

\* A step that moves no money.
LEMMA MoneyRests ==
  ASSUME PaperInv, PaperInv', PnlInv, NEW r \in Requests,
         \A q \in Requests : q # r => order'[q] = order[q],
         accounts' = accounts, tradePnl' = tradePnl, unrecorded' = unrecorded,
         wasReset' = wasReset,
         order'[r].side = "reset" => order[r].side = "reset",
         order[r].pc \notin Late, order'[r].pc \notin Late,
         order'[r].pc \in Early \/ order[r].pc \notin Early \/ accounts # <<>>
  PROVE  PnlInv'
<1>1. CASE wasReset
  <2>1. IsFiniteSet(Sent')
    BY OwedMoves DEF PaperInv, PnlInv, OrdersOK, OrderOK
  <2> QED
    BY <1>1, <2>1 DEF PnlInv
<1>2. CASE ~wasReset
  <2>1. /\ tradePnl \in Int /\ unrecorded \in Int
        /\ order[r].side # "reset"
        /\ accounts = <<>> => tradePnl = 0 /\ unrecorded = 0 /\ order[r].pc \in Early
    BY <1>2 DEF PnlInv, Early
  <2>2. Owed' = Owed
    <3>1. Share(r) = 0 /\ Share(r)' = 0
      BY NoShare
    <3>2. Share(r)' = Share(r) => Owed' = Owed
      BY OwedMoves DEF PaperInv, PnlInv, OrdersOK, OrderOK
    <3> QED
      BY <3>1, <3>2
  <2>3. accounts # <<>> => accounts[1].pnl = tradePnl + unrecorded + Owed
    BY <1>2 DEF PnlInv
  <2>4. accounts # <<>> => accounts'[1].pnl = tradePnl' + unrecorded' + Owed'
    BY <2>2, <2>3
  <2> QED
    BY <1>2, <2>1, <2>4, Balanced
<1> QED
  BY <1>1, <1>2

\* Every step of every handler keeps the account's profit and the trades in step.
LEMMA PnlKept ==
  PaperInv /\ PaperInv' /\ PnlInv /\ PaperNext => PnlInv'
<1> SUFFICES ASSUME PaperInv, PaperInv', PnlInv, NEW r \in Requests,
                    \/ PlaceOrder(r) \/ FindAccount(r) \/ CreateAccount(r) \/ GetLastPrice(r)
                    \/ ReadPosition(r) \/ BookPosition(r) \/ SettleAccount(r)
                    \/ InsertOrder(r) \/ InsertTrade(r)
                    \/ ResetAccount(r) \/ WipePositions(r) \/ WipeTrades(r)
                    \/ HandlerFails(r)
             PROVE  PnlInv'
  BY DEF PaperNext
<1> DEFINE o == order[r]
           n == order'[r]
<1>1. /\ OrdersOK /\ OrdersOK' /\ order \in [Requests -> Order] /\ order' \in [Requests -> Order]
      /\ OrderOK(o) /\ o \in Order
  BY DEF PaperInv, OrdersOK, OrderOK
<1>2. \A q \in Requests : q # r => order'[q] = order[q]
  BY <1>1 DEF PlaceOrder, FindAccount, CreateAccount, GetLastPrice, ReadPosition, BookPosition,
     SettleAccount, InsertOrder, InsertTrade, ResetAccount, WipePositions, WipeTrades,
     HandlerFails, OrderGoesTo
<1>3. Pnl(r) \in Int
  BY <1>1, PnlType DEF Pnl
<1>4. tradePnl \in Int /\ unrecorded \in Int
  BY DEF PnlInv
<1>5. /\ IsFiniteSet(Sent')
      /\ Owed \in Int /\ Owed' \in Int /\ Share(r) \in Int /\ Share(r)' \in Int
      /\ Share(r)' = Share(r) => Owed' = Owed
      /\ Share(r) = 0 => Owed' = Owed + Share(r)'
      /\ Share(r)' = 0 => Owed' = Owed - Share(r)
  BY <1>1, <1>2, OwedMoves DEF PnlInv
<1>6. ASSUME ~wasReset
      PROVE  /\ o.side # "reset" /\ o.pc \notin {"wipe positions", "wipe trades"}
             /\ accounts = <<>> => tradePnl = 0 /\ unrecorded = 0 /\ o.pc \in Early
  <2>1. /\ o.side # "reset"
        /\ accounts = <<>> => tradePnl = 0 /\ unrecorded = 0 /\ o.pc \in Early
    BY <1>6 DEF PnlInv, Early
  <2> QED
    BY <1>1, <2>1 DEF OrderOK
<1>7. ~wasReset /\ accounts # <<>> => accounts[1].pnl = tradePnl + unrecorded + Owed
  BY DEF PnlInv
<1>8. ASSUME wasReset', tradePnl' \in Int, unrecorded' \in Int PROVE PnlInv'
  BY <1>5, <1>8 DEF PnlInv
<1>10. CASE PlaceOrder(r)
  <2>1. /\ o.pc = "unsent" /\ n.pc = "account" /\ n.side \in {"buy", "sell"}
        /\ UNCHANGED <<accounts, tradePnl, unrecorded, wasReset>>
    <3>1. PICK side \in {"buy", "sell"}, qty \in Quantities :
            order' = [order EXCEPT ![r].pc = "account", ![r].side = side, ![r].qty = qty]
      BY <1>10 DEF PlaceOrder
    <3>2. n = [o EXCEPT !.pc = "account", !.side = side, !.qty = qty]
      BY <1>1, <3>1
    <3>3. n.pc = "account" /\ n.side = side
      BY <1>1, <3>2 DEF Order
    <3> QED
      BY <1>10, <3>3 DEF PlaceOrder, OrderAt, PaperRest
  <2> QED
    BY <1>2, <2>1, MoneyRests DEF Early, Late
<1>11. CASE FindAccount(r)
  <2>1. /\ o.pc = "account" /\ n.side = o.side
        /\ n.pc = (IF accounts = <<>> THEN "create" ELSE AfterAccount(r))
        /\ UNCHANGED <<accounts, tradePnl, unrecorded, wasReset>>
    <3>1. CASE accounts = <<>>
      <4>1. n = [o EXCEPT !.pc = "create"]
        BY <1>1, <1>11, <3>1 DEF FindAccount, OrderGoesTo
      <4>2. n.pc = "create" /\ n.side = o.side
        BY <1>1, <4>1 DEF Order
      <4> QED
        BY <1>11, <3>1, <4>2 DEF FindAccount, OrderAt, PaperRest
    <3>2. CASE accounts # <<>>
      <4>1. n = [o EXCEPT !.cash = accounts[1].cash, !.pc = AfterAccount(r)]
        BY <1>1, <1>11, <3>2 DEF FindAccount
      <4>2. n.pc = AfterAccount(r) /\ n.side = o.side
        BY <1>1, <4>1 DEF Order
      <4> QED
        BY <1>11, <3>2, <4>2 DEF FindAccount, OrderAt, PaperRest
    <3> QED
      BY <3>1, <3>2
  <2>2. n.pc \in {"create", "price", "done"} /\ (n.pc = "price" => accounts # <<>>)
    BY <2>1 DEF AfterAccount
  <2> QED
    BY <1>2, <2>1, <2>2, MoneyRests DEF Early, Late
<1>12. CASE CreateAccount(r)
  <2>1. /\ o.pc = "create" /\ n.side = o.side /\ n.pc = AfterAccount(r)
        /\ UNCHANGED <<tradePnl, unrecorded, wasReset>>
        /\ accounts' = Append(accounts, NewAccount) /\ accounts \in Seq(Account)
    BY <1>1, <1>12 DEF CreateAccount, OrderAt, PaperRest, PaperInv
  <2>2. n.pc \in {"price", "done"}
    BY <2>1 DEF AfterAccount
  <2>3. Share(r) = 0 /\ Share(r)' = 0
    BY <2>1, <2>2, NoShare DEF Late
  <2>4. accounts' # <<>> /\ accounts'[1] = (IF accounts = <<>> THEN NewAccount ELSE accounts[1])
    BY <2>1
  <2>5. CASE wasReset
    BY <1>4, <1>8, <2>1, <2>5
  <2>6. CASE ~wasReset /\ accounts # <<>>
    <3>1. Owed' = Owed
      BY <1>5, <2>3
    <3>2. accounts'[1].pnl = tradePnl' + unrecorded' + Owed'
      BY <1>7, <2>1, <2>4, <2>6, <3>1
    <3> QED
      BY <1>2, <1>4, <1>6, <2>1, <2>4, <2>6, <3>2, Balanced
  <2>7. CASE ~wasReset /\ accounts = <<>>
    <3>1. /\ tradePnl' = 0 /\ unrecorded' = 0 /\ ~wasReset'
          /\ \A q \in Requests : order[q].side # "reset" /\ order[q].pc \in Early
      BY <2>1, <2>7 DEF PnlInv, Early
    <3>2. \A q \in Requests : order'[q].side # "reset" /\ order'[q].pc \notin Late
      BY <1>2, <2>1, <2>2, <3>1 DEF Early, Late
    <3>3. OnTheWay' = {}
      BY <3>2 DEF OnTheWay, Late
    <3>4. Owed' = 0
      <4> DEFINE T == OnTheWay'
                 w == Earned'
      <4>1. IsFiniteSet(T) /\ T = {} /\ \A x \in T : w[x] \in Int
        BY <3>3, FS_EmptySet
      <4> HIDE DEF T, w
      <4>2. SumFunctionOnSet(w, T) = 0
        BY <4>1, SumOfSet
      <4> QED
        BY <4>2 DEF Owed, T, w
    <3>5. accounts' # <<>> /\ accounts'[1].pnl = 0
      BY <2>4, <2>7 DEF NewAccount
    <3> QED
      BY <1>5, <3>1, <3>2, <3>4, <3>5 DEF PnlInv
  <2> QED
    BY <2>5, <2>6, <2>7
<1>13. CASE GetLastPrice(r)
  <2>1. /\ o.pc = "price" /\ n.side = o.side /\ n.pc \in {"done", "position"}
        /\ UNCHANGED <<accounts, tradePnl, unrecorded, wasReset>>
    <3>1. PICK price \in Prices \cup {0} :
            order' = [order EXCEPT ![r].price = price,
                                   ![r].pc = IF price = 0 THEN "done" ELSE "position"]
      BY <1>13 DEF GetLastPrice
    <3>2. n = [o EXCEPT !.price = price, !.pc = IF price = 0 THEN "done" ELSE "position"]
      BY <1>1, <3>1
    <3>3. n.pc \in {"done", "position"} /\ n.side = o.side
      BY <1>1, <3>2 DEF Order
    <3> QED
      BY <1>13, <3>3 DEF GetLastPrice, OrderAt, PaperRest
  <2> QED
    BY <1>2, <2>1, MoneyRests DEF Early, Late
<1>14. CASE ReadPosition(r)
  <2>1. /\ o.pc = "position" /\ n.side = o.side /\ n.pc \in {"done", "book"}
        /\ UNCHANGED <<accounts, tradePnl, unrecorded, wasReset>>
    BY <1>1, <1>14 DEF ReadPosition, OrderAt, PaperRest
  <2> QED
    BY <1>2, <2>1, MoneyRests DEF Early, Late
<1>15. CASE BookPosition(r)
  <2>1. /\ o.pc = "book" /\ n.side = o.side /\ n.pc = "pay"
        /\ UNCHANGED <<accounts, tradePnl, unrecorded, wasReset>>
    BY <1>1, <1>15 DEF BookPosition, OrderAt, OrderGoesTo, PaperRest
  <2> QED
    BY <1>2, <2>1, MoneyRests DEF Early, Late
<1>16. CASE SettleAccount(r)
  <2>1. /\ o.pc = "pay" /\ n = [o EXCEPT !.pc = "order"]
        /\ UNCHANGED <<tradePnl, unrecorded, wasReset>>
    BY <1>1, <1>16 DEF SettleAccount, OrderAt, OrderGoesTo, PaperRest
  <2>2. CASE wasReset
    BY <1>4, <1>8, <2>1, <2>2
  <2>3. CASE ~wasReset
    <3>1. accounts # <<>> /\ o.side \in {"buy", "sell"}
      BY <1>1, <1>6, <2>1, <2>3 DEF Early, OrderOK
    <3>2. Share(r) = 0
      BY <2>1, NoShare DEF Late
    <3>3. n.side = o.side /\ n.pc = "order" /\ Pnl(r)' = Pnl(r)
      BY <1>1, <2>1 DEF Pnl, Order
    <3>4. Share(r)' = IF o.side = "sell" THEN Pnl(r) ELSE 0
      BY <3>3 DEF Share, OnTheWay
    <3> DEFINE inc == IF o.side = "sell" THEN Pnl(r) ELSE 0
    <3>5. PICK cash : UpdateAccount(cash, inc)
      BY <1>16, <3>1 DEF SettleAccount
    <3>6. accounts' # <<>> /\ accounts'[1].pnl = accounts[1].pnl + inc
      <4> HIDE DEF inc
      <4>1. accounts' = [accounts EXCEPT ![1] = [cash |-> cash, pnl |-> @.pnl + inc]]
        BY <3>1, <3>5 DEF UpdateAccount
      <4>2. accounts \in Seq(Account) /\ 1 \in 1 .. Len(accounts)
        BY <3>1 DEF PaperInv
      <4>3. /\ accounts'[1] = [cash |-> cash, pnl |-> accounts[1].pnl + inc]
            /\ DOMAIN accounts' = 1 .. Len(accounts)
        BY <4>1, <4>2
      <4> QED
        BY <4>2, <4>3
    <3>7. accounts'[1].pnl = tradePnl' + unrecorded' + Owed'
      <4>1. inc \in Int /\ Owed' = Owed + inc
        BY <1>3, <1>5, <3>2, <3>4
      <4> HIDE DEF inc
      <4>2. tradePnl + unrecorded + (Owed + inc) = (tradePnl + unrecorded + Owed) + inc
        BY <1>4, <1>5, <4>1, Moves
      <4> QED
        BY <1>7, <2>1, <2>3, <3>1, <3>6, <4>1, <4>2
    <3> QED
      BY <1>2, <1>4, <2>1, <2>3, <3>1, <3>3, <3>6, <3>7, Balanced
  <2> QED
    BY <2>2, <2>3
<1>17. CASE InsertOrder(r)
  <2>1. /\ o.pc = "order" /\ n = [o EXCEPT !.pc = "trade"]
        /\ UNCHANGED <<accounts, tradePnl, unrecorded, wasReset>>
    BY <1>1, <1>17 DEF InsertOrder, OrderAt, OrderGoesTo, PaperRest
  <2>2. CASE wasReset
    BY <1>4, <1>8, <2>1, <2>2
  <2>3. CASE ~wasReset
    <3>1. accounts # <<>>
      BY <1>6, <2>1, <2>3 DEF Early
    <3>2. n.side = o.side /\ n.pc = "trade" /\ Pnl(r)' = Pnl(r)
      BY <1>1, <2>1 DEF Pnl, Order
    <3>3. Share(r)' = Share(r) /\ Share(r) \in Int
      <4>1. Share(r) = IF o.side = "sell" THEN Pnl(r) ELSE 0
        BY <2>1 DEF Share, OnTheWay
      <4>2. Share(r)' = IF o.side = "sell" THEN Pnl(r) ELSE 0
        BY <3>2 DEF Share, OnTheWay
      <4> QED
        BY <1>3, <4>1, <4>2
    <3>4. Owed' = Owed
      BY <1>5, <3>3
    <3>5. accounts'[1].pnl = tradePnl' + unrecorded' + Owed'
      BY <1>7, <2>1, <2>3, <3>1, <3>4
    <3> QED
      BY <1>2, <1>4, <1>6, <2>1, <2>3, <3>1, <3>2, <3>5, Balanced
  <2> QED
    BY <2>2, <2>3
<1>18. CASE InsertTrade(r)
  <2>1. /\ o.pc = "trade" /\ n = [o EXCEPT !.pc = "done"]
        /\ tradePnl' = (IF o.side = "sell" THEN tradePnl + Pnl(r) ELSE tradePnl)
        /\ UNCHANGED <<accounts, unrecorded, wasReset>>
    BY <1>1, <1>18 DEF InsertTrade, OrderAt, OrderGoesTo, PaperRest
  <2>2. tradePnl' \in Int /\ unrecorded' \in Int
    BY <1>3, <1>4, <2>1
  <2>3. CASE wasReset
    BY <1>8, <2>1, <2>2, <2>3
  <2>4. CASE ~wasReset
    <3>1. accounts # <<>>
      BY <1>6, <2>1, <2>4 DEF Early
    <3>2. n.side = o.side /\ n.pc = "done"
      BY <1>1, <2>1 DEF Order
    <3>3. Share(r)' = 0 /\ Share(r) = (IF o.side = "sell" THEN Pnl(r) ELSE 0)
      BY <2>1, <3>2 DEF Share, OnTheWay
    <3>4. accounts'[1].pnl = tradePnl' + unrecorded' + Owed'
      <4>1. tradePnl' = tradePnl + Share(r) /\ Owed' = Owed - Share(r)
        BY <1>4, <1>5, <2>1, <3>3
      <4>2. (tradePnl + Share(r)) + unrecorded + (Owed - Share(r)) = tradePnl + unrecorded + Owed
        BY <1>4, <1>5, Moves
      <4> QED
        BY <1>7, <2>1, <2>4, <3>1, <4>1, <4>2
    <3> QED
      BY <1>2, <1>6, <2>1, <2>2, <2>4, <3>1, <3>2, <3>4, Balanced
  <2> QED
    BY <2>3, <2>4
<1>19. CASE ResetAccount(r)
  BY <1>4, <1>8, <1>19 DEF ResetAccount
<1>20. CASE WipePositions(r)
  <2>1. /\ o.pc = "wipe positions" /\ n.side = o.side /\ n.pc = "wipe trades"
        /\ UNCHANGED <<accounts, tradePnl, unrecorded, wasReset>>
    <3>1. n = [o EXCEPT !.pc = "wipe trades"]
      BY <1>1, <1>20 DEF WipePositions, OrderGoesTo
    <3>2. n.pc = "wipe trades" /\ n.side = o.side
      BY <1>1, <3>1 DEF Order
    <3> QED
      BY <1>20, <3>2 DEF WipePositions, OrderAt, PaperRest
  <2> QED
    BY <1>2, <2>1, MoneyRests DEF Early, Late
<1>21. CASE WipeTrades(r)
  <2>1. wasReset /\ wasReset' = wasReset /\ tradePnl' = 0 /\ unrecorded' = unrecorded
    BY <1>6, <1>21 DEF WipeTrades, OrderAt, PaperRest, PaperInv
  <2> QED
    BY <1>4, <1>8, <2>1
<1>22. CASE HandlerFails(r)
  <2>1. /\ n = [o EXCEPT !.pc = "done"]
        /\ unrecorded' = (IF o.pc \in Late /\ o.side = "sell" THEN unrecorded + Pnl(r) ELSE unrecorded)
        /\ UNCHANGED <<accounts, tradePnl, wasReset>>
    BY <1>1, <1>22 DEF HandlerFails, OrderGoesTo, Late
  <2>2. tradePnl' \in Int /\ unrecorded' \in Int
    BY <1>3, <1>4, <2>1
  <2>3. CASE wasReset
    BY <1>8, <2>1, <2>2, <2>3
  <2>4. CASE ~wasReset
    <3>1. n.side = o.side /\ n.pc = "done"
      BY <1>1, <2>1 DEF Order
    <3>2. Share(r)' = 0 /\ Share(r) = (IF o.pc \in Late /\ o.side = "sell" THEN Pnl(r) ELSE 0)
      BY <3>1 DEF Share, OnTheWay, Late
    <3>3. accounts = <<>> => o.pc \notin Late /\ unrecorded' = unrecorded
      BY <1>6, <2>1, <2>4 DEF Early, Late
    <3>4. accounts # <<>> => accounts'[1].pnl = tradePnl' + unrecorded' + Owed'
      <4>1. unrecorded' = unrecorded + Share(r) /\ Owed' = Owed - Share(r)
        BY <1>4, <1>5, <2>1, <3>2
      <4>2. tradePnl + (unrecorded + Share(r)) + (Owed - Share(r)) = tradePnl + unrecorded + Owed
        BY <1>4, <1>5, Moves
      <4> QED
        BY <1>7, <2>1, <2>4, <4>1, <4>2
    <3>5. accounts = <<>> => n.pc \in Early /\ tradePnl' = 0 /\ unrecorded' = 0
      BY <1>6, <2>1, <2>4, <3>1, <3>3 DEF Early
    <3>6. n.side # "reset" /\ (accounts' = <<>> <=> accounts = <<>>)
      BY <1>6, <2>1, <2>4, <3>1
    <3> QED
      BY <1>2, <2>2, <2>4, <3>4, <3>5, <3>6, Balanced
  <2> QED
    BY <2>3, <2>4
<1> QED
  BY <1>10, <1>11, <1>12, <1>13, <1>14, <1>15, <1>16, <1>17, <1>18, <1>19, <1>20, <1>21, <1>22

\* No request, no account, nothing owed.
LEMMA PnlInitially ==
  PaperInit => PnlInv
<1> SUFFICES ASSUME PaperInit PROVE PnlInv
  OBVIOUS
<1>1. \A r \in Requests : order[r] = Unsent
  BY DEF PaperInit
<1>2. Sent = {}
  BY <1>1 DEF Sent, Unsent
<1>3. accounts = <<>> /\ tradePnl = 0 /\ unrecorded = 0
  BY DEF PaperInit
<1>4. \A r \in Requests : order[r].side = "none" /\ order[r].pc = "unsent"
  BY <1>1 DEF Unsent
<1> QED
  BY <1>2, <1>3, <1>4, FS_EmptySet DEF PnlInv

-----------------------------------------------------------------------------
\* Strategy simulation

Initial(b) == IF firstBar = b THEN 1 ELSE 0

\* The loop has finished a pass dated by the bar b.
Finished(b) == led[b] # Initial(b) + raised[b]

SimTypes ==
  /\ SimTypeOK
  /\ led \in [Bars -> Nat] /\ raised \in [Bars -> Nat]
  /\ firstBar \in Bars \cup {<<0, 0>>} /\ afterStop \in Nat

BarsCounted ==
  \A b \in Bars : led[b] = Initial(b) + raised[b] \/ led[b] = 1 + Initial(b) + raised[b]

\* A bar in hand is a row, and since a row is only replaced by a later one, not
\* older than a bar of its symbol that is finished.
BarOrder ==
  /\ \A s \in Symbols : bar[s] <= latestBar[s]
  /\ \A s \in Symbols, d \in SimDays :
       Finished(<<s, d>>) =>
         d <= latestBar[s] /\ (loop \in {"fetch", "drive"} /\ s < asked => d <= bar[s])
  /\ loop \in {"start", "fetch"} => asked \in Symbols
  /\ loop = "drive" => asked = NSymbols + 1 /\ \A s \in Symbols : Leads(s, bar) => bar[s] # lastBar
  /\ loop \in {"start", "initial"} =>
       lastBar = 0 /\ firstBar = <<0, 0>> /\ \A b \in Bars : led[b] = 0

\* The last finished pass was led by s; what was finished before was led by a
\* symbol further down the list or by an older bar of s.
Newest(s) ==
  /\ Finished(<<s, lastBar>>)
  /\ \A t \in Symbols, d \in SimDays :
       Finished(<<t, d>>) => s < t \/ (s = t /\ d <= lastBar)

LeadersDescend ==
  \/ lastBar = 0 /\ \A b \in Bars : ~Finished(b)
  \/ lastBar # 0 /\ \E s \in Symbols : Newest(s)

OneAfterStop ==
  /\ afterStop <= 1
  /\ afterStop > 0 => simStatus # "running" /\ loop \in {"persist", "sleep", "over"}

SimInv == SimTypes /\ BarsCounted /\ BarOrder /\ LeadersDescend /\ OneAfterStop

\* A simulation starts without a bar.
LEMMA SimInitially ==
  SimInit => SimInv
<1> SUFFICES ASSUME SimInit PROVE SimInv
  OBVIOUS
<1>1. NSymbols \in Nat \ {0} /\ MaxDay \in Nat \ {0} /\ 1 \in SimDays
  BY SimAssumption DEF SimDays
<1>2. NoBars \in [Symbols -> {0}] /\ \A s \in Symbols : NoBars[s] = 0
  BY DEF NoBars
<1>3. SimTypes
  BY <1>1, <1>2 DEF SimInit, SimTypes, SimTypeOK, SimDays
<1>4. ASSUME NEW b \in Bars PROVE led[b] = 0 /\ raised[b] = 0 /\ Initial(b) = 0 /\ ~Finished(b)
  <2>1. led[b] = 0 /\ raised[b] = 0 /\ firstBar = <<0, 0>>
    BY DEF SimInit
  <2>2. b # <<0, 0>>
    BY DEF Bars, SimDays, Symbols
  <2> QED
    BY <2>1, <2>2 DEF Initial, Finished
<1>5. \A s \in Symbols, d \in SimDays : <<s, d>> \in Bars
  BY DEF Bars
<1>6. BarOrder
  <2>1. \A s \in Symbols, d \in SimDays : ~Finished(<<s, d>>)
    BY <1>4, <1>5
  <2>2. 1 \in Symbols
    BY <1>1 DEF Symbols
  <2>3. \A s \in Symbols : bar[s] <= latestBar[s]
    BY <1>2 DEF SimInit
  <2> QED
    BY <1>4, <2>1, <2>2, <2>3 DEF SimInit, BarOrder
<1> QED
  BY <1>3, <1>4, <1>6 DEF SimInit, SimInv, BarsCounted, LeadersDescend, OneAfterStop

\* Counting one more keeps a table of counts.
LEMMA OneMore ==
  ASSUME NEW S, NEW f \in [S -> Nat], NEW x \in S
  PROVE  [f EXCEPT ![x] = @ + 1] \in [S -> Nat]
OBVIOUS

\* A pass has one leader.
LEMMA OneLeader ==
  ASSUME NSymbols \in Nat, NEW bars \in [Symbols -> Nat], NEW s \in Symbols, NEW t \in Symbols,
         Leads(s, bars), Leads(t, bars)
  PROVE  s = t
<1>1. s \in Int /\ t \in Int /\ s >= 1 /\ t >= 1
  BY DEF Symbols
<1>2. ~(s < t)
  <2> SUFFICES ASSUME s < t PROVE FALSE
    OBVIOUS
  <2>1. s \in 1 .. t - 1
    BY <1>1
  <2> QED
    BY <2>1 DEF Leads
<1>3. ~(t < s)
  <2> SUFFICES ASSUME t < s PROVE FALSE
    OBVIOUS
  <2>1. t \in 1 .. s - 1
    BY <1>1
  <2> QED
    BY <2>1 DEF Leads
<1> QED
  BY <1>1, <1>2, <1>3

\* The counts stay as they are while no pass is driven.
LEMMA CountsKept ==
  ASSUME UNCHANGED <<led, raised, firstBar>>
  PROVE  \A b \in Bars : (Finished(b)' <=> Finished(b)) /\ Initial(b)' = Initial(b)
BY DEF Finished, Initial

\* ... and with the last date, what is said of them.
LEMMA FinishedKept ==
  ASSUME SimInv, UNCHANGED <<led, raised, firstBar, lastBar>>
  PROVE  BarsCounted' /\ LeadersDescend'
<1>1. \A b \in Bars : (Finished(b)' <=> Finished(b)) /\ Initial(b)' = Initial(b)
  BY CountsKept
<1>2. BarsCounted'
  BY <1>1 DEF SimInv, BarsCounted
<1>3. \A s \in Symbols, d \in SimDays : <<s, d>> \in Bars
  BY DEF Bars
<1>4. CASE lastBar = 0
  BY <1>1, <1>2, <1>4 DEF SimInv, LeadersDescend
<1>5. CASE lastBar # 0
  <2>1. lastBar \in SimDays
    BY <1>5, SimAssumption DEF SimInv, SimTypes, SimTypeOK, SimDays
  <2>2. PICK s \in Symbols : Newest(s)
    BY <1>5 DEF SimInv, LeadersDescend
  <2>3. Newest(s)'
    BY <2>1, <2>2, <1>1, <1>3 DEF Newest
  <2> QED
    BY <1>2, <1>5, <2>3 DEF LeadersDescend
<1> QED
  BY <1>2, <1>4, <1>5

\* Asking for one more row keeps the order of bars.
LEMMA RowKept ==
  ASSUME SimInv, FetchRow, asked \in Symbols,
         UNCHANGED <<simDay, latestBar, lastBar, led, raised, firstBar>>,
         loop \in {"start", "fetch"}
  PROVE  /\ bar' \in [Symbols -> 0 .. MaxDay] /\ asked' \in 1 .. NSymbols + 1
         /\ \A s \in Symbols : bar'[s] <= latestBar'[s]
         /\ \A s \in Symbols, d \in SimDays :
              Finished(<<s, d>>)' =>
                d <= latestBar'[s] /\ (loop = "fetch" /\ s < asked' => d <= bar'[s])
<1>1. /\ bar \in [Symbols -> 0 .. MaxDay] /\ latestBar \in [Symbols -> 0 .. MaxDay]
      /\ asked \in Nat /\ NSymbols \in Nat /\ MaxDay \in Nat
  BY SimAssumption DEF SimInv, SimTypes, SimTypeOK, SimDays
<1>2. bar' = [bar EXCEPT ![asked] = latestBar[asked]] /\ asked' = asked + 1
  BY DEF FetchRow
<1>3. bar' \in [Symbols -> 0 .. MaxDay] /\ asked' \in 1 .. NSymbols + 1
  BY <1>1, <1>2 DEF Symbols
<1>4. ASSUME NEW s \in Symbols
      PROVE  /\ s \in Nat /\ latestBar[s] \in Nat /\ bar[s] \in Nat /\ bar[s] <= latestBar[s]
             /\ bar'[s] = IF s = asked THEN latestBar[s] ELSE bar[s]
  BY <1>1, <1>2 DEF SimInv, BarOrder, Symbols
<1>5. \A s \in Symbols : bar'[s] <= latestBar'[s]
  BY <1>4
<1>6. ASSUME NEW s \in Symbols, NEW d \in SimDays, Finished(<<s, d>>)'
      PROVE  d <= latestBar'[s] /\ (loop = "fetch" /\ s < asked' => d <= bar'[s])
  <2>1. <<s, d>> \in Bars
    BY DEF Bars
  <2>2. Finished(<<s, d>>)
    BY <1>6, <2>1, CountsKept
  <2>3. d <= latestBar[s] /\ (loop = "fetch" /\ s < asked => d <= bar[s])
    BY <2>2 DEF SimInv, BarOrder
  <2>4. s < asked' => s = asked \/ s < asked
    BY <1>1, <1>2, <1>4
  <2> QED
    BY <2>3, <2>4, <1>4
<1> QED
  BY <1>3, <1>5, <1>6

\* The first row that is no longer the last date is not finished: its symbol
\* leads from before or with a later bar.
LEMMA LeaderIsNew ==
  ASSUME SimInv, loop = "drive", NEW s \in Symbols, Leads(s, bar)
  PROVE  /\ bar[s] \in SimDays /\ ~Finished(<<s, bar[s]>>)
         /\ \A t \in Symbols, d \in SimDays :
              Finished(<<t, d>>) => s < t \/ (s = t /\ d <= bar[s])
<1>1. /\ bar \in [Symbols -> 0 .. MaxDay] /\ lastBar \in 0 .. MaxDay /\ MaxDay \in Nat
      /\ asked = NSymbols + 1 /\ NSymbols \in Nat
  BY SimAssumption DEF SimInv, SimTypes, SimTypeOK, BarOrder
<1>2. bar[s] \in SimDays /\ bar[s] # lastBar
  BY <1>1 DEF Leads, SimInv, BarOrder, SimDays
<1>3. CASE lastBar = 0
  <2>1. \A b \in Bars : ~Finished(b)
    BY <1>3 DEF SimInv, LeadersDescend
  <2>2. \A t \in Symbols, d \in SimDays : ~Finished(<<t, d>>)
    BY <2>1 DEF Bars
  <2> QED
    BY <1>2, <2>2
<1>4. CASE lastBar # 0
  <2>1. PICK l \in Symbols : Newest(l)
    BY <1>4 DEF SimInv, LeadersDescend
  <2>2. lastBar \in SimDays /\ Finished(<<l, lastBar>>)
    BY <1>1, <1>4, <2>1 DEF Newest, SimDays
  <2>3. lastBar <= bar[l]
    <3>1. l < asked
      BY <1>1 DEF Symbols
    <3> QED
      BY <2>2, <3>1 DEF SimInv, BarOrder
  <2>4. /\ s \in Int /\ l \in Int /\ s >= 1 /\ l >= 1
        /\ \A x \in SimDays : x \in Int /\ x >= 1
        /\ \A t \in Symbols : t \in Int
    BY DEF Symbols, SimDays
  <2>5. s <= l
    <3>1. bar[l] # 0
      BY <1>1, <2>3, <2>2, <2>4
    <3>2. l \notin 1 .. s - 1
      BY <3>1 DEF Leads
    <3> QED
      BY <3>2, <2>4
  <2>6. s = l => lastBar < bar[s]
    BY <1>2, <2>2, <2>3, <2>4
  <2>7. ASSUME NEW t \in Symbols, NEW d \in SimDays, Finished(<<t, d>>)
        PROVE  s < t \/ (s = t /\ d < bar[s])
    <3>1. l < t \/ (l = t /\ d <= lastBar)
      BY <2>1, <2>7 DEF Newest
    <3>2. d \in Int /\ t \in Int /\ lastBar \in Int /\ bar[s] \in Int
      BY <1>2, <2>2, <2>4
    <3> QED
      BY <3>1, <3>2, <2>4, <2>5, <2>6
  <2>8. ~Finished(<<s, bar[s]>>)
    BY <1>2, <2>4, <2>7
  <2>9. ASSUME NEW t \in Symbols, NEW d \in SimDays, Finished(<<t, d>>)
        PROVE  s < t \/ (s = t /\ d <= bar[s])
    BY <1>2, <2>4, <2>7, <2>9
  <2> QED
    BY <1>2, <2>8, <2>9
<1> QED
  BY <1>3, <1>4

\* Every step of the loop, of the API calls and of the market keeps the counts
\* of the passes and the order of their dates.
LEMMA SimKept ==
  SimInv /\ SimNext => SimInv'
<1> SUFFICES ASSUME SimInv, SimNext PROVE SimInv'
  OBVIOUS
<1>a. MaxDay \in Nat \ {0} /\ MaxDrives \in Nat /\ NSymbols \in Nat \ {0}
  BY SimAssumption
<1>b. SimTypes /\ SimTypeOK /\ BarOrder /\ OneAfterStop
  BY DEF SimInv, SimTypes
<1>c. ASSUME UNCHANGED <<led, raised, firstBar, lastBar, latestBar, bar, asked>>,
             loop' \in {"initial", "drive"} => loop' = loop,
             loop' = "start" => loop = "start",
             loop' = "fetch" => loop = "fetch"
      PROVE  BarOrder'
  <2>1. \A b \in Bars : Finished(b)' <=> Finished(b)
    BY <1>c, CountsKept
  <2>2. \A s \in Symbols, d \in SimDays : <<s, d>> \in Bars
    BY DEF Bars
  <2>3. \A s \in Symbols : Leads(s, bar)' <=> Leads(s, bar)
    BY <1>c DEF Leads
  <2> QED
    BY <1>b, <1>c, <2>1, <2>2, <2>3 DEF BarOrder
<1>1. CASE FetchInitialBars
  <2>1. BarsCounted' /\ LeadersDescend'
    BY <1>1, FinishedKept DEF FetchInitialBars
  <2>2. OneAfterStop'
    BY <1>1, <1>b DEF OneAfterStop, FetchInitialBars
  <2>3. CASE loop' = "over" /\ UNCHANGED <<bar, asked>>
    <3>1. SimTypes'
      BY <1>1, <1>b, <2>3 DEF SimTypes, SimTypeOK, FetchInitialBars
    <3>2. BarOrder'
      BY <1>1, <1>c, <2>3 DEF FetchInitialBars
    <3> QED
      BY <2>1, <2>2, <3>1, <3>2 DEF SimInv
  <2>4. CASE /\ FetchRow
             /\ loop' = IF asked < NSymbols THEN "start"
                        ELSE IF bar' = NoBars THEN "sleep" ELSE "initial"
    <3>1. asked \in Symbols /\ loop = "start"
      BY <1>1, <1>b DEF BarOrder, FetchInitialBars
    <3>2. /\ bar' \in [Symbols -> 0 .. MaxDay] /\ asked' \in 1 .. NSymbols + 1
          /\ \A s \in Symbols : bar'[s] <= latestBar'[s]
          /\ \A s \in Symbols, d \in SimDays :
               Finished(<<s, d>>)' => d <= latestBar'[s]
      BY <1>1, <2>4, <3>1, RowKept DEF FetchInitialBars
    <3>3. SimTypes'
      BY <1>1, <1>b, <2>4, <3>2 DEF SimTypes, SimTypeOK, FetchInitialBars
    <3>4. loop' = "start" => asked' \in Symbols
      BY <1>a, <2>4, <3>1 DEF FetchRow, Symbols
    <3>5. BarOrder'
      BY <1>1, <1>b, <2>4, <3>1, <3>2, <3>4 DEF BarOrder, FetchInitialBars
    <3> QED
      BY <2>1, <2>2, <3>3, <3>5 DEF SimInv
  <2> QED
    BY <1>1, <2>3, <2>4 DEF FetchInitialBars
<1>2. CASE InitialCycle
  <2>1. PICK s \in Symbols : OnBars(s) /\ firstBar' = <<s, bar[s]>>
    BY <1>2 DEF InitialCycle
  <2>2. /\ loop = "initial" /\ lastBar = 0 /\ firstBar = <<0, 0>> /\ \A b \in Bars : led[b] = 0
        /\ afterStop = 0
    BY <1>2, <1>b DEF InitialCycle, BarOrder, SimTypes, OneAfterStop
  <2>3. bar[s] \in SimDays /\ <<s, bar[s]>> \in Bars
    BY <1>a, <1>b, <2>1 DEF OnBars, Leads, SimTypeOK, SimDays, Bars
  <2>4. ASSUME NEW b \in Bars
        PROVE  led[b] = 0 /\ raised[b] = 0 /\ b # <<0, 0>>
    <3>1. b # <<0, 0>>
      BY DEF Bars, Symbols
    <3>2. led[b] = 0 /\ Initial(b) = 0
      BY <2>2, <3>1 DEF Initial
    <3>3. raised[b] \in Nat
      BY <1>b DEF SimTypes
    <3> QED
      BY <3>1, <3>2, <3>3 DEF SimInv, BarsCounted
  <2>5. raised' = raised /\ led' = [led EXCEPT ![<<s, bar[s]>>] = @ + 1]
    BY <1>2, <2>1 DEF InitialCycle, OnBars
  <2>6. ASSUME NEW b \in Bars
        PROVE  led'[b] = Initial(b)' /\ raised'[b] = 0
    BY <1>b, <2>1, <2>3, <2>4, <2>5 DEF Initial, SimTypes
  <2>7. ASSUME NEW b \in Bars PROVE ~Finished(b)'
    <3>1. Initial(b)' \in Nat
      BY DEF Initial
    <3> QED
      BY <2>6, <3>1 DEF Finished
  <2>8. SimTypes'
    <3>1. led' \in [Bars -> Nat]
      BY <1>b, <2>3, <2>5, OneMore DEF SimTypes
    <3>2. SimTypeOK'
      BY <1>2, <1>b DEF InitialCycle, SimTypeOK
    <3>3. afterStop' \in Nat /\ firstBar' \in Bars
      BY <2>1, <2>2, <2>3 DEF OnBars
    <3> QED
      BY <1>b, <2>5, <3>1, <3>2, <3>3 DEF SimTypes
  <2>9. BarsCounted'
    <3>1. \A b \in Bars : Initial(b)' \in Nat
      BY DEF Initial
    <3> QED
      BY <2>6, <3>1 DEF BarsCounted
  <2>10. BarOrder'
    <3>1. \A t \in Symbols, d \in SimDays : ~Finished(<<t, d>>)'
      BY <2>7 DEF Bars
    <3>2. loop' \in {"sleep", "over"} /\ bar' = bar /\ latestBar' = latestBar
      BY <1>2 DEF InitialCycle
    <3> QED
      BY <1>b, <3>1, <3>2 DEF BarOrder
  <2>11. LeadersDescend'
    BY <1>2, <2>2, <2>7 DEF InitialCycle, LeadersDescend
  <2>12. OneAfterStop'
    BY <1>2, <2>1, <2>2 DEF InitialCycle, OnBars, OneAfterStop
  <2> QED
    BY <2>8, <2>9, <2>10, <2>11, <2>12 DEF SimInv
<1>3. CASE WakeUp
  <2>1. BarsCounted' /\ LeadersDescend'
    BY <1>3, FinishedKept DEF WakeUp
  <2>2. NoBars \in [Symbols -> 0 .. MaxDay] /\ \A s \in Symbols : NoBars[s] = 0
    BY <1>a DEF NoBars
  <2>3. SimTypes'
    BY <1>3, <1>a, <1>b, <2>2 DEF WakeUp, SimTypes, SimTypeOK
  <2>4. BarOrder'
    <3>1. \A s \in Symbols, d \in SimDays : Finished(<<s, d>>)' <=> Finished(<<s, d>>)
      BY <1>3, CountsKept DEF WakeUp, Bars
    <3>2. latestBar \in [Symbols -> Nat] /\ 1 \in Symbols /\ \A s \in Symbols : ~(s < 1)
      BY <1>a, <1>b DEF SimTypeOK, Symbols
    <3> QED
      BY <1>3, <1>b, <2>2, <3>1, <3>2 DEF WakeUp, BarOrder
  <2>5. OneAfterStop'
    BY <1>3, <1>b DEF WakeUp, KeepsRunning, OneAfterStop
  <2> QED
    BY <2>1, <2>3, <2>4, <2>5 DEF SimInv
<1>4. CASE FetchBars
  <2>1. BarsCounted' /\ LeadersDescend'
    BY <1>4, FinishedKept DEF FetchBars
  <2>2. OneAfterStop'
    BY <1>4, <1>b DEF OneAfterStop, FetchBars
  <2>3. CASE loop' = "sleep" /\ UNCHANGED <<bar, asked>>
    <3>1. SimTypes'
      BY <1>4, <1>b, <2>3 DEF SimTypes, SimTypeOK, FetchBars
    <3>2. BarOrder'
      BY <1>4, <1>c, <2>3 DEF FetchBars
    <3> QED
      BY <2>1, <2>2, <3>1, <3>2 DEF SimInv
  <2>4. CASE /\ FetchRow
             /\ loop' = IF asked < NSymbols THEN "fetch"
                        ELSE IF \E s \in Symbols : Leads(s, bar') /\ bar'[s] # lastBar THEN "drive"
                        ELSE "sleep"
    <3>1. asked \in Symbols /\ loop = "fetch"
      BY <1>4, <1>b DEF BarOrder, FetchBars
    <3>2. /\ bar' \in [Symbols -> 0 .. MaxDay] /\ asked' \in 1 .. NSymbols + 1
          /\ \A s \in Symbols : bar'[s] <= latestBar'[s]
          /\ \A s \in Symbols, d \in SimDays :
               Finished(<<s, d>>)' => d <= latestBar'[s] /\ (s < asked' => d <= bar'[s])
      BY <1>4, <2>4, <3>1, RowKept DEF FetchBars
    <3>3. SimTypes'
      BY <1>4, <1>b, <2>4, <3>2 DEF SimTypes, SimTypeOK, FetchBars
    <3>4. loop' = "fetch" => asked' \in Symbols
      BY <1>a, <2>4, <3>1 DEF FetchRow, Symbols
    <3>5. loop' = "drive" =>
            asked' = NSymbols + 1 /\ \A s \in Symbols : Leads(s, bar)' => bar'[s] # lastBar'
      <4> SUFFICES ASSUME loop' = "drive"
                   PROVE  asked' = NSymbols + 1 /\ \A s \in Symbols : Leads(s, bar)' => bar'[s] # lastBar'
        OBVIOUS
      <4>1. asked = NSymbols /\ asked' = asked + 1
        BY <1>a, <2>4, <3>1 DEF FetchRow, Symbols
      <4>2. PICK l \in Symbols : Leads(l, bar') /\ bar'[l] # lastBar
        BY <2>4, <4>1
      <4>3. ASSUME NEW s \in Symbols, Leads(s, bar)' PROVE bar'[s] # lastBar'
        <5>1. Leads(s, bar')
          BY <4>3 DEF Leads
        <5>2. bar' \in [Symbols -> Nat]
          BY <3>2, <1>a
        <5>3. s = l
          BY <1>a, <4>2, <5>1, <5>2, OneLeader
        <5> QED
          BY <1>4, <4>2, <5>3 DEF FetchBars
      <4> QED
        BY <1>a, <4>1, <4>3
    <3>6. loop' \notin {"start", "initial"} /\ lastBar' = lastBar
      BY <1>4, <2>4 DEF FetchBars
    <3>7. BarOrder'
      BY <3>2, <3>4, <3>5, <3>6 DEF BarOrder
    <3> QED
      BY <2>1, <2>2, <3>3, <3>7 DEF SimInv
  <2> QED
    BY <1>4, <2>3, <2>4 DEF FetchBars
<1>5. CASE DriveBar
  <2>1. PICK s \in Symbols :
          /\ OnBars(s)
          /\ \/ BarDone(s) /\ loop' = "persist" /\ UNCHANGED raised
             \/ /\ raised' = [raised EXCEPT ![<<s, bar[s]>>] = @ + 1]
                /\ loop' = "sleep" /\ UNCHANGED lastBar
    BY <1>5 DEF DriveBar
  <2>2a. <<s, bar[s]>> \in Bars
    BY <1>5, <2>1, LeaderIsNew DEF DriveBar, OnBars, Bars
  <2>2b. PICK B \in Bars : B = <<s, bar[s]>>
    BY <2>2a
  <2>2. /\ bar[s] \in SimDays /\ ~Finished(B)
        /\ \A t \in Symbols, d \in SimDays :
             Finished(<<t, d>>) => s < t \/ (s = t /\ d <= bar[s])
    BY <1>5, <2>1, <2>2b, LeaderIsNew DEF DriveBar, OnBars
  <2>3. led' = [led EXCEPT ![B] = @ + 1] /\ afterStop = 0
    <3>1. loop = "drive"
      BY <1>5 DEF DriveBar
    <3>2. afterStop = 0
      BY <1>b, <3>1 DEF SimTypes, OneAfterStop
    <3>3. led' = [led EXCEPT ![B] = @ + 1]
      BY <2>1, <2>2b DEF OnBars
    <3> QED
      BY <3>2, <3>3
  <2>4. led \in [Bars -> Nat] /\ raised \in [Bars -> Nat] /\ \A b \in Bars : Initial(b) \in Nat
    BY <1>b DEF SimTypes, Initial
  <2>5. \A b \in Bars : Initial(b)' = Initial(b) /\ (b # B => led'[b] = led[b] /\ raised'[b] = raised[b])
    <3>1. firstBar' = firstBar
      BY <1>5 DEF DriveBar
    <3>2. raised' = raised \/ raised' = [raised EXCEPT ![B] = @ + 1]
      BY <2>1, <2>2b
    <3> QED
      BY <2>3, <2>4, <3>1, <3>2 DEF Initial
  <2>6. led[B] = Initial(B) + raised[B] /\ led'[B] = led[B] + 1
    BY <2>2, <2>3, <2>4 DEF Finished
  <2>7. ASSUME NEW b \in Bars, b # B PROVE Finished(b)' <=> Finished(b)
    BY <2>5, <2>7 DEF Finished
  <2>8. \A t \in Symbols, d \in SimDays : <<t, d>> \in Bars
    BY DEF Bars
  <2>9. OneAfterStop'
    <3>1. loop' \in {"persist", "sleep"} /\ simStatus' = simStatus
      BY <1>5, <2>1 DEF DriveBar
    <3>2. afterStop' = IF simStatus = "running" THEN 0 ELSE 1
      BY <2>1, <2>3 DEF OnBars
    <3> QED
      BY <3>1, <3>2 DEF OneAfterStop
  <2>10. led' \in [Bars -> Nat] /\ afterStop' \in Nat
    <3>1. led' \in [Bars -> Nat]
      BY <2>3, <2>4, OneMore
    <3>2. afterStop' \in Nat
      BY <2>1, <2>3 DEF OnBars
    <3> QED
      BY <3>1, <3>2
  <2>11. /\ \A t \in Symbols : bar'[t] <= latestBar'[t]
         /\ loop' \in {"persist", "sleep"}
         /\ \A t \in Symbols, d \in SimDays : Finished(<<t, d>>) => d <= latestBar'[t]
    BY <1>5, <1>b, <2>1 DEF DriveBar, BarOrder
  <2>12. CASE BarDone(s) /\ UNCHANGED raised
    <3>1. lastBar' = bar[s] /\ raised' = raised /\ bar' = bar
      BY <1>5, <2>12 DEF BarDone, DriveBar
    <3>2. Finished(B)' /\ led'[B] = 1 + Initial(B)' + raised'[B]
      BY <2>3, <2>4, <2>5, <2>6, <3>1 DEF Finished
    <3>3. SimTypes'
      <4>1. SimTypeOK'
        BY <1>5, <1>a, <1>b, <2>2, <2>11, <3>1 DEF DriveBar, SimTypeOK, SimDays
      <4> QED
        BY <1>5, <1>b, <2>4, <2>10, <3>1, <4>1 DEF DriveBar, SimTypes
    <3>4. BarsCounted'
      BY <2>5, <3>2 DEF SimInv, BarsCounted
    <3>5. ASSUME NEW t \in Symbols, NEW d \in SimDays, Finished(<<t, d>>)'
          PROVE  d <= latestBar'[t] /\ (s < t \/ (s = t /\ d <= bar[s]))
      <4>1. CASE <<t, d>> = B
        <5>1. t = s /\ d = bar[s]
          BY <2>2b, <4>1
        <5>2. bar[s] <= latestBar'[s] /\ bar[s] <= bar[s]
          BY <2>2, <2>11, <3>1 DEF SimDays
        <5> QED
          BY <5>1, <5>2
      <4>2. CASE <<t, d>> # B
        <5>1. Finished(<<t, d>>)
          BY <2>7, <2>8, <3>5, <4>2
        <5> QED
          BY <2>2, <2>11, <5>1
      <4> QED
        BY <4>1, <4>2
    <3>6. BarOrder'
      BY <2>11, <3>5 DEF BarOrder
    <3>7. LeadersDescend'
      <4>1. Newest(s)'
        BY <2>2b, <3>1, <3>2, <3>5 DEF Newest
      <4>2. lastBar' # 0
        BY <2>2, <3>1 DEF SimDays
      <4> QED
        BY <4>1, <4>2 DEF LeadersDescend
    <3> QED
      BY <2>9, <3>3, <3>4, <3>6, <3>7 DEF SimInv
  <2>13. CASE raised' = [raised EXCEPT ![B] = @ + 1] /\ UNCHANGED lastBar
    <3>1. raised'[B] = raised[B] + 1 /\ raised' \in [Bars -> Nat]
      <4>1. raised' \in [Bars -> Nat]
        BY <2>3, <2>4, <2>13, OneMore
      <4> QED
        BY <2>3, <2>4, <2>13, <4>1
    <3>2. ~Finished(B)' /\ led'[B] = Initial(B)' + raised'[B]
      BY <2>3, <2>4, <2>5, <2>6, <3>1 DEF Finished
    <3>3. SimTypes'
      <4>1. SimTypeOK'
        BY <1>5, <1>b, <2>11, <2>13 DEF DriveBar, SimTypeOK
      <4> QED
        BY <1>5, <1>b, <2>10, <3>1, <4>1 DEF DriveBar, SimTypes
    <3>4. BarsCounted'
      BY <2>5, <3>2 DEF SimInv, BarsCounted
    <3>5. \A b \in Bars : Finished(b)' <=> Finished(b)
      BY <2>2, <2>7, <3>2
    <3>6. BarOrder'
      BY <2>8, <2>11, <3>5 DEF BarOrder
    <3>7. LeadersDescend'
      <4>1. CASE lastBar = 0
        BY <2>13, <3>5, <4>1 DEF SimInv, LeadersDescend
      <4>2. CASE lastBar # 0
        <5>1. lastBar \in SimDays
          BY <1>a, <1>b, <4>2 DEF SimTypeOK, SimDays
        <5>2. PICK l \in Symbols : Newest(l)
          BY <4>2 DEF SimInv, LeadersDescend
        <5>3. Newest(l)'
          BY <2>8, <2>13, <3>5, <5>1, <5>2 DEF Newest
        <5> QED
          BY <2>13, <4>2, <5>3 DEF LeadersDescend
      <4> QED
        BY <4>1, <4>2
    <3> QED
      BY <2>9, <3>3, <3>4, <3>6, <3>7 DEF SimInv
  <2> QED
    BY <2>1, <2>2b, <2>12, <2>13
<1>6. CASE PersistState
  <2>1. BarsCounted' /\ LeadersDescend'
    BY <1>6, FinishedKept DEF PersistState
  <2>2. SimTypes' /\ OneAfterStop'
    BY <1>6, <1>b DEF PersistState, SimTypes, SimTypeOK, OneAfterStop
  <2>3. BarOrder'
    BY <1>6, <1>c DEF PersistState
  <2> QED
    BY <2>1, <2>2, <2>3 DEF SimInv
<1>7. CASE PauseSimulation
  <2>1. BarsCounted' /\ LeadersDescend'
    BY <1>7, FinishedKept DEF PauseSimulation
  <2>2. SimTypes' /\ OneAfterStop'
    BY <1>7, <1>b DEF PauseSimulation, SimTypes, SimTypeOK, OneAfterStop
  <2>3. BarOrder'
    BY <1>7, <1>c DEF PauseSimulation
  <2> QED
    BY <2>1, <2>2, <2>3 DEF SimInv
<1>8. CASE StopSimulation
  <2>1. BarsCounted' /\ LeadersDescend'
    BY <1>8, FinishedKept DEF StopSimulation
  <2>2. SimTypes' /\ OneAfterStop'
    BY <1>8, <1>b DEF StopSimulation, SimTypes, SimTypeOK, OneAfterStop
  <2>3. BarOrder'
    BY <1>8, <1>c DEF StopSimulation
  <2> QED
    BY <2>1, <2>2, <2>3 DEF SimInv
<1>9. CASE RemoveSimulation
  <2>1. BarsCounted' /\ LeadersDescend'
    BY <1>9, FinishedKept DEF RemoveSimulation
  <2>2. SimTypes' /\ OneAfterStop'
    BY <1>9, <1>b DEF RemoveSimulation, SimTypes, SimTypeOK, OneAfterStop
  <2>3. BarOrder'
    BY <1>9, <1>c DEF RemoveSimulation
  <2> QED
    BY <2>1, <2>2, <2>3 DEF SimInv
<1>10. CASE NewDay
  <2>1. BarsCounted' /\ LeadersDescend'
    BY <1>10, FinishedKept DEF NewDay
  <2>2. SimTypes' /\ OneAfterStop'
    <3>1. simDay' \in SimDays /\ simDay \in Nat /\ simDay' = simDay + 1
      BY <1>10, <1>a, <1>b DEF NewDay, SimTypeOK, SimDays
    <3>2. latestBar' \in [Symbols -> 0 .. simDay']
      <4>1. latestBar' = latestBar /\ latestBar \in [Symbols -> 0 .. simDay]
        BY <1>10, <1>b DEF NewDay, SimTypeOK
      <4> QED
        BY <3>1, <4>1
    <3> QED
      BY <1>10, <1>b, <3>1, <3>2 DEF NewDay, SimTypes, SimTypeOK, OneAfterStop
  <2>3. BarOrder'
    BY <1>10, <1>c DEF NewDay
  <2> QED
    BY <2>1, <2>2, <2>3 DEF SimInv
<1>11. CASE NewBar
  <2>1. BarsCounted' /\ LeadersDescend'
    BY <1>11, FinishedKept DEF NewBar
  <2>2. /\ latestBar' \in [Symbols -> 0 .. simDay]
        /\ \A s \in Symbols : latestBar[s] <= latestBar'[s]
    <3>1. PICK s \in Symbols : \E d \in latestBar[s] + 1 .. simDay :
                                  latestBar' = [latestBar EXCEPT ![s] = d]
      BY <1>11 DEF NewBar
    <3>2. PICK d \in latestBar[s] + 1 .. simDay : latestBar' = [latestBar EXCEPT ![s] = d]
      BY <3>1
    <3>3. latestBar \in [Symbols -> 0 .. simDay] /\ simDay \in Nat
      BY <1>a, <1>b DEF SimTypeOK, SimDays
    <3>4. d \in 0 .. simDay /\ latestBar[s] <= d
      BY <3>2, <3>3
    <3> QED
      BY <3>2, <3>3, <3>4
  <2>3. SimTypes' /\ OneAfterStop'
    BY <1>11, <1>b, <2>2 DEF NewBar, SimTypes, SimTypeOK, OneAfterStop
  <2>4. BarOrder'
    <3>1. \A b \in Bars : Finished(b)' <=> Finished(b)
      BY <1>11, CountsKept DEF NewBar
    <3>2. ASSUME NEW s \in Symbols PROVE Leads(s, bar)' <=> Leads(s, bar)
      BY <1>11 DEF NewBar, Leads
    <3>3. ASSUME NEW s \in Symbols
          PROVE  bar'[s] <= latestBar'[s] /\ \A d \in SimDays : d <= latestBar[s] => d <= latestBar'[s]
      <4>1. latestBar[s] \in Int /\ latestBar'[s] \in Int /\ bar[s] \in Int /\ bar' = bar
        BY <1>11, <1>a, <1>b, <2>2 DEF NewBar, SimTypeOK, SimDays
      <4> QED
        BY <1>b, <2>2, <4>1 DEF BarOrder, SimDays
    <3>4. /\ loop' = loop /\ asked' = asked /\ lastBar' = lastBar /\ bar' = bar
          /\ firstBar' = firstBar /\ led' = led
      BY <1>11 DEF NewBar
    <3>5. \A s \in Symbols, d \in SimDays :
            Finished(<<s, d>>)' =>
              d <= latestBar'[s] /\ (loop \in {"fetch", "drive"} /\ s < asked => d <= bar[s])
      BY <1>b, <3>1, <3>3 DEF BarOrder, Bars
    <3> QED
      BY <1>b, <3>2, <3>3, <3>4, <3>5 DEF BarOrder
  <2> QED
    BY <2>1, <2>3, <2>4 DEF SimInv
<1> QED
  BY <1>1, <1>2, <1>3, <1>4, <1>5, <1>6, <1>7, <1>8, <1>9, <1>10, <1>11 DEF SimNext

\* The two promises of the simulation follow from its invariant.
LEMMA SimSafe ==
  SimInv => BarRepeatsAreKnown /\ StopLeavesOneBar
<1> SUFFICES ASSUME SimInv PROVE BarRepeatsAreKnown /\ StopLeavesOneBar
  OBVIOUS
<1>1. ASSUME NEW b \in Bars
      PROVE  led[b] <= 1 + (IF firstBar = b THEN 1 ELSE 0) + raised[b]
  <2>1. led[b] \in Nat /\ raised[b] \in Nat
    BY DEF SimInv, SimTypes
  <2> QED
    BY <2>1 DEF SimInv, BarsCounted, Initial
<1> QED
  BY <1>1 DEF BarRepeatsAreKnown, StopLeavesOneBar, SimInv, OneAfterStop

-----------------------------------------------------------------------------
\* Price history

Known(p) == saved[p] \cup excused[p]

NoHiddenGap == \A p \in Periods : \A e \in saved[p] : 1 .. e \subseteq Known(p)

AscendingWrites == \A d \in job.pending : 1 .. d \subseteq Known(job.period) \cup job.pending

HistoryInv ==
  /\ HistoryTypeOK
  /\ job # NoJob => job.period \in Periods
  /\ NoHiddenGap
  /\ AscendingWrites

\* A non-empty set of days has a greatest element: the CHOOSE of Latest.
LEMMA LatestIsMax ==
  ASSUME NEW S \in SUBSET Days, S # {}
  PROVE  Latest(S) \in S /\ \A e \in S : e <= Latest(S)
<1>0. LastDay \in Nat
  BY HistoryAssumption
<1> DEFINE T == {LastDay - d : d \in S}
<1>1. T \subseteq Nat /\ T # {}
  <2>1. ASSUME NEW d \in S PROVE LastDay - d \in Nat
    BY <1>0 DEF Days
  <2> QED
    BY <2>1
<1>2. PICK m \in T : \A x \in T : ~(<<x, m>> \in OpToRel(<, Nat))
  BY <1>1, NatLessThanWellFounded, WFMin
<1>3. PICK d \in S : m = LastDay - d
  OBVIOUS
<1>4. ASSUME NEW e \in S PROVE e <= d
  <2>1. LastDay - e \in T
    OBVIOUS
  <2>2. ~(LastDay - e < m)
    BY <1>1, <1>2, <2>1 DEF OpToRel
  <2> QED
    BY <1>0, <1>3, <2>2 DEF Days
<1> QED
  BY <1>4 DEF Latest

\* The latest of any set of days is a day of it, or 0 when it is empty.
LEMMA LatestType ==
  ASSUME NEW S \in SUBSET Days
  PROVE  Latest(S) \in 0 .. LastDay /\ \A e \in S : e <= Latest(S)
<1>1. LastDay \in Nat
  BY HistoryAssumption
<1>2. CASE S = {}
  BY <1>1, <1>2 DEF Latest
<1>3. CASE S # {}
  <2>1. Latest(S) \in S /\ \A e \in S : e <= Latest(S)
    BY <1>3, LatestIsMax
  <2>2. Latest(S) \in Days
    BY <2>1
  <2> QED
    BY <1>1, <2>1, <2>2 DEF Days
<1> QED
  BY <1>2, <1>3

\* get_latest_date over all periods is a day, or 0.
LEMMA GetLatestType ==
  ASSUME HistoryTypeOK
  PROVE  GetLatestDate \in 0 .. LastDay
BY LatestType DEF HistoryTypeOK, GetLatestDate

\* The rows of a batch precede the rows that stay pending.
LEMMA BatchIsFirst ==
  ASSUME job.pending \subseteq Days, NEW d \in NextBatch, NEW c \in job.pending, c <= d
  PROVE  c \in NextBatch
<1> DEFINE A == {e \in job.pending : e < c}
           B == {e \in job.pending : e < d}
<1>1. IsFiniteSet(Days)
  BY HistoryAssumption, FS_Interval DEF Days
<1>2. IsFiniteSet(B)
  BY <1>1, FS_Subset
<1>3. A \subseteq B
  BY DEF NextBatch, Days
<1>4. Cardinality(A) <= Cardinality(B)
  BY <1>2, <1>3, FS_Subset
<1>5. Cardinality(A) \in Nat /\ Cardinality(B) \in Nat
  BY <1>2, <1>3, FS_Subset, FS_CardinalityType
<1>6. Cardinality(B) < BatchSize
  BY DEF NextBatch
<1> QED
  BY <1>4, <1>5, <1>6, HistoryAssumption DEF NextBatch

\* Nothing is stored and no run is under way.
LEMMA HistoryInitially ==
  HistoryInit => HistoryInv
BY HistoryAssumption
DEF HistoryInit, HistoryInv, HistoryTypeOK, NoHiddenGap, AscendingWrites, NoJob, Days, Known

\* A run begins on days that leave no unexplained gap below them.
LEMMA RunStarts ==
  ASSUME HistoryInv, NEW p \in Periods, NEW start \in 1 .. LastDay + 1, StartRun(p, start),
         NEW skipped \in SUBSET Days, excused' = [excused EXCEPT ![p] = @ \cup skipped],
         1 .. start - 1 \subseteq Known(p) \cup skipped
  PROVE  HistoryInv'
<1>1. /\ today \in Days /\ LastDay \in Nat /\ job' = [period |-> p, pending |-> start .. today]
      /\ today' = today /\ saved' = saved
  BY HistoryAssumption DEF HistoryInv, HistoryTypeOK, StartRun
<1>2. HistoryTypeOK'
  <2>1. start .. today \subseteq Days
    BY <1>1 DEF Days
  <2> QED
    BY <1>1, <2>1 DEF HistoryInv, HistoryTypeOK
<1>3. \A q \in Periods : Known(q) \subseteq Known(q)'
  BY <1>1 DEF Known, HistoryInv, HistoryTypeOK
<1>4. NoHiddenGap'
  BY <1>1, <1>3 DEF NoHiddenGap, HistoryInv
<1>5. Known(p)' = Known(p) \cup skipped
  BY <1>1 DEF Known, HistoryInv, HistoryTypeOK
<1>6. AscendingWrites'
  BY <1>1, <1>5 DEF AscendingWrites, Days
<1> QED
  BY <1>1, <1>2, <1>4, <1>6 DEF HistoryInv

\* Every run, batch, death and new day keeps the gaps explained.
LEMMA HistoryKept ==
  HistoryInv /\ HistoryNext => HistoryInv'
<1> SUFFICES ASSUME HistoryInv, HistoryNext PROVE HistoryInv'
  OBVIOUS
<1>t. HistoryTypeOK /\ LastDay \in Nat \ {0} /\ Lookback \in Nat
  BY HistoryAssumption DEF HistoryInv
<1>1. ASSUME NEW p \in Periods, IncrementalSync(p) PROVE HistoryInv'
  <2>1. PICK start \in LastSyncDates :
          /\ StartRun(p, start)
          /\ excused' = IF start = 1 THEN excused
                        ELSE [excused EXCEPT ![p] = @ \cup (Latest(saved[p]) + 1 .. GetLatestDate)]
    BY <1>1 DEF IncrementalSync
  <2>2. GetLatestDate \in 0 .. LastDay
    BY <1>t, GetLatestType
  <2>3. start \in 1 .. LastDay + 1
    BY <1>t, <2>2 DEF LastSyncDates
  <2>4. saved[p] \in SUBSET Days
    BY <1>t DEF HistoryTypeOK
  <2>5. CASE start = 1
    <3>1. excused' = [excused EXCEPT ![p] = @ \cup {}]
      BY <1>t, <2>1, <2>5 DEF HistoryTypeOK
    <3>2. 1 .. start - 1 \subseteq Known(p) \cup {}
      BY <2>5
    <3>3. {} \in SUBSET Days
      OBVIOUS
    <3> QED
      BY <2>1, <2>3, <3>1, <3>2, <3>3, RunStarts
  <2>6. CASE start # 1
    <3> DEFINE skipped == Latest(saved[p]) + 1 .. GetLatestDate
    <3>1. Latest(saved[p]) \in 0 .. LastDay
      BY <2>4, LatestType
    <3>2. skipped \in SUBSET Days
      BY <1>t, <2>2, <3>1 DEF Days
    <3>3. start = GetLatestDate + 1
      BY <2>6 DEF LastSyncDates
    <3>4. 1 .. Latest(saved[p]) \subseteq Known(p)
      <4>1. CASE saved[p] = {}
        BY <4>1 DEF Latest
      <4>2. CASE saved[p] # {}
        BY <2>4, <4>2, LatestIsMax DEF HistoryInv, NoHiddenGap
      <4> QED
        BY <4>1, <4>2
    <3>5. 1 .. start - 1 \subseteq Known(p) \cup skipped
      BY <2>2, <3>1, <3>3, <3>4
    <3> QED
      BY <2>1, <2>3, <2>6, <3>2, <3>5, RunStarts
  <2> QED
    BY <2>5, <2>6
<1>2. ASSUME NEW p \in Periods, RangeSync(p) PROVE HistoryInv'
  <2>1. LookbackDate \in 1 .. today /\ today \in 1 .. LastDay
    BY <1>t DEF LookbackDate, HistoryTypeOK, Days
  <2>2. LookbackDate \in 1 .. LastDay + 1 /\ 1 .. LookbackDate - 1 \in SUBSET Days
    BY <1>t, <2>1 DEF Days
  <2> QED
    BY <1>2, <2>2, RunStarts DEF RangeSync
<1>3. CASE WriteBatch
  <2>1. PICK ok \in SUBSET NextBatch :
          /\ saved' = [saved EXCEPT ![job.period] = @ \cup ok]
          /\ excused' = [excused EXCEPT ![job.period] = @ \cup (NextBatch \ ok)]
    BY <1>3 DEF WriteBatch
  <2>p. PICK p \in Periods : p = job.period
    BY <1>3 DEF WriteBatch, HistoryInv
  <2>2. p \in Periods /\ job.pending \subseteq Days /\ NextBatch \subseteq job.pending
    BY <1>3, <1>t DEF WriteBatch, HistoryInv, HistoryTypeOK, NextBatch
  <2>3. HistoryTypeOK'
    <3>1. job' \in [period : Periods \cup {"none"}, pending : SUBSET Days]
      BY <1>3, <1>t, <2>2 DEF WriteBatch, HistoryTypeOK, NoJob
    <3>2. /\ saved[p] \cup ok \in SUBSET Days
          /\ excused[p] \cup (NextBatch \ ok) \in SUBSET Days
      BY <1>t, <2>2 DEF HistoryTypeOK
    <3> QED
      BY <1>3, <1>t, <2>1, <2>2, <2>p, <3>1, <3>2 DEF WriteBatch, HistoryTypeOK
  <2>4. /\ Known(p)' = Known(p) \cup NextBatch
        /\ saved[p]' = saved[p] \cup ok
        /\ \A q \in Periods : q # p => Known(q)' = Known(q) /\ saved[q]' = saved[q]
    <3>1. /\ saved' = [saved EXCEPT ![p] = @ \cup ok]
          /\ excused' = [excused EXCEPT ![p] = @ \cup (NextBatch \ ok)]
      BY <2>1, <2>p
    <3> QED
      BY <1>t, <3>1 DEF Known, HistoryTypeOK
  <2>5. ASSUME NEW d \in NextBatch
        PROVE  1 .. d \subseteq Known(p) \cup NextBatch
    <3> SUFFICES ASSUME NEW c \in 1 .. d, c \in job.pending PROVE c \in NextBatch
      BY <2>2, <2>p DEF HistoryInv, AscendingWrites
    <3>1. c <= d
      BY <2>2 DEF Days
    <3> QED
      BY <2>2, <3>1, BatchIsFirst
  <2>6. NoHiddenGap'
    BY <2>4, <2>5 DEF HistoryInv, NoHiddenGap
  <2>7. (job # NoJob => job.period \in Periods)' /\ AscendingWrites'
    <3>1. CASE job.pending = NextBatch
      BY <1>3, <3>1 DEF WriteBatch, NoJob, AscendingWrites
    <3>2. CASE job.pending # NextBatch
      <4>1. job' = [job EXCEPT !.pending = @ \ NextBatch]
        BY <1>3, <3>2 DEF WriteBatch
      <4>2. job'.period = p /\ job'.pending = job.pending \ NextBatch
        BY <1>t, <2>p, <4>1 DEF HistoryTypeOK
      <4>3. Known(job.period)' = Known(p)'
        BY <4>2 DEF Known
      <4> QED
        BY <2>2, <2>4, <2>p, <4>2, <4>3 DEF HistoryInv, AscendingWrites
    <3> QED
      BY <3>1, <3>2
  <2> QED
    BY <2>3, <2>6, <2>7 DEF HistoryInv
<1>4. CASE RunDies
  BY <1>4 DEF RunDies, HistoryInv, HistoryTypeOK, NoHiddenGap, AscendingWrites, NoJob, Known
<1>5. CASE NextDay
  BY <1>5, <1>t DEF NextDay, HistoryInv, HistoryTypeOK, NoHiddenGap, AscendingWrites, NoJob, Known, Days
<1> QED
  BY <1>1, <1>2, <1>3, <1>4, <1>5 DEF HistoryNext

\* No unexplained gap up to any stored day, so none up to the latest.
LEMMA HistorySafe ==
  HistoryInv => GapsAreKnown
<1> SUFFICES ASSUME HistoryInv, NEW p \in Periods
             PROVE  1 .. Latest(saved[p]) \subseteq Known(p)
  BY DEF GapsAreKnown, Known
<1>1. saved[p] \in SUBSET Days
  BY DEF HistoryInv, HistoryTypeOK
<1>2. CASE saved[p] = {}
  BY <1>2 DEF Latest
<1>3. CASE saved[p] # {}
  BY <1>1, <1>3, LatestIsMax DEF HistoryInv, NoHiddenGap
<1> QED
  BY <1>2, <1>3

-----------------------------------------------------------------------------
\* Stock list

ActiveOf(i) == {c \in Syncs : Active(c) /\ sync[c].inst = i}
ForcedOf(i) == {c \in Syncs : sync[c].force /\ sync[c].inst = i}
Called == {c \in Syncs : sync[c].pc # "uncalled"}
Writing(c) == sync[c].pc \in {"fetch", "settle"}

SyncPcs == {"uncalled", "skipped", "announce", "fetch", "settle", "clear", "done"}
Call == [pc : SyncPcs, inst : Instances \cup {"none"}, force : BOOLEAN,
         verdict : Verdicts \cup {"none"}]

CallOK(s) ==
  /\ s.pc = "uncalled" => ~s.force
  /\ s.pc # "uncalled" => s.inst \in Instances
  /\ s.pc = "settle" => s.verdict \in Verdicts

CallsOK ==
  /\ sync \in [Syncs -> Call]
  /\ \A c \in Syncs : CallOK(sync[c])

FlagCounts ==
  \A i \in Instances :
    Cardinality(ActiveOf(i)) <= Cardinality(ForcedOf(i)) + (IF flag[i] THEN 1 ELSE 0)

RunningIsReal ==
  /\ doc = "running" => lostWrite \/ \E c \in Syncs : Writing(c)
  /\ \A i \in Instances :
       last[i] = "running" => lostWrite \/ \E c \in Syncs : Writing(c) /\ sync[c].inst = i

FlagIsReal ==
  \A i \in Instances :
    flag[i] => i \in stuck \/ \E c \in Syncs : Active(c) /\ sync[c].inst = i

SyncInv ==
  /\ SyncTypeOK /\ lostWrite \in BOOLEAN
  /\ CallsOK
  /\ IsFiniteSet(Called)
  /\ FlagCounts
  /\ RunningIsReal
  /\ FlagIsReal

\* A step of one call leaves the other calls as they are.
LEMMA CallChanges ==
  ASSUME CallsOK, NEW c \in Syncs, NEW s \in Call, CallOK(s), sync' = [sync EXCEPT ![c] = s]
  PROVE  /\ CallsOK'
         /\ sync'[c] = s
         /\ \A d \in Syncs \ {c} : sync'[d] = sync[d]
BY DEF CallsOK, CallOK

\* A call that only moves on keeps its instance and its force argument.
LEMMA CallGoesOn ==
  ASSUME CallsOK, NEW c \in Syncs, NEW pc \in SyncPcs, Goes(c, pc),
         sync[c].pc # "uncalled", pc # "uncalled", pc # "settle"
  PROVE  /\ CallsOK'
         /\ sync'[c] = [sync[c] EXCEPT !.pc = pc]
         /\ \A d \in Syncs \ {c} : sync'[d] = sync[d]
<1> DEFINE s == [sync[c] EXCEPT !.pc = pc]
<1>1. sync[c] \in Call /\ CallOK(sync[c])
  BY DEF CallsOK
<1>2. s \in Call
  BY <1>1 DEF Call
<1>3. CallOK(s)
  BY <1>1 DEF CallOK, Call
<1>4. sync' = [sync EXCEPT ![c] = s]
  BY DEF Goes
<1> QED
  BY <1>2, <1>3, <1>4, CallChanges

\* Only calls that were made can be active or forced, so both are counted.
LEMMA CountsAreFinite ==
  ASSUME CallsOK, IsFiniteSet(Called), NEW i \in Instances
  PROVE  /\ IsFiniteSet(ActiveOf(i)) /\ Cardinality(ActiveOf(i)) \in Nat
         /\ IsFiniteSet(ForcedOf(i)) /\ Cardinality(ForcedOf(i)) \in Nat
<1>1. ActiveOf(i) \subseteq Called /\ ForcedOf(i) \subseteq Called
  BY DEF ActiveOf, ForcedOf, Called, Active, CallsOK, CallOK
<1> QED
  BY <1>1, FS_Subset, FS_CardinalityType

\* No call has been made and every flag is down.
LEMMA SyncInitially ==
  SyncInit => SyncInv
<1> SUFFICES ASSUME SyncInit PROVE SyncInv
  OBVIOUS
<1> DEFINE z == [pc |-> "uncalled", inst |-> "none", force |-> FALSE, verdict |-> "none"]
<1>1. z \in Call /\ CallOK(z)
  BY DEF Call, CallOK, SyncPcs
<1>2. sync \in [Syncs -> Call] /\ \A c \in Syncs : sync[c] = z
  BY <1>1 DEF SyncInit
<1>3. CallsOK
  BY <1>1, <1>2 DEF CallsOK
<1>4. Called = {} /\ \A i \in Instances : ActiveOf(i) = {} /\ ForcedOf(i) = {}
  <2>1. \A c \in Syncs : sync[c].pc = "uncalled" /\ ~sync[c].force
    BY <1>2
  <2> QED
    BY <2>1 DEF Called, ActiveOf, ForcedOf, Active
<1>5. IsFiniteSet(Called) /\ FlagCounts
  <2>1. \A i \in Instances : flag[i] = FALSE
    BY DEF SyncInit
  <2>2. Cardinality({}) = 0
    BY FS_EmptySet
  <2>3. FlagCounts
    BY <1>4, <2>1, <2>2 DEF FlagCounts
  <2> QED
    BY <1>4, <2>3, FS_EmptySet
<1>6. SyncTypeOK /\ lostWrite \in BOOLEAN /\ RunningIsReal /\ FlagIsReal
  BY <1>2 DEF SyncInit, SyncTypeOK, RunningIsReal, FlagIsReal
<1> QED
  BY <1>3, <1>5, <1>6 DEF SyncInv

\* A step that ends no run, begins none and moves no flag keeps the counts.
LEMMA SameCounts ==
  ASSUME SyncInv, NEW c \in Syncs, flag' = flag,
         \A d \in Syncs \ {c} : sync'[d] = sync[d],
         Active(c), Active(c)', sync'[c].inst = sync[c].inst, sync'[c].force = sync[c].force
  PROVE  IsFiniteSet(Called)' /\ FlagCounts'
<1>1. \A d \in Syncs : /\ Active(d)' <=> Active(d)
                       /\ sync'[d].inst = sync[d].inst /\ sync'[d].force = sync[d].force
                       /\ sync'[d].pc # "uncalled" <=> sync[d].pc # "uncalled"
  BY DEF Active
<1>2. Called' = Called
  BY <1>1 DEF Called
<1>3. \A i \in Instances : ActiveOf(i)' = ActiveOf(i) /\ ForcedOf(i)' = ForcedOf(i)
  BY <1>1 DEF ActiveOf, ForcedOf
<1> QED
  BY <1>2, <1>3 DEF SyncInv, FlagCounts

\* A run of instance i ends: one active run fewer.
LEMMA OneFewer ==
  ASSUME SyncInv, NEW c \in Syncs, NEW i \in Instances,
         \A d \in Syncs \ {c} : sync'[d] = sync[d],
         Active(c), sync[c].inst = i,
         sync'[c].pc = "done", sync'[c].inst = i, sync'[c].force = sync[c].force
  PROVE  /\ IsFiniteSet(Called)'
         /\ Cardinality(ActiveOf(i))' = Cardinality(ActiveOf(i)) - 1
         /\ \A j \in Instances : j # i => ActiveOf(j)' = ActiveOf(j)
         /\ \A j \in Instances : ForcedOf(j)' = ForcedOf(j)
<1>1. /\ Called' = Called
      /\ \A j \in Instances : ForcedOf(j)' = ForcedOf(j)
      /\ \A j \in Instances : j # i => ActiveOf(j)' = ActiveOf(j)
  BY DEF Called, Active, ForcedOf, ActiveOf
<1>2. ActiveOf(i)' = ActiveOf(i) \ {c} /\ c \in ActiveOf(i)
  BY DEF Active, ActiveOf
<1>3. IsFiniteSet(ActiveOf(i))
  BY CountsAreFinite DEF SyncInv
<1>4. Cardinality(ActiveOf(i) \ {c}) = Cardinality(ActiveOf(i)) - 1
  BY <1>2, <1>3, FS_RemoveElement
<1> QED
  BY <1>1, <1>2, <1>4 DEF SyncInv

\* A run that fetched, or failed to write its verdict, stays on its way.
LEMMA StaysWriting ==
  ASSUME SyncInv, NEW c \in Syncs, CallsOK', \A d \in Syncs \ {c} : sync'[d] = sync[d],
         Writing(c), sync'[c].pc = "settle",
         sync'[c].inst = sync[c].inst, sync'[c].force = sync[c].force,
         UNCHANGED <<flag, last, doc, lostWrite, stuck>>
  PROVE  SyncInv'
<1>1. \A d \in Syncs : /\ Writing(d) => Writing(d)'
                       /\ Active(d) => Active(d)'
                       /\ sync'[d].inst = sync[d].inst
  BY DEF Writing, Active
<1>2. Active(c) /\ Active(c)'
  BY DEF Writing, Active
<1>3. IsFiniteSet(Called)' /\ FlagCounts'
  BY <1>2, SameCounts
<1>4. SyncTypeOK' /\ RunningIsReal' /\ FlagIsReal'
  BY <1>1 DEF SyncInv, SyncTypeOK, RunningIsReal, FlagIsReal
<1> QED
  BY <1>3, <1>4 DEF SyncInv

\* Every step of a call, and a restart, keeps the counts and the statuses.
LEMMA SyncKept ==
  SyncInv /\ SyncNext => SyncInv'
<1> SUFFICES ASSUME SyncInv, SyncNext PROVE SyncInv'
  OBVIOUS
<1>t. SyncTypeOK /\ CallsOK /\ lostWrite \in BOOLEAN
  BY DEF SyncInv
<1>1. CASE SyncRestart
  <2>1. \A c \in Syncs :
          sync'[c] = IF Active(c) THEN [sync[c] EXCEPT !.pc = "done"] ELSE sync[c]
    BY <1>1 DEF SyncRestart
  <2>2. ASSUME NEW c \in Syncs
        PROVE  /\ sync'[c] \in Call /\ CallOK(sync'[c]) /\ ~Active(c)'
               /\ sync'[c].inst = sync[c].inst /\ sync'[c].force = sync[c].force
               /\ sync'[c].pc = "uncalled" <=> sync[c].pc = "uncalled"
    <3>1. sync[c] \in Call /\ CallOK(sync[c])
      BY <1>t DEF CallsOK
    <3>2. CASE Active(c)
      BY <2>1, <3>1, <3>2 DEF Active, Call, CallOK, SyncPcs
    <3>3. CASE ~Active(c)
      BY <2>1, <3>1, <3>3 DEF Active
    <3> QED
      BY <3>2, <3>3
  <2>3. CallsOK'
    BY <1>1, <2>2 DEF SyncRestart, CallsOK
  <2>4. Called' = Called
    BY <2>2 DEF Called
  <2>5. \A i \in Instances : ActiveOf(i)' = {} /\ ForcedOf(i)' = ForcedOf(i)
    BY <2>2 DEF ActiveOf, ForcedOf
  <2>6. FlagCounts'
    <3> SUFFICES ASSUME NEW i \in Instances
                 PROVE  Cardinality(ActiveOf(i))' <=
                          Cardinality(ForcedOf(i))' + (IF flag'[i] THEN 1 ELSE 0)
      BY DEF FlagCounts
    <3>1. Cardinality(ForcedOf(i)) \in Nat
      BY CountsAreFinite DEF SyncInv
    <3>2. flag'[i] = FALSE
      BY <1>1 DEF SyncRestart
    <3> QED
      <4>1. Cardinality(ActiveOf(i))' = 0
        BY <2>5, FS_EmptySet
      <4>2. Cardinality(ForcedOf(i))' = Cardinality(ForcedOf(i))
        BY <2>5
      <4> QED
        BY <3>1, <3>2, <4>1, <4>2
  <2>7. SyncTypeOK'
    BY <1>1, <1>t, <2>2 DEF SyncRestart, SyncTypeOK, Call, SyncPcs
  <2>8. RunningIsReal' /\ FlagIsReal'
    BY <1>1 DEF SyncRestart, RunningIsReal, FlagIsReal
  <2> QED
    BY <1>1, <2>3, <2>4, <2>6, <2>7, <2>8 DEF SyncInv, SyncRestart
<1>2. ASSUME NEW c \in Syncs, NEW i \in Instances, NEW force \in BOOLEAN, RunFullSync(c, i, force)
      PROVE  SyncInv'
  <2> DEFINE s == [pc |-> IF MayStart(i, force) THEN "announce" ELSE "skipped",
                   inst |-> i, force |-> force, verdict |-> "none"]
  <2>1. s \in Call /\ CallOK(s)
    BY DEF Call, CallOK, SyncPcs
  <2>2. sync' = [sync EXCEPT ![c] = s]
    BY <1>2 DEF RunFullSync
  <2>3. CallsOK' /\ sync'[c] = s /\ \A d \in Syncs \ {c} : sync'[d] = sync[d]
    BY <1>t, <2>1, <2>2, CallChanges
  <2>4. /\ sync[c].pc = "uncalled" /\ ~Active(c) /\ ~sync[c].force
        /\ flag' = [flag EXCEPT ![i] = TRUE] /\ flag \in [Instances -> BOOLEAN]
        /\ last' = last /\ doc' = doc /\ lostWrite' = lostWrite /\ stuck' = stuck
    BY <1>2, <1>t DEF RunFullSync, Active, SyncTypeOK, CallsOK, CallOK
  <2>5. SyncTypeOK'
    BY <1>t, <2>3, <2>4 DEF SyncTypeOK
  <2>6. IsFiniteSet(Called)'
    <3>1. Called' = Called \cup {c}
      BY <2>3, <2>4 DEF Called
    <3> QED
      BY <3>1, FS_AddElement DEF SyncInv
  <2>7. ASSUME NEW j \in Instances
        PROVE  Cardinality(ActiveOf(j))' <= Cardinality(ForcedOf(j))' + (IF flag'[j] THEN 1 ELSE 0)
    <3> DEFINE A == ActiveOf(j)
               F == ForcedOf(j)
    <3>1. /\ IsFiniteSet(A) /\ Cardinality(A) \in Nat /\ IsFiniteSet(F) /\ Cardinality(F) \in Nat
          /\ Cardinality(A) <= Cardinality(F) + (IF flag[j] THEN 1 ELSE 0)
          /\ c \notin A /\ c \notin F
      BY <2>4, CountsAreFinite DEF SyncInv, FlagCounts, ActiveOf, ForcedOf
    <3>2. CASE j # i
      <4>1. ActiveOf(j)' = A /\ ForcedOf(j)' = F /\ flag'[j] = flag[j]
        BY <2>3, <2>4, <3>2 DEF ActiveOf, ForcedOf, Active
      <4> QED
        BY <3>1, <4>1
    <3>3. CASE j = i /\ ~MayStart(i, force)
      <4>1. ActiveOf(j)' = A /\ ForcedOf(j)' = F /\ flag'[j] = TRUE /\ flag[j] = TRUE
        BY <2>3, <2>4, <3>3 DEF ActiveOf, ForcedOf, Active, MayStart
      <4> QED
        BY <3>1, <4>1
    <3>4. CASE j = i /\ MayStart(i, force)
      <4>1. ActiveOf(j)' = A \cup {c} /\ flag'[j] = TRUE
        BY <2>3, <2>4, <3>4 DEF ActiveOf, Active
      <4>2. Cardinality(A \cup {c}) = Cardinality(A) + 1
        BY <3>1, FS_AddElement
      <4>3. CASE force
        <5>1. ForcedOf(j)' = F \cup {c}
          BY <2>3, <2>4, <3>4, <4>3 DEF ForcedOf
        <5>2. Cardinality(F \cup {c}) = Cardinality(F) + 1
          BY <3>1, FS_AddElement
        <5> QED
          BY <3>1, <4>1, <4>2, <5>1, <5>2
      <4>4. CASE ~force
        <5>1. ForcedOf(j)' = F /\ ~flag[j]
          BY <2>3, <2>4, <3>4, <4>4 DEF ForcedOf, MayStart
        <5> QED
          BY <3>1, <4>1, <4>2, <5>1
      <4> QED
        BY <4>3, <4>4
    <3> QED
      BY <3>2, <3>3, <3>4
  <2>8. RunningIsReal'
    <3>1. \A d \in Syncs : Writing(d) => Writing(d)' /\ sync'[d].inst = sync[d].inst
      BY <2>3, <2>4 DEF Writing
    <3> QED
      BY <2>4, <3>1 DEF RunningIsReal, SyncInv
  <2>9. FlagIsReal'
    <3>1. \A d \in Syncs : Active(d) => Active(d)' /\ sync'[d].inst = sync[d].inst
      BY <2>3, <2>4 DEF Active
    <3>2. MayStart(i, force) => Active(c)' /\ sync'[c].inst = i
      BY <2>3 DEF Active
    <3>3. ~MayStart(i, force) => flag[i]
      BY DEF MayStart
    <3> QED
      BY <2>4, <3>1, <3>2, <3>3 DEF FlagIsReal, SyncInv
  <2> QED
    BY <1>t, <2>3, <2>4, <2>5, <2>6, <2>7, <2>8, <2>9 DEF SyncInv, FlagCounts
<1>3. ASSUME NEW c \in Syncs, AnnounceRunning(c) PROVE SyncInv'
  <2>1. PICK i \in Instances : i = sync[c].inst
    BY <1>3, <1>t DEF AnnounceRunning, CallsOK, CallOK
  <2>2. Active(c) /\ sync[c].pc = "announce" /\ sync[c] \in Call /\ flag' = flag
    BY <1>3, <1>t DEF AnnounceRunning, Active, CallsOK
  <2>3. ASSUME PersistStatus(c, "running"), Goes(c, "fetch"), UNCHANGED <<lostWrite, stuck>>
        PROVE  SyncInv'
    <3>1. /\ CallsOK' /\ sync'[c] = [sync[c] EXCEPT !.pc = "fetch"]
          /\ \A d \in Syncs \ {c} : sync'[d] = sync[d]
      BY <1>t, <2>2, <2>3, CallGoesOn DEF SyncPcs
    <3>2. sync'[c].pc = "fetch" /\ sync'[c].inst = i /\ sync'[c].force = sync[c].force
      BY <2>1, <2>2, <3>1 DEF Call
    <3>3. IsFiniteSet(Called)' /\ FlagCounts'
      BY <2>1, <2>2, <3>1, <3>2, SameCounts DEF Active
    <3>4. SyncTypeOK'
      BY <1>t, <2>1, <2>2, <2>3, <3>1, <3>2 DEF SyncTypeOK, PersistStatus
    <3>5. \A d \in Syncs : /\ Writing(d) => Writing(d)' /\ sync'[d].inst = sync[d].inst
                           /\ Active(d) => Active(d)' /\ sync'[d].inst = sync[d].inst
      BY <2>1, <2>2, <3>1, <3>2 DEF Writing, Active
    <3>6. RunningIsReal'
      <4>1. Writing(c)' /\ sync'[c].inst = i
        BY <3>2 DEF Writing
      <4>2. last' = [last EXCEPT ![i] = "running"] /\ lostWrite' = lostWrite
        BY <2>1, <2>3 DEF PersistStatus
      <4> QED
        BY <1>t, <3>5, <4>1, <4>2 DEF SyncInv, RunningIsReal, SyncTypeOK
    <3>7. FlagIsReal'
      BY <2>2, <2>3, <3>5 DEF SyncInv, FlagIsReal
    <3> QED
      BY <1>t, <2>3, <3>1, <3>3, <3>4, <3>6, <3>7 DEF SyncInv
  <2>4. ASSUME Goes(c, "done"), lostWrite' = TRUE, stuck' = stuck \cup {sync[c].inst},
               UNCHANGED <<last, doc>>
        PROVE  SyncInv'
    <3>1. /\ CallsOK' /\ sync'[c] = [sync[c] EXCEPT !.pc = "done"]
          /\ \A d \in Syncs \ {c} : sync'[d] = sync[d]
      BY <1>t, <2>2, <2>4, CallGoesOn DEF SyncPcs
    <3>2. sync'[c].pc = "done" /\ sync'[c].inst = i /\ sync'[c].force = sync[c].force
      BY <2>1, <2>2, <3>1 DEF Call
    <3>3. /\ IsFiniteSet(Called)'
          /\ Cardinality(ActiveOf(i))' = Cardinality(ActiveOf(i)) - 1
          /\ \A j \in Instances : j # i => ActiveOf(j)' = ActiveOf(j)
          /\ \A j \in Instances : ForcedOf(j)' = ForcedOf(j)
      BY <2>1, <2>2, <3>1, <3>2, OneFewer
    <3>4. FlagCounts'
      <4> SUFFICES ASSUME NEW j \in Instances
                   PROVE  Cardinality(ActiveOf(j))' <=
                            Cardinality(ForcedOf(j))' + (IF flag'[j] THEN 1 ELSE 0)
        BY DEF FlagCounts
      <4>1. /\ Cardinality(ActiveOf(j)) \in Nat /\ Cardinality(ForcedOf(j)) \in Nat
            /\ Cardinality(ActiveOf(j)) <= Cardinality(ForcedOf(j)) + (IF flag[j] THEN 1 ELSE 0)
        BY CountsAreFinite DEF SyncInv, FlagCounts
      <4>2. Cardinality(ActiveOf(j))' <= Cardinality(ActiveOf(j))
        BY <3>3, <4>1
      <4> QED
        BY <2>2, <3>3, <4>1, <4>2
    <3>5. SyncTypeOK' /\ RunningIsReal'
      BY <1>t, <2>1, <2>2, <2>4, <3>1, <3>2 DEF SyncTypeOK, RunningIsReal
    <3>6. FlagIsReal'
      <4>1. \A d \in Syncs : Active(d) => d = c \/ (Active(d)' /\ sync'[d].inst = sync[d].inst)
        BY <3>1 DEF Active
      <4> QED
        BY <2>1, <2>2, <2>4, <4>1 DEF SyncInv, FlagIsReal
    <3> QED
      BY <2>4, <3>1, <3>3, <3>4, <3>5, <3>6 DEF SyncInv
  <2> QED
    BY <1>3, <2>3, <2>4 DEF AnnounceRunning
<1>4. ASSUME NEW c \in Syncs, FetchAndWrite(c) PROVE SyncInv'
  <2>1. PICK verdict \in Verdicts : sync' = [sync EXCEPT ![c].pc = "settle", ![c].verdict = verdict]
    BY <1>4 DEF FetchAndWrite
  <2>2. /\ Active(c) /\ Writing(c) /\ sync[c] \in Call /\ sync[c].inst \in Instances
        /\ UNCHANGED <<flag, last, doc, lostWrite, stuck>>
    BY <1>4, <1>t DEF FetchAndWrite, Active, Writing, CallsOK, CallOK
  <2> DEFINE s == [sync[c] EXCEPT !.pc = "settle", !.verdict = verdict]
  <2>3. s \in Call /\ s.pc = "settle" /\ s.inst = sync[c].inst /\ s.force = sync[c].force
        /\ s.verdict \in Verdicts
    BY <2>2 DEF Call, SyncPcs
  <2>4. CallOK(s)
    BY <2>2, <2>3 DEF CallOK
  <2>5. sync' = [sync EXCEPT ![c] = s]
    BY <2>1
  <2> HIDE DEF s
  <2>6. CallsOK' /\ sync'[c] = s /\ \A d \in Syncs \ {c} : sync'[d] = sync[d]
    BY <1>t, <2>3, <2>4, <2>5, CallChanges
  <2> QED
    BY <2>2, <2>3, <2>6, StaysWriting
<1>5. ASSUME NEW c \in Syncs, SettleStatus(c) PROVE SyncInv'
  <2>1. PICK i \in Instances : i = sync[c].inst
    BY <1>5, <1>t DEF SettleStatus, CallsOK, CallOK
  <2>2. /\ Active(c) /\ Writing(c) /\ sync[c].pc = "settle" /\ sync[c] \in Call
        /\ sync[c].verdict \in Verdicts /\ flag' = flag /\ stuck' = stuck
    BY <1>5, <1>t DEF SettleStatus, Active, Writing, CallsOK, CallOK
  <2>3. ASSUME sync' = [sync EXCEPT ![c].verdict = "failed"], UNCHANGED <<last, doc, lostWrite>>
        PROVE  SyncInv'
    <3> DEFINE s == [sync[c] EXCEPT !.verdict = "failed"]
    <3>1. s \in Call /\ s.pc = "settle" /\ s.inst = sync[c].inst /\ s.force = sync[c].force
          /\ s.verdict \in Verdicts
      BY <2>2 DEF Call, SyncPcs, Verdicts
    <3>2. CallOK(s)
      BY <2>1, <2>2, <3>1 DEF CallOK
    <3>3. sync' = [sync EXCEPT ![c] = s]
      BY <2>3
    <3> HIDE DEF s
    <3>4. CallsOK' /\ sync'[c] = s /\ \A d \in Syncs \ {c} : sync'[d] = sync[d]
      BY <1>t, <3>1, <3>2, <3>3, CallChanges
    <3> QED
      BY <2>2, <2>3, <3>1, <3>4, StaysWriting
  <2>4. ASSUME Goes(c, "clear"),
               \/ PersistStatus(c, sync[c].verdict) /\ lostWrite' = lostWrite
               \/ lostWrite' = TRUE /\ UNCHANGED <<last, doc>>
        PROVE  SyncInv'
    <3>1. /\ CallsOK' /\ sync'[c] = [sync[c] EXCEPT !.pc = "clear"]
          /\ \A d \in Syncs \ {c} : sync'[d] = sync[d]
      BY <1>t, <2>2, <2>4, CallGoesOn DEF SyncPcs
    <3>2. sync'[c].pc = "clear" /\ sync'[c].inst = i /\ sync'[c].force = sync[c].force
      BY <2>1, <2>2, <3>1 DEF Call
    <3>3. IsFiniteSet(Called)' /\ FlagCounts'
      BY <2>1, <2>2, <3>1, <3>2, SameCounts DEF Active
    <3>4. SyncTypeOK'
      BY <1>t, <2>1, <2>2, <2>4, <3>1, <3>2 DEF SyncTypeOK, PersistStatus
    <3>5. RunningIsReal'
      <4>1. CASE lostWrite' = TRUE
        BY <4>1 DEF RunningIsReal
      <4>2. CASE PersistStatus(c, sync[c].verdict) /\ lostWrite' = lostWrite
        <5>1. doc' # "running" /\ last' = [last EXCEPT ![i] = sync[c].verdict]
              /\ sync[c].verdict # "running"
          BY <2>1, <2>2, <4>2 DEF PersistStatus, Verdicts
        <5>2. ASSUME NEW j \in Instances, last'[j] = "running"
              PROVE  lostWrite' \/ \E d \in Syncs : Writing(d)' /\ sync'[d].inst = j
          <6>1. j # i /\ last[j] = "running"
            BY <1>t, <5>1, <5>2 DEF SyncTypeOK
          <6>2. CASE lostWrite
            BY <4>2, <6>2
          <6>3. CASE ~lostWrite
            <7>1. PICK d \in Syncs : Writing(d) /\ sync[d].inst = j
              BY <6>1, <6>3 DEF SyncInv, RunningIsReal
            <7>2. d # c
              BY <2>1, <6>1, <7>1
            <7> QED
              BY <3>1, <7>1, <7>2 DEF Writing
          <6> QED
            BY <6>2, <6>3
        <5> QED
          BY <5>1, <5>2 DEF RunningIsReal
      <4> QED
        BY <2>4, <4>1, <4>2
    <3>6. FlagIsReal'
      <4>1. \A d \in Syncs : Active(d) => Active(d)' /\ sync'[d].inst = sync[d].inst
        BY <2>1, <3>1, <3>2 DEF Active
      <4> QED
        BY <2>2, <4>1 DEF SyncInv, FlagIsReal
    <3>7. lostWrite' \in BOOLEAN
      BY <1>t, <2>4
    <3> QED
      BY <3>1, <3>3, <3>4, <3>5, <3>6, <3>7 DEF SyncInv
  <2> QED
    BY <1>5, <2>3, <2>4 DEF SettleStatus
<1>6. ASSUME NEW c \in Syncs, ClearRunning(c) PROVE SyncInv'
  <2>1. PICK i \in Instances : i = sync[c].inst
    BY <1>6, <1>t DEF ClearRunning, CallsOK, CallOK
  <2>2. /\ Active(c) /\ ~Writing(c) /\ sync[c].pc = "clear" /\ sync[c] \in Call
        /\ flag' = [flag EXCEPT ![i] = FALSE] /\ flag \in [Instances -> BOOLEAN]
        /\ Goes(c, "done") /\ UNCHANGED <<last, doc, lostWrite, stuck>>
    BY <1>6, <1>t, <2>1 DEF ClearRunning, Active, Writing, CallsOK, SyncTypeOK
  <2>3. /\ CallsOK' /\ sync'[c] = [sync[c] EXCEPT !.pc = "done"]
        /\ \A d \in Syncs \ {c} : sync'[d] = sync[d]
    BY <1>t, <2>2, CallGoesOn DEF SyncPcs
  <2>4. sync'[c].pc = "done" /\ sync'[c].inst = i /\ sync'[c].force = sync[c].force
    BY <2>1, <2>2, <2>3 DEF Call
  <2>5. /\ IsFiniteSet(Called)'
        /\ Cardinality(ActiveOf(i))' = Cardinality(ActiveOf(i)) - 1
        /\ \A j \in Instances : j # i => ActiveOf(j)' = ActiveOf(j)
        /\ \A j \in Instances : ForcedOf(j)' = ForcedOf(j)
    BY <2>1, <2>2, <2>3, <2>4, OneFewer
  <2>6. FlagCounts'
    <3> SUFFICES ASSUME NEW j \in Instances
                 PROVE  Cardinality(ActiveOf(j))' <=
                          Cardinality(ForcedOf(j))' + (IF flag'[j] THEN 1 ELSE 0)
      BY DEF FlagCounts
    <3>1. /\ Cardinality(ActiveOf(j)) \in Nat /\ Cardinality(ForcedOf(j)) \in Nat
          /\ Cardinality(ActiveOf(j)) <= Cardinality(ForcedOf(j)) + (IF flag[j] THEN 1 ELSE 0)
      BY CountsAreFinite DEF SyncInv, FlagCounts
    <3>2. CASE j = i
      BY <2>2, <2>5, <3>1, <3>2
    <3>3. CASE j # i
      BY <2>2, <2>5, <3>1, <3>3
    <3> QED
      BY <3>2, <3>3
  <2>7. SyncTypeOK'
    BY <1>t, <2>1, <2>2, <2>3, <2>4 DEF SyncTypeOK
  <2>8. RunningIsReal'
    <3>1. \A d \in Syncs : Writing(d) => Writing(d)' /\ sync'[d].inst = sync[d].inst
      BY <2>2, <2>3 DEF Writing
    <3> QED
      BY <2>2, <3>1 DEF RunningIsReal, SyncInv
  <2>9. FlagIsReal'
    <3>1. \A d \in Syncs : d # c /\ Active(d) => Active(d)' /\ sync'[d].inst = sync[d].inst
      BY <2>3 DEF Active
    <3> QED
      BY <2>1, <2>2, <3>1 DEF FlagIsReal, SyncInv
  <2> QED
    BY <1>t, <2>2, <2>3, <2>5, <2>6, <2>7, <2>8, <2>9 DEF SyncInv
<1> QED
  BY <1>1, <1>2, <1>3, <1>4, <1>5, <1>6 DEF SyncNext

\* The two promises of the stock list follow from its invariant.
LEMMA SyncSafe ==
  SyncInv => SyncsBounded /\ StatusSettles
<1> SUFFICES ASSUME SyncInv PROVE SyncsBounded /\ StatusSettles
  OBVIOUS
<1>1. ASSUME NEW i \in Instances
      PROVE  Cardinality(ActiveOf(i)) <= 1 + Cardinality(ForcedOf(i))
  <2>1. Cardinality(ActiveOf(i)) \in Nat /\ Cardinality(ForcedOf(i)) \in Nat
    BY CountsAreFinite DEF SyncInv
  <2> QED
    BY <2>1 DEF SyncInv, FlagCounts
<1>2. SyncsBounded
  BY <1>1 DEF SyncsBounded, ActiveOf, ForcedOf
<1>3. \A c \in Syncs : Writing(c) => Active(c)
  BY DEF Writing, Active
<1> QED
  BY <1>2, <1>3 DEF StatusSettles, SyncInv, RunningIsReal, FlagIsReal

-----------------------------------------------------------------------------
\* All of them

SideInv == PaperInv /\ PnlInv /\ SimInv /\ HistoryInv /\ SyncInv /\ LimiterInv

\* While one service runs, the others rest.
LEMMA OthersRest ==
  /\ PaperInv /\ PnlInv /\ UNCHANGED paperVars => PaperInv' /\ PnlInv'
  /\ SimInv /\ UNCHANGED simVars => SimInv'
  /\ HistoryInv /\ UNCHANGED historyVars => HistoryInv'
  /\ SyncInv /\ UNCHANGED syncVars => SyncInv'
  /\ LimiterInv /\ UNCHANGED limiterVars => LimiterInv'
<1>1. PaperInv /\ PnlInv /\ UNCHANGED paperVars => PaperInv' /\ PnlInv'
  <2> SUFFICES ASSUME PaperInv, PnlInv, UNCHANGED paperVars PROVE PaperInv' /\ PnlInv'
    OBVIOUS
  <2>1. /\ accounts' = accounts /\ positions' = positions /\ tradePnl' = tradePnl
        /\ order' = order /\ unrecorded' = unrecorded /\ wasReset' = wasReset
    BY DEF paperVars
  <2>2. PaperInv'
    BY <2>1 DEF PaperInv, OrdersOK
  <2>3. Sent' = Sent /\ OnTheWay' = OnTheWay /\ Earned' = Earned
    BY <2>1 DEF Sent, OnTheWay, Earned, Pnl
  <2>4. Owed' = Owed
    BY <2>3 DEF Owed
  <2> QED
    BY <2>1, <2>2, <2>3, <2>4 DEF PnlInv
<1>2. SimInv /\ UNCHANGED simVars => SimInv'
  <2> SUFFICES ASSUME SimInv, UNCHANGED simVars PROVE SimInv'
    OBVIOUS
  <2>1. BarsCounted' /\ LeadersDescend'
    BY FinishedKept DEF simVars
  <2>2. \A b \in Bars : Finished(b)' <=> Finished(b)
    BY CountsKept DEF simVars
  <2>3. \A s \in Symbols : Leads(s, bar)' <=> Leads(s, bar)
    BY DEF Leads, simVars
  <2>4. BarOrder'
    BY <2>2, <2>3 DEF simVars, SimInv, BarOrder, Bars
  <2> QED
    BY <2>1, <2>4 DEF simVars, SimInv, SimTypes, SimTypeOK, OneAfterStop
<1>3. HistoryInv /\ UNCHANGED historyVars => HistoryInv'
  BY DEF historyVars, HistoryInv, HistoryTypeOK, NoHiddenGap, AscendingWrites, Known
<1>4. SyncInv /\ UNCHANGED syncVars => SyncInv'
  <2> SUFFICES ASSUME SyncInv, UNCHANGED syncVars PROVE SyncInv'
    OBVIOUS
  <2>1. /\ flag' = flag /\ last' = last /\ doc' = doc /\ sync' = sync
        /\ lostWrite' = lostWrite /\ stuck' = stuck
    BY DEF syncVars
  <2>2. Called' = Called /\ \A i \in Instances : ActiveOf(i)' = ActiveOf(i) /\ ForcedOf(i)' = ForcedOf(i)
    BY <2>1 DEF Called, ActiveOf, ForcedOf, Active
  <2>3. FlagCounts'
    BY <2>1, <2>2 DEF SyncInv, FlagCounts
  <2>4. SyncTypeOK' /\ CallsOK' /\ RunningIsReal' /\ FlagIsReal'
    BY <2>1 DEF SyncInv, SyncTypeOK, CallsOK, RunningIsReal, FlagIsReal, Active, Writing
  <2> QED
    BY <2>1, <2>2, <2>3, <2>4 DEF SyncInv
<1>5. LimiterInv /\ UNCHANGED limiterVars => LimiterInv'
  BY DEF limiterVars, LimiterInv, LimiterTypeOK, PermitsAreCalls, SleeperKnowsOldest, Outdated
<1> QED
  BY <1>1, <1>2, <1>3, <1>4, <1>5

\* The invariant that the services keep together.
THEOREM SideInductive ==
  Spec => []SideInv
<1>1. Init => SideInv
  BY PaperInitially, PnlInitially, SimInitially, HistoryInitially, SyncInitially, LimiterInitially
  DEF Init, SideInv
<1>2. SideInv /\ [Next]_vars => SideInv'
  <2> SUFFICES ASSUME SideInv, [Next]_vars PROVE SideInv'
    OBVIOUS
  <2>1. CASE PaperRuns
    BY <2>1, PaperKept, PnlKept, OthersRest DEF PaperRuns, SideInv
  <2>2. CASE SimulationRuns
    BY <2>2, SimKept, OthersRest DEF SimulationRuns, SideInv
  <2>3. CASE HistoryRuns
    BY <2>3, HistoryKept, OthersRest DEF HistoryRuns, SideInv
  <2>4. CASE BasicsRun
    BY <2>4, SyncKept, OthersRest DEF BasicsRun, SideInv
  <2>5. CASE LimiterRuns
    BY <2>5, LimiterKept, OthersRest DEF LimiterRuns, SideInv
  <2>6. CASE UNCHANGED vars
    BY <2>6, OthersRest DEF vars, SideInv
  <2> QED
    BY <2>1, <2>2, <2>3, <2>4, <2>5, <2>6 DEF Next
<1> QED
  BY <1>1, <1>2, PTL DEF Spec

\* Every variable of the services keeps its type: in particular the sleep of a
\* caller of the limiter never exceeds the window (app/core/rate_limiter.py).
THEOREM SideTypes ==
  Spec => []TypeOK
<1>1. SideInv => TypeOK
  <2> SUFFICES ASSUME SideInv PROVE TypeOK
    OBVIOUS
  <2>1. PaperTypeOK
    <3>1. ASSUME NEW k \in 1 .. Len(accounts)
          PROVE  accounts[k].cash \in Int /\ accounts[k].pnl \in Int
      <4>1. accounts[k] \in Account
        BY ElementOfSeq DEF SideInv, PaperInv
      <4> QED
        BY <4>1 DEF Account
    <3>2. ASSUME NEW k \in 1 .. Len(positions) PROVE positions[k].id \in Requests
      <4>1. positions[k] \in Position
        BY ElementOfSeq DEF SideInv, PaperInv
      <4> QED
        BY <4>1 DEF Position
    <3>3. ASSUME NEW r \in Requests PROVE order[r].side \in {"none", "buy", "sell", "reset"}
      BY DEF SideInv, PaperInv, OrdersOK, Order
    <3> QED
      BY <3>1, <3>2, <3>3 DEF PaperTypeOK, SideInv, PaperInv
  <2>2. SimTypeOK /\ HistoryTypeOK /\ SyncTypeOK /\ LimiterTypeOK
    BY DEF SideInv, SimInv, SimTypes, HistoryInv, SyncInv, LimiterInv
  <2> QED
    BY <2>1, <2>2 DEF TypeOK
<1> QED
  BY <1>1, SideInductive, PTL

\* However many orders and resets overlap on stale reads, and wherever they die,
\* no account of app/routers/paper.py is overdrawn and no position is empty or
\* short.
THEOREM NobodyGoesShort ==
  Spec => []NothingNegative
<1>1. SideInv => NothingNegative
  <2> SUFFICES ASSUME SideInv PROVE NothingNegative
    OBVIOUS
  <2>1. ASSUME NEW k \in 1 .. Len(accounts) PROVE accounts[k].cash >= 0
    <3>1. accounts[k] \in Account
      BY ElementOfSeq DEF SideInv, PaperInv
    <3> QED
      BY <3>1 DEF Account
  <2>2. ASSUME NEW k \in 1 .. Len(positions) PROVE positions[k].qty > 0
    <3>1. positions[k] \in Position
      BY ElementOfSeq DEF SideInv, PaperInv
    <3> QED
      BY <3>1 DEF Position
  <2> QED
    BY <2>1, <2>2 DEF NothingNegative
<1> QED
  BY <1>1, SideInductive, PTL

\* Until a reset begins, the realized profit of the account is the sum over the
\* recorded trades, the sales about to record theirs and those that died before
\* they could, however the orders of app/routers/paper.py overlap.
THEOREM ProfitAddsUp ==
  Spec => []PnlMatchesTrades
<1>1. SideInv => PnlMatchesTrades
  BY DEF SideInv, PnlInv, PnlMatchesTrades, Owed
<1> QED
  BY <1>1, SideInductive, PTL

\* However many symbols a simulation has and however late their rows come, the
\* loop finishes one pass per bar that dates a pass; the initial cycle and each
\* exception add one more (app/services/alpha/simulation_engine.py).
THEOREM RepeatsAreKnown ==
  Spec => []BarRepeatsAreKnown
<1>1. SideInv => BarRepeatsAreKnown
  BY SimSafe DEF SideInv
<1> QED
  BY <1>1, SideInductive, PTL

\* After a stop or a pause at most one bar, the one in hand, still trades.
THEOREM StopIsAlmostPrompt ==
  Spec => []StopLeavesOneBar
<1>1. SideInv => StopLeavesOneBar
  BY SimSafe DEF SideInv
<1> QED
  BY <1>1, SideInductive, PTL

\* Whatever runs die and whichever batches fail, a day missing below the newest
\* row of a period was lost by a failed row, a range run or another period's
\* newest row (app/worker/tushare_sync_service.py).
THEOREM NoUnknownGap ==
  Spec => []GapsAreKnown
<1>1. SideInv => GapsAreKnown
  BY HistorySafe DEF SideInv
<1> QED
  BY <1>1, SideInductive, PTL

\* The runs of one service object never number more than one plus the forced
\* ones, although any of them clears the flag of all
\* (app/services/multi_source_basics_sync_service.py).
THEOREM RunsAreBounded ==
  Spec => []SyncsBounded
<1>1. SideInv => SyncsBounded
  BY SyncSafe DEF SideInv
<1> QED
  BY <1>1, SideInductive, PTL

\* Overlapping runs of both service objects leave a verdict behind, and a flag
\* that stays up is one whose first write failed.
THEOREM VerdictAtRest ==
  Spec => []StatusSettles
<1>1. SideInv => StatusSettles
  BY SyncSafe DEF SideInv
<1> QED
  BY <1>1, SideInductive, PTL

\* No window of time holds more permits than max_calls, although the caller
\* that slept in acquire records its call without another look at the limit.
THEOREM RateIsKept ==
  Spec => []PermitsInWindow
<1>1. SideInv => PermitsInWindow
  BY LimiterSafe DEF SideInv
<1> QED
  BY <1>1, SideInductive, PTL
=============================================================================
