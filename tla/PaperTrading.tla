---------------------------- MODULE PaperTrading ----------------------------
(***************************************************************************)
(* The paper-trading account of one user (app/routers/paper.py): market     *)
(* orders and resets, each a handler cut at its database calls.  Money is   *)
(* whole units; rounding to cents is left out.  Nothing locks the account,  *)
(* so the handlers of concurrent requests interleave at every await, and    *)
(* each may die at any of them.                                             *)
(***************************************************************************)
EXTENDS Integers, Sequences, Functions

CONSTANTS
  Requests,     \* HTTP requests, each of them handled once
  Prices, Quantities,
  InitialCash

ASSUME PaperAssumption ==
  /\ Prices \subseteq Nat \ {0} /\ Quantities \subseteq Nat \ {0}
  /\ InitialCash \in Nat

VARIABLES
  accounts,     \* paper_accounts of the user, in insertion order
  positions,    \* paper_positions of the user in one stock, in insertion order;
                \* the id is the request that inserted the document
  tradePnl,     \* the sum of pnl over paper_trades
  order,        \* per request: the locals of its handler
  unrecorded,   \* history: pnl booked by orders that died before their trade
  wasReset      \* history: a reset has begun

paperVars == <<accounts, positions, tradePnl, order, unrecorded, wasReset>>

NoPosition == [id |-> "none", qty |-> 0, cost |-> 0]
NewAccount == [cash |-> InitialCash, pnl |-> 0]
Unsent == [pc |-> "unsent", side |-> "none", qty |-> 0, price |-> 0, cash |-> 0,
           held |-> NoPosition]

PaperInit ==
  /\ accounts = <<>>
  /\ positions = <<>>
  /\ tradePnl = 0
  /\ order = [r \in Requests |-> Unsent]
  /\ unrecorded = 0
  /\ wasReset = FALSE

PaperTypeOK ==
  /\ \A k \in 1 .. Len(accounts) : accounts[k].cash \in Int /\ accounts[k].pnl \in Int
  /\ \A k \in 1 .. Len(positions) : positions[k].id \in Requests
  /\ \A r \in Requests : order[r].side \in {"none", "buy", "sell", "reset"}
  /\ wasReset \in BOOLEAN

-----------------------------------------------------------------------------
\* Helpers

OrderAt(r, pc) == order[r].pc = pc
OrderGoesTo(r, pc) == order' = [order EXCEPT ![r].pc = pc]

Notional(r) == order[r].price * order[r].qty

\* What a sale earns over the average cost the handler read.
Pnl(r) == (order[r].price - order[r].held.cost) * order[r].qty

\* Mutant of UpdateAccount: the account's pnl is read with the cash and set.
UpdateAccountPnlSet(cash, inc) ==
  accounts' = IF accounts = <<>> THEN <<>>
              ELSE [accounts EXCEPT ![1] = [cash |-> cash, pnl |-> inc]]

\* update_one({"user_id": ...}): the first account document, if there is one.
UpdateAccount(cash, inc) ==
  accounts' = IF accounts = <<>> THEN <<>>
              ELSE [accounts EXCEPT ![1] = [cash |-> cash, pnl |-> @.pnl + inc]]

\* find_one of the position: the oldest document of the stock.
FirstPosition == IF positions = <<>> THEN NoPosition ELSE positions[1]

\* update_one / delete_one by _id
SetPosition(doc) ==
  positions' = [k \in 1 .. Len(positions) |->
                  IF positions[k].id = doc.id THEN doc ELSE positions[k]]
DropPosition(id) ==
  \/ \E k \in 1 .. Len(positions) :
       /\ positions[k].id = id
       /\ positions' = [j \in 1 .. Len(positions) - 1 |-> positions[IF j < k THEN j ELSE j + 1]]
  \/ (\A k \in 1 .. Len(positions) : positions[k].id # id) /\ UNCHANGED positions

\* The weighted average of buying order[r] on top of what the handler read.
AverageCost(r) ==
  LET h == order[r].held
  IN  (h.cost * h.qty + Notional(r)) \div (h.qty + order[r].qty)

PaperRest == UNCHANGED <<unrecorded, wasReset>>

-----------------------------------------------------------------------------
\* place_order

PlaceOrder(r) ==
  /\ OrderAt(r, "unsent")
  /\ \E side \in {"buy", "sell"}, qty \in Quantities :
       order' = [order EXCEPT ![r].pc = "account", ![r].side = side, ![r].qty = qty]
  /\ UNCHANGED <<accounts, positions, tradePnl>> /\ PaperRest

\* Where the handler goes on from _get_or_create_account.
AfterAccount(r) == IF order[r].side = "reset" THEN "done" ELSE "price"

\* _get_or_create_account: find, and insert in a second call when none is found.
FindAccount(r) ==
  /\ OrderAt(r, "account")
  /\ IF accounts = <<>> THEN OrderGoesTo(r, "create")
     ELSE order' = [order EXCEPT ![r].cash = accounts[1].cash,
                                 ![r].pc = AfterAccount(r)]
  /\ UNCHANGED <<accounts, positions, tradePnl>> /\ PaperRest

CreateAccount(r) ==
  /\ OrderAt(r, "create")
  /\ accounts' = Append(accounts, NewAccount)
  /\ order' = [order EXCEPT ![r].cash = InitialCash,
                            ![r].pc = AfterAccount(r)]
  /\ UNCHANGED <<positions, tradePnl>> /\ PaperRest

\* _get_last_price; without a price the order is refused.
GetLastPrice(r) ==
  /\ OrderAt(r, "price")
  /\ \E price \in Prices \cup {0} :
       order' = [order EXCEPT ![r].price = price,
                              ![r].pc = IF price = 0 THEN "done" ELSE "position"]
  /\ UNCHANGED <<accounts, positions, tradePnl>> /\ PaperRest

\* Mutant of Affordable: a purchase needs some cash, not enough of it.
AffordableAnyCash(r, held) ==
  IF order[r].side = "buy" THEN order[r].cash > 0 ELSE held.qty >= order[r].qty

\* The checks of cash and shares, on what this handler has read.
Affordable(r, held) ==
  IF order[r].side = "buy" THEN order[r].cash >= Notional(r) ELSE held.qty >= order[r].qty

ReadPosition(r) ==
  /\ OrderAt(r, "position")
  /\ order' = [order EXCEPT ![r].held = FirstPosition,
                            ![r].pc = IF Affordable(r, FirstPosition) THEN "book" ELSE "done"]
  /\ UNCHANGED <<accounts, positions, tradePnl>> /\ PaperRest

\* The position is written from the values read, before any money moves.
BookPosition(r) ==
  /\ OrderAt(r, "book")
  /\ LET held == order[r].held
         bought == held.qty + order[r].qty
         left == held.qty - order[r].qty
     IN  \/ /\ order[r].side = "buy" /\ held = NoPosition
            /\ positions' = Append(positions, [id |-> r, qty |-> order[r].qty, cost |-> order[r].price])
         \/ /\ order[r].side = "buy" /\ held # NoPosition
            /\ SetPosition([held EXCEPT !.qty = bought, !.cost = AverageCost(r)])
         \/ order[r].side = "sell" /\ left = 0 /\ DropPosition(held.id)
         \/ /\ order[r].side = "sell" /\ left # 0
            /\ positions' = [k \in 1 .. Len(positions) |->
                 IF positions[k].id = held.id THEN [positions[k] EXCEPT !.qty = left]
                                              ELSE positions[k]]
  /\ OrderGoesTo(r, "pay")
  /\ UNCHANGED <<accounts, tradePnl>> /\ PaperRest

\* cash is set to a value computed from the read; realized_pnl is incremented.
SettleAccount(r) ==
  /\ OrderAt(r, "pay")
  /\ IF order[r].side = "buy" THEN UpdateAccount(order[r].cash - Notional(r), 0)
                              ELSE UpdateAccount(order[r].cash + Notional(r), Pnl(r))
  /\ OrderGoesTo(r, "order")
  /\ UNCHANGED <<positions, tradePnl>> /\ PaperRest

\* paper_orders has no reader in this model; the insert is only an await.
InsertOrder(r) ==
  /\ OrderAt(r, "order")
  /\ OrderGoesTo(r, "trade")
  /\ UNCHANGED <<accounts, positions, tradePnl>> /\ PaperRest

InsertTrade(r) ==
  /\ OrderAt(r, "trade")
  /\ tradePnl' = IF order[r].side = "sell" THEN tradePnl + Pnl(r) ELSE tradePnl
  /\ OrderGoesTo(r, "done")
  /\ UNCHANGED <<accounts, positions>> /\ PaperRest

-----------------------------------------------------------------------------
\* reset_account, collection by collection

ResetAccount(r) ==
  /\ OrderAt(r, "unsent")
  /\ order' = [order EXCEPT ![r].pc = "wipe positions", ![r].side = "reset"]
  /\ accounts' = <<>>
  /\ wasReset' = TRUE
  /\ UNCHANGED <<positions, tradePnl, unrecorded>>

WipePositions(r) ==
  /\ OrderAt(r, "wipe positions")
  /\ positions' = <<>>
  /\ OrderGoesTo(r, "wipe trades")
  /\ UNCHANGED <<accounts, tradePnl>> /\ PaperRest

WipeTrades(r) ==
  /\ OrderAt(r, "wipe trades")
  /\ tradePnl' = 0
  /\ OrderGoesTo(r, "account")
  /\ UNCHANGED <<accounts, positions>> /\ PaperRest

-----------------------------------------------------------------------------
\* A database error ends the handler; what it has written stays.
HandlerFails(r) ==
  /\ order[r].pc \notin {"unsent", "done"}
  /\ OrderGoesTo(r, "done")
  /\ unrecorded' = IF order[r].pc \in {"order", "trade"} /\ order[r].side = "sell"
                   THEN unrecorded + Pnl(r) ELSE unrecorded
  /\ UNCHANGED <<accounts, positions, tradePnl, wasReset>>

PaperNext ==
  \E r \in Requests :
    \/ PlaceOrder(r) \/ FindAccount(r) \/ CreateAccount(r) \/ GetLastPrice(r)
    \/ ReadPosition(r) \/ BookPosition(r) \/ SettleAccount(r)
    \/ InsertOrder(r) \/ InsertTrade(r)
    \/ ResetAccount(r) \/ WipePositions(r) \/ WipeTrades(r)
    \/ HandlerFails(r)

-----------------------------------------------------------------------------
\* Properties

\* Whatever requests overlap, fail or reset the account (app/routers/paper.py
\* checks on stale reads), no account is ever overdrawn and no position is
\* empty or short.
NothingNegative ==
  /\ \A k \in 1 .. Len(accounts) : accounts[k].cash >= 0
  /\ \A k \in 1 .. Len(positions) : positions[k].qty > 0

\* The sales that are booked in the account and not yet among the trades.
OnTheWay == {r \in Requests : order[r].pc \in {"order", "trade"} /\ order[r].side = "sell"}
Earned == [r \in Requests |-> Pnl(r)]

\* The realized profit of the account, unlike its cash, survives overlapping
\* orders: it is always the sum over the recorded trades, the sales that are
\* about to record theirs and those that died before they could.  (Until a
\* reset, which deletes the account while orders may still be on their way.)
PnlMatchesTrades ==
  ~wasReset /\ accounts # <<>> =>
    accounts[1].pnl = tradePnl + unrecorded + SumFunctionOnSet(Earned, OnTheWay)
=============================================================================
