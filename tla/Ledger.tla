------------------------------- MODULE Ledger -------------------------------
(***************************************************************************)
(* net_batch: the revealed orders of an epoch netted against the balances  *)
(* of its lock package.  Each order trades one lot at the epoch's price;   *)
(* what buys and sells do not match is the residual the venue takes.       *)
(*                                                                         *)
(* The orders arrive one by one as their members are revealed, in any      *)
(* order, and are then netted as a whole.  Amounts are u64; the totals are *)
(* i128 and cannot overflow with u32 counts of u64 amounts.                *)
(***************************************************************************)
EXTENDS Integers, Sequences, SequencesExt, FiniteSetsExt

CONSTANTS
  Participants,
  Amounts,        \* [base, quote] balances a participant may hold
  Limits,         \* limit prices of the orders
  Lot, Price,     \* base_lot_atoms, quote_atoms_per_lot
  U64Max,
  MaxOrders,      \* bound on the orders of a batch
  NotRun

ASSUME ConfigAssumption ==
  /\ Lot \in 1..U64Max /\ Price \in 1..U64Max /\ U64Max \in Nat /\ MaxOrders \in Nat
  /\ Amounts \subseteq [base: 0..U64Max, quote: 0..U64Max]
  /\ Limits \subseteq 1..U64Max

VARIABLES
  before,         \* the package's balances, by participant
  orders,         \* the orders revealed so far
  outcome         \* what net_batch returned

vars == <<before, orders, outcome>>

-----------------------------------------------------------------------------
FundedOrder == [participant_id: Participants, side: {"Buy", "Sell"}, limit_price: Limits]

Errors ==
  {"None", "EmptyBatch", "DuplicateParticipant", "UnknownParticipant",
   "InsufficientReservation", "LimitViolated", "ArithmeticOverflow", "ConservationFailed"}

PoolBalance == [base: 0..U64Max, quote: 0..U64Max]

(* Mutant: duplicate participants are let through. *)
duplicate_ignored(batch) == FALSE

duplicate(batch) ==
  \E i, j \in DOMAIN batch : i # j /\ batch[i].participant_id = batch[j].participant_id

insufficient(balance) == balance.base < Lot \/ balance.quote < Price

(* Mutant: a seller's limit is read as a buyer's. *)
limit_violated_one_sided(order) == Price > order.limit_price

limit_violated(order) ==
  \/ order.side = "Buy" /\ Price > order.limit_price
  \/ order.side = "Sell" /\ Price < order.limit_price

(* One lot for its price; the amounts are exact, the caller checks them. *)
filled(balance, side) ==
  IF side = "Buy"
  THEN [base |-> balance.base + Lot, quote |-> balance.quote - Price]
  ELSE [base |-> balance.base - Lot, quote |-> balance.quote + Price]

(* Mutant: only the base leg is checked. *)
overflows_base(balance) == balance.base > U64Max

overflows(balance) == balance.base > U64Max \/ balance.quote > U64Max

order_error(balances, order) ==
  IF order.participant_id \notin DOMAIN balances THEN "UnknownParticipant"
  ELSE LET balance == balances[order.participant_id] IN
       CASE insufficient(balance) -> "InsufficientReservation"
         [] ~insufficient(balance) /\ limit_violated(order) -> "LimitViolated"
         [] ~insufficient(balance) /\ ~limit_violated(order) /\ overflows(filled(balance, order.side))
              -> "ArithmeticOverflow"
         [] OTHER -> "None"

(* The body of the loop: the first error ends it. *)
net_order(acc, order) ==
  LET error == order_error(acc.balances, order) IN
  IF acc.error # "None" THEN acc
  ELSE IF error # "None" THEN [acc EXCEPT !.error = error]
  ELSE [acc EXCEPT
          !.balances[order.participant_id] = filled(@, order.side),
          !.buys = IF order.side = "Buy" THEN @ + 1 ELSE @,
          !.sells = IF order.side = "Sell" THEN @ + 1 ELSE @]

totals(balances) ==
  [base |-> MapThenSumSet(LAMBDA m : balances[m].base, DOMAIN balances),
   quote |-> MapThenSumSet(LAMBDA m : balances[m].quote, DOMAIN balances)]

(* Mutant: the residual counts all orders. *)
residual_gross(buys, sells) ==
  [side |-> CASE buys > sells -> "Buy" [] buys < sells -> "Sell" [] OTHER -> "None",
   lots |-> buys + sells]

residual_of(buys, sells) ==
  [side |-> CASE buys > sells -> "Buy" [] buys < sells -> "Sell" [] OTHER -> "None",
   lots |-> IF buys > sells THEN buys - sells ELSE sells - buys]

(* Mutant: the quote leg has the sign of the base leg. *)
vault_delta_unsigned(signed_lots) == [base |-> signed_lots * Lot, quote |-> signed_lots * Price]

vault_delta(signed_lots) == [base |-> signed_lots * Lot, quote |-> -(signed_lots * Price)]

conserves(start, balances, delta) ==
  /\ totals(start).base + delta.base = totals(balances).base
  /\ totals(start).quote + delta.quote = totals(balances).quote

Failed(error, balances) ==
  [error |-> error, residual |-> [side |-> "None", lots |-> 0],
   vault_delta |-> [base |-> 0, quote |-> 0], balances |-> balances]

net_batch(start, batch) ==
  LET acc == FoldLeft(net_order, [error |-> "None", balances |-> start, buys |-> 0, sells |-> 0],
                      batch)
      delta == vault_delta(acc.buys - acc.sells)
  IN
  IF batch = <<>> THEN Failed("EmptyBatch", start)
  ELSE IF duplicate(batch) THEN Failed("DuplicateParticipant", start)
  ELSE IF acc.error # "None" THEN Failed(acc.error, start)
  ELSE IF ~conserves(start, acc.balances, delta) THEN Failed("ConservationFailed", start)
  ELSE [error |-> "None", residual |-> residual_of(acc.buys, acc.sells),
        vault_delta |-> delta, balances |-> acc.balances]

-----------------------------------------------------------------------------
Init ==
  /\ before \in UNION {[S -> Amounts] : S \in SUBSET Participants}
  /\ orders = <<>>
  /\ outcome = NotRun

Reveal(order) ==
  /\ outcome = NotRun
  /\ Len(orders) < MaxOrders
  /\ orders' = Append(orders, order)
  /\ UNCHANGED <<before, outcome>>

NetBatch ==
  /\ outcome = NotRun
  /\ outcome' = net_batch(before, orders)
  /\ UNCHANGED <<before, orders>>

Next == (\E order \in FundedOrder : Reveal(order)) \/ NetBatch

Spec == Init /\ [][Next]_vars

-----------------------------------------------------------------------------
(* Properties *)

TypeOK ==
  /\ DOMAIN before \subseteq Participants
  /\ \A m \in DOMAIN before : before[m] \in PoolBalance
  /\ orders \in Seq(FundedOrder)
  /\ outcome # NotRun =>
       /\ outcome.error \in Errors
       /\ \A m \in DOMAIN outcome.balances : outcome.balances[m] \in PoolBalance
       /\ outcome.residual.lots \in Nat

Executed == outcome # NotRun /\ outcome.error = "None"

(* The reference for one order, judged on the frozen balances alone. *)
Executable(order) ==
  /\ order.participant_id \in DOMAIN before
  /\ LET b == before[order.participant_id] IN
     /\ b.base >= Lot /\ b.quote >= Price
     /\ IF order.side = "Buy"
        THEN order.limit_price >= Price /\ b.base + Lot <= U64Max
        ELSE order.limit_price <= Price /\ b.quote + Price <= U64Max

SideOf(m, side) == \E i \in DOMAIN orders : orders[i].participant_id = m /\ orders[i].side = side

(* A batch executes exactly when it is not empty, names each participant    *)
(* once and every order is executable on the frozen balances, and then each *)
(* participant's new balance is their frozen one with one lot bought or     *)
(* sold at the epoch's price: fills of other members have no part in it.    *)
NettingExact ==
  outcome # NotRun =>
    /\ outcome.error = "None" <=>
         /\ orders # <<>>
         /\ \A i, j \in DOMAIN orders :
              orders[i].participant_id = orders[j].participant_id => i = j
         /\ \A i \in DOMAIN orders : Executable(orders[i])
    /\ Executed =>
         outcome.balances = [m \in DOMAIN before |->
           [base |-> before[m].base + (IF SideOf(m, "Buy") THEN Lot
                                       ELSE IF SideOf(m, "Sell") THEN -Lot ELSE 0),
            quote |-> before[m].quote + (IF SideOf(m, "Buy") THEN -Price
                                         ELSE IF SideOf(m, "Sell") THEN Price ELSE 0)]]

(* The order in which members are revealed decides neither whether the      *)
(* batch executes nor what anyone gets: two coordinators, or a coordinator  *)
(* and a keyper that recomputes, cannot disagree on a result.               *)
OrderIndependent ==
  outcome # NotRun =>
    \A f \in Bijection(DOMAIN orders, DOMAIN orders) :
      LET other == net_batch(before, [i \in DOMAIN orders |-> orders[f[i]]]) IN
      IF Executed THEN other = outcome ELSE other.error # "None"

(* The residual sent to the venue accounts for the members' gains: what the *)
(* settle instruction moves for that side and number of lots is what the    *)
(* new balances add up to beyond the frozen ones.                           *)
ResidualCoversGains ==
  Executed =>
    LET lots == CASE outcome.residual.side = "Buy" -> outcome.residual.lots
                  [] outcome.residual.side = "Sell" -> -outcome.residual.lots
                  [] OTHER -> 0
    IN
    /\ totals(outcome.balances).base = totals(before).base + lots * Lot
    /\ totals(outcome.balances).quote = totals(before).quote - lots * Price

(* The conservation check at the end of net_batch never refuses a batch:    *)
(* once the loop accepted every order, the totals agree.                    *)
ConservationNeverRefuses == outcome # NotRun => outcome.error # "ConservationFailed"
=============================================================================
