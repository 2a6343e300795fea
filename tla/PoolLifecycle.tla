---------------------------- MODULE PoolLifecycle ----------------------------
(***************************************************************************)
(* What the on-chain program promises about a pool, without accounts,      *)
(* payloads, signatures or a clock.  An epoch opens with fixed terms,      *)
(* freezes one crowd, and then either trades one net residual with the     *)
(* pool's vaults or closes without touching them.                          *)
(***************************************************************************)
EXTENDS Integers

CONSTANTS
  EpochIds,
  Terms,      \* [lot, price, minimum] an epoch may open with
  NoTerms,
  Crowds,     \* sizes a locked crowd may have
  Trades      \* net lots a settlement may move: bought > 0, sold < 0

VARIABLES status, terms, crowd, traded, base, quote

vars == <<status, terms, crowd, traded, base, quote>>

Init ==
  /\ status = [e \in EpochIds |-> "None"]
  /\ terms = [e \in EpochIds |-> NoTerms]
  /\ crowd = [e \in EpochIds |-> 0]
  /\ traded = [e \in EpochIds |-> 0]
  /\ base = 0
  /\ quote = 0

Open(e) ==
  /\ status[e] = "None"
  /\ status' = [status EXCEPT ![e] = "Open"]
  /\ \E t \in Terms : t.minimum >= 4 /\ terms' = [terms EXCEPT ![e] = t]
  /\ UNCHANGED <<crowd, traded, base, quote>>

Lock(e) ==
  /\ status[e] = "Open"
  /\ status' = [status EXCEPT ![e] = "Locked"]
  /\ \E n \in Crowds : n >= terms[e].minimum /\ crowd' = [crowd EXCEPT ![e] = n]
  /\ UNCHANGED <<terms, traded, base, quote>>

Settle(e) ==
  /\ status[e] = "Locked"
  /\ status' = [status EXCEPT ![e] = "Settled"]
  /\ \E lots \in Trades :
       /\ traded' = [traded EXCEPT ![e] = lots]
       /\ base' = base + lots * terms[e].lot
       /\ quote' = quote - lots * terms[e].price
  /\ base' >= 0
  /\ quote' >= 0
  /\ UNCHANGED <<terms, crowd>>

Close(e) ==
  /\ status[e] \in {"Open", "Locked"}
  /\ status' = [status EXCEPT ![e] = IF @ = "Open" THEN "Expired" ELSE "Aborted"]
  /\ UNCHANGED <<terms, crowd, traded, base, quote>>

Fund ==
  /\ base' >= base
  /\ quote' >= quote
  /\ UNCHANGED <<status, terms, crowd, traded>>

Next ==
  \/ \E e \in EpochIds : Open(e) \/ Lock(e) \/ Settle(e) \/ Close(e)
  \/ Fund

Spec == Init /\ [][Next]_vars
=============================================================================
