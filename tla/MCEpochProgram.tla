--------------------------- MODULE MCEpochProgram ---------------------------
(***************************************************************************)
(* EpochProgram for TLC: every input set holds values the handlers accept  *)
(* and values they refuse.                                                 *)
(***************************************************************************)
EXTENDS EpochProgram, FiniteSetsExt

CONSTANTS k1, k2, k3, none, zero, r1, n1, n2, c1

MCKeys == {none, k1, k2, k3}
MCSignerSets == {{}, {k1, none}, {k1, k3}}
MCRoots == {zero, r1}
MCNonces == {zero, n1, n2}
MCCommitments == {zero, c1}

Trio(a, b, c) == [i \in 1..3 |-> CASE i = 1 -> a [] i = 2 -> b [] OTHER -> c]

MCPoolArgs ==
  {[lock_threshold |-> t, settlement_threshold |-> 2, base_lot_atoms |-> l, keypers |-> ks] :
     t \in {1, 2}, l \in {0, 2},
     ks \in {Trio(k1, k2, k3), Trio(k1, k1, k3), Trio(k1, none, k3)}}

MCEpochArgs ==
  [minimum_count: {3, 4}, quote_atoms_per_lot: {0, 3},
   lock_deadline: {1, 2}, abort_deadline: {2, 3}]

MCDeposits == {[base |-> 2, quote |-> 3]}
MCVenueFunds == [base |-> 2, quote |-> 3]

-----------------------------------------------------------------------------
SignedLots(e) ==
  CASE epochs[e].residual_side = 1 -> epochs[e].residual_lots
    [] epochs[e].residual_side = 2 -> -epochs[e].residual_lots
    [] OTHER -> 0

(* The vaults hold what participants deposited plus, once for every settled *)
(* epoch, exactly its residual at that epoch's lot and price: no settlement *)
(* is executed twice, in the wrong direction, or for an epoch that expired  *)
(* or aborted.                                                              *)
VaultsHoldResiduals ==
  /\ pool_base_vault = deposited.base
       + MapThenSumSet(LAMBDA e : SignedLots(e) * epochs[e].base_lot_atoms, EpochIds)
  /\ pool_quote_vault = deposited.quote
       - MapThenSumSet(LAMBDA e : SignedLots(e) * epochs[e].quote_atoms_per_lot, EpochIds)

(* The refinement mapping onto PoolLifecycle. *)
Lifecycle == INSTANCE PoolLifecycle WITH
  Terms <- [lot: {2}, price: {3}, minimum: {3, 4}],
  NoTerms <- zero,
  Crowds <- Counts,
  Trades <- {-x : x \in Lots} \cup Lots,
  status <- [e \in EpochIds |->
               IF epochs[e].terminal_state = "Uninitialized" THEN "None"
               ELSE epochs[e].terminal_state],
  terms <- [e \in EpochIds |->
              IF epochs[e].terminal_state = "Uninitialized" THEN zero
              ELSE [lot |-> epochs[e].base_lot_atoms,
                    price |-> epochs[e].quote_atoms_per_lot,
                    minimum |-> epochs[e].minimum_count]],
  crowd <- [e \in EpochIds |-> epochs[e].member_count],
  traded <- [e \in EpochIds |-> SignedLots(e)],
  base <- pool_base_vault,
  quote <- pool_quote_vault

(* The program implements the abstract pool: each epoch opens, freezes one  *)
(* sufficient crowd and trades at most one residual, in every interleaving  *)
(* of the instructions of its epochs.                                       *)
ImplementsLifecycle == Lifecycle!Spec
=============================================================================
