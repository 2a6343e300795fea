------------------------- MODULE EpochProgramProofs -------------------------
(***************************************************************************)
(* Invariance of the on-chain program's safety properties, for every set   *)
(* of epochs, keys, arguments and payloads.                                *)
(*                                                                         *)
(* The inductive invariant is the conjunction of the four checked ones:    *)
(* TypeOK makes the vault arithmetic and the record updates meaningful,    *)
(* AccountsStayValid ties each epoch to the pool it was created under (and *)
(* shows that the pool is never written again), and the other two follow   *)
(* from them step by step.                                                 *)
(***************************************************************************)
EXTENDS EpochProgram, TLAPS

(* The empty chain has the right types. *)
LEMMA InitType == Init => TypeOK
  <1> SUFFICES ASSUME Init PROVE TypeOK
    OBVIOUS
  <1>1. NoPool \in PoolState
    BY KeysAssumption DEF NoPool, PoolState
  <1>2. NoEpoch \in EpochState
    BY DEF NoEpoch, EpochState, TerminalStates
  <1>3. VenueFunds.base \in Nat /\ VenueFunds.quote \in Nat
    BY AmountsAssumption
  <1> QED
    BY <1>1, <1>2, <1>3 DEF Init, TypeOK

(* The configuration built from a record and a pool of the right types is   *)
(* a configuration.                                                         *)
LEMMA ConfigurationType ==
  ASSUME NEW e \in EpochIds, NEW st \in EpochState, NEW pl \in PoolState
  PROVE  EpochConfiguration(e, st, pl) \in Configuration
  BY DEF EpochConfiguration, Configuration, EpochState, PoolState

(* create_epoch writes a record of the right types. *)
LEMMA CreateType ==
  ASSUME TypeOK, NEW e \in EpochIds, NEW args \in EpochArgs, create_epoch(e, args)
  PROVE  TypeOK'
  <1> DEFINE st == [NoEpoch EXCEPT
                  !.terminal_state = "Open",
                  !.minimum_count = args.minimum_count,
                  !.base_lot_atoms = pool.base_lot_atoms,
                  !.quote_atoms_per_lot = args.quote_atoms_per_lot,
                  !.lock_deadline = args.lock_deadline,
                  !.abort_deadline = args.abort_deadline]
  <1>1. st \in EpochState
    <2>1. NoEpoch \in EpochState
      BY DEF NoEpoch, EpochState, TerminalStates
    <2>2. /\ args.minimum_count \in Nat /\ args.quote_atoms_per_lot \in Nat
          /\ args.lock_deadline \in Int /\ args.abort_deadline \in Int
      BY EpochArgsAssumption
    <2>3. pool.base_lot_atoms \in Nat
      BY DEF TypeOK, PoolState
    <2> QED
      BY <2>1, <2>2, <2>3 DEF EpochState, TerminalStates
  <1>2. EpochConfiguration(e, st, pool) \in Configuration
    BY <1>1, ConfigurationType DEF TypeOK
  <1>3. [st EXCEPT !.configuration_hash = EpochConfiguration(e, st, pool)] \in EpochState
    BY <1>1, <1>2 DEF EpochState
  <1>4. epochs' = [epochs EXCEPT
           ![e] = [st EXCEPT !.configuration_hash = EpochConfiguration(e, st, pool)]]
    BY DEF create_epoch
  <1>5. epochs' \in [EpochIds -> EpochState]
    BY <1>3, <1>4 DEF TypeOK
  <1> QED
    BY <1>5 DEF TypeOK, create_epoch, vaults

(* lock copies the payload's fields into a record of the right types. *)
LEMMA LockType ==
  ASSUME TypeOK, NEW e \in EpochIds, NEW payload \in OfferedLocks, NEW signers,
         lock(e, payload, signers)
  PROVE  TypeOK'
  <1>1. payload \in LockPayload
    BY DEF TypeOK, OfferedLocks, LockPayload, EpochState
  <1>2. payload.member_count \in Nat
    BY <1>1, AmountsAssumption DEF LockPayload
  <1>3. /\ payload.pre_balance_root \in Roots /\ payload.member_root \in Roots
        /\ payload.lock_nonce \in Nonces
    BY <1>1 DEF LockPayload
  <1>4. epochs[e] \in EpochState
    BY DEF TypeOK
  <1>5. [epochs[e] EXCEPT
                  !.terminal_state = "Locked",
                  !.pre_balance_root = payload.pre_balance_root,
                  !.member_root = payload.member_root,
                  !.member_count = payload.member_count,
                  !.lock_digest = payload,
                  !.lock_nonce = payload.lock_nonce] \in EpochState
    BY <1>1, <1>2, <1>3, <1>4 DEF EpochState, TerminalStates
  <1>6. epochs' \in [EpochIds -> EpochState]
    BY <1>5 DEF TypeOK, lock
  <1> QED
    BY <1>6 DEF TypeOK, lock, vaults

(* settle keeps the types: the transfers never take more than a source holds. *)
LEMMA SettleType ==
  ASSUME TypeOK, NEW e \in EpochIds, NEW compact \in CompactSettlement, NEW signers,
         settle(e, compact, signers)
  PROVE  TypeOK'
  <1> DEFINE payload == settle_compact(e, compact)
             base_amount == payload.base_lot_atoms * payload.residual_lots
             quote_amount == payload.quote_atoms_per_lot * payload.residual_lots
  <1>1. epochs[e] \in EpochState
    BY DEF TypeOK
  <1>2. payload \in SettlementPayload
    BY <1>1 DEF settle_compact, SettlementPayload, EpochState, CompactSettlement
  <1>3. /\ payload.residual_lots \in Nat /\ payload.residual_side \in Nat
        /\ payload.base_lot_atoms \in Nat /\ payload.quote_atoms_per_lot \in Nat
        /\ payload.result_commitment \in Commitments /\ payload.settlement_nonce \in Nonces
    BY <1>2, AmountsAssumption DEF SettlementPayload
  <1>4. base_amount \in Nat /\ quote_amount \in Nat
    BY <1>3
  <1>5. transfer_residual(payload.residual_side, base_amount, quote_amount)
    BY DEF settle
  <1>6. /\ pool_base_vault' \in Nat /\ pool_quote_vault' \in Nat
        /\ venue_base_account' \in Nat /\ venue_quote_account' \in Nat
    <2> HIDE DEF base_amount, quote_amount, payload
    <2> QED
      BY <1>4, <1>5 DEF transfer_residual, vaults, TypeOK
  <1>7. [epochs[e] EXCEPT
                  !.terminal_state = "Settled",
                  !.residual_side = payload.residual_side,
                  !.residual_lots = payload.residual_lots,
                  !.result_commitment = payload.result_commitment,
                  !.settlement_digest = payload,
                  !.settlement_nonce = payload.settlement_nonce] \in EpochState
    <2> HIDE DEF payload
    <2> QED
      BY <1>1, <1>2, <1>3 DEF EpochState, TerminalStates
  <1>8. epochs' \in [EpochIds -> EpochState]
    BY <1>7 DEF TypeOK, settle
  <1> QED
    BY <1>6, <1>8 DEF TypeOK, settle

(* Every step keeps the types. *)
LEMMA NextType == TypeOK /\ [Next]_vars => TypeOK'
  <1> SUFFICES ASSUME TypeOK, [Next]_vars PROVE TypeOK'
    OBVIOUS
  <1>1. ASSUME NEW args \in PoolArgs, initialize_pool(args) PROVE TypeOK'
    <2>1. args \in [lock_threshold: Nat, settlement_threshold: Nat,
                    base_lot_atoms: Nat, keypers: [1..3 -> Keys]]
      BY PoolArgsAssumption
    <2> QED
      BY <1>1, <2>1 DEF initialize_pool, TypeOK, PoolState, vaults
  <1>2. ASSUME NEW e \in EpochIds, EpochStep(e) PROVE TypeOK'
    <2>1. ASSUME NEW args \in EpochArgs, create_epoch(e, args) PROVE TypeOK'
      BY <2>1, CreateType
    <2>2. ASSUME NEW payload \in OfferedLocks, NEW signers, lock(e, payload, signers)
          PROVE TypeOK'
      BY <2>2, LockType
    <2>3. ASSUME NEW compact \in CompactSettlement, NEW signers, settle(e, compact, signers)
          PROVE TypeOK'
      BY <2>3, SettleType
    <2>4. CASE expire(e)
      <3>1. [epochs[e] EXCEPT !.terminal_state = "Expired"] \in EpochState
        BY DEF TypeOK, EpochState, TerminalStates
      <3>2. epochs' \in [EpochIds -> EpochState]
        BY <2>4, <3>1 DEF expire, TypeOK
      <3> QED
        BY <2>4, <3>2 DEF expire, TypeOK, vaults
    <2>5. CASE abort(e)
      <3>1. [epochs[e] EXCEPT !.terminal_state = "Aborted"] \in EpochState
        BY DEF TypeOK, EpochState, TerminalStates
      <3>2. epochs' \in [EpochIds -> EpochState]
        BY <2>5, <3>1 DEF abort, TypeOK
      <3> QED
        BY <2>5, <3>2 DEF abort, TypeOK, vaults
    <2> QED
      BY <1>2, <2>1, <2>2, <2>3, <2>4, <2>5 DEF EpochStep
  <1>3. CASE Tick
    BY <1>3 DEF Tick, TypeOK, vaults
  <1>4. ASSUME NEW d \in Deposits, Deposit(d) PROVE TypeOK'
    <2>1. d \in [base: Nat, quote: Nat]
      BY AmountsAssumption
    <2> QED
      BY <1>4, <2>1 DEF Deposit, TypeOK
  <1>5. CASE UNCHANGED vars
    BY <1>5 DEF vars, vaults, TypeOK
  <1> QED
    BY <1>1, <1>2, <1>3, <1>4, <1>5 DEF Next

(* Type correctness of the program's accounts and of the token balances:    *)
(* in particular no transfer of a settlement drives a vault or a venue      *)
(* account below zero.                                                      *)
THEOREM TypeCorrect == Spec => []TypeOK
  BY InitType, NextType, PTL DEF Spec

-----------------------------------------------------------------------------
(* A step leaves an epoch alone, or it is one of the five instructions on   *)
(* that very epoch.                                                         *)
LEMMA EpochUntouched ==
  ASSUME TypeOK, [Next]_vars, NEW e \in EpochIds, ~EpochStep(e)
  PROVE  epochs'[e] = epochs[e]
  <1>1. ASSUME NEW x \in EpochIds, x # e, EpochStep(x) PROVE epochs'[e] = epochs[e]
    <2>1. ASSUME NEW args \in EpochArgs, create_epoch(x, args)
          PROVE  epochs'[e] = epochs[e]
      BY <1>1, <2>1 DEF create_epoch, TypeOK
    <2>2. ASSUME NEW payload, NEW signers, lock(x, payload, signers)
          PROVE  epochs'[e] = epochs[e]
      BY <1>1, <2>2 DEF lock, TypeOK
    <2>3. ASSUME NEW compact, NEW signers, settle(x, compact, signers)
          PROVE  epochs'[e] = epochs[e]
      BY <1>1, <2>3 DEF settle, TypeOK
    <2>4. CASE expire(x) \/ abort(x)
      BY <1>1, <2>4 DEF expire, abort, TypeOK
    <2> QED
      BY <1>1, <2>1, <2>2, <2>3, <2>4 DEF EpochStep
  <1>2. (\E args \in PoolArgs : initialize_pool(args)) => epochs' = epochs
    BY DEF initialize_pool
  <1>3. Tick => epochs' = epochs
    BY DEF Tick
  <1>4. (\E d \in Deposits : Deposit(d)) => epochs' = epochs
    BY DEF Deposit
  <1>5. UNCHANGED vars => epochs' = epochs
    BY DEF vars
  <1> QED
    BY <1>1, <1>2, <1>3, <1>4, <1>5 DEF Next

(* The pool is written once: a pool that passes its validation is the pool  *)
(* of every later state.                                                    *)
LEMMA PoolWrittenOnce ==
  ASSUME [Next]_vars, pool.initialized
  PROVE  pool' = pool
  <1>1. ASSUME NEW e \in EpochIds, EpochStep(e) PROVE pool' = pool
    <2>1. \A args : create_epoch(e, args) => pool' = pool
      BY DEF create_epoch
    <2>2. \A payload, signers : lock(e, payload, signers) => pool' = pool
      BY DEF lock
    <2>3. \A compact, signers : settle(e, compact, signers) => pool' = pool
      BY DEF settle
    <2>4. expire(e) \/ abort(e) => pool' = pool
      BY DEF expire, abort
    <2> QED
      BY <1>1, <2>1, <2>2, <2>3, <2>4 DEF EpochStep
  <1>2. ~\E args \in PoolArgs : initialize_pool(args)
    BY DEF initialize_pool
  <1>3. Tick \/ (\E d \in Deposits : Deposit(d)) \/ UNCHANGED vars => pool' = pool
    BY DEF Tick, Deposit, vars
  <1> QED
    BY <1>1, <1>2, <1>3 DEF Next

-----------------------------------------------------------------------------
(* What validate_epoch_state checks, as a relation between one record and a *)
(* pool.                                                                    *)
ValidRecord(e, st, pl) ==
  /\ st.terminal_state # "Uninitialized"
  /\ st.minimum_count >= 4
  /\ st.base_lot_atoms = pl.base_lot_atoms
  /\ st.quote_atoms_per_lot # 0
  /\ st.abort_deadline > st.lock_deadline
  /\ st.configuration_hash = EpochConfiguration(e, st, pl)

(* The fields validate_epoch_state reads. *)
SameTerms(a, b) ==
  /\ a.minimum_count = b.minimum_count
  /\ a.base_lot_atoms = b.base_lot_atoms
  /\ a.quote_atoms_per_lot = b.quote_atoms_per_lot
  /\ a.lock_deadline = b.lock_deadline
  /\ a.abort_deadline = b.abort_deadline
  /\ a.configuration_hash = b.configuration_hash

(* An instruction on an existing epoch keeps the fields it was created with. *)
LEMMA TermsKept ==
  ASSUME TypeOK, [Next]_vars, NEW e \in EpochIds,
         epochs[e].terminal_state # "Uninitialized"
  PROVE  SameTerms(epochs'[e], epochs[e]) /\ epochs'[e].terminal_state # "Uninitialized"
  <1>0. epochs \in [EpochIds -> EpochState] /\ epochs[e] \in EpochState
    BY DEF TypeOK
  <1>1. ~\E args \in EpochArgs : create_epoch(e, args)
    BY DEF create_epoch
  <1>2. ASSUME NEW payload, NEW signers, lock(e, payload, signers)
        PROVE  SameTerms(epochs'[e], epochs[e]) /\ epochs'[e].terminal_state = "Locked"
    BY <1>0, <1>2 DEF lock, SameTerms, EpochState
  <1>3. ASSUME NEW compact, NEW signers, settle(e, compact, signers)
        PROVE  SameTerms(epochs'[e], epochs[e]) /\ epochs'[e].terminal_state = "Settled"
    BY <1>0, <1>3 DEF settle, SameTerms, EpochState
  <1>4. ASSUME expire(e) \/ abort(e)
        PROVE  /\ SameTerms(epochs'[e], epochs[e])
               /\ epochs'[e].terminal_state \in {"Expired", "Aborted"}
    BY <1>0, <1>4 DEF expire, abort, SameTerms, EpochState
  <1>5. CASE EpochStep(e)
    BY <1>1, <1>2, <1>3, <1>4, <1>5 DEF EpochStep
  <1>6. CASE ~EpochStep(e)
    BY <1>6, EpochUntouched DEF SameTerms
  <1> QED
    BY <1>5, <1>6

(* An epoch comes into being only by create_epoch, under a valid pool and   *)
(* with arguments that pass the program's checks.                           *)
LEMMA CreatedValid ==
  ASSUME TypeOK, [Next]_vars, NEW e \in EpochIds,
         epochs[e].terminal_state = "Uninitialized",
         epochs'[e].terminal_state # "Uninitialized"
  PROVE  /\ validate_pool_state
         /\ ValidRecord(e, epochs'[e], pool)
         /\ epochs'[e].terminal_state = "Open"
         /\ epochs'[e].residual_lots = 0
  <1>1. EpochStep(e)
    BY EpochUntouched
  <1>2. PICK args \in EpochArgs : create_epoch(e, args)
    BY <1>1 DEF EpochStep, lock, settle, expire, abort
  <1>3. epochs'[e].configuration_hash = EpochConfiguration(e, epochs'[e], pool)
    BY <1>2 DEF create_epoch, TypeOK, NoEpoch, EpochConfiguration
  <1>4. /\ epochs'[e].terminal_state = "Open"
        /\ epochs'[e].residual_lots = 0
        /\ epochs'[e].minimum_count = args.minimum_count
        /\ epochs'[e].base_lot_atoms = pool.base_lot_atoms
        /\ epochs'[e].quote_atoms_per_lot = args.quote_atoms_per_lot
        /\ epochs'[e].lock_deadline = args.lock_deadline
        /\ epochs'[e].abort_deadline = args.abort_deadline
    BY <1>2 DEF create_epoch, TypeOK, NoEpoch
  <1> QED
    BY <1>2, <1>3, <1>4 DEF create_epoch, valid_epoch_args, ValidRecord

(* The program's own validation of pool and epoch is inductive. *)
LEMMA NextValid == TypeOK /\ AccountsStayValid /\ [Next]_vars => AccountsStayValid'
  <1> SUFFICES ASSUME TypeOK, AccountsStayValid, [Next]_vars, NEW e \in EpochIds,
                      epochs'[e].terminal_state # "Uninitialized"
               PROVE  validate_pool_state' /\ validate_epoch_state(e)'
    BY DEF AccountsStayValid
  <1>1. CASE epochs[e].terminal_state = "Uninitialized"
    <2>1. validate_pool_state /\ ValidRecord(e, epochs'[e], pool)
      BY <1>1, CreatedValid
    <2>2. pool' = pool
      BY <2>1, PoolWrittenOnce DEF validate_pool_state
    <2> QED
      BY <2>1, <2>2 DEF validate_pool_state, validate_epoch_state, ValidRecord, valid_pool_args
  <1>2. CASE epochs[e].terminal_state # "Uninitialized"
    <2>1. validate_pool_state /\ validate_epoch_state(e)
      BY <1>2 DEF AccountsStayValid
    <2>2. pool' = pool
      BY <2>1, PoolWrittenOnce DEF validate_pool_state
    <2>3. SameTerms(epochs'[e], epochs[e])
      BY <1>2, TermsKept
    <2> QED
      BY <2>1, <2>2, <2>3 DEF validate_pool_state, validate_epoch_state, SameTerms,
                              EpochConfiguration, valid_pool_args
  <1> QED
    BY <1>1, <1>2

(* Every account the program has written passes its own validation in every *)
(* later state, so no epoch can be reached that all instructions refuse for *)
(* that reason.                                                             *)
THEOREM AccountsValid == Spec => []AccountsStayValid
  <1>1. Init => AccountsStayValid
    BY DEF Init, AccountsStayValid, NoEpoch
  <1> QED
    BY <1>1, NextValid, TypeCorrect, PTL DEF Spec

-----------------------------------------------------------------------------
(* Both legs of a residual stay inside the pool-and-venue system. *)
LEMMA TransferConserves ==
  ASSUME TypeOK, NEW side, NEW base_amount \in Nat, NEW quote_amount \in Nat,
         transfer_residual(side, base_amount, quote_amount)
  PROVE  /\ pool_base_vault' + venue_base_account' = pool_base_vault + venue_base_account
         /\ pool_quote_vault' + venue_quote_account' = pool_quote_vault + venue_quote_account
  BY DEF TypeOK, transfer_residual, vaults

(* Deposits add to the vaults what they record; everything else conserves. *)
LEMMA NextConserves == TypeOK /\ TokenConservation /\ [Next]_vars => TokenConservation'
  <1> SUFFICES ASSUME TypeOK, TokenConservation, [Next]_vars PROVE TokenConservation'
    OBVIOUS
  <1>1. ASSUME NEW e \in EpochIds, NEW compact \in CompactSettlement, NEW signers,
               settle(e, compact, signers)
        PROVE  TokenConservation'
    <2> DEFINE payload == settle_compact(e, compact)
               base_amount == payload.base_lot_atoms * payload.residual_lots
               quote_amount == payload.quote_atoms_per_lot * payload.residual_lots
    <2>1. /\ payload.residual_lots \in Nat /\ payload.base_lot_atoms \in Nat
          /\ payload.quote_atoms_per_lot \in Nat
      BY AmountsAssumption DEF settle_compact, TypeOK, EpochState, CompactSettlement
    <2>2. base_amount \in Nat /\ quote_amount \in Nat
      BY <2>1
    <2>3. /\ transfer_residual(payload.residual_side, base_amount, quote_amount)
          /\ deposited' = deposited
      BY <1>1 DEF settle
    <2> HIDE DEF payload, base_amount, quote_amount
    <2> QED
      BY <2>2, <2>3, TransferConserves DEF TokenConservation
  <1>2. ASSUME NEW e \in EpochIds, EpochStep(e),
               ~\E compact \in CompactSettlement, signers \in SignerSets :
                  settle(e, compact, signers)
        PROVE  UNCHANGED <<vaults, deposited>>
    BY <1>2 DEF EpochStep, create_epoch, lock, expire, abort
  <1>3. ASSUME NEW d \in Deposits, Deposit(d) PROVE TokenConservation'
    <2>1. d \in [base: Nat, quote: Nat] /\ VenueFunds \in [base: Nat, quote: Nat]
      BY AmountsAssumption
    <2> QED
      BY <1>3, <2>1 DEF Deposit, TypeOK, TokenConservation
  <1>4. ASSUME (\E args \in PoolArgs : initialize_pool(args)) \/ Tick \/ UNCHANGED vars
        PROVE  UNCHANGED <<vaults, deposited>>
    BY <1>4 DEF initialize_pool, Tick, vars
  <1>5. UNCHANGED <<vaults, deposited>> => TokenConservation'
    BY DEF vaults, TokenConservation
  <1> QED
    BY <1>1, <1>2, <1>3, <1>4, <1>5 DEF Next

(* Aggregate token conservation, for any number of epochs and settlements. *)
THEOREM TokensConserved == Spec => []TokenConservation
  <1>1. Init => TokenConservation
    BY AmountsAssumption DEF Init, TokenConservation
  <1> QED
    BY <1>1, NextConserves, TypeCorrect, PTL DEF Spec

-----------------------------------------------------------------------------
(* What DigestsBindRecord says of one epoch's record. *)
LockBinds(e, st) ==
  st.terminal_state \in {"Locked", "Settled", "Aborted"} =>
    /\ st.lock_digest =
         [epoch_account |-> e, configuration_hash |-> st.configuration_hash,
          pre_balance_root |-> st.pre_balance_root, member_root |-> st.member_root,
          member_count |-> st.member_count, lock_deadline |-> st.lock_deadline,
          lock_nonce |-> st.lock_nonce]
    /\ st.member_count >= st.minimum_count
    /\ Zero \notin {st.pre_balance_root, st.member_root, st.lock_nonce}

SettlementBinds(e, st, lot) ==
  /\ st.terminal_state = "Settled" =>
       /\ st.settlement_digest =
            [epoch_account |-> e, lock_digest |-> st.lock_digest,
             result_commitment |-> st.result_commitment,
             residual_side |-> st.residual_side, residual_lots |-> st.residual_lots,
             base_lot_atoms |-> lot,
             quote_atoms_per_lot |-> st.quote_atoms_per_lot,
             settlement_nonce |-> st.settlement_nonce]
       /\ st.settlement_nonce \notin {Zero, st.lock_nonce}
  /\ st.terminal_state # "Settled" => st.residual_lots = 0

(* DigestsBindRecord is the two of them for every epoch. *)
LEMMA BindsEpochs ==
  DigestsBindRecord <=>
    \A e \in EpochIds : LockBinds(e, epochs[e]) /\ SettlementBinds(e, epochs[e], pool.base_lot_atoms)
  BY DEF DigestsBindRecord, LockBinds, SettlementBinds

(* A lock writes the record its digest commits to. *)
LEMMA LockEstablishes ==
  ASSUME TypeOK, NEW e \in EpochIds, NEW payload \in OfferedLocks, NEW signers,
         lock(e, payload, signers), SettlementBinds(e, epochs[e], pool.base_lot_atoms)
  PROVE  LockBinds(e, epochs'[e]) /\ SettlementBinds(e, epochs'[e], pool.base_lot_atoms)
  <1>1. epochs \in [EpochIds -> EpochState] /\ epochs[e] \in EpochState
    BY DEF TypeOK
  <1>2. epochs'[e] = [epochs[e] EXCEPT
                  !.terminal_state = "Locked",
                  !.pre_balance_root = payload.pre_balance_root,
                  !.member_root = payload.member_root,
                  !.member_count = payload.member_count,
                  !.lock_digest = payload,
                  !.lock_nonce = payload.lock_nonce]
    BY <1>1 DEF lock
  <1>3. lock_matches(e, payload) /\ epochs[e].terminal_state = "Open"
    BY DEF lock
  <1>4. payload = [epoch_account |-> e, configuration_hash |-> epochs[e].configuration_hash,
                   pre_balance_root |-> payload.pre_balance_root,
                   member_root |-> payload.member_root,
                   member_count |-> payload.member_count,
                   lock_deadline |-> epochs[e].lock_deadline,
                   lock_nonce |-> payload.lock_nonce]
    BY <1>3 DEF lock_matches, OfferedLocks
  <1>5. LockBinds(e, epochs'[e])
    BY <1>1, <1>2, <1>3, <1>4 DEF LockBinds, lock_matches, EpochState
  <1>6. SettlementBinds(e, epochs'[e], pool.base_lot_atoms)
    BY <1>1, <1>2, <1>3 DEF SettlementBinds, EpochState
  <1> QED
    BY <1>5, <1>6

(* A settlement keeps the locked package and stores what its digest         *)
(* commits to; the lot it signs is the pool's.                              *)
LEMMA SettleEstablishes ==
  ASSUME TypeOK, NEW e \in EpochIds, NEW compact \in CompactSettlement, NEW signers,
         settle(e, compact, signers), LockBinds(e, epochs[e])
  PROVE  LockBinds(e, epochs'[e]) /\ SettlementBinds(e, epochs'[e], pool.base_lot_atoms)
  <1> DEFINE payload == settle_compact(e, compact)
  <1>1. epochs \in [EpochIds -> EpochState] /\ epochs[e] \in EpochState
    BY DEF TypeOK
  <1>2. epochs'[e] = [epochs[e] EXCEPT
                  !.terminal_state = "Settled",
                  !.residual_side = payload.residual_side,
                  !.residual_lots = payload.residual_lots,
                  !.result_commitment = payload.result_commitment,
                  !.settlement_digest = payload,
                  !.settlement_nonce = payload.settlement_nonce]
    BY <1>1 DEF settle
  <1>3. /\ epochs[e].terminal_state = "Locked"
        /\ payload.settlement_nonce \notin {Zero, epochs[e].lock_nonce}
        /\ epochs[e].base_lot_atoms = pool.base_lot_atoms
    BY DEF settle, validate_epoch_state
  <1>4. payload = [epoch_account |-> e, lock_digest |-> epochs[e].lock_digest,
                   result_commitment |-> payload.result_commitment,
                   residual_side |-> payload.residual_side,
                   residual_lots |-> payload.residual_lots,
                   base_lot_atoms |-> pool.base_lot_atoms,
                   quote_atoms_per_lot |-> epochs[e].quote_atoms_per_lot,
                   settlement_nonce |-> payload.settlement_nonce]
    BY <1>3 DEF settle_compact
  <1> HIDE DEF payload
  <1>5. LockBinds(e, epochs'[e])
    BY <1>1, <1>2, <1>3 DEF LockBinds, EpochState
  <1>6. SettlementBinds(e, epochs'[e], pool.base_lot_atoms)
    BY <1>1, <1>2, <1>3, <1>4 DEF SettlementBinds, EpochState
  <1> QED
    BY <1>5, <1>6

(* Expiry and abort change the state byte alone. *)
LEMMA CloseKeepsBinding ==
  ASSUME TypeOK, NEW e \in EpochIds, expire(e) \/ abort(e),
         LockBinds(e, epochs[e]), SettlementBinds(e, epochs[e], pool.base_lot_atoms)
  PROVE  LockBinds(e, epochs'[e]) /\ SettlementBinds(e, epochs'[e], pool.base_lot_atoms)
  <1>1. epochs \in [EpochIds -> EpochState] /\ epochs[e] \in EpochState
    BY DEF TypeOK
  <1>2. CASE expire(e)
    BY <1>1, <1>2 DEF expire, LockBinds, SettlementBinds, EpochState
  <1>3. CASE abort(e)
    BY <1>1, <1>3 DEF abort, LockBinds, SettlementBinds, EpochState
  <1> QED
    BY <1>2, <1>3

(* A step that touches an epoch leaves its digests binding its record. *)
LEMMA NextBinds ==
  TypeOK /\ AccountsStayValid /\ DigestsBindRecord /\ [Next]_vars => DigestsBindRecord'
  <1> DEFINE Bound(e) == /\ LockBinds(e, epochs[e])
                         /\ SettlementBinds(e, epochs[e], pool.base_lot_atoms)
             BoundNext(e) == /\ LockBinds(e, epochs'[e])
                             /\ SettlementBinds(e, epochs'[e], pool.base_lot_atoms)
  <1> SUFFICES ASSUME TypeOK, AccountsStayValid, DigestsBindRecord, [Next]_vars,
                      NEW e \in EpochIds
               PROVE  /\ LockBinds(e, epochs'[e])
                      /\ SettlementBinds(e, epochs'[e], pool'.base_lot_atoms)
    BY DEF DigestsBindRecord, LockBinds, SettlementBinds
  <1>1. Bound(e)
    BY BindsEpochs
  <1>2. CASE epochs'[e].terminal_state = "Uninitialized"
    <2>1. epochs[e].terminal_state = "Uninitialized"
      BY <1>2, TermsKept
    <2>2. ~EpochStep(e)
      <3>1. ASSUME NEW args \in EpochArgs, create_epoch(e, args) PROVE FALSE
        <4> DEFINE st == [NoEpoch EXCEPT
                            !.terminal_state = "Open",
                            !.minimum_count = args.minimum_count,
                            !.base_lot_atoms = pool.base_lot_atoms,
                            !.quote_atoms_per_lot = args.quote_atoms_per_lot,
                            !.lock_deadline = args.lock_deadline,
                            !.abort_deadline = args.abort_deadline]
                   created == [st EXCEPT !.configuration_hash = EpochConfiguration(e, st, pool)]
        <4>1. epochs' = [epochs EXCEPT ![e] = created]
          BY <3>1 DEF create_epoch
        <4>2. created.terminal_state = "Open"
          BY DEF NoEpoch
        <4> HIDE DEF created
        <4>3. epochs'[e] = created
          BY <4>1 DEF TypeOK
        <4> QED
          BY <1>2, <4>2, <4>3
      <3> QED
        BY <2>1, <3>1 DEF EpochStep, lock, settle, expire, abort
    <2> QED
      BY <1>1, <2>1, <2>2, EpochUntouched DEF LockBinds, SettlementBinds
  <1>3. CASE epochs'[e].terminal_state # "Uninitialized" /\ epochs[e].terminal_state = "Uninitialized"
    BY <1>3, CreatedValid DEF LockBinds, SettlementBinds
  <1>4. CASE epochs[e].terminal_state # "Uninitialized"
    <2>1. pool' = pool
      BY <1>4, PoolWrittenOnce DEF AccountsStayValid, validate_pool_state
    <2>2. CASE EpochStep(e)
      <3>1. ~\E args \in EpochArgs : create_epoch(e, args)
        BY <1>4 DEF create_epoch
      <3>2. ASSUME NEW payload \in OfferedLocks, NEW signers, lock(e, payload, signers)
            PROVE  BoundNext(e)
        BY <1>1, <3>2, LockEstablishes
      <3>3. ASSUME NEW compact \in CompactSettlement, NEW signers, settle(e, compact, signers)
            PROVE  BoundNext(e)
        BY <1>1, <3>3, SettleEstablishes
      <3>4. ASSUME expire(e) \/ abort(e) PROVE BoundNext(e)
        BY <1>1, <3>4, CloseKeepsBinding
      <3> QED
        BY <2>1, <2>2, <3>1, <3>2, <3>3, <3>4 DEF EpochStep
    <2>3. CASE ~EpochStep(e)
      BY <1>1, <2>1, <2>3, EpochUntouched
    <2> QED
      BY <2>2, <2>3
  <1> QED
    BY <1>2, <1>3, <1>4

(* The stored record of a locked epoch is the one its lock digest commits   *)
(* to, and a settled epoch's settlement digest commits to that lock.        *)
THEOREM DigestsBind == Spec => []DigestsBindRecord
  <1>1. Init => DigestsBindRecord
    BY DEF Init, DigestsBindRecord, NoEpoch
  <1> QED
    BY <1>1, NextBinds, TypeCorrect, AccountsValid, PTL DEF Spec

-----------------------------------------------------------------------------
(* A terminal epoch is never written again, and settle or abort keep the    *)
(* package a lock froze.                                                    *)
THEOREM PackageFrozen == Spec => LockedPackageFrozen
  <1> DEFINE Frozen ==
        \A e \in EpochIds :
          /\ epochs[e].terminal_state \in {"Settled", "Expired", "Aborted"} =>
               epochs'[e] = epochs[e]
          /\ epochs[e].terminal_state = "Locked" =>
               /\ epochs'[e].lock_digest = epochs[e].lock_digest
               /\ epochs'[e].member_root = epochs[e].member_root
               /\ epochs'[e].pre_balance_root = epochs[e].pre_balance_root
               /\ epochs'[e].member_count = epochs[e].member_count
  <1>1. TypeOK /\ [Next]_vars => [Frozen]_vars
    <2> SUFFICES ASSUME TypeOK, [Next]_vars, NEW e \in EpochIds,
                        epochs[e].terminal_state \notin {"Uninitialized", "Open"}
                 PROVE  /\ epochs[e].terminal_state # "Locked" => epochs'[e] = epochs[e]
                        /\ epochs[e].terminal_state = "Locked" =>
                             /\ epochs'[e].lock_digest = epochs[e].lock_digest
                             /\ epochs'[e].member_root = epochs[e].member_root
                             /\ epochs'[e].pre_balance_root = epochs[e].pre_balance_root
                             /\ epochs'[e].member_count = epochs[e].member_count
      OBVIOUS
    <2>1. epochs \in [EpochIds -> EpochState] /\ epochs[e] \in EpochState
      BY DEF TypeOK
    <2>2. CASE ~EpochStep(e)
      BY <2>2, EpochUntouched
    <2>3. CASE EpochStep(e)
      <3>1. /\ ~\E args \in EpochArgs : create_epoch(e, args)
            /\ ~\E payload \in OfferedLocks, signers \in SignerSets : lock(e, payload, signers)
            /\ ~expire(e)
        BY DEF create_epoch, lock, expire
      <3>2. ASSUME NEW compact, NEW signers, settle(e, compact, signers)
            PROVE  /\ epochs[e].terminal_state = "Locked"
                   /\ epochs'[e].lock_digest = epochs[e].lock_digest
                   /\ epochs'[e].member_root = epochs[e].member_root
                   /\ epochs'[e].pre_balance_root = epochs[e].pre_balance_root
                   /\ epochs'[e].member_count = epochs[e].member_count
        BY <2>1, <3>2 DEF settle, EpochState
      <3>3. ASSUME abort(e)
            PROVE  /\ epochs[e].terminal_state = "Locked"
                   /\ epochs'[e].lock_digest = epochs[e].lock_digest
                   /\ epochs'[e].member_root = epochs[e].member_root
                   /\ epochs'[e].pre_balance_root = epochs[e].pre_balance_root
                   /\ epochs'[e].member_count = epochs[e].member_count
        BY <2>1, <3>3 DEF abort, EpochState
      <3> QED
        BY <2>3, <3>1, <3>2, <3>3 DEF EpochStep
    <2> QED
      BY <2>2, <2>3
  <1> QED
    BY <1>1, TypeCorrect, PTL DEF Spec, LockedPackageFrozen
=============================================================================
