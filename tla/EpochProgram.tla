---------------------------- MODULE EpochProgram ----------------------------
(***************************************************************************)
(* The on-chain program: one pool, its epochs, the two pool vaults and the *)
(* venue's two token accounts.  One action per instruction.                *)
(*                                                                         *)
(* A Solana transaction is atomic: a handler that returns an error leaves  *)
(* every account as it was, so a refused instruction is no step at all and *)
(* each early return is a conjunct of the action's guard.  The account     *)
(* list of an instruction (flags, owners, addresses, mints) is fixed by    *)
(* the handler's checks to the pool's own accounts, which is why the       *)
(* actions name those accounts directly.  Digests are collision free: a    *)
(* digest is represented by the payload it is computed from.               *)
(***************************************************************************)
EXTENDS Integers, FiniteSets

CONSTANTS
  EpochIds,           \* epoch ids an operator may use under this pool
  Keys,               \* Ed25519 public keys
  SignerSets,         \* sets of keys whose signatures a transaction may carry
  DefaultKey,         \* Pubkey::default()
  Zero,               \* the all-zero 32-byte string
  Roots,              \* balance and member roots a payload may carry
  Nonces,             \* lock and settlement nonces a payload may carry
  Commitments,        \* result commitments a payload may carry
  Counts,             \* member counts a payload may carry
  Sides,              \* residual_side bytes a payload may carry
  Lots,               \* residual_lots a payload may carry
  PoolArgs,           \* InitializePool arguments
  EpochArgs,          \* CreateEpoch arguments
  Deposits,           \* [base, quote] amounts participants may transfer in
  VenueFunds,         \* [base, quote] the venue starts with
  MaxDeposited,       \* bound on the deposits of either token
  MaxTime,            \* bound on the clock
  U64Max

ASSUME KeysAssumption == DefaultKey \in Keys /\ SignerSets \subseteq SUBSET Keys

ASSUME PoolArgsAssumption ==
  PoolArgs \subseteq [lock_threshold: Nat, settlement_threshold: Nat,
                      base_lot_atoms: Nat, keypers: [1..3 -> Keys]]

ASSUME EpochArgsAssumption ==
  EpochArgs \subseteq [minimum_count: Nat, quote_atoms_per_lot: Nat,
                       lock_deadline: Int, abort_deadline: Int]

ASSUME AmountsAssumption ==
  /\ Counts \subseteq Nat /\ Lots \subseteq Nat /\ Sides \subseteq Nat
  /\ Deposits \subseteq [base: Nat, quote: Nat]
  /\ VenueFunds \in [base: Nat, quote: Nat]
  /\ MaxDeposited \in Nat /\ MaxTime \in Int /\ U64Max \in Nat

VARIABLES
  clock,                \* Clock sysvar, unix_timestamp
  pool,                 \* the pool account
  epochs,               \* the epoch account of each epoch id
  pool_base_vault, pool_quote_vault, venue_base_account, venue_quote_account,
  deposited             \* history: what participants transferred into the vaults

vaults == <<pool_base_vault, pool_quote_vault, venue_base_account, venue_quote_account>>
vars == <<clock, pool, epochs, vaults, deposited>>

-----------------------------------------------------------------------------
(* State *)

Configuration ==
  [epoch_id: EpochIds, base_lot_atoms: Nat, quote_atoms_per_lot: Nat, minimum_count: Nat,
   lock_threshold: Nat, settlement_threshold: Nat, keypers: [1..3 -> Keys],
   lock_deadline: Int, abort_deadline: Int]

LockPayload ==
  [epoch_account: EpochIds, configuration_hash: Configuration \cup {Zero},
   pre_balance_root: Roots, member_root: Roots, member_count: Counts,
   lock_deadline: Int, lock_nonce: Nonces]

CompactSettlement ==
  [result_commitment: Commitments, residual_side: Sides, residual_lots: Lots,
   settlement_nonce: Nonces]

SettlementPayload ==
  [epoch_account: EpochIds, lock_digest: LockPayload \cup {Zero},
   result_commitment: Commitments, residual_side: Sides, residual_lots: Lots,
   base_lot_atoms: Nat, quote_atoms_per_lot: Nat, settlement_nonce: Nonces]

TerminalStates == {"Uninitialized", "Open", "Locked", "Settled", "Expired", "Aborted"}

EpochState ==
  [terminal_state: TerminalStates, configuration_hash: Configuration \cup {Zero},
   pre_balance_root: Roots \cup {Zero}, member_root: Roots \cup {Zero},
   lock_digest: LockPayload \cup {Zero}, lock_nonce: Nonces \cup {Zero},
   result_commitment: Commitments \cup {Zero},
   settlement_digest: SettlementPayload \cup {Zero}, settlement_nonce: Nonces \cup {Zero},
   member_count: Nat, minimum_count: Nat, residual_side: Nat, residual_lots: Nat,
   base_lot_atoms: Nat, quote_atoms_per_lot: Nat, lock_deadline: Int, abort_deadline: Int]

PoolState ==
  [initialized: BOOLEAN, lock_threshold: Nat, settlement_threshold: Nat,
   base_lot_atoms: Nat, keypers: [1..3 -> Keys]]

NoPool ==
  [initialized |-> FALSE, lock_threshold |-> 0, settlement_threshold |-> 0,
   base_lot_atoms |-> 0, keypers |-> [i \in 1..3 |-> DefaultKey]]

NoEpoch ==
  [terminal_state |-> "Uninitialized", configuration_hash |-> Zero,
   pre_balance_root |-> Zero, member_root |-> Zero, lock_digest |-> Zero,
   lock_nonce |-> Zero, result_commitment |-> Zero, settlement_digest |-> Zero,
   settlement_nonce |-> Zero, member_count |-> 0, minimum_count |-> 0,
   residual_side |-> 0, residual_lots |-> 0, base_lot_atoms |-> 0,
   quote_atoms_per_lot |-> 0, lock_deadline |-> 0, abort_deadline |-> 0]

(* The configuration an epoch record commits to, under a given pool. *)
EpochConfiguration(e, st, pl) ==
  [epoch_id |-> e, base_lot_atoms |-> pl.base_lot_atoms,
   quote_atoms_per_lot |-> st.quote_atoms_per_lot, minimum_count |-> st.minimum_count,
   lock_threshold |-> pl.lock_threshold, settlement_threshold |-> pl.settlement_threshold,
   keypers |-> pl.keypers,
   lock_deadline |-> st.lock_deadline, abort_deadline |-> st.abort_deadline]

-----------------------------------------------------------------------------
(* Validation helpers *)

three_distinct(keypers) ==
  /\ keypers[1] # keypers[2]
  /\ keypers[1] # keypers[3]
  /\ keypers[2] # keypers[3]

valid_pool_args(args) ==
  /\ args.lock_threshold = 2
  /\ args.settlement_threshold = 2
  /\ args.base_lot_atoms # 0
  /\ \A i \in 1..3 : args.keypers[i] # DefaultKey
  /\ three_distinct(args.keypers)

(* Mutant: the abort deadline may equal the lock deadline. *)
valid_epoch_args_loose(args) ==
  /\ args.minimum_count >= 4
  /\ args.quote_atoms_per_lot # 0
  /\ args.lock_deadline > clock
  /\ args.abort_deadline >= args.lock_deadline

valid_epoch_args(args) ==
  /\ args.minimum_count >= 4
  /\ args.quote_atoms_per_lot # 0
  /\ args.lock_deadline > clock
  /\ args.abort_deadline > args.lock_deadline

validate_pool_state ==
  /\ pool.initialized
  /\ valid_pool_args(pool)

validate_epoch_state(e) ==
  LET st == epochs[e] IN
  /\ st.terminal_state # "Uninitialized"
  /\ st.minimum_count >= 4
  /\ st.base_lot_atoms = pool.base_lot_atoms
  /\ st.quote_atoms_per_lot # 0
  /\ st.abort_deadline > st.lock_deadline
  /\ st.configuration_hash = EpochConfiguration(e, st, pool)

valid_residual(side, lots) ==
  \/ side = 0 /\ lots = 0
  \/ side \in {1, 2} /\ lots >= 1

(* The configured keypers that signed the digest in instructions before   *)
(* this one: a second signature of the same keyper, or of a key that is   *)
(* not configured, adds nothing.                                          *)
count_preceding_keypers(signers) ==
  Cardinality({i \in 1..3 : pool.keypers[i] \in signers})

-----------------------------------------------------------------------------
(* Instructions *)

initialize_pool(args) ==
  /\ ~pool.initialized
  /\ valid_pool_args(args)
  /\ pool' = [initialized |-> TRUE, lock_threshold |-> args.lock_threshold,
              settlement_threshold |-> args.settlement_threshold,
              base_lot_atoms |-> args.base_lot_atoms, keypers |-> args.keypers]
  /\ UNCHANGED <<clock, epochs, vaults, deposited>>

create_epoch(e, args) ==
  /\ validate_pool_state
  /\ valid_epoch_args(args)
  /\ epochs[e].terminal_state = "Uninitialized"
  /\ LET st == [NoEpoch EXCEPT
                  !.terminal_state = "Open",
                  !.minimum_count = args.minimum_count,
                  !.base_lot_atoms = pool.base_lot_atoms,
                  !.quote_atoms_per_lot = args.quote_atoms_per_lot,
                  !.lock_deadline = args.lock_deadline,
                  !.abort_deadline = args.abort_deadline]
     IN epochs' = [epochs EXCEPT
                     ![e] = [st EXCEPT !.configuration_hash = EpochConfiguration(e, st, pool)]]
  /\ UNCHANGED <<clock, pool, vaults, deposited>>

(* Mutant: the payload's configuration is not compared with the epoch's. *)
lock_matches_any_configuration(e, payload) ==
  /\ payload.epoch_account = e
  /\ payload.lock_deadline = epochs[e].lock_deadline
  /\ payload.lock_nonce # Zero
  /\ payload.pre_balance_root # Zero
  /\ payload.member_root # Zero
  /\ payload.member_count >= epochs[e].minimum_count

lock_matches(e, payload) ==
  /\ payload.epoch_account = e
  /\ payload.configuration_hash = epochs[e].configuration_hash
  /\ payload.lock_deadline = epochs[e].lock_deadline
  /\ payload.lock_nonce # Zero
  /\ payload.pre_balance_root # Zero
  /\ payload.member_root # Zero
  /\ payload.member_count >= epochs[e].minimum_count

lock(e, payload, signers) ==
  /\ validate_pool_state
  /\ validate_epoch_state(e)
  /\ epochs[e].terminal_state = "Open"
  /\ clock < epochs[e].lock_deadline
  /\ lock_matches(e, payload)
  /\ count_preceding_keypers(signers) >= pool.lock_threshold
  /\ epochs' = [epochs EXCEPT ![e] = [@ EXCEPT
                  !.terminal_state = "Locked",
                  !.pre_balance_root = payload.pre_balance_root,
                  !.member_root = payload.member_root,
                  !.member_count = payload.member_count,
                  !.lock_digest = payload,
                  !.lock_nonce = payload.lock_nonce]]
  /\ UNCHANGED <<clock, pool, vaults, deposited>>

(* settle_compact rebuilds the signed payload from the epoch account. *)
settle_compact(e, compact) ==
  [epoch_account |-> e, lock_digest |-> epochs[e].lock_digest,
   result_commitment |-> compact.result_commitment,
   residual_side |-> compact.residual_side, residual_lots |-> compact.residual_lots,
   base_lot_atoms |-> epochs[e].base_lot_atoms,
   quote_atoms_per_lot |-> epochs[e].quote_atoms_per_lot,
   settlement_nonce |-> compact.settlement_nonce]

(* Mutant: the sources' balances are not checked. *)
transfer_residual_unchecked(side, base_amount, quote_amount) ==
  LET sign == CASE side = 0 -> 0 [] side = 1 -> 1 [] OTHER -> -1 IN
  /\ pool_base_vault' = pool_base_vault + sign * base_amount
  /\ venue_base_account' = venue_base_account - sign * base_amount
  /\ pool_quote_vault' = pool_quote_vault - sign * quote_amount
  /\ venue_quote_account' = venue_quote_account + sign * quote_amount

(* Mutant: a buy residual is paid but its base leg never leaves the venue. *)
transfer_residual_one_source(side, base_amount, quote_amount) ==
  /\ side = 1
  /\ pool_quote_vault >= quote_amount
  /\ pool_quote_vault' = pool_quote_vault - quote_amount
  /\ venue_quote_account' = venue_quote_account + quote_amount
  /\ pool_base_vault' = pool_base_vault + base_amount
  /\ UNCHANGED venue_base_account

(* Mutant: sells are executed as buys. *)
transfer_residual_reversed(side, base_amount, quote_amount) ==
  /\ side = 2
  /\ pool_quote_vault >= quote_amount
  /\ venue_base_account >= base_amount
  /\ pool_quote_vault' = pool_quote_vault - quote_amount
  /\ venue_quote_account' = venue_quote_account + quote_amount
  /\ venue_base_account' = venue_base_account - base_amount
  /\ pool_base_vault' = pool_base_vault + base_amount

(* The two transfers of a residual; a source that cannot pay fails both. *)
transfer_residual(side, base_amount, quote_amount) ==
  \/ /\ side = 0
     /\ UNCHANGED vaults
  \/ /\ side = 1
     /\ pool_quote_vault >= quote_amount
     /\ venue_base_account >= base_amount
     /\ pool_quote_vault' = pool_quote_vault - quote_amount
     /\ venue_quote_account' = venue_quote_account + quote_amount
     /\ venue_base_account' = venue_base_account - base_amount
     /\ pool_base_vault' = pool_base_vault + base_amount
  \/ /\ side = 2
     /\ pool_base_vault >= base_amount
     /\ venue_quote_account >= quote_amount
     /\ pool_base_vault' = pool_base_vault - base_amount
     /\ venue_base_account' = venue_base_account + base_amount
     /\ venue_quote_account' = venue_quote_account - quote_amount
     /\ pool_quote_vault' = pool_quote_vault + quote_amount

settle(e, compact, signers) ==
  LET payload == settle_compact(e, compact)
      base_amount == payload.base_lot_atoms * payload.residual_lots
      quote_amount == payload.quote_atoms_per_lot * payload.residual_lots
  IN
  /\ validate_pool_state
  /\ validate_epoch_state(e)
  /\ epochs[e].terminal_state = "Locked"
  /\ clock <= epochs[e].abort_deadline
  /\ payload.result_commitment # Zero
  /\ payload.settlement_nonce # Zero
  /\ payload.settlement_nonce # epochs[e].lock_nonce
  /\ valid_residual(payload.residual_side, payload.residual_lots)
  /\ count_preceding_keypers(signers) >= pool.settlement_threshold
  /\ base_amount <= U64Max
  /\ quote_amount <= U64Max
  /\ transfer_residual(payload.residual_side, base_amount, quote_amount)
  /\ epochs' = [epochs EXCEPT ![e] = [@ EXCEPT
                  !.terminal_state = "Settled",
                  !.residual_side = payload.residual_side,
                  !.residual_lots = payload.residual_lots,
                  !.result_commitment = payload.result_commitment,
                  !.settlement_digest = payload,
                  !.settlement_nonce = payload.settlement_nonce]]
  /\ UNCHANGED <<clock, pool, deposited>>

(* Mutant: a locked epoch expires as well. *)
expire_locked(e) ==
  /\ validate_pool_state
  /\ validate_epoch_state(e)
  /\ epochs[e].terminal_state \in {"Open", "Locked"}
  /\ clock > epochs[e].lock_deadline
  /\ epochs' = [epochs EXCEPT ![e].terminal_state = "Expired"]
  /\ UNCHANGED <<clock, pool, vaults, deposited>>

expire(e) ==
  /\ validate_pool_state
  /\ validate_epoch_state(e)
  /\ epochs[e].terminal_state = "Open"
  /\ clock > epochs[e].lock_deadline
  /\ epochs' = [epochs EXCEPT ![e].terminal_state = "Expired"]
  /\ UNCHANGED <<clock, pool, vaults, deposited>>

(* Mutants: abort at the deadline itself, of a settled epoch, and only of   *)
(* an open one.                                                             *)
abort_at_deadline(e) ==
  /\ validate_pool_state
  /\ validate_epoch_state(e)
  /\ epochs[e].terminal_state = "Locked"
  /\ clock >= epochs[e].abort_deadline
  /\ epochs' = [epochs EXCEPT ![e].terminal_state = "Aborted"]
  /\ UNCHANGED <<clock, pool, vaults, deposited>>

abort_settled(e) ==
  /\ validate_pool_state
  /\ validate_epoch_state(e)
  /\ epochs[e].terminal_state \in {"Locked", "Settled"}
  /\ clock > epochs[e].abort_deadline
  /\ epochs' = [epochs EXCEPT ![e].terminal_state = "Aborted"]
  /\ UNCHANGED <<clock, pool, vaults, deposited>>

abort_open(e) ==
  /\ validate_pool_state
  /\ validate_epoch_state(e)
  /\ epochs[e].terminal_state = "Open"
  /\ clock > epochs[e].abort_deadline
  /\ epochs' = [epochs EXCEPT ![e].terminal_state = "Aborted"]
  /\ UNCHANGED <<clock, pool, vaults, deposited>>

abort(e) ==
  /\ validate_pool_state
  /\ validate_epoch_state(e)
  /\ epochs[e].terminal_state = "Locked"
  /\ clock > epochs[e].abort_deadline
  /\ epochs' = [epochs EXCEPT ![e].terminal_state = "Aborted"]
  /\ UNCHANGED <<clock, pool, vaults, deposited>>

-----------------------------------------------------------------------------
(* The environment: time, and participants funding the vaults. *)

Tick ==
  /\ clock < MaxTime
  /\ clock' = clock + 1
  /\ UNCHANGED <<pool, epochs, vaults, deposited>>

Deposit(d) ==
  /\ deposited.base + d.base <= MaxDeposited
  /\ deposited.quote + d.quote <= MaxDeposited
  /\ pool_base_vault' = pool_base_vault + d.base
  /\ pool_quote_vault' = pool_quote_vault + d.quote
  /\ deposited' = [base |-> deposited.base + d.base, quote |-> deposited.quote + d.quote]
  /\ UNCHANGED <<clock, pool, epochs, venue_base_account, venue_quote_account>>

(* The payloads someone may submit: values of the chain's epochs, right or *)
(* wrong for this one.                                                     *)
OfferedLocks ==
  [epoch_account: EpochIds,
   configuration_hash: {epochs[x].configuration_hash : x \in EpochIds},
   pre_balance_root: Roots, member_root: Roots, member_count: Counts,
   lock_deadline: {epochs[x].lock_deadline : x \in EpochIds}, lock_nonce: Nonces]

Init ==
  /\ clock = 0
  /\ pool = NoPool
  /\ epochs = [e \in EpochIds |-> NoEpoch]
  /\ pool_base_vault = 0
  /\ pool_quote_vault = 0
  /\ venue_base_account = VenueFunds.base
  /\ venue_quote_account = VenueFunds.quote
  /\ deposited = [base |-> 0, quote |-> 0]

EpochStep(e) ==
  \/ \E args \in EpochArgs : create_epoch(e, args)
  \/ \E payload \in OfferedLocks, signers \in SignerSets : lock(e, payload, signers)
  \/ \E compact \in CompactSettlement, signers \in SignerSets : settle(e, compact, signers)
  \/ expire(e)
  \/ abort(e)

Next ==
  \/ \E args \in PoolArgs : initialize_pool(args)
  \/ \E e \in EpochIds : EpochStep(e)
  \/ Tick
  \/ \E d \in Deposits : Deposit(d)

Spec == Init /\ [][Next]_vars

(* Time passes, and expiry and abort need no particular caller: whoever   *)
(* wants an epoch closed can close it.                                    *)
FairSpec ==
  /\ Spec
  /\ WF_vars(Tick)
  /\ \A e \in EpochIds : WF_vars(expire(e)) /\ WF_vars(abort(e))

-----------------------------------------------------------------------------
(* Properties *)

TypeOK ==
  /\ clock \in Int
  /\ pool \in PoolState
  /\ epochs \in [EpochIds -> EpochState]
  /\ pool_base_vault \in Nat
  /\ pool_quote_vault \in Nat
  /\ venue_base_account \in Nat
  /\ venue_quote_account \in Nat
  /\ deposited \in [base: Nat, quote: Nat]

(* Every pool or epoch account the program has written passes the           *)
(* program's own validate_pool_state and validate_epoch_state in every      *)
(* later state: no sequence of instructions leaves an epoch that lock,      *)
(* settle, expire and abort would all refuse.                               *)
AccountsStayValid ==
  \A e \in EpochIds :
    epochs[e].terminal_state # "Uninitialized" =>
      validate_pool_state /\ validate_epoch_state(e)

(* An epoch that was ever locked stores exactly the package its lock digest *)
(* commits to, of this epoch and configuration, with at least the           *)
(* configured crowd; and a settled epoch's settlement digest commits to     *)
(* that lock digest under a nonce of its own.  Nothing later rewrites       *)
(* either side (lock and settle write the fields one by one).               *)
DigestsBindRecord ==
  \A e \in EpochIds :
    LET st == epochs[e] IN
    /\ st.terminal_state \in {"Locked", "Settled", "Aborted"} =>
         /\ st.lock_digest =
              [epoch_account |-> e, configuration_hash |-> st.configuration_hash,
               pre_balance_root |-> st.pre_balance_root, member_root |-> st.member_root,
               member_count |-> st.member_count, lock_deadline |-> st.lock_deadline,
               lock_nonce |-> st.lock_nonce]
         /\ st.member_count >= st.minimum_count
         /\ Zero \notin {st.pre_balance_root, st.member_root, st.lock_nonce}
    /\ st.terminal_state = "Settled" =>
         /\ st.settlement_digest =
              [epoch_account |-> e, lock_digest |-> st.lock_digest,
               result_commitment |-> st.result_commitment,
               residual_side |-> st.residual_side, residual_lots |-> st.residual_lots,
               base_lot_atoms |-> pool.base_lot_atoms,
               quote_atoms_per_lot |-> st.quote_atoms_per_lot,
               settlement_nonce |-> st.settlement_nonce]
         /\ st.settlement_nonce \notin {Zero, st.lock_nonce}
    /\ st.terminal_state # "Settled" => st.residual_lots = 0

(* Tokens only move between the pool and the venue: what the two hold of    *)
(* each mint is what participants paid in and the venue brought, whatever   *)
(* settlements the program executed ("aggregate token conservation").       *)
TokenConservation ==
  /\ pool_base_vault + venue_base_account = deposited.base + VenueFunds.base
  /\ pool_quote_vault + venue_quote_account = deposited.quote + VenueFunds.quote

(* Once locked, the package an epoch froze never changes, and once          *)
(* terminal its account never changes at all.                               *)
LockedPackageFrozen ==
  [][\A e \in EpochIds :
       /\ epochs[e].terminal_state \in {"Settled", "Expired", "Aborted"} =>
            epochs'[e] = epochs[e]
       /\ epochs[e].terminal_state = "Locked" =>
            /\ epochs'[e].lock_digest = epochs[e].lock_digest
            /\ epochs'[e].member_root = epochs[e].member_root
            /\ epochs'[e].pre_balance_root = epochs[e].pre_balance_root
            /\ epochs'[e].member_count = epochs[e].member_count]_vars

(* No instant lets two transactions racing for one epoch decide it          *)
(* differently: a state that accepts some settlement accepts no abort, and  *)
(* one that accepts some lock accepts no expiry, at the deadlines too.      *)
DeadlinesSeparateOutcomes ==
  \A e \in EpochIds :
    /\ ENABLED abort(e) =>
         ~ENABLED (\E c \in CompactSettlement : settle(e, c, Keys))
    /\ ENABLED expire(e) =>
         ~ENABLED (\E p \in OfferedLocks : lock(e, p, Keys))

(* An epoch that was opened reaches a terminal state: past its deadlines    *)
(* expire or abort accepts it from every caller.                            *)
EpochsEnd ==
  \A e \in EpochIds :
    epochs[e].terminal_state \in {"Open", "Locked"} ~>
      epochs[e].terminal_state \in {"Settled", "Expired", "Aborted"}
=============================================================================
