---------------------------- MODULE HostJournals ----------------------------
(***************************************************************************)
(* The coordinator's two durable journals and the two operations that      *)
(* write both: finalize_settlement and release_reservations.               *)
(*                                                                         *)
(* Each journal is one file, replaced by an atomic rename.  Every access   *)
(* to the reservation file happens under its advisory lock, from the load  *)
(* to the rename; finalize and release hold that lock while they read and  *)
(* write the account file.  The account file's own lock covers one load,   *)
(* check and rename at a time, so each such critical section is one step.  *)
(* A call may end early at any point (the process dies, a lock stays busy  *)
(* for LOCK_ATTEMPTS tries, a write or the directory sync fails): the      *)
(* operating system drops the locks and what was renamed stays.            *)
(*                                                                         *)
(* Reservations hold one lot of base and one lot's price of quote, the     *)
(* amounts the admission policy fixes.  A settlement digest is represented *)
(* by the result it is computed from.                                      *)
(***************************************************************************)
EXTENDS Integers, FiniteSets

CONSTANTS
  Procs,            \* coordinator processes sharing the two files
  Participants,
  EpochIds,
  Nonces,           \* reservation nonces
  NoRecord,         \* a key that a journal does not hold
  Lot, Price,       \* base_lot_atoms, quote_atoms_per_lot
  InitialBalances,  \* balances a participant may register with
  Available,        \* balances a caller of reserve may state
  MaxResults,       \* bound: results computed per epoch
  RawTransitions    \* whether mark_used and release are called directly

ASSUME LotAssumption == Lot \in Nat \ {0} /\ Price \in Nat \ {0}

ASSUME BalancesAssumption ==
  /\ InitialBalances \subseteq [base: Nat, quote: Nat]
  /\ Available \subseteq [base: Nat, quote: Nat]
  /\ RawTransitions \in BOOLEAN
  /\ MaxResults \in Nat

VARIABLES
  reservations,     \* reservation file: nonce -> record
  accounts,         \* account file: participant -> record
  applied_epochs,   \* account file: epoch -> digest of the applied result
  results,          \* batch results computed per epoch
  terminal,         \* epochs confirmed Expired or Aborted on chain
  lock,             \* holder of the reservation lock
  calls             \* the call each process is executing

vars == <<reservations, accounts, applied_epochs, results, terminal, lock, calls>>

-----------------------------------------------------------------------------
(* State *)

Balance == [base: Nat, quote: Nat]

ReservationRecord ==
  [epoch_id: EpochIds, participant_id: Participants,
   state: {"Reserved", "Used", "Released"}]

AccountRecord == [balance: Balance, last_epoch: EpochIds \cup {NoRecord}]

Balances == [Participants -> Balance \cup {NoRecord}]

BatchResult == [before_balances: Balances, balances: Balances]

ReservationFile == [Nonces -> ReservationRecord \cup {NoRecord}]

Call ==
  [pc: {"idle", "matches", "apply", "consume", "check", "release"},
   epoch_id: EpochIds \cup {NoRecord}, result: BatchResult \cup {NoRecord},
   nonces: SUBSET Nonces, current: ReservationFile \cup {NoRecord}]

Idle == [pc |-> "idle", epoch_id |-> NoRecord, result |-> NoRecord,
         nonces |-> {}, current |-> NoRecord]

Members(result) == {m \in Participants : result.balances[m] # NoRecord}

-----------------------------------------------------------------------------
(* The ledger, per order: one lot at the epoch's price. *)

funded(balance) == balance.base >= Lot /\ balance.quote >= Price

(* Mutant: a buyer pays for every lot they then hold. *)
settled_balance_overcharged(balance, side) ==
  IF side = "Buy"
  THEN [base |-> balance.base + Lot, quote |-> balance.quote - Price * (balance.base + Lot)]
  ELSE [base |-> balance.base - Lot, quote |-> balance.quote + Price]

settled_balance(balance, side) ==
  IF side = "Buy"
  THEN [base |-> balance.base + Lot, quote |-> balance.quote - Price]
  ELSE [base |-> balance.base - Lot, quote |-> balance.quote + Price]

net_batch(before, sides) ==
  [before_balances |-> before,
   balances |-> [m \in Participants |->
                   IF before[m] = NoRecord THEN NoRecord
                   ELSE settled_balance(before[m], sides[m])]]

-----------------------------------------------------------------------------
(* Account journal *)

register(m, balance) ==
  /\ accounts[m] = NoRecord
  /\ balance.base # 0 \/ balance.quote # 0
  /\ accounts' = [accounts EXCEPT ![m] = [balance |-> balance, last_epoch |-> NoRecord]]
  /\ UNCHANGED <<reservations, applied_epochs, results, terminal, lock, calls>>

settlement_matches(e, result) ==
  \A m \in Members(result) :
    /\ accounts[m] # NoRecord
    /\ accounts[m].last_epoch = e
    /\ accounts[m].balance = result.balances[m]

(* Mutant: the result need not start from the stored balances. *)
starts_from_any(result) == \A m \in Members(result) : accounts[m] # NoRecord

starts_from_stored(result) ==
  \A m \in Members(result) :
    accounts[m] # NoRecord /\ accounts[m].balance = result.before_balances[m]

(* Mutant: an applied epoch is not refused. *)
can_apply_again(e, result) == starts_from_stored(result)

(* apply_settlement's verdict: nothing to do, write the result, or refuse. *)
already_applied(e, result) ==
  applied_epochs[e] = result /\ settlement_matches(e, result)

can_apply(e, result) ==
  applied_epochs[e] = NoRecord /\ starts_from_stored(result)

-----------------------------------------------------------------------------
(* Reservation journal *)

ReservedFor(m) ==
  {n \in Nonces : /\ reservations[n] # NoRecord
                  /\ reservations[n].participant_id = m
                  /\ reservations[n].state = "Reserved"}

(* Mutant: earlier reservations are not subtracted. *)
reserve_uncounted(n, e, m, available) ==
  /\ lock = NoRecord
  /\ reservations[n] = NoRecord
  /\ available.base >= Lot
  /\ available.quote >= Price
  /\ reservations' = [reservations EXCEPT
                        ![n] = [epoch_id |-> e, participant_id |-> m, state |-> "Reserved"]]
  /\ UNCHANGED <<accounts, applied_epochs, results, terminal, lock, calls>>

(* The available balance is what the caller states.  The account file is    *)
(* not read: the participant may hold less, or not be registered yet.       *)
reserve(n, e, m, available) ==
  LET count == Cardinality(ReservedFor(m)) + 1 IN
  /\ lock = NoRecord
  /\ reservations[n] = NoRecord
  /\ available.base >= count * Lot
  /\ available.quote >= count * Price
  /\ reservations' = [reservations EXCEPT
                        ![n] = [epoch_id |-> e, participant_id |-> m, state |-> "Reserved"]]
  /\ UNCHANGED <<accounts, applied_epochs, results, terminal, lock, calls>>

(* mark_used and release: one nonce, whatever its epoch's outcome. *)
transition(n, next) ==
  /\ RawTransitions
  /\ lock = NoRecord
  /\ reservations[n] # NoRecord
  /\ reservations[n].state = "Reserved"
  /\ reservations' = [reservations EXCEPT ![n].state = next]
  /\ UNCHANGED <<accounts, applied_epochs, results, terminal, lock, calls>>

(* The reserved records among nonces move to the next state. *)
moved(current, nonces, next) ==
  [n \in Nonces |->
     IF n \in nonces /\ current[n].state = "Reserved"
     THEN [current[n] EXCEPT !.state = next] ELSE current[n]]

had_used(current, nonces) == \E n \in nonces : current[n].state = "Used"

consumable(e, nonces, result) ==
  /\ \A n \in nonces :
       /\ reservations[n] # NoRecord
       /\ reservations[n].epoch_id = e
       /\ reservations[n].state # "Released"
  /\ Cardinality(nonces) = Cardinality(Members(result))
  /\ {reservations[n].participant_id : n \in nonces} = Members(result)

releasable(e, nonces) ==
  \A n \in nonces :
    /\ reservations[n] # NoRecord
    /\ reservations[n].epoch_id = e
    /\ reservations[n].state # "Used"

-----------------------------------------------------------------------------
(* finalize_settlement *)

Return(p) == lock' = NoRecord /\ calls' = [calls EXCEPT ![p] = Idle]

(* Mutants: Used reservations pass unchecked; the lock is not held beyond   *)
(* the load.                                                                *)
begin_finalize_reusing(p, e, result, nonces) ==
  /\ calls[p].pc = "idle"
  /\ lock = NoRecord
  /\ consumable(e, nonces, result)
  /\ lock' = p
  /\ calls' = [calls EXCEPT ![p] =
                 [pc |-> "apply", epoch_id |-> e, result |-> result, nonces |-> nonces,
                  current |-> reservations]]
  /\ UNCHANGED <<reservations, accounts, applied_epochs, results, terminal>>

begin_finalize_unlocked(p, e, result, nonces) ==
  /\ calls[p].pc = "idle"
  /\ lock = NoRecord
  /\ consumable(e, nonces, result)
  /\ calls' = [calls EXCEPT ![p] =
                 [pc |-> IF had_used(reservations, nonces) THEN "matches" ELSE "apply",
                  epoch_id |-> e, result |-> result, nonces |-> nonces,
                  current |-> reservations]]
  /\ UNCHANGED <<reservations, accounts, applied_epochs, results, terminal, lock>>

begin_finalize(p, e, result, nonces) ==
  /\ calls[p].pc = "idle"
  /\ lock = NoRecord
  /\ consumable(e, nonces, result)
  /\ lock' = p
  /\ calls' = [calls EXCEPT ![p] =
                 [pc |-> IF had_used(reservations, nonces) THEN "matches" ELSE "apply",
                  epoch_id |-> e, result |-> result, nonces |-> nonces,
                  current |-> reservations]]
  /\ UNCHANGED <<reservations, accounts, applied_epochs, results, terminal>>

check_matches(p) ==
  LET c == calls[p] IN
  /\ c.pc = "matches"
  /\ IF already_applied(c.epoch_id, c.result)
     THEN calls' = [calls EXCEPT ![p].pc = "apply"] /\ UNCHANGED lock
     ELSE Return(p)
  /\ UNCHANGED <<reservations, accounts, applied_epochs, results, terminal>>

(* Mutants: a refused result is consumed all the same; the commit marker is *)
(* not written.                                                             *)
apply_settlement_unrefused(p) ==
  LET c == calls[p] IN
  /\ c.pc = "apply"
  /\ calls' = [calls EXCEPT ![p].pc = "consume"]
  /\ IF can_apply(c.epoch_id, c.result)
     THEN /\ accounts' = [m \in Participants |->
                            IF m \in Members(c.result)
                            THEN [balance |-> c.result.balances[m], last_epoch |-> c.epoch_id]
                            ELSE accounts[m]]
          /\ applied_epochs' = [applied_epochs EXCEPT ![c.epoch_id] = c.result]
     ELSE UNCHANGED <<accounts, applied_epochs>>
  /\ UNCHANGED <<lock, reservations, results, terminal>>

apply_settlement_unmarked(p) ==
  LET c == calls[p] IN
  /\ c.pc = "apply"
  /\ can_apply(c.epoch_id, c.result)
  /\ accounts' = [m \in Participants |->
                     IF m \in Members(c.result)
                     THEN [balance |-> c.result.balances[m], last_epoch |-> c.epoch_id]
                     ELSE accounts[m]]
  /\ calls' = [calls EXCEPT ![p].pc = "consume"]
  /\ UNCHANGED <<applied_epochs, lock, reservations, results, terminal>>

apply_settlement(p) ==
  LET c == calls[p] IN
  /\ c.pc = "apply"
  /\ \/ /\ already_applied(c.epoch_id, c.result)
        /\ calls' = [calls EXCEPT ![p].pc = "consume"]
        /\ UNCHANGED <<accounts, applied_epochs, lock>>
     \/ /\ can_apply(c.epoch_id, c.result)
        /\ accounts' = [m \in Participants |->
                          IF m \in Members(c.result)
                          THEN [balance |-> c.result.balances[m], last_epoch |-> c.epoch_id]
                          ELSE accounts[m]]
        /\ applied_epochs' = [applied_epochs EXCEPT ![c.epoch_id] = c.result]
        /\ calls' = [calls EXCEPT ![p].pc = "consume"]
        /\ UNCHANGED lock
     \/ /\ ~already_applied(c.epoch_id, c.result)
        /\ ~can_apply(c.epoch_id, c.result)
        /\ Return(p)
        /\ UNCHANGED <<accounts, applied_epochs>>
  /\ UNCHANGED <<reservations, results, terminal>>

finalize_epoch(p) ==
  LET c == calls[p] IN
  /\ c.pc = "consume"
  /\ reservations' = moved(c.current, c.nonces, "Used")
  /\ Return(p)
  /\ UNCHANGED <<accounts, applied_epochs, results, terminal>>

-----------------------------------------------------------------------------
(* release_reservations *)

begin_release(p, e, nonces) ==
  /\ calls[p].pc = "idle"
  /\ lock = NoRecord
  /\ e \in terminal
  /\ releasable(e, nonces)
  /\ lock' = p
  /\ calls' = [calls EXCEPT ![p] =
                 [pc |-> "check", epoch_id |-> e, result |-> NoRecord,
                  nonces |-> nonces, current |-> reservations]]
  /\ UNCHANGED <<reservations, accounts, applied_epochs, results, terminal>>

(* Mutant: release does not look for the commit marker. *)
has_applied_epoch_unread(p) ==
  /\ calls[p].pc = "check"
  /\ calls' = [calls EXCEPT ![p].pc = "release"]
  /\ UNCHANGED <<lock, reservations, accounts, applied_epochs, results, terminal>>

has_applied_epoch(p) ==
  LET c == calls[p] IN
  /\ c.pc = "check"
  /\ IF applied_epochs[c.epoch_id] = NoRecord
     THEN calls' = [calls EXCEPT ![p].pc = "release"] /\ UNCHANGED lock
     ELSE Return(p)
  /\ UNCHANGED <<reservations, accounts, applied_epochs, results, terminal>>

release_epoch(p) ==
  LET c == calls[p] IN
  /\ c.pc = "release"
  /\ reservations' = moved(c.current, c.nonces, "Released")
  /\ Return(p)
  /\ UNCHANGED <<accounts, applied_epochs, results, terminal>>

-----------------------------------------------------------------------------
(* A call that ends early: crash, busy lock or I/O error. *)
Stop(p) ==
  /\ calls[p].pc # "idle"
  /\ Return(p)
  /\ UNCHANGED <<reservations, accounts, applied_epochs, results, terminal>>

(* The coordinator nets an epoch's revealed orders against the balances it *)
(* froze in the lock package.                                              *)
ComputeResult(e, M, sides) ==
  /\ Cardinality(results[e]) < MaxResults
  /\ \A m \in M : accounts[m] # NoRecord /\ funded(accounts[m].balance)
  /\ LET before == [m \in Participants |-> IF m \in M THEN accounts[m].balance ELSE NoRecord]
     IN results' = [results EXCEPT ![e] = @ \cup {net_batch(before, sides)}]
  /\ UNCHANGED <<reservations, accounts, applied_epochs, terminal, lock, calls>>

(* The chain confirms the epoch Expired or Aborted. *)
ConfirmTerminal(e) ==
  /\ e \notin terminal
  /\ terminal' = terminal \cup {e}
  /\ UNCHANGED <<reservations, accounts, applied_epochs, results, lock, calls>>

-----------------------------------------------------------------------------
Init ==
  /\ reservations = [n \in Nonces |-> NoRecord]
  /\ accounts = [m \in Participants |-> NoRecord]
  /\ applied_epochs = [e \in EpochIds |-> NoRecord]
  /\ results = [e \in EpochIds |-> {}]
  /\ terminal = {}
  /\ lock = NoRecord
  /\ calls = [p \in Procs |-> Idle]

Step(p) ==
  \/ check_matches(p)
  \/ apply_settlement(p)
  \/ finalize_epoch(p)
  \/ has_applied_epoch(p)
  \/ release_epoch(p)

Next ==
  \/ \E m \in Participants, b \in InitialBalances : register(m, b)
  \/ \E n \in Nonces, e \in EpochIds, m \in Participants, available \in Available :
       reserve(n, e, m, available)
  \/ \E n \in Nonces : transition(n, "Used") \/ transition(n, "Released")
  \/ \E e \in EpochIds, M \in SUBSET Participants \ {{}} :
       \E sides \in [M -> {"Buy", "Sell"}] : ComputeResult(e, M, sides)
  \/ \E e \in EpochIds : ConfirmTerminal(e)
  \/ \E p \in Procs :
       \/ \E e \in EpochIds : \E result \in results[e], nonces \in SUBSET Nonces :
            begin_finalize(p, e, result, nonces)
       \/ \E e \in EpochIds, nonces \in SUBSET Nonces : begin_release(p, e, nonces)
       \/ Step(p)
       \/ Stop(p)

Spec == Init /\ [][Next]_vars

-----------------------------------------------------------------------------
(* Properties *)

TypeOK ==
  /\ reservations \in ReservationFile
  /\ accounts \in [Participants -> AccountRecord \cup {NoRecord}]
  /\ applied_epochs \in [EpochIds -> BatchResult \cup {NoRecord}]
  /\ results \in [EpochIds -> SUBSET BatchResult]
  /\ terminal \subseteq EpochIds
  /\ lock \in Procs \cup {NoRecord}
  /\ calls \in [Procs -> Call]

ReservationOf(n, e, m) ==
  /\ reservations[n] # NoRecord
  /\ reservations[n].epoch_id = e
  /\ reservations[n].participant_id = m

(* The funds behind a committed settlement are never reopened: each member  *)
(* of the committed result keeps a reservation of that epoch that release   *)
(* did not return, however finalize and release calls interleave and        *)
(* wherever they were interrupted.                                          *)
SettlementsBacked ==
  \A e \in EpochIds :
    applied_epochs[e] # NoRecord =>
      \A m \in Members(applied_epochs[e]) :
        \E n \in Nonces : ReservationOf(n, e, m) /\ reservations[n].state # "Released"

(* A reservation is consumed only by an account result that was committed:  *)
(* Used in the reservation file implies that its epoch's result, with its   *)
(* participant as a member, is in the account file.                         *)
UsedMeansCommitted ==
  \A n \in Nonces :
    (reservations[n] # NoRecord /\ reservations[n].state = "Used") =>
      /\ applied_epochs[reservations[n].epoch_id] # NoRecord
      /\ reservations[n].participant_id \in Members(applied_epochs[reservations[n].epoch_id])

(* What query_result reports to a participant is what the committed result  *)
(* of the epoch it names gave that participant.                             *)
QueryMatchesCommit ==
  \A m \in Participants :
    (accounts[m] # NoRecord /\ accounts[m].last_epoch # NoRecord) =>
      LET committed == applied_epochs[accounts[m].last_epoch] IN
      /\ committed # NoRecord
      /\ m \in Members(committed)
      /\ accounts[m].balance = committed.balances[m]

Consumed(e, m) == \E n \in Nonces : ReservationOf(n, e, m) /\ reservations[n].state = "Used"

(* Over any number of reserve calls, a participant's open reservations      *)
(* together never exceed what one caller stated to be available: each call  *)
(* counts what the file holds, not what its process last loaded, and no     *)
(* reservation disappears from the count while it is open.  Whether the     *)
(* stated balance is the stored one is left to the caller.                  *)
ReservedWithinAvailable ==
  \A m \in Participants :
    LET open == Cardinality(ReservedFor(m)) IN
    open > 0 => \E b \in Available : b.base >= open * Lot /\ b.quote >= open * Price

(* The account file's commit marker is final: once an epoch's result is     *)
(* recorded, no later call replaces or removes it.                          *)
CommitIsFinal ==
  [][\A e \in EpochIds :
       applied_epochs[e] # NoRecord => applied_epochs'[e] = applied_epochs[e]]_vars

(* "If a process stops between the account and reservation writes, a retry  *)
(* can finish consumption" (docs/protocol.md): while a committed epoch has  *)
(* members whose reservation is not consumed, the check a retried           *)
(* finalize_settlement makes of the stored accounts succeeds.               *)
RetryCanFinish ==
  \A e \in EpochIds :
    applied_epochs[e] # NoRecord =>
      \/ \A m \in Members(applied_epochs[e]) : Consumed(e, m)
      \/ settlement_matches(e, applied_epochs[e])

(* "Released, unknown, reused, stale, or partly consumed reservation sets   *)
(* fail before a new result can commit" (docs/protocol.md): at the moment a *)
(* result is committed, each of its members has a reservation of the epoch  *)
(* that is still open, although mark_used and release may have been called  *)
(* on any nonce by any process before or during the call.                   *)
CommitSpendsReserved ==
  [][\A e \in EpochIds :
       (applied_epochs[e] = NoRecord /\ applied_epochs'[e] # NoRecord) =>
         \A m \in Members(applied_epochs'[e]) :
           \E n \in Nonces : ReservationOf(n, e, m) /\ reservations[n].state = "Reserved"]_vars

(* No write of the reservation file undoes another: finalize and release    *)
(* write the whole file from the copy they loaded, and still no record is   *)
(* lost or changes its epoch and participant, and one that was consumed or  *)
(* released stays so.                                                       *)
ReservationsLast ==
  [][\A n \in Nonces :
       reservations[n] # NoRecord =>
         IF reservations[n].state = "Reserved"
         THEN /\ reservations'[n] # NoRecord
              /\ [reservations'[n] EXCEPT !.state = "Reserved"] = reservations[n]
         ELSE reservations'[n] = reservations[n]]_vars
=============================================================================
