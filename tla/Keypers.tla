------------------------------- MODULE Keypers -------------------------------
(***************************************************************************)
(* The reference keypers: one-shot processes that read the chain at        *)
(* confirmed commitment, open the keyper's lock journal, and sign a lock,  *)
(* release a decryption share or sign a settlement.                        *)
(*                                                                         *)
(* Several processes of one keyper may run at once.  What a process read   *)
(* from the chain and from the journal is kept in its own state and may be *)
(* stale when it is used; LockJournal::record reloads the file under the   *)
(* file lock, so each critical section is one step.  A process may end     *)
(* anywhere (crash, busy lock, I/O error).  One of the keyper's two files, *)
(* the journal or its initialization marker, may be lost: the code refuses *)
(* to run on the other alone.                                              *)
(*                                                                         *)
(* The chain is the part of the program that keypers read and feed: the    *)
(* state of each epoch and the digest its lock recorded.  A digest is      *)
(* represented by the package it commits to.                               *)
(***************************************************************************)
EXTENDS Naturals

CONSTANTS
  Keypers,        \* the keypers of the pool configuration
  Procs,          \* one-shot processes alive at the same time
  Epochs,
  Packages,       \* lock packages a coordinator may send
  EpochOf,        \* the epoch account a package names
  Expiry,         \* last slot at which a package's authorizations are valid
  Distinct,       \* packages whose ciphertexts are pairwise distinct
  Opens,          \* packages all of whose members reveal a valid funded order
  Members,        \* member indices of a package
  SettlementNonces,
  None,           \* nothing recorded
  Missing,        \* the journal file does not exist
  LockDeadline, AbortDeadline, MaxTime,
  MaxLosses       \* bound on lost files

(* The pool configuration names three keypers. *)
ASSUME KeypersAssumption == \E a, b, c \in Keypers : Keypers = {a, b, c}

ASSUME PackagesAssumption ==
  /\ EpochOf \in [Packages -> Epochs]
  /\ Expiry \in [Packages -> Nat]
  /\ Distinct \subseteq Packages /\ Opens \subseteq Packages
  /\ None \notin Packages /\ None \notin Keypers /\ Missing \notin [Epochs -> Packages \cup {None}]

ASSUME DeadlinesAssumption ==
  /\ LockDeadline \in Nat /\ AbortDeadline \in Nat /\ MaxTime \in Nat /\ MaxLosses \in Nat
  /\ LockDeadline < AbortDeadline

VARIABLES
  clock,          \* chain time, and the slot authorizations expire by
  chain,          \* epoch account of each epoch: state and lock digest
  marker,         \* keyper -> whether its initialization marker exists
  journal,        \* keyper -> its journal file
  procs,          \* the running processes
  approvals,      \* lock signatures given out: [keyper, package]
  shares,         \* decryption shares given out: [keyper, package, member]
  settlements,    \* settlement signatures given out: [keyper, package, nonce]
  losses

files == <<marker, journal>>
outputs == <<approvals, shares, settlements>>
vars == <<clock, chain, files, procs, outputs, losses>>

-----------------------------------------------------------------------------
(* State *)

Records == [Epochs -> Packages \cup {None}]

NoRecords == [e \in Epochs |-> None]

ChainState == {"Open", "Locked", "Settled", "Expired", "Aborted"}

Operation == {"sign-lock", "release-share", "sign-settlement"}

(* A process: the request it serves, the slot and lock digest of its        *)
(* confirmed read, and the journal records it loaded.                       *)
Process ==
  [pc: {"idle", "open", "ready", "sign"}, op: Operation \cup {None},
   keyper: Keypers \cup {None}, package: Packages \cup {None},
   slot: Nat, lock_digest: Packages \cup {None}, records: Records]

Idle == [pc |-> "idle", op |-> None, keyper |-> None, package |-> None,
         slot |-> 0, lock_digest |-> None, records |-> NoRecords]

Return(p) == procs' = [procs EXCEPT ![p] = Idle]

Quorum(signed) == \E a, b \in Keypers : a # b /\ signed[a] /\ signed[b]

-----------------------------------------------------------------------------
(* Confirmed reads and the journal *)

(* A request starts with fetch_confirmed_open_epoch or fetch_confirmed_lock. *)
fetch_confirmed_open_epoch(p, k, package) ==
  LET e == EpochOf[package] IN
  /\ procs[p].pc = "idle"
  /\ chain[e].state = "Open"
  /\ clock < LockDeadline
  /\ procs' = [procs EXCEPT ![p] =
       [pc |-> "open", op |-> "sign-lock", keyper |-> k, package |-> package,
        slot |-> clock, lock_digest |-> None, records |-> NoRecords]]
  /\ UNCHANGED <<clock, chain, files, outputs, losses>>

fetch_confirmed_lock(p, k, package, op) ==
  LET e == EpochOf[package] IN
  /\ procs[p].pc = "idle"
  /\ chain[e].state = "Locked"
  /\ clock <= AbortDeadline
  /\ procs' = [procs EXCEPT ![p] =
       [pc |-> "open", op |-> op, keyper |-> k, package |-> package,
        slot |-> clock, lock_digest |-> chain[e].lock_digest, records |-> NoRecords]]
  /\ UNCHANGED <<clock, chain, files, outputs, losses>>

(* Mutant: a missing journal is created again whatever the marker says. *)
open_recreating(p) ==
  LET k == procs[p].keyper IN
  /\ procs[p].pc = "open"
  /\ marker' = [marker EXCEPT ![k] = TRUE]
  /\ journal' = [journal EXCEPT ![k] = IF @ = Missing THEN NoRecords ELSE @]
  /\ procs' = [procs EXCEPT ![p].pc = "ready", ![p].records = journal'[k]]
  /\ UNCHANGED <<clock, chain, outputs, losses>>

(* LockJournal::open: marker and journal are created together, and one      *)
(* without the other is refused.                                            *)
open(p) ==
  LET k == procs[p].keyper IN
  /\ procs[p].pc = "open"
  /\ \/ /\ journal[k] = Missing /\ ~marker[k]
        /\ marker' = [marker EXCEPT ![k] = TRUE]
        /\ journal' = [journal EXCEPT ![k] = NoRecords]
        /\ procs' = [procs EXCEPT ![p].pc = "ready"]
     \/ /\ journal[k] # Missing /\ marker[k]
        /\ procs' = [procs EXCEPT ![p].pc = "ready", ![p].records = journal[k]]
        /\ UNCHANGED files
     \/ /\ (journal[k] # Missing) # marker[k]
        /\ Return(p)
        /\ UNCHANGED files
  /\ UNCHANGED <<clock, chain, outputs, losses>>

(* The marker is written first: a process that ends before it writes the    *)
(* journal leaves the marker alone behind.                                  *)
open_interrupted(p) ==
  LET k == procs[p].keyper IN
  /\ procs[p].pc = "open"
  /\ journal[k] = Missing /\ ~marker[k]
  /\ marker' = [marker EXCEPT ![k] = TRUE]
  /\ Return(p)
  /\ UNCHANGED <<clock, chain, journal, outputs, losses>>

-----------------------------------------------------------------------------
(* ReferenceKeyper *)

(* LockPackageV1::validate, as far as it depends on when it is called. *)
validate(package, slot) == Expiry[package] >= slot

(* Mutant: the package is not compared with the confirmed lock. *)
validate_locked_unbound(package, c) == validate(package, c.slot)

(* The package is the one the confirmed lock committed to. *)
validate_locked(package, c) == c.lock_digest = package /\ validate(package, c.slot)

(* Mutants: a conflicting record is replaced; the record is added to the    *)
(* copy of the journal that the process loaded when it started.             *)
record_replacing(p) ==
  LET c == procs[p] IN
  /\ journal[c.keyper] # Missing
  /\ journal' = [journal EXCEPT ![c.keyper][EpochOf[c.package]] = c.package]
  /\ procs' = [procs EXCEPT ![p].pc = "sign"]

record_not_reloaded(p) ==
  LET c == procs[p]
      e == EpochOf[c.package]
  IN
  /\ journal[c.keyper] # Missing
  /\ c.records[e] \in {None, c.package}
  /\ journal' = [journal EXCEPT ![c.keyper] = [c.records EXCEPT ![e] = c.package]]
  /\ procs' = [procs EXCEPT ![p].pc = "sign"]

(* LockJournal::record, under the file lock and on the reloaded file. *)
record(p) ==
  LET c == procs[p]
      k == c.keyper
      e == EpochOf[c.package]
  IN \/ /\ journal[k] # Missing
        /\ journal[k][e] = c.package
        /\ procs' = [procs EXCEPT ![p].pc = "sign"]
        /\ UNCHANGED journal
     \/ /\ journal[k] # Missing
        /\ journal[k][e] = None
        /\ journal' = [journal EXCEPT ![k][e] = c.package]
        /\ procs' = [procs EXCEPT ![p].pc = "sign"]
     \/ /\ IF journal[k] = Missing THEN TRUE ELSE journal[k][e] \notin {None, c.package}
        /\ Return(p)
        /\ UNCHANGED journal

sign_lock(p) ==
  /\ procs[p].pc = "ready"
  /\ procs[p].op = "sign-lock"
  /\ \/ validate(procs[p].package, procs[p].slot) /\ record(p)
     \/ ~validate(procs[p].package, procs[p].slot) /\ Return(p) /\ UNCHANGED journal
  /\ UNCHANGED <<clock, chain, marker, outputs, losses>>

(* Mutant: the answer is written from a request that was already cleared. *)
answer_sign_lock_cleared(p) ==
  /\ procs[p].pc = "sign"
  /\ approvals' = approvals \cup {[keyper |-> procs[p].keyper, package |-> Idle.package]}
  /\ Return(p)
  /\ UNCHANGED <<clock, chain, files, shares, settlements, losses>>

(* The signature reaches the coordinator. *)
answer_sign_lock(p) ==
  /\ procs[p].pc = "sign"
  /\ approvals' = approvals \cup {[keyper |-> procs[p].keyper, package |-> procs[p].package]}
  /\ Return(p)
  /\ UNCHANGED <<clock, chain, files, shares, settlements, losses>>

release_share(p, m) ==
  LET c == procs[p] IN
  /\ c.pc = "ready"
  /\ c.op = "release-share"
  /\ \/ /\ validate_locked(c.package, c)
        /\ c.records[EpochOf[c.package]] = c.package
        /\ c.package \in Distinct
        /\ shares' = shares \cup {[keyper |-> c.keyper, package |-> c.package, member |-> m]}
     \/ /\ \/ ~validate_locked(c.package, c)
           \/ c.records[EpochOf[c.package]] # c.package
           \/ c.package \notin Distinct
        /\ UNCHANGED shares
  /\ Return(p)
  /\ UNCHANGED <<clock, chain, files, approvals, settlements, losses>>

(* recompute: each member recovered from two shares given out under this    *)
(* lock, every reveal a valid funded order.                                 *)
recompute(package) ==
  /\ package \in Opens
  /\ \A m \in Members :
       Quorum([k \in Keypers |-> [keyper |-> k, package |-> package, member |-> m] \in shares])

(* Mutant: the request's result is signed without recomputing it. *)
sign_settlement_unopened(p, nonce) ==
  LET c == procs[p] IN
  /\ c.pc = "ready"
  /\ c.op = "sign-settlement"
  /\ validate_locked(c.package, c)
  /\ c.records[EpochOf[c.package]] = c.lock_digest
  /\ settlements' = settlements \cup
       {[keyper |-> c.keyper, package |-> c.package, nonce |-> nonce]}
  /\ Return(p)
  /\ UNCHANGED <<clock, chain, files, approvals, shares, losses>>

sign_settlement(p, nonce) ==
  LET c == procs[p] IN
  /\ c.pc = "ready"
  /\ c.op = "sign-settlement"
  /\ \/ /\ validate_locked(c.package, c)
        /\ recompute(c.package)
        /\ c.records[EpochOf[c.package]] = c.lock_digest
        /\ settlements' = settlements \cup
             {[keyper |-> c.keyper, package |-> c.package, nonce |-> nonce]}
     \/ /\ \/ ~validate_locked(c.package, c)
           \/ ~recompute(c.package)
           \/ c.records[EpochOf[c.package]] # c.lock_digest
        /\ UNCHANGED settlements
  /\ Return(p)
  /\ UNCHANGED <<clock, chain, files, approvals, shares, losses>>

(* A process ends without an answer. *)
Stop(p) ==
  /\ procs[p].pc # "idle"
  /\ Return(p)
  /\ UNCHANGED <<clock, chain, files, outputs, losses>>

(* A keyper loses its journal or its marker, never both: with neither left  *)
(* the code cannot tell it from a new keyper.                               *)
LoseFile(k) ==
  /\ losses < MaxLosses
  /\ losses' = losses + 1
  /\ journal[k] # Missing /\ marker[k]
  /\ \/ journal' = [journal EXCEPT ![k] = Missing] /\ UNCHANGED marker
     \/ marker' = [marker EXCEPT ![k] = FALSE] /\ UNCHANGED journal
  /\ UNCHANGED <<clock, chain, procs, outputs>>

-----------------------------------------------------------------------------
(* The program, as keypers feed it *)

Approved(package) == [k \in Keypers |-> [keyper |-> k, package |-> package] \in approvals]

lock(package) ==
  LET e == EpochOf[package] IN
  /\ chain[e].state = "Open"
  /\ clock < LockDeadline
  /\ Quorum(Approved(package))
  /\ chain' = [chain EXCEPT ![e] = [state |-> "Locked", lock_digest |-> package]]
  /\ UNCHANGED <<clock, files, procs, outputs, losses>>

settle(e, package, nonce) ==
  /\ chain[e].state = "Locked"
  /\ clock <= AbortDeadline
  /\ package = chain[e].lock_digest
  /\ Quorum([k \in Keypers |->
       [keyper |-> k, package |-> package, nonce |-> nonce] \in settlements])
  /\ chain' = [chain EXCEPT ![e].state = "Settled"]
  /\ UNCHANGED <<clock, files, procs, outputs, losses>>

expire_or_abort(e) ==
  /\ \/ /\ chain[e].state = "Open" /\ clock > LockDeadline
        /\ chain' = [chain EXCEPT ![e].state = "Expired"]
     \/ /\ chain[e].state = "Locked" /\ clock > AbortDeadline
        /\ chain' = [chain EXCEPT ![e].state = "Aborted"]
  /\ UNCHANGED <<clock, files, procs, outputs, losses>>

Tick ==
  /\ clock < MaxTime
  /\ clock' = clock + 1
  /\ UNCHANGED <<chain, files, procs, outputs, losses>>

-----------------------------------------------------------------------------
Init ==
  /\ clock = 0
  /\ chain = [e \in Epochs |-> [state |-> "Open", lock_digest |-> None]]
  /\ marker = [k \in Keypers |-> FALSE]
  /\ journal = [k \in Keypers |-> Missing]
  /\ procs = [p \in Procs |-> Idle]
  /\ approvals = {}
  /\ shares = {}
  /\ settlements = {}
  /\ losses = 0

Request(p, k, package) ==
  \/ fetch_confirmed_open_epoch(p, k, package)
  \/ fetch_confirmed_lock(p, k, package, "release-share")
  \/ fetch_confirmed_lock(p, k, package, "sign-settlement")

Run(p) ==
  \/ open(p)
  \/ open_interrupted(p)
  \/ sign_lock(p)
  \/ answer_sign_lock(p)
  \/ \E m \in Members : release_share(p, m)
  \/ \E nonce \in SettlementNonces : sign_settlement(p, nonce)
  \/ Stop(p)

Next ==
  \/ \E p \in Procs, k \in Keypers, package \in Packages : Request(p, k, package)
  \/ \E p \in Procs : Run(p)
  \/ \E k \in Keypers : LoseFile(k)
  \/ \E package \in Packages : lock(package)
  \/ \E e \in Epochs, package \in Packages, nonce \in SettlementNonces : settle(e, package, nonce)
  \/ \E e \in Epochs : expire_or_abort(e)
  \/ Tick

Spec == Init /\ [][Next]_vars

-----------------------------------------------------------------------------
(* Properties *)

TypeOK ==
  /\ clock \in Nat
  /\ chain \in [Epochs -> [state: ChainState, lock_digest: Packages \cup {None}]]
  /\ marker \in [Keypers -> BOOLEAN]
  /\ journal \in [Keypers -> Records \cup {Missing}]
  /\ procs \in [Procs -> Process]
  /\ approvals \subseteq [keyper: Keypers, package: Packages]
  /\ shares \subseteq [keyper: Keypers, package: Packages, member: Members]
  /\ settlements \subseteq [keyper: Keypers, package: Packages, nonce: SettlementNonces]
  /\ losses \in Nat

(* A keyper signs at most one package of an epoch, however its processes    *)
(* interleave, are interrupted or restart, and if one of its files is lost. *)
OneLockPerKeyper ==
  \A a, b \in approvals :
    a.keyper = b.keyper /\ EpochOf[a.package] = EpochOf[b.package] => a.package = b.package

(* Two packages of one epoch never both reach the 2-of-3 quorum, so the     *)
(* coordinator cannot choose which crowd to open after the keypers signed.  *)
OneQuorumPerEpoch ==
  \A x, y \in Packages :
    EpochOf[x] = EpochOf[y] /\ Quorum(Approved(x)) /\ Quorum(Approved(y)) => x = y

(* "No decryption share is accepted before a confirmed lock": a share is    *)
(* given out only for the package the chain recorded for its epoch, and     *)
(* stays so in whatever way the epoch ends.                                 *)
SharesOnlyForLocked ==
  \A s \in shares : chain[EpochOf[s.package]].lock_digest = s.package

(* Settlement signatures only ever certify the locked package, opened       *)
(* with two shares of every member; signatures under different nonces       *)
(* therefore certify the same result.                                       *)
SettlementsFollowReveal ==
  \A s \in settlements :
    /\ chain[EpochOf[s.package]].lock_digest = s.package
    /\ recompute(s.package)

(* A record in a keyper's journal is never replaced: the file may be lost,  *)
(* but no later state of it names another package.                          *)
JournalKeepsRecords ==
  [][\A k \in Keypers, e \in Epochs :
       /\ journal[k] # Missing
       /\ journal'[k] # Missing
       /\ journal[k][e] # None
       => journal'[k][e] = journal[k][e]]_vars
=============================================================================
