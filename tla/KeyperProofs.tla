---------------------------- MODULE KeyperProofs ----------------------------
(***************************************************************************)
(* Theorems about Keypers, for any number of processes, epochs and         *)
(* packages, each keyper losing at most one of its two files.              *)
(*                                                                         *)
(* OneLockPerKeyper is not inductive: a signature may still be inside a    *)
(* process, and what forbids a second one is the journal.  Backed relates  *)
(* both to the files.  SharesOnlyForLocked is not inductive either: what a *)
(* process gives out depends on the digest it read, which DigestRead ties  *)
(* to the chain's.                                                         *)
(***************************************************************************)
EXTENDS Keypers, TLAPS

(* A process that serves a request knows its keyper and package. *)
Busy ==
  \A p \in Procs :
    procs[p].pc # "idle" => procs[p].keyper \in Keypers /\ procs[p].package \in Packages

TypeInv == TypeOK /\ Busy

-----------------------------------------------------------------------------
(* Types *)

(* An idle process is well typed. *)
LEMMA IdleType == Idle \in Process /\ Idle.pc = "idle"
  BY PackagesAssumption DEF Idle, Process, Records, NoRecords, Operation

(* The initial files, chain and processes are well typed. *)
LEMMA InitType == Init => TypeInv
  BY IdleType, PackagesAssumption, DeadlinesAssumption
  DEF Init, TypeInv, TypeOK, Busy, ChainState, Records

(* A process that returns becomes idle. *)
LEMMA ReturnType ==
  ASSUME TypeInv, NEW p \in Procs, Return(p)
  PROVE  /\ procs' \in [Procs -> Process]
         /\ Busy'
  BY IdleType DEF TypeInv, TypeOK, Busy, Return

(* A confirmed read starts a well-typed process. *)
LEMMA RequestType ==
  ASSUME TypeInv, NEW p \in Procs, NEW k \in Keypers, NEW package \in Packages,
         Request(p, k, package)
  PROVE  TypeInv'
<1> USE PackagesAssumption DEF TypeInv, TypeOK
<1>1. EpochOf[package] \in Epochs
  BY DEF files, outputs
<1>2. NoRecords \in Records
  BY DEF NoRecords, Records
<1>3. CASE fetch_confirmed_open_epoch(p, k, package)
  <2>1. procs' = [procs EXCEPT ![p] =
          [pc |-> "open", op |-> "sign-lock", keyper |-> k, package |-> package,
           slot |-> clock, lock_digest |-> None, records |-> NoRecords]]
    BY <1>3 DEF fetch_confirmed_open_epoch
  <2>2. procs' \in [Procs -> Process]
    BY <2>1, <1>2 DEF Process, Operation
  <2>3. Busy'
    BY <2>1 DEF Busy
  <2> QED
    BY <1>3, <2>2, <2>3 DEF fetch_confirmed_open_epoch, files, outputs
<1>4. ASSUME NEW op \in {"release-share", "sign-settlement"},
             fetch_confirmed_lock(p, k, package, op)
      PROVE  TypeInv'
  <2>1. procs' = [procs EXCEPT ![p] =
          [pc |-> "open", op |-> op, keyper |-> k, package |-> package,
           slot |-> clock, lock_digest |-> chain[EpochOf[package]].lock_digest,
           records |-> NoRecords]]
    BY <1>4 DEF fetch_confirmed_lock
  <2>2. chain[EpochOf[package]].lock_digest \in Packages \cup {None}
    BY <1>1
  <2>3. procs' \in [Procs -> Process]
    BY <2>1, <2>2, <1>2 DEF Process, Operation
  <2>4. Busy'
    BY <2>1 DEF Busy
  <2> QED
    BY <1>4, <2>3, <2>4 DEF fetch_confirmed_lock, files, outputs
<1> QED
  BY <1>3, <1>4 DEF Request

(* Opening the journal keeps both files and the process well typed. *)
LEMMA OpenType ==
  ASSUME TypeInv, NEW p \in Procs, open(p) \/ open_interrupted(p)
  PROVE  TypeInv'
<1> DEFINE k == procs[p].keyper
<1> USE DEF TypeInv, TypeOK
<1>0. procs[p] \in Process /\ k \in Keypers /\ procs[p].package \in Packages
  BY DEF Busy, open, open_interrupted
<1>1. NoRecords \in Records
  BY PackagesAssumption DEF NoRecords, Records
<1>2. CASE open_interrupted(p)
  BY <1>0, <1>2, ReturnType DEF open_interrupted, outputs
<1>3. CASE /\ open(p)
           /\ journal[k] = Missing /\ ~marker[k]
           /\ marker' = [marker EXCEPT ![k] = TRUE]
           /\ journal' = [journal EXCEPT ![k] = NoRecords]
           /\ procs' = [procs EXCEPT ![p].pc = "ready"]
  <2>1. procs' \in [Procs -> Process] /\ Busy'
    BY <1>0, <1>3 DEF Process, Busy
  <2> QED
    BY <1>0, <1>1, <1>3, <2>1 DEF open, outputs
<1>4. CASE /\ open(p)
           /\ journal[k] # Missing /\ marker[k]
           /\ procs' = [procs EXCEPT ![p].pc = "ready", ![p].records = journal[k]]
           /\ UNCHANGED files
  <2>1. journal[k] \in Records
    BY <1>0, <1>4
  <2>2. procs' \in [Procs -> Process] /\ Busy'
    BY <1>0, <1>4, <2>1 DEF Process, Busy
  <2> QED
    BY <1>4, <2>2 DEF open, files, outputs
<1>5. CASE open(p) /\ Return(p) /\ UNCHANGED files
  BY <1>5, ReturnType DEF open, files, outputs
<1> QED
  BY <1>2, <1>3, <1>4, <1>5 DEF open

(* Recording a lock keeps the journal a journal. *)
LEMMA SignLockType ==
  ASSUME TypeInv, NEW p \in Procs, sign_lock(p)
  PROVE  TypeInv'
<1> DEFINE c == procs[p]
           k == c.keyper
           e == EpochOf[c.package]
<1> USE DEF TypeInv, TypeOK
<1>0. c \in Process /\ k \in Keypers /\ c.package \in Packages /\ e \in Epochs
  BY PackagesAssumption DEF Busy, sign_lock
<1>1. CASE procs' = [procs EXCEPT ![p].pc = "sign"] /\ UNCHANGED journal
  <2>1. procs' \in [Procs -> Process] /\ Busy'
    BY <1>0, <1>1 DEF Process, Busy
  <2> QED
    BY <1>1, <2>1 DEF sign_lock, outputs
<1>2. CASE /\ procs' = [procs EXCEPT ![p].pc = "sign"]
           /\ journal[k] # Missing
           /\ journal' = [journal EXCEPT ![k][e] = c.package]
  <2>1. procs' \in [Procs -> Process] /\ Busy'
    BY <1>0, <1>2 DEF Process, Busy
  <2>2. journal[k] \in Records
    BY <1>0, <1>2
  <2>3. [journal[k] EXCEPT ![e] = c.package] \in Records
    BY <1>0, <2>2 DEF Records
  <2>4. journal' \in [Keypers -> Records \cup {Missing}]
    BY <1>0, <1>2, <2>3
  <2> QED
    BY <2>1, <2>4 DEF sign_lock, outputs
<1>3. CASE Return(p) /\ UNCHANGED journal
  BY <1>3, ReturnType DEF sign_lock, outputs
<1> QED
  BY <1>1, <1>2, <1>3 DEF sign_lock, record

(* What a process gives out names its keyper and package. *)
LEMMA AnswerType ==
  ASSUME TypeInv, NEW p \in Procs,
         \/ answer_sign_lock(p)
         \/ \E m \in Members : release_share(p, m)
         \/ \E nonce \in SettlementNonces : sign_settlement(p, nonce)
         \/ Stop(p)
  PROVE  TypeInv'
<1> USE DEF TypeInv, TypeOK
<1>0. procs[p].keyper \in Keypers /\ procs[p].package \in Packages
  BY DEF Busy, answer_sign_lock, release_share, sign_settlement, Stop
<1>1. procs' \in [Procs -> Process] /\ Busy'
  BY ReturnType DEF answer_sign_lock, release_share, sign_settlement, Stop
<1>2. CASE answer_sign_lock(p)
  BY <1>0, <1>1, <1>2 DEF answer_sign_lock, files
<1>3. CASE \E m \in Members : release_share(p, m)
  BY <1>0, <1>1, <1>3 DEF release_share, files
<1>4. CASE \E nonce \in SettlementNonces : sign_settlement(p, nonce)
  BY <1>0, <1>1, <1>4 DEF sign_settlement, files
<1>5. CASE Stop(p)
  BY <1>1, <1>5 DEF Stop, files, outputs
<1> QED
  BY <1>2, <1>3, <1>4, <1>5

(* Every step of processes, chain and environment keeps the types. *)
LEMMA NextType == TypeInv /\ [Next]_vars => TypeInv'
<1> SUFFICES ASSUME TypeInv, [Next]_vars PROVE TypeInv'
  OBVIOUS
<1>1. ASSUME NEW p \in Procs, NEW k \in Keypers, NEW package \in Packages,
             Request(p, k, package)
      PROVE  TypeInv'
  BY <1>1, RequestType
<1>2. ASSUME NEW p \in Procs, Run(p) PROVE TypeInv'
  BY <1>2, OpenType, SignLockType, AnswerType DEF Run
<1>3. ASSUME NEW k \in Keypers, LoseFile(k) PROVE TypeInv'
  <2> USE DEF TypeInv, TypeOK
  <2>1. journal' \in [Keypers -> Records \cup {Missing}]
    BY <1>3 DEF LoseFile
  <2>2. marker' \in [Keypers -> BOOLEAN]
    BY <1>3, Zenon DEF LoseFile
  <2>3. losses' \in Nat
    BY <1>3 DEF LoseFile
  <2> QED
    BY <1>3, <2>1, <2>2, <2>3 DEF LoseFile, Busy, outputs
<1>4. ASSUME NEW package \in Packages, lock(package) PROVE TypeInv'
  BY <1>4, PackagesAssumption DEF lock, TypeInv, TypeOK, Busy, files, outputs, ChainState
<1>5. ASSUME NEW e \in Epochs, NEW package \in Packages, NEW nonce \in SettlementNonces,
             settle(e, package, nonce)
      PROVE  TypeInv'
  BY <1>5 DEF settle, TypeInv, TypeOK, Busy, files, outputs, ChainState
<1>6. ASSUME NEW e \in Epochs, expire_or_abort(e) PROVE TypeInv'
  BY <1>6 DEF expire_or_abort, TypeInv, TypeOK, Busy, files, outputs, ChainState
<1>7. CASE Tick
  BY <1>7, DeadlinesAssumption DEF Tick, TypeInv, TypeOK, Busy, files, outputs
<1>8. CASE UNCHANGED vars
  BY <1>8 DEF vars, TypeInv, TypeOK, Busy, files, outputs
<1> QED
  BY <1>1, <1>2, <1>3, <1>4, <1>5, <1>6, <1>7, <1>8 DEF Next

(* Type correctness of keypers, files and chain: every process that serves  *)
(* a request carries a configured keyper and a package, every journal maps  *)
(* epochs to packages, every output names a keyper and a package.           *)
THEOREM TypeCorrect == Spec => []TypeOK
<1>1. Spec => []TypeInv
  BY InitType, NextType, PTL DEF Spec
<1>2. TypeInv => TypeOK
  BY DEF TypeInv
<1> QED
  BY <1>1, <1>2, PTL

-----------------------------------------------------------------------------
(* One lock per keyper *)

(* The keyper has given out a signature of the package, or a process of it  *)
(* is about to.                                                             *)
Signs(k, package) ==
  \/ [keyper |-> k, package |-> package] \in approvals
  \/ \E p \in Procs :
       procs[p].pc = "sign" /\ procs[p].keyper = k /\ procs[p].package = package

(* The journal names the package, or is gone while the marker remains.      *)
Holds(k, package) ==
  \/ journal[k] = Missing /\ marker[k]
  \/ journal[k] # Missing /\ journal[k][EpochOf[package]] = package

(* The journal names the package after this step and no other before it. *)
Recorded(k, package) ==
  /\ journal[k] # Missing
  /\ journal[k][EpochOf[package]] \in {None, package}
  /\ journal'[k] # Missing
  /\ journal'[k][EpochOf[package]] = package

(* Every signature has its record, and no keyper signs two of one epoch. *)
Backed == \A k \in Keypers, package \in Packages : Signs(k, package) => Holds(k, package)

Unique ==
  \A k \in Keypers, x, y \in Packages :
    Signs(k, x) /\ Signs(k, y) /\ EpochOf[x] = EpochOf[y] => x = y

(* What the journal holds for a signature, no step takes away: a file that  *)
(* is lost leaves the marker, and a marker alone is never acted on.         *)
LEMMA HoldsKept ==
  ASSUME TypeInv, [Next]_vars, NEW k \in Keypers, NEW package \in Packages, Holds(k, package)
  PROVE  Holds(k, package)'
<1> USE PackagesAssumption DEF Holds
<1>0. EpochOf[package] \in Epochs
  OBVIOUS
<1>1. CASE UNCHANGED files
  BY <1>1 DEF files
<1>2. ASSUME NEW p \in Procs, open(p) PROVE Holds(k, package)'
  BY <1>2, <1>1 DEF open, TypeInv, TypeOK
<1>3. ASSUME NEW p \in Procs, open_interrupted(p) PROVE Holds(k, package)'
  BY <1>3 DEF open_interrupted, TypeInv, TypeOK
<1>4. ASSUME NEW p \in Procs, sign_lock(p) PROVE Holds(k, package)'
  <2>1. procs[p].keyper \in Keypers /\ procs[p].package \in Packages
    BY <1>4 DEF sign_lock, TypeInv, Busy
  <2>2. CASE UNCHANGED journal
    BY <1>4, <2>2 DEF sign_lock
  <2>3. CASE /\ journal[procs[p].keyper] # Missing
             /\ journal[procs[p].keyper][EpochOf[procs[p].package]] = None
             /\ journal' = [journal EXCEPT ![procs[p].keyper][EpochOf[procs[p].package]] =
                                             procs[p].package]
    <3>1. CASE procs[p].keyper # k
      BY <1>4, <2>3, <3>1 DEF sign_lock, TypeInv, TypeOK
    <3>2. CASE procs[p].keyper = k
      <4>1. journal[k] \in Records /\ journal[k][EpochOf[package]] = package
        BY <2>3, <3>2 DEF TypeInv, TypeOK
      <4>2. EpochOf[procs[p].package] # EpochOf[package]
        BY <2>3, <3>2, <4>1
      <4>3. journal'[k] = [journal[k] EXCEPT ![EpochOf[procs[p].package]] = procs[p].package]
        BY <2>3, <3>2 DEF TypeInv, TypeOK
      <4>4. journal'[k] \in Records
        BY <2>1, <4>1, <4>3 DEF Records
      <4>5. journal'[k][EpochOf[package]] = package
        BY <4>1, <4>2, <4>3 DEF Records
      <4> QED
        BY <4>4, <4>5 DEF Records
    <3> QED
      BY <3>1, <3>2
  <2> QED
    BY <1>4, <2>2, <2>3 DEF sign_lock, record
<1>5. ASSUME NEW l \in Keypers, LoseFile(l) PROVE Holds(k, package)'
  BY <1>5 DEF LoseFile, TypeInv, TypeOK
<1> QED
  BY <1>1, <1>2, <1>3, <1>4, <1>5
  DEF Next, Request, Run, fetch_confirmed_open_epoch, fetch_confirmed_lock, answer_sign_lock,
      release_share, sign_settlement, Stop, lock, settle, expire_or_abort, Tick, vars, files

(* A process signs only what its record step found or wrote in the journal. *)
LEMMA SignsStep ==
  ASSUME TypeInv, [Next]_vars, NEW k \in Keypers, NEW package \in Packages,
         Signs(k, package)', ~Signs(k, package)
  PROVE  Recorded(k, package)
<1> USE DEF Signs
<1>1. CASE UNCHANGED <<approvals, procs>>
  BY <1>1
<1>2. ASSUME NEW p \in Procs, UNCHANGED approvals,
             \A q \in Procs : q # p => procs'[q] = procs[q],
             procs'[p].pc # "sign"
      PROVE  FALSE
  BY <1>2
<1>3. ASSUME NEW p \in Procs, answer_sign_lock(p) PROVE FALSE
  <2>1. procs' = [procs EXCEPT ![p] = Idle]
    BY <1>3 DEF answer_sign_lock, Return
  <2>2. procs'[p].pc = "idle" /\ \A q \in Procs : q # p => procs'[q] = procs[q]
    BY <2>1, IdleType DEF TypeInv, TypeOK
  <2> QED
    BY <1>3, <2>2 DEF answer_sign_lock
<1>4. ASSUME NEW p \in Procs, sign_lock(p) PROVE Recorded(k, package)
  <2>0. /\ procs[p].keyper \in Keypers /\ procs[p].package \in Packages
        /\ EpochOf[procs[p].package] \in Epochs
        /\ UNCHANGED approvals
    BY <1>4, PackagesAssumption DEF sign_lock, outputs, TypeInv, Busy
  <2>1. CASE Return(p)
    <3>1. procs'[p].pc = "idle" /\ \A q \in Procs : q # p => procs'[q] = procs[q]
      BY <2>1, IdleType DEF Return, TypeInv, TypeOK
    <3> QED
      BY <2>0, <3>1, <1>2
  <2>2. CASE procs' = [procs EXCEPT ![p].pc = "sign"] /\ record(p)
    <3>1. /\ procs'[p].keyper = procs[p].keyper /\ procs'[p].package = procs[p].package
          /\ \A q \in Procs : q # p => procs'[q] = procs[q]
      BY <2>2 DEF TypeInv, TypeOK, Process
    <3>2. procs[p].keyper = k /\ procs[p].package = package
      BY <2>0, <3>1
    <3>3. CASE journal[k] # Missing /\ journal[k][EpochOf[package]] = package /\ UNCHANGED journal
      BY <3>3 DEF Recorded
    <3>4. CASE /\ journal[k] # Missing /\ journal[k][EpochOf[package]] = None
               /\ journal' = [journal EXCEPT ![k][EpochOf[package]] = package]
      <4>1. journal[k] \in Records
        BY <3>4 DEF TypeInv, TypeOK
      <4>2. journal'[k] = [journal[k] EXCEPT ![EpochOf[package]] = package]
        BY <3>4 DEF TypeInv, TypeOK
      <4>3. journal'[k] \in Records /\ journal'[k][EpochOf[package]] = package
        BY <2>0, <3>2, <4>1, <4>2 DEF Records
      <4> QED
        BY <3>4, <4>3, PackagesAssumption DEF Recorded, Records
    <3>5. CASE Return(p)
      BY <3>5, <2>1
    <3> QED
      BY <2>2, <3>2, <3>3, <3>4, <3>5 DEF record
  <2> QED
    BY <1>4, <2>1, <2>2 DEF sign_lock, record
<1>5. ASSUME NEW p \in Procs,
             \/ \E l \in Keypers, other \in Packages : Request(p, l, other)
             \/ open(p) \/ open_interrupted(p) \/ Stop(p)
             \/ \E m \in Members : release_share(p, m)
             \/ \E nonce \in SettlementNonces : sign_settlement(p, nonce)
      PROVE  FALSE
  <2>1. UNCHANGED approvals
    BY <1>5 DEF Request, fetch_confirmed_open_epoch, fetch_confirmed_lock, open, open_interrupted,
               Stop, release_share, sign_settlement, outputs
  <2> USE DEF TypeInv, TypeOK
  <2>2. CASE Return(p)
    <3>1. procs'[p].pc = "idle" /\ \A q \in Procs : q # p => procs'[q] = procs[q]
      BY <2>2, IdleType DEF Return
    <3> QED
      BY <1>2, <2>1, <3>1
  <2>3. CASE \E l \in Keypers, other \in Packages : Request(p, l, other)
    <3>1. procs'[p].pc = "open" /\ \A q \in Procs : q # p => procs'[q] = procs[q]
      BY <2>3 DEF Request, fetch_confirmed_open_epoch, fetch_confirmed_lock
    <3> QED
      BY <1>2, <2>1, <3>1
  <2>4. CASE open(p) /\ ~Return(p)
    <3>1. procs'[p].pc = "ready" /\ \A q \in Procs : q # p => procs'[q] = procs[q]
      BY <2>4 DEF open, Process
    <3> QED
      BY <1>2, <2>1, <3>1
  <2> QED
    BY <1>5, <2>2, <2>3, <2>4 DEF open_interrupted, Stop, release_share, sign_settlement
<1> QED
  BY <1>1, <1>3, <1>4, <1>5
  DEF Next, Run, LoseFile, lock, settle, expire_or_abort, Tick, vars, outputs

(* The journal keeps backing every signature, and forbids a second one. *)
LEMMA NextUnique == TypeInv /\ Backed /\ Unique /\ [Next]_vars => Backed' /\ Unique'
<1> SUFFICES ASSUME TypeInv, Backed, Unique, [Next]_vars PROVE Backed' /\ Unique'
  OBVIOUS
<1>1. ASSUME NEW k \in Keypers, NEW package \in Packages, Signs(k, package)'
      PROVE  Holds(k, package)'
  <2>1. CASE Signs(k, package)
    BY <2>1, HoldsKept DEF Backed
  <2>2. CASE ~Signs(k, package)
    BY <1>1, <2>2, SignsStep DEF Recorded, Holds
  <2> QED
    BY <2>1, <2>2
<1>2. ASSUME NEW k \in Keypers, NEW x \in Packages, NEW y \in Packages,
             Signs(k, x)', Signs(k, y)', EpochOf[x] = EpochOf[y], ~Signs(k, x)
      PROVE  x = y
  <2>1. Recorded(k, x)
    BY <1>2, SignsStep
  <2>2. CASE Signs(k, y)
    BY <1>2, <2>1, <2>2, PackagesAssumption DEF Recorded, Backed, Holds
  <2>3. CASE ~Signs(k, y)
    BY <1>2, <2>1, <2>3, SignsStep DEF Recorded
  <2> QED
    BY <2>2, <2>3
<1>3. Backed'
  BY <1>1 DEF Backed
<1>4. ASSUME NEW k \in Keypers, NEW x \in Packages, NEW y \in Packages,
             Signs(k, x)', Signs(k, y)', EpochOf[x] = EpochOf[y]
      PROVE  x = y
  <2>1. CASE Signs(k, x) /\ Signs(k, y)
    BY <1>4, <2>1 DEF Unique
  <2> QED
    BY <1>2, <1>4, <2>1
<1>5. Unique'
  BY <1>4 DEF Unique
<1> QED
  BY <1>3, <1>5

(* Initially no keyper has signed anything. *)
LEMMA InitUnique == Init => Backed /\ Unique
  BY IdleType DEF Init, Backed, Unique, Signs

(* The signatures given out are among those Unique speaks of. *)
LEMMA UniqueImpliesOne == TypeInv /\ Unique => OneLockPerKeyper
<1> SUFFICES ASSUME TypeInv, Unique, NEW a \in approvals, NEW b \in approvals,
                    a.keyper = b.keyper, EpochOf[a.package] = EpochOf[b.package]
             PROVE  a.package = b.package
  BY DEF OneLockPerKeyper
<1>1. /\ a.keyper \in Keypers /\ a.package \in Packages /\ b.package \in Packages
      /\ a = [keyper |-> a.keyper, package |-> a.package]
      /\ b = [keyper |-> a.keyper, package |-> b.package]
  BY DEF TypeInv, TypeOK
<1>2. Signs(a.keyper, a.package) /\ Signs(a.keyper, b.package)
  BY <1>1 DEF Signs
<1> QED
  BY <1>1, <1>2 DEF Unique

(* Any two of three keypers and any other two share one. *)
LEMMA OneImpliesQuorum == OneLockPerKeyper => OneQuorumPerEpoch
<1> SUFFICES ASSUME OneLockPerKeyper, NEW x \in Packages, NEW y \in Packages,
                    EpochOf[x] = EpochOf[y], Quorum(Approved(x)), Quorum(Approved(y))
             PROVE  x = y
  BY DEF OneQuorumPerEpoch
<1>1. PICK a \in Keypers, b \in Keypers :
        /\ a # b
        /\ [keyper |-> a, package |-> x] \in approvals
        /\ [keyper |-> b, package |-> x] \in approvals
  BY DEF Quorum, Approved
<1>2. PICK c \in Keypers, d \in Keypers :
        /\ c # d
        /\ [keyper |-> c, package |-> y] \in approvals
        /\ [keyper |-> d, package |-> y] \in approvals
  BY DEF Quorum, Approved
<1>3. a = c \/ a = d \/ b = c \/ b = d
  BY <1>1, <1>2, KeypersAssumption
<1>4. PICK k \in Keypers : /\ [keyper |-> k, package |-> x] \in approvals
                           /\ [keyper |-> k, package |-> y] \in approvals
  BY <1>1, <1>2, <1>3
<1> QED
  BY <1>4 DEF OneLockPerKeyper

(* A keyper never signs two packages of one epoch, whatever its processes   *)
(* interleave with, wherever they stop, and if files are lost: the journal  *)
(* record precedes the signature and is reloaded under the file lock.       *)
THEOREM LocksAreUnique == Spec => []OneLockPerKeyper
<1>1. Spec => [](TypeInv /\ Backed /\ Unique)
  <2>1. Init => TypeInv /\ Backed /\ Unique
    BY InitType, InitUnique
  <2>2. TypeInv /\ Backed /\ Unique /\ [Next]_vars => (TypeInv /\ Backed /\ Unique)'
    BY NextType, NextUnique
  <2> QED
    BY <2>1, <2>2, PTL DEF Spec
<1> QED
  BY <1>1, UniqueImpliesOne, PTL

(* Two packages of one epoch never both gather the two signatures the       *)
(* program asks for: with three keypers, two quorums share a keyper.        *)
THEOREM QuorumsAreUnique == Spec => []OneQuorumPerEpoch
  BY LocksAreUnique, OneImpliesQuorum, PTL

-----------------------------------------------------------------------------
(* The journal *)

(* A step that leaves a journal in place leaves its records in place. *)
LEMMA RecordKept ==
  ASSUME TypeInv, [Next]_vars, NEW k \in Keypers, NEW e \in Epochs,
         journal[k] # Missing, journal'[k] # Missing, journal[k][e] # None
  PROVE  journal'[k][e] = journal[k][e]
<1> USE DEF TypeInv, TypeOK
<1>1. CASE UNCHANGED journal
  BY <1>1
<1>2. ASSUME NEW p \in Procs, open(p) PROVE journal'[k] = journal[k]
  BY <1>2 DEF open, files
<1>3. ASSUME NEW p \in Procs, sign_lock(p) PROVE journal'[k][e] = journal[k][e]
  <2> DEFINE l == procs[p].keyper
             f == EpochOf[procs[p].package]
  <2>1. CASE journal' = [journal EXCEPT ![l][f] = procs[p].package] /\ journal[l][f] = None
    <3>1. CASE l # k
      BY <2>1, <3>1
    <3>2. CASE l = k
      <4>1. journal[k] \in Records /\ f # e
        BY <2>1, <3>2
      <4>2. journal'[k] = [journal[k] EXCEPT ![f] = procs[p].package]
        BY <2>1, <3>2
      <4> QED
        BY <4>1, <4>2 DEF Records
    <3> QED
      BY <3>1, <3>2
  <2> QED
    BY <1>1, <1>3, <2>1 DEF sign_lock, record
<1>4. ASSUME NEW l \in Keypers, LoseFile(l) PROVE journal'[k] = journal[k]
  BY <1>4 DEF LoseFile
<1> QED
  BY <1>1, <1>2, <1>3, <1>4
  DEF Next, Request, Run, fetch_confirmed_open_epoch, fetch_confirmed_lock, open_interrupted,
      answer_sign_lock, release_share, sign_settlement, Stop, lock, settle, expire_or_abort, Tick,
      vars, files

(* No record of a lock journal is ever replaced or dropped from the file,   *)
(* by any interleaving of a keyper's processes: LockJournal::record writes  *)
(* only where the reloaded journal has nothing.                             *)
THEOREM RecordsKept == Spec => JournalKeepsRecords
<1>1. Spec => []TypeInv
  BY InitType, NextType, PTL DEF Spec
<1>2. TypeInv /\ [Next]_vars =>
        [\A k \in Keypers, e \in Epochs :
           /\ journal[k] # Missing
           /\ journal'[k] # Missing
           /\ journal[k][e] # None
           => journal'[k][e] = journal[k][e]]_vars
  BY RecordKept
<1> QED
  BY <1>1, <1>2, PTL DEF Spec, JournalKeepsRecords

-----------------------------------------------------------------------------
(* Shares and settlements *)

(* The chain records a lock digest once, while the epoch is open, and a     *)
(* process that read one read the digest of its package's epoch.            *)
DigestRead ==
  /\ \A e \in Epochs : chain[e].state = "Open" => chain[e].lock_digest = None
  /\ \A p \in Procs :
       (procs[p].pc # "idle" /\ procs[p].lock_digest # None) =>
         chain[EpochOf[procs[p].package]].lock_digest = procs[p].lock_digest

(* Settlement signatures certify the locked package, and an opened one. *)
SettlementsLocked == \A s \in settlements : chain[EpochOf[s.package]].lock_digest = s.package

SettlementsOpened == \A s \in settlements : recompute(s.package)

LockInv == DigestRead /\ SharesOnlyForLocked /\ SettlementsLocked /\ SettlementsOpened

(* A recorded digest is final. *)
LEMMA DigestFinal ==
  ASSUME TypeInv, DigestRead, [Next]_vars, NEW e \in Epochs, chain[e].lock_digest # None
  PROVE  chain'[e].lock_digest = chain[e].lock_digest
<1> USE DEF TypeInv, TypeOK
<1>1. CASE UNCHANGED chain
  BY <1>1
<1>2. ASSUME NEW package \in Packages, lock(package)
      PROVE  chain'[e] = chain[e]
  BY <1>2 DEF lock, DigestRead
<1>3. ASSUME NEW f \in Epochs, NEW package \in Packages, NEW nonce \in SettlementNonces,
             settle(f, package, nonce)
      PROVE  chain'[e].lock_digest = chain[e].lock_digest
  BY <1>3 DEF settle
<1>4. ASSUME NEW f \in Epochs, expire_or_abort(f)
      PROVE  chain'[e].lock_digest = chain[e].lock_digest
  BY <1>4 DEF expire_or_abort
<1> QED
  BY <1>1, <1>2, <1>3, <1>4
  DEF Next, Request, Run, fetch_confirmed_open_epoch, fetch_confirmed_lock, open,
      open_interrupted, sign_lock, answer_sign_lock, release_share, sign_settlement, Stop,
      LoseFile, Tick, vars

(* An epoch is reopened by nothing. *)
LEMMA OpenUnlocked ==
  ASSUME TypeInv, DigestRead, [Next]_vars, NEW e \in Epochs, chain'[e].state = "Open"
  PROVE  chain'[e].lock_digest = None
<1> USE DEF TypeInv, TypeOK, DigestRead
<1>1. CASE UNCHANGED chain
  BY <1>1
<1>2. ASSUME NEW package \in Packages, lock(package) PROVE chain'[e] = chain[e]
  BY <1>2 DEF lock
<1>3. ASSUME NEW f \in Epochs, NEW package \in Packages, NEW nonce \in SettlementNonces,
             settle(f, package, nonce)
      PROVE  chain'[e] = chain[e]
  BY <1>3 DEF settle
<1>4. ASSUME NEW f \in Epochs, expire_or_abort(f) PROVE chain'[e] = chain[e]
  BY <1>4 DEF expire_or_abort
<1> QED
  BY <1>1, <1>2, <1>3, <1>4
  DEF Next, Request, Run, fetch_confirmed_open_epoch, fetch_confirmed_lock, open,
      open_interrupted, sign_lock, answer_sign_lock, release_share, sign_settlement, Stop,
      LoseFile, Tick, vars

(* Processes keep the digest they read. *)
LEMMA ReadKept ==
  ASSUME TypeInv, DigestRead, [Next]_vars, NEW p \in Procs,
         procs'[p].pc # "idle", procs'[p].lock_digest # None
  PROVE  chain'[EpochOf[procs'[p].package]].lock_digest = procs'[p].lock_digest
<1> USE DEF TypeInv, TypeOK
<1>1. CASE /\ procs[p].pc # "idle"
           /\ procs'[p].package = procs[p].package
           /\ procs'[p].lock_digest = procs[p].lock_digest
  <2>1. EpochOf[procs[p].package] \in Epochs
    BY <1>1, PackagesAssumption DEF Busy
  <2>2. chain[EpochOf[procs[p].package]].lock_digest = procs[p].lock_digest
    BY <1>1 DEF DigestRead
  <2> QED
    BY <1>1, <2>1, <2>2, DigestFinal
<1>2. ASSUME NEW q \in Procs, NEW k \in Keypers, NEW package \in Packages, Request(q, k, package)
      PROVE  chain'[EpochOf[procs'[p].package]].lock_digest = procs'[p].lock_digest
  <2>1. CASE p = q
    BY <1>2, <2>1 DEF Request, fetch_confirmed_open_epoch, fetch_confirmed_lock
  <2>2. CASE p # q
    <3>1. procs'[p] = procs[p]
      BY <1>2, <2>2 DEF Request, fetch_confirmed_open_epoch, fetch_confirmed_lock
    <3> QED
      BY <1>1, <3>1
  <2> QED
    BY <2>1, <2>2
<1>3. ASSUME NEW q \in Procs, Run(q)
      PROVE  /\ procs[p].pc # "idle"
             /\ procs'[p].package = procs[p].package
             /\ procs'[p].lock_digest = procs[p].lock_digest
  <2>1. CASE Return(q)
    BY <2>1, IdleType DEF Return
  <2>2. CASE open(q) /\ ~Return(q)
    BY <2>2 DEF open, Process
  <2>3. CASE sign_lock(q) /\ ~Return(q)
    BY <2>3 DEF sign_lock, record, Process
  <2> QED
    BY <1>3, <2>1, <2>2, <2>3
    DEF Run, open_interrupted, answer_sign_lock, release_share, sign_settlement, Stop
<1>4. CASE UNCHANGED procs
  BY <1>1, <1>4
<1> QED
  BY <1>1, <1>2, <1>3, <1>4 DEF Next, LoseFile, lock, settle, expire_or_abort, Tick, vars

(* A package whose digest a process read, and which its validate_locked     *)
(* accepts, is the one the chain locked.                                    *)
LEMMA ReadIsLocked ==
  ASSUME TypeInv, DigestRead, NEW p \in Procs, procs[p].pc # "idle",
         validate_locked(procs[p].package, procs[p])
  PROVE  /\ EpochOf[procs[p].package] \in Epochs
         /\ procs[p].package # None
         /\ chain[EpochOf[procs[p].package]].lock_digest = procs[p].package
  BY PackagesAssumption DEF TypeInv, Busy, DigestRead, validate_locked

(* Shares are only added, and one at a time for the locked package. *)
LEMMA SharesStep ==
  ASSUME TypeInv, LockInv, [Next]_vars
  PROVE  /\ shares \subseteq shares'
         /\ \A s \in shares' :
              /\ s.package \in Packages
              /\ chain[EpochOf[s.package]].lock_digest = s.package
<1>0. \A s \in shares : s.package \in Packages /\ chain[EpochOf[s.package]].lock_digest = s.package
  BY DEF TypeInv, TypeOK, LockInv, SharesOnlyForLocked
<1>1. CASE UNCHANGED shares
  BY <1>0, <1>1
<1>2. ASSUME NEW p \in Procs, NEW m \in Members, release_share(p, m), ~UNCHANGED shares
      PROVE  /\ shares \subseteq shares'
             /\ \A s \in shares' :
                  /\ s.package \in Packages
                  /\ chain[EpochOf[s.package]].lock_digest = s.package
  <2>1. /\ validate_locked(procs[p].package, procs[p])
        /\ procs[p].pc # "idle"
        /\ shares' = shares \cup {[keyper |-> procs[p].keyper, package |-> procs[p].package,
                                   member |-> m]}
    BY <1>2 DEF release_share
  <2>2. procs[p].package \in Packages
    BY <2>1 DEF TypeInv, Busy
  <2> QED
    BY <1>0, <2>1, <2>2, ReadIsLocked DEF LockInv
<1> QED
  BY <1>1, <1>2
  DEF Next, Request, Run, fetch_confirmed_open_epoch, fetch_confirmed_lock, open,
      open_interrupted, sign_lock, answer_sign_lock, sign_settlement, Stop, LoseFile, lock, settle,
      expire_or_abort, Tick, vars, outputs

(* A settlement signature is added only for the locked package, opened. *)
LEMMA SettlementsStep ==
  ASSUME TypeInv, LockInv, [Next]_vars
  PROVE  \A s \in settlements' :
           /\ s.package \in Packages
           /\ chain[EpochOf[s.package]].lock_digest = s.package
           /\ recompute(s.package)
<1>0. \A s \in settlements : /\ s.package \in Packages
                             /\ chain[EpochOf[s.package]].lock_digest = s.package
                             /\ recompute(s.package)
  BY DEF TypeInv, TypeOK, LockInv, SettlementsLocked, SettlementsOpened
<1>1. CASE UNCHANGED settlements
  BY <1>0, <1>1
<1>2. ASSUME NEW p \in Procs, NEW nonce \in SettlementNonces, sign_settlement(p, nonce),
             ~UNCHANGED settlements
      PROVE  \A s \in settlements' :
               /\ s.package \in Packages
               /\ chain[EpochOf[s.package]].lock_digest = s.package
               /\ recompute(s.package)
  <2>1. /\ validate_locked(procs[p].package, procs[p])
        /\ recompute(procs[p].package)
        /\ procs[p].pc # "idle"
        /\ settlements' = settlements \cup {[keyper |-> procs[p].keyper,
                                             package |-> procs[p].package, nonce |-> nonce]}
    BY <1>2 DEF sign_settlement
  <2>2. procs[p].package \in Packages
    BY <2>1 DEF TypeInv, Busy
  <2> QED
    BY <1>0, <2>1, <2>2, ReadIsLocked DEF LockInv
<1> QED
  BY <1>1, <1>2
  DEF Next, Request, Run, fetch_confirmed_open_epoch, fetch_confirmed_lock, open,
      open_interrupted, sign_lock, answer_sign_lock, release_share, Stop, LoseFile, lock, settle,
      expire_or_abort, Tick, vars, outputs

(* What two shares of every member opened stays open. *)
LEMMA RecomputeKept ==
  ASSUME NEW package \in Packages, recompute(package), shares \subseteq shares'
  PROVE  recompute(package)'
  BY DEF recompute, Quorum

(* Initially nothing is locked, read or given out. *)
LEMMA InitLockInv == Init => LockInv
  BY IdleType, PackagesAssumption
  DEF Init, LockInv, DigestRead, SharesOnlyForLocked, SettlementsLocked, SettlementsOpened

(* No step separates the keypers' outputs from the chain's lock: the digest *)
(* a process acts on is still the chain's, however old its read is.         *)
LEMMA NextLockInv == TypeInv /\ LockInv /\ [Next]_vars => LockInv'
<1> SUFFICES ASSUME TypeInv, LockInv, [Next]_vars PROVE LockInv'
  OBVIOUS
<1>0. DigestRead /\ \A package \in Packages : EpochOf[package] \in Epochs /\ package # None
  BY PackagesAssumption DEF LockInv
<1>1. DigestRead'
  BY <1>0, OpenUnlocked, ReadKept DEF DigestRead
<1>2. SharesOnlyForLocked'
  BY <1>0, SharesStep, DigestFinal DEF SharesOnlyForLocked
<1>3. SettlementsLocked'
  BY <1>0, SettlementsStep, DigestFinal DEF SettlementsLocked
<1>4. SettlementsOpened'
  BY SharesStep, SettlementsStep, RecomputeKept DEF SettlementsOpened
<1> QED
  BY <1>1, <1>2, <1>3, <1>4 DEF LockInv

(* The chain's lock and the keypers' outputs agree in every reachable state. *)
LEMMA LockInvHolds == Spec => [](TypeInv /\ LockInv)
<1>1. Init => TypeInv /\ LockInv
  BY InitType, InitLockInv
<1>2. TypeInv /\ LockInv /\ [Next]_vars => (TypeInv /\ LockInv)'
  BY NextType, NextLockInv
<1> QED
  BY <1>1, <1>2, PTL DEF Spec

(* Every share given out belongs to the package the chain locked for its    *)
(* epoch, although the process that gave it may have read the chain long    *)
(* before: a recorded lock digest is final.                                 *)
THEOREM SharesFollowLock == Spec => []SharesOnlyForLocked
<1>1. TypeInv /\ LockInv => SharesOnlyForLocked
  BY DEF LockInv
<1> QED
  BY <1>1, LockInvHolds, PTL

(* Every settlement signature certifies the locked package of its epoch,    *)
(* opened with two shares of each member, so no two certify different       *)
(* packages.                                                                *)
THEOREM SettlementsFollow == Spec => []SettlementsFollowReveal
<1>1. TypeInv /\ LockInv => SettlementsFollowReveal
  BY DEF LockInv, SettlementsLocked, SettlementsOpened, SettlementsFollowReveal
<1> QED
  BY <1>1, LockInvHolds, PTL
=============================================================================
