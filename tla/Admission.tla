------------------------------ MODULE Admission ------------------------------
(***************************************************************************)
(* From a reservation to a lockable batch, for one epoch: the operator     *)
(* turns each reservation into one funded authorization unless the trading *)
(* key is suspended, participants send encrypted submissions under their   *)
(* authorizations, admit_batch picks the members, and a keyper validates   *)
(* the resulting package.                                                  *)
(*                                                                         *)
(* The unsigned authorization that reserve returns cannot be copied: it is *)
(* a token, and issue_authorization consumes it also when it refuses.      *)
(*                                                                         *)
(* The suspension registry is a file behind an advisory lock.  Every       *)
(* process that opens it keeps a copy, which suspend refreshes and other   *)
(* processes leave stale.                                                  *)
(***************************************************************************)
EXTENDS Naturals, Sequences, SequencesExt, FiniteSets

CONSTANTS
  Participants, TradingKeys, Nonces,
  Registries,           \* open SuspensionRegistry values, one per process
  EpochIds, Epoch,      \* epochs with reservations; the one being admitted
  Receipts, ZeroReceipt,
  Envelopes,            \* [receipt, ciphertext, outer_signature] a sender may use
  Expiries,             \* expiry slots of authorizations
  Minimum,              \* policy.minimum, at least 1
  MaxBatchMembers,
  MaxSlot, MaxSubmissions,
  NoBatch, NoIssue

ASSUME AdmissionAssumption ==
  /\ Epoch \in EpochIds
  /\ Envelopes \subseteq [receipt: Receipts \cup {ZeroReceipt}, ciphertext: {"valid", "malformed"},
                          outer_signature: {"valid", "invalid"}]
  /\ Expiries \subseteq Nat /\ MaxSlot \in Nat /\ MaxSubmissions \in Nat
  /\ Minimum \in Nat \ {0} /\ MaxBatchMembers \in Nat

VARIABLES
  slot,
  tokens,               \* unsigned authorizations the operator holds
  reserved,             \* nonces in the reservation journal
  suspended,            \* trading keys in the registry file
  trading_keys,         \* the copy of the file each open registry holds
  issuing,              \* the authorization being signed under the registry's lock
  authorizations,       \* funded authorizations signed so far
  submissions,          \* what the host received, in order
  batch                 \* the admitted members and the slot of their policy

registry == <<suspended, trading_keys, issuing>>
vars == <<slot, tokens, reserved, registry, authorizations, submissions, batch>>

-----------------------------------------------------------------------------
UnsignedFundedAuthorization == [nonce: Nonces, epoch_id: EpochIds, participant_id: Participants]

FundedAuthorization ==
  [nonce: Nonces, epoch_id: EpochIds, participant_id: Participants,
   trading_key: TradingKeys, expiry_slot: Nat]

EncryptedSubmission == [authorization: FundedAuthorization, envelope: Envelopes]

reserve(n, e, m) ==
  /\ n \notin reserved
  /\ reserved' = reserved \cup {n}
  /\ tokens' = tokens \cup {[nonce |-> n, epoch_id |-> e, participant_id |-> m]}
  /\ UNCHANGED <<slot, registry, authorizations, submissions, batch>>

(* A process opens the registry; one that restarts opens it again. *)
open(r) ==
  /\ issuing = NoIssue
  /\ trading_keys' = [trading_keys EXCEPT ![r] = suspended]
  /\ UNCHANGED <<slot, tokens, reserved, suspended, issuing, authorizations, submissions, batch>>

(* Mutant: the copy is updated before the write, which may fail. *)
suspend_copy_first(r, key) ==
  /\ issuing = NoIssue
  /\ trading_keys' = [trading_keys EXCEPT ![r] = suspended \cup {key}]
  /\ \/ suspended' = suspended \cup {key}
     \/ UNCHANGED suspended
  /\ UNCHANGED <<slot, tokens, reserved, issuing, authorizations, submissions, batch>>

(* The copy is assigned last: an error after the rename leaves it stale     *)
(* although the file has the key.                                           *)
suspend(r, key) ==
  /\ issuing = NoIssue
  /\ suspended' = suspended \cup {key}
  /\ \/ trading_keys' = [trading_keys EXCEPT ![r] = suspended']
     \/ UNCHANGED trading_keys
  /\ UNCHANGED <<slot, tokens, reserved, issuing, authorizations, submissions, batch>>

is_suspended(r, key) == key \in trading_keys[r]

Signed(token, key, expiry) ==
  [nonce |-> token.nonce, epoch_id |-> token.epoch_id,
   participant_id |-> token.participant_id,
   trading_key |-> key, expiry_slot |-> expiry]

(* Mutants: a process asks the copy it holds; the token is not consumed. *)
issue_authorization_cached(token, key, expiry) ==
  /\ tokens' = tokens \ {token}
  /\ issuing = NoIssue
  /\ \E r \in Registries : ~is_suspended(r, key)
  /\ issuing' = Signed(token, key, expiry)
  /\ UNCHANGED <<slot, reserved, suspended, trading_keys, authorizations, submissions, batch>>

issue_authorization_again(token, key, expiry) ==
  /\ issuing = NoIssue
  /\ key \notin suspended
  /\ issuing' = Signed(token, key, expiry)
  /\ UNCHANGED <<slot, tokens, reserved, suspended, trading_keys, authorizations, submissions, batch>>

(* Takes the lock and re-reads the file.  A busy lock, an unreadable file   *)
(* and a suspended key are refusals, and the token is gone all the same.    *)
issue_authorization(token, key, expiry) ==
  /\ tokens' = tokens \ {token}
  /\ \/ UNCHANGED issuing
     \/ /\ issuing = NoIssue
        /\ key \notin suspended
        /\ issuing' = Signed(token, key, expiry)
  /\ UNCHANGED <<slot, reserved, suspended, trading_keys, authorizations, submissions, batch>>

(* Mutant: an authorization of the operator's without an expiry slot. *)
sign_without_expiry ==
  /\ issuing # NoIssue
  /\ authorizations' = authorizations \cup {[issuing EXCEPT !.expiry_slot = NoIssue]}
  /\ issuing' = NoIssue
  /\ UNCHANGED <<slot, tokens, reserved, suspended, trading_keys, submissions, batch>>

(* The lock is held until the signed authorization is returned. *)
sign ==
  /\ issuing # NoIssue
  /\ authorizations' = authorizations \cup {issuing}
  /\ issuing' = NoIssue
  /\ UNCHANGED <<slot, tokens, reserved, suspended, trading_keys, submissions, batch>>

(* The issuing process dies before it returns, which frees the lock. *)
StopIssue ==
  /\ issuing # NoIssue
  /\ issuing' = NoIssue
  /\ UNCHANGED <<slot, tokens, reserved, suspended, trading_keys, authorizations, submissions, batch>>

(* A sender may repeat an authorization under any envelope. *)
Submit(authorization, envelope) ==
  /\ batch = NoBatch
  /\ Len(submissions) < MaxSubmissions
  /\ submissions' = Append(submissions, [authorization |-> authorization, envelope |-> envelope])
  /\ UNCHANGED <<slot, tokens, reserved, registry, authorizations, batch>>

-----------------------------------------------------------------------------
verify_admission(submission, current_slot) ==
  /\ submission.authorization.expiry_slot >= current_slot
  /\ submission.authorization.epoch_id = Epoch
  /\ submission.envelope.receipt # ZeroReceipt
  /\ submission.envelope.ciphertext = "valid"
  /\ submission.envelope.outer_signature = "valid"

Who(submission) == submission.authorization.participant_id
NonceOf(submission) == submission.authorization.nonce
ReceiptOf(submission) == submission.envelope.receipt

(* Mutants: receipts are not compared; the last submission wins. *)
admit_one_any_receipt(acc, submission, current_slot) ==
  LET fresh == /\ verify_admission(submission, current_slot)
               /\ \A s \in acc.valid : Who(s) # Who(submission)
               /\ NonceOf(submission) \notin acc.nonces
  IN IF fresh THEN [acc EXCEPT !.valid = @ \cup {submission}, !.nonces = @ \cup {NonceOf(submission)}]
     ELSE acc

admit_one_last(acc, submission, current_slot) ==
  IF verify_admission(submission, current_slot)
  THEN [acc EXCEPT !.valid = {s \in @ : Who(s) # Who(submission)} \cup {submission}]
  ELSE acc

(* The conditions are evaluated in order: a nonce is taken by a submission  *)
(* that then fails on its receipt.                                          *)
admit_one(acc, submission, current_slot) ==
  LET eligible == /\ verify_admission(submission, current_slot)
                  /\ \A s \in acc.valid : Who(s) # Who(submission)
      fresh_nonce == NonceOf(submission) \notin acc.nonces
      fresh_receipt == ReceiptOf(submission) \notin acc.receipts
  IN
  [valid |-> IF eligible /\ fresh_nonce /\ fresh_receipt
             THEN acc.valid \cup {submission} ELSE acc.valid,
   nonces |-> IF eligible THEN acc.nonces \cup {NonceOf(submission)} ELSE acc.nonces,
   receipts |-> IF eligible /\ fresh_nonce
                THEN acc.receipts \cup {ReceiptOf(submission)} ELSE acc.receipts]

admitted(received, current_slot) ==
  FoldLeft(LAMBDA acc, submission : admit_one(acc, submission, current_slot),
           [valid |-> {}, nonces |-> {}, receipts |-> {}], received).valid

admit_batch ==
  /\ batch = NoBatch
  /\ Cardinality(admitted(submissions, slot)) >= Minimum
  /\ batch' = [members |-> admitted(submissions, slot), slot |-> slot]
  /\ UNCHANGED <<slot, tokens, reserved, registry, authorizations, submissions>>

(* LockPackageV1::validate, of the submissions of a package. *)
validate(members, current_slot) ==
  /\ Cardinality(members) <= MaxBatchMembers
  /\ Cardinality(members) >= Minimum
  /\ \A s \in members : verify_admission(s, current_slot)
  /\ \A s, t \in members :
       s # t => /\ Who(s) # Who(t)
                /\ NonceOf(s) # NonceOf(t)
                /\ ReceiptOf(s) # ReceiptOf(t)

Tick ==
  /\ slot < MaxSlot
  /\ slot' = slot + 1
  /\ UNCHANGED <<tokens, reserved, registry, authorizations, submissions, batch>>

-----------------------------------------------------------------------------
Init ==
  /\ slot = 0
  /\ tokens = {}
  /\ reserved = {}
  /\ suspended = {}
  /\ trading_keys = [r \in Registries |-> {}]
  /\ issuing = NoIssue
  /\ authorizations = {}
  /\ submissions = <<>>
  /\ batch = NoBatch

Next ==
  \/ \E n \in Nonces, e \in EpochIds, m \in Participants : reserve(n, e, m)
  \/ \E r \in Registries : open(r)
  \/ \E r \in Registries, key \in TradingKeys : suspend(r, key)
  \/ \E token \in tokens, key \in TradingKeys, expiry \in Expiries :
       issue_authorization(token, key, expiry)
  \/ sign
  \/ StopIssue
  \/ \E a \in authorizations, envelope \in Envelopes : Submit(a, envelope)
  \/ admit_batch
  \/ Tick

Spec == Init /\ [][Next]_vars

-----------------------------------------------------------------------------
(* Properties *)

TypeOK ==
  /\ slot \in Nat
  /\ tokens \subseteq UnsignedFundedAuthorization
  /\ reserved \subseteq Nonces
  /\ suspended \subseteq TradingKeys
  /\ trading_keys \in [Registries -> SUBSET TradingKeys]
  /\ issuing # NoIssue => issuing \in FundedAuthorization
  /\ authorizations \subseteq FundedAuthorization
  /\ submissions \in Seq(EncryptedSubmission)
  /\ batch # NoBatch => batch.members \subseteq EncryptedSubmission /\ batch.slot \in Nat

(* A batch the host admits, if it fits the member limit, is one the keypers *)
(* accept at that slot: the host's filter and the keypers' check, written   *)
(* separately, agree on crowd size, validity and every duplicate.           *)
AdmittedBatchLocks ==
  (batch # NoBatch /\ Cardinality(batch.members) <= MaxBatchMembers) =>
    validate(batch.members, batch.slot)

(* First come, first served: what arrives later never displaces or removes  *)
(* a member an earlier prefix of the submissions would have admitted.       *)
AdmissionMonotone ==
  batch # NoBatch =>
    \A i \in 0..Len(submissions) :
      admitted(SubSeq(submissions, 1, i), batch.slot) \subseteq batch.members

(* One reservation, one authorization: no nonce is ever signed twice, for   *)
(* any key or expiry, through refused and repeated issue attempts.          *)
OneAuthorizationPerNonce ==
  \A a, b \in authorizations : a.nonce = b.nonce => a = b

(* Suspension holds across processes: an authorization that is signed names *)
(* a key that the registry file does not contain at that moment, whichever  *)
(* process suspended it and however old the issuing process's copy is, and  *)
(* no key ever leaves the file.                                             *)
SuspensionHolds ==
  [][/\ suspended \subseteq suspended'
     /\ \A a \in authorizations' \ authorizations : a.trading_key \notin suspended']_vars

(* is_suspended never accuses a key that is not in the file: a copy may lag *)
(* behind other processes and behind a suspend call that reported an error, *)
(* but it is never ahead of the file.                                       *)
SuspendedAnswersTrue ==
  \A r \in Registries, key \in TradingKeys : is_suspended(r, key) => key \in suspended

(* "Duplicate participant IDs, nonces, receipts, and trading keys are       *)
(* rejected" (docs/protocol.md), of the members of an admitted batch.       *)
DuplicatesRejected ==
  batch # NoBatch =>
    \A s, t \in batch.members :
      s # t => /\ Who(s) # Who(t)
               /\ NonceOf(s) # NonceOf(t)
               /\ ReceiptOf(s) # ReceiptOf(t)
               /\ s.authorization.trading_key # t.authorization.trading_key
=============================================================================
