# A TLA+ verification of kageb

kageb is a batch-trading prototype on Solana. Participants fund a pool, encrypt
one-lot orders for an epoch, three keypers lock the crowd before anyone can read
an order, and then open it. Buys and sells net inside the pool and one residual
trades with a fixed venue. This directory models that system in TLA+, checks it
with TLC and proves parts of it with TLAPS.

Source paths below are relative to `crates/`; `program` stands for
`kageb-program/src` and `host` for `kageb-host/src`.

## 1. The system

| Part | State it keeps | Operations | Talks to |
| --- | --- | --- | --- |
| On-chain program (`program/processor.rs`) | pool account, epoch accounts, two vaults, two venue accounts | `initialize_pool`, `create_epoch`, `lock`, `settle`, `expire`, `abort` | everyone, through transactions |
| Accounts and payloads (`program/state.rs`, `wire.rs`, `instruction.rs`) | record layouts, signed payloads | encode, decode, digest | program, keypers |
| Ed25519 quorum (`program/ed25519.rs`) | none | counts configured keypers over one digest | program |
| Reservation journal (`host/admission.rs`) | one file: nonce, epoch, participant, state | `reserve`, `mark_used`, `release`, epoch-wide consume and release | account journal |
| Account journal (`host/account.rs`) | one file: balances, last epoch, digest of each applied epoch | `register`, `apply_settlement`, `query_result`, `finalize_settlement`, `release_reservations` | reservation journal, chain capabilities |
| Suspension registry (`host/admission.rs`) | one file: trading keys; a copy in each process | `open`, `suspend`, `is_suspended`, `issue_authorization` | authorizations |
| Admission (`host/crypto.rs`) | none between calls | authorization `sign` and `verify`, submission `verify_admission`, `admit_batch` | keypers, through the lock package |
| Lock package (`host/lock.rs`) | none | `validate`, `validate_locked` | keypers |
| Keypers (`host/keyper.rs`, `lock.rs`) | per keyper: lock journal and its initialization marker | one-shot `sign-lock`, `release-share`, `sign-settlement` | chain reads, coordinator |
| Settlement recomputation (`host/evidence.rs`) | none | `recompute`, `sign_settlement` | keypers, ledger |
| Ledger (`host/ledger.rs`) | none | `net_batch` | coordinator, keypers |
| Threshold encryption (`host/crypto.rs`) | dealer polynomial, shares | `encrypt`, `release`, `recover` | keypers |
| Coordinator scenarios (`host/demo.rs`) | none of their own | the end-to-end sequences | all of the above |
| Devnet proof run (`host/demo.rs`) | deployed program, deploy buffer, signer files, evidence file | choose and deploy a checkpoint, refund, run one epoch, verify, publish | chain, evidence verifier |
| Public evidence verifier (`host/evidence.rs`), observer (`host/observer.rs`) | none | checks of recorded documents | readers of the evidence |
| Client and codec (`host/client.rs`, `domain.rs`), CLI | none | parse, sign, encrypt one intent | participants |

What is hard about it, and what each part must get right:

- **Program.** Any caller may send any instruction at any time; epochs of one pool
  share the vaults. Every account the program wrote must stay usable, digests must
  keep committing to what is stored, tokens must be conserved, a locked package must
  never change, and no instant may allow two outcomes of one epoch.
- **Host journals.** Settlement writes two files that no transaction spans. Several
  processes use them, and each may stop anywhere. Funds behind a committed result must
  not be released, consumed reservations must belong to a committed result, a result must be
  committed only over open reservations, and no process may undo another's write.
- **Keypers.** Short-lived processes act on chain reads and journal copies that can be
  stale when used, and their files can be lost. A keyper must sign one package per
  epoch; nothing may be opened that the chain did not lock.
- **Admission.** The host filters submissions and keypers validate the same rule again,
  in different code. Processes suspend keys and sign authorizations concurrently, each with
  its own copy of the registry.
- **Ledger.** Every keyper recomputes the result, so it must not depend on order, and
  the residual must account for what members gained, at the limits of `u64`.
- **Proof run.** The evidence it publishes must speak of one deployment while others can
  upgrade the program, and a failed deploy must not leave rent or key files unnamed.

`PROJECT.json` lists the hazards one by one, at the line where each bites.

## 2. Modules

| Module | Models | Checked by |
| --- | --- | --- |
| `EpochProgram` | the program: one action per instruction | `MCEpochProgram` |
| `PoolLifecycle` | what the program promises, without accounts, payloads or clock | refined by `MCEpochProgram` |
| `EpochProgramProofs` | theorems about `EpochProgram` | TLAPS |
| `HostJournals` | reservation and account journals, finalize and release | `MCHostJournals` |
| `Keypers` | keyper processes, lock journal, the chain they read and feed | `MCKeypers` |
| `KeyperProofs` | theorems about `Keypers` | TLAPS |
| `Admission` | reservation token to admitted batch, suspension | `MCAdmission` |
| `Ledger` | `net_batch` | `MCLedger` |
| `Deployment` | the devnet proof run, its deploy attempt and the evidence it publishes | `MCDeployment` |

**EpochProgram.** `pool` and `epochs` are the accounts, the four vault variables the
token balances, `clock` the sysvar. A transaction is atomic, so an instruction that
returns an error is not a step, and each early return is a conjunct of a guard.
Addresses, owners, flags and mints are pinned by the handlers to the pool's own accounts,
which the actions therefore name directly. A digest is the payload it is computed from
(collision-free hashing). `OfferedLocks` are the payloads a caller can assemble: values of
any epoch, right or wrong for this one. `settle` contains both token transfers: when one
leg cannot be paid, neither happens.

**HostJournals.** Each file is replaced by an atomic rename under an advisory lock, so a
load-check-rename section is one step. `finalize_settlement` and `release_reservations`
hold the reservation lock over several sections: they are split into
`begin_finalize`, `check_matches`, `apply_settlement`, `finalize_epoch` and
`begin_release`, `has_applied_epoch`, `release_epoch`. `Stop` ends a call between any two
(crash, busy lock, I/O error; an error after the rename is a `Stop` after the write).
`ComputeResult` fixes a result from the balances at some moment; it can be stale when used.
`reserve` compares with the balance its caller states (`Available`), as the code does: it reads
neither the account file nor whether the participant is registered, so reservations may exceed
what is stored. What protects the stored balances is `apply_settlement`, not `reserve`.

**Keypers.** A process goes `idle`, `open` (chain read done), `ready` (journal loaded),
`sign` (recorded, signature not yet delivered). The lock operation reloads the journal in
`record`; share and settlement use the copy loaded at `open`. `open_interrupted` is the
stop between marker and journal. `LoseFile` removes one of a keyper's two files, never the
second: a keyper with neither file is to the code a new keyper, and no property covers it. The program is reduced
to what keypers see. Packages differ in whether their authorizations expire (`Expiry`),
their ciphertexts are distinct (`Distinct`) and their reveals are valid (`Opens`).

**Admission.** `suspended` is the registry file and `trading_keys` the copy in each process.
`issue_authorization` takes the registry's lock and re-reads the file, `sign` returns the
authorization and frees the lock; in between `open` and `suspend` must wait. `suspend` assigns the
copy last, so an error after the rename leaves it behind the file. The unsigned authorization is a Rust value without `Clone`; it is a token
that `issue_authorization` removes whether or not it signs. `admit_one` keeps the
short-circuit order of `admit_batch`, in which a submission refused for its receipt has
already used its nonce.

**Deployment.** `runs` is the local state of each `devnet_proof` process, with one action per
section between two reads or writes of shared state. The existence check of the output path,
the first deployment read, the read after the deploy and the two verifications are separate
steps. The chain is external: it keeps the program at the end of each slot, and a finalized
read sees the slot `root`. Transactions of a solana command that reported failure may still
land. Two assumptions are about the chain and the RPC endpoint, not about this code: a program
is neither called nor redeployed in the slot of its deployment, and successive finalized reads
never go back to an earlier slot. The four funding transfers are one step, and the
operations of the keypers and the journals in between belong to their own modules. An error
of any call is `Fail`; death during a deploy attempt is `Kill`.

**Ledger.** `net_batch` is a fold of `net_order` with every error of the code; `Reveal`
builds the batch in every order.

## 3. Runs

| Run | Checks | Result |
| --- | --- | --- |
| `epoch_program` | types, `AccountsStayValid`, `DigestsBindRecord`, `TokenConservation`, `VaultsHoldResiduals`, `DeadlinesSeparateOutcomes`, `LockedPackageFrozen`, refinement of `PoolLifecycle`, `EpochsEnd` | holds |
| `host_journals` | `SettlementsBacked`, `UsedMeansCommitted`, `QueryMatchesCommit`, `ReservedWithinAvailable`, `AccountsConserve` | holds |
| `host_results` | `UsedMeansCommitted`, `CommitIsFinal` when an epoch has two results | holds |
| `host_raw_transitions` | `CommitSpendsReserved`, `ReservationsLast` when `mark_used` and `release` are called directly | holds |
| `host_retry` | `RetryCanFinish` | violated, see 5 |
| `keypers` | `OneQuorumPerEpoch`, `SharesOnlyForLocked`, `SettlementsFollowReveal` | holds |
| `keyper_races` | `OneLockPerKeyper`, `JournalKeepsRecords` with concurrent processes | holds |
| `admission` | `AdmittedBatchLocks`, `AdmissionMonotone`, `OneAuthorizationPerNonce`, `SuspensionHolds`, `SuspendedAnswersTrue` | holds |
| `admission_keys` | `DuplicatesRejected` | violated, see 5 |
| `deployment` | `EvidenceRanCheckpoint`, `LeftoversReported` | holds |
| `deployment_race` | `EvidenceFinal` | holds |
| `ledger` | `NettingExact`, `OrderIndependent`, `ResidualCoversGains`, `ConservationNeverRefuses` | holds |

`host_raw_transitions` leaves out `UsedMeansCommitted` and `SettlementsBacked` on purpose:
`mark_used` and `release` do not look at the commit marker, so a caller that uses them
directly can break both. What survives is stated instead: a result still commits only over
open reservations of all its members, and no record is lost or reopened, although finalize and
release write the whole file from the copy they loaded.

No run states that an interrupted finalize is eventually completed: the code calls
`finalize_settlement` once and returns its error, and retrying is the caller's choice. Safety is
what `SettlementsBacked` and `QueryMatchesCommit` give: until a later epoch settles one of the
members, a retry of the committed result finds its balances and its reservations unreleased.

### Bounds

- *Program*: two epochs, so that they compete for the vaults and can swap payloads; three
  configured keys and a default key; signer sets of none, one configured and two configured keys; deposits
  and venue funds of one or two lots, so that transfers can fail on each side; `U64Max` 5, so
  that two lots at price 3 overflow; a clock of 0..4 around deadlines 1..3, which reaches
  before, at and after each deadline.
- *Journals*: two processes, two participants, two epochs, three nonces, balances of two
  lots: two overlapping epochs of one participant and a conflicting third reservation.
  Callers state one lot or two as available. One result per epoch (`MaxResults`), as the keypers certify one; `host_results` offers a
  second one for a single epoch, with two nonces, which may belong to one participant so that
  each result can be finalized with its own.
- *Keypers*: three keypers with one process at a time and three packages of one epoch; and
  one keyper with two processes, two epochs and three packages. One lost file in either run. The two
  questions are separate because keypers share nothing but the chain.
- *Admission*: two participants, keys, nonces, epochs and processes with a registry copy; three submissions, five envelopes (two
  good, one for each refusal).
- *Proof run*: one run, two artifacts and two payers over five slots, which is enough to deploy,
  fund, lock and settle in different slots with a redeployment in each; two runs with one
  artifact for the publication race, because both must get through the same deployment.
- *Ledger*: three participants and orders; balances of exactly one lot, of more, at the top of
  the integer range and short of one leg; limits below, at and above the price.

Symmetry is used where the elements are interchangeable, never in a run with a liveness
property. Deadlock checking is off: epochs end, journals fill up and clocks stop at their bound.

### Fairness

`EpochsEnd` assumes that time passes and that expire and abort are eventually called; the
code lets any caller do so. It is the only liveness property. Nothing is
assumed of keypers, participants or the venue.

## 4. Proofs

`EpochProgramProofs` proves, for all values of the constants under the named assumptions of
`EpochProgram` (types of the argument sets, the default key is a key):

- `TypeCorrect`: `Spec => []TypeOK`. Inductive as it stands; the transfers keep balances
  natural because each source is checked.
- `AccountsValid`: `Spec => []AccountsStayValid`. Inductive with `TypeOK`: the pool is written
  once, and the fields that `validate_epoch_state` reads are written only by `create_epoch`.
- `TokensConserved`: `Spec => []TokenConservation`.
- `DigestsBind`: `Spec => []DigestsBindRecord`. Needs `AccountsStayValid`, because the
  settlement digest takes the lot from the epoch account and the statement from the pool.
- `PackageFrozen`: `Spec => [][...]_vars` for `LockedPackageFrozen`, action by action.

`KeyperProofs` proves, for any number of processes, epochs and packages, where every keyper may
lose at most one of its two files:

- `TypeCorrect`: `Spec => []TypeOK`, with `Busy` (a process that serves a request knows its
  keyper and package).
- `LocksAreUnique`: `Spec => []OneLockPerKeyper`. Not inductive: it says nothing of signatures
  still inside a process or of the file that forbids a second one. `Backed` adds that every
  signature given out, and every process about to give one, is backed by a journal that names
  its package, or belongs to a keyper whose journal is gone while its marker remains, which
  therefore never signs again. `Unique` extends the statement to signatures still inside a
  process. `Backed` and `Unique` are inductive together.
- `QuorumsAreUnique`: `Spec => []OneQuorumPerEpoch`, from `LocksAreUnique` and the assumption
  that there are three keypers, so that two quorums share one.
- `RecordsKept`: `Spec => JournalKeepsRecords`, action by action.
- `SharesFollowLock` and `SettlementsFollow`: `Spec => []SharesOnlyForLocked` and
  `Spec => []SettlementsFollowReveal`. Keypers act on a digest they read earlier;
  `DigestRead` says that it is still the chain's, because `lock` writes it once, while the
  epoch is open, and nothing reopens an epoch. Shares are only added, so what was opened
  stays open.

Only model-checked: liveness and `ENABLED` (`EpochsEnd`,
`DeadlinesSeparateOutcomes`), which the prover does not handle; sums over sets and folds
(`VaultsHoldResiduals`, `AccountsConserve`, all of `Ledger`, admission), which need
induction over data; the refinement of `PoolLifecycle`, and the properties of `HostJournals`.

## 5. Where code and documentation differ

- `docs/protocol.md:18` says that duplicate trading keys are rejected. Neither `admit_batch`
  nor `LockPackageV1::validate` compares trading keys; run `admission_keys` shows two
  participants with one trading key in an admitted batch.
- `docs/protocol.md:132` says that a retry can finish consumption after a stop between the two
  writes. Run `host_retry` shows the exception: after another epoch settles a common
  participant, `settlement_matches` fails for the first epoch on every retry. The funds are not
  reopened (`SettlementsBacked` holds), but the reservations stay `Reserved`.

## 6. Not modelled

Byte layouts and parsing, hashing and signature arithmetic, the threshold scheme's algebra,
RPC transport, file permissions, the CLI, and the evidence verifier's checks of account contents, token deltas and the
allowlist. Of a proof run: the balance check, the secret scan, the artifact build and the
directory checks, which only add errors (`Fail`).

## 7. Plan

1. A coordinator module composing admission, keypers, program and journals: the
   reservation balance read before the lock, abort with suspension after an invalid
   reveal, settlement finalized only for the epoch the chain settled.
2. The observer's decoding as a module of its own, and a proof of `EvidenceRanCheckpoint`.
3. Threshold shares: which sets of shares recover, duplicated and foreign shares.
4. Proofs: the refinement of `PoolLifecycle`; `SettlementsBacked`, `UsedMeansCommitted` and
   `CommitIsFinal` of `HostJournals`; `OneAuthorizationPerNonce` and `SuspensionHolds` of `Admission`.
