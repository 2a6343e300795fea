----------------------------- MODULE Deployment -----------------------------
(***************************************************************************)
(* The devnet proof run: deploy the checkpoint if needed, run one epoch    *)
(* against it, and publish evidence that names the deployment.             *)
(*                                                                         *)
(* Several runs may work at once, and the program keeps an upgrade         *)
(* authority that may redeploy it at any time.  Transactions are sent at   *)
(* confirmed commitment, deployments are read at finalized commitment: the *)
(* history of the program at the end of each slot is kept, and a finalized *)
(* read sees the program as of some slot that has ended.                   *)
(*                                                                         *)
(* The chain (slots, the upgradeable loader, the solana command) is        *)
(* external.  A program deployed in a slot is neither executed nor         *)
(* deployed again in that slot.  Transactions of a solana command that     *)
(* reported failure may still land.                                        *)
(***************************************************************************)
EXTENDS Naturals, Sequences

CONSTANTS
  Runs,           \* devnet_proof processes writing the same evidence path
  Artifacts,      \* checkpoint artifacts
  ArtifactOf,     \* the artifact each run builds or is given
  Payers, PayerOf,
  None,
  MaxSlot         \* bound on slots

ASSUME RunsAssumption ==
  /\ ArtifactOf \in [Runs -> Artifacts]
  /\ PayerOf \in [Runs -> Payers]
  /\ None \notin Runs \cup Artifacts \cup Payers
  /\ MaxSlot \in Nat

VARIABLES
  program,        \* the deployed program: executable, authority, slot
  ended,          \* the program at the end of each past slot
  root,           \* the last finalized slot
  buffers,        \* each run's deploy buffer account
  txs,            \* transactions of each run that the chain executed
  runs,           \* local state of each run
  signers,        \* whether a run's private signer directory exists
  reports,        \* what a run's error message names as left behind
  evidence        \* the run whose evidence is at the output path

chain == <<program, ended, root, buffers, txs>>
vars == <<chain, runs, signers, reports, evidence>>

slot == Len(ended) + 1

-----------------------------------------------------------------------------
(* State *)

Slots == 0..(MaxSlot + 1)

Program == [executable: Artifacts, upgrade_authority: Payers \cup {None}, slot: Slots]

DevnetDeploymentAction == {"Noop", "Initial", "Upgrade"}

Steps == {"fund", "create", "lock", "settle"}

Run ==
  [pc: {"start", "discover", "deploy", "cli", "refund", "cleanup", "fetch", "verify", "persist",
        "publish", "returned", "dropped", "killed"} \cup Steps,
   action: DevnetDeploymentAction \cup {None},
   launched: BOOLEAN,           \* the solana command ran
   deploy_status: BOOLEAN,
   buffer_cleanup_failed: BOOLEAN,
   deployed: Program \cup {None}]

(* What a finalized read of the program returns. *)
finalized == ended[root]

Goto(r, pc) == runs' = [runs EXCEPT ![r].pc = pc]

-----------------------------------------------------------------------------
(* Choosing what to deploy *)

(* None where the code refuses. *)
select_deployment_action(deployed, r) ==
  IF deployed = None THEN "Initial"
  ELSE IF deployed.executable = ArtifactOf[r] THEN "Noop"
  ELSE IF deployed.upgrade_authority = PayerOf[r] THEN "Upgrade"
  ELSE None

(* The run starts only if no evidence exists. *)
check_out(r) ==
  /\ runs[r].pc = "start"
  /\ Goto(r, IF evidence = None THEN "discover" ELSE "returned")
  /\ UNCHANGED <<chain, signers, reports, evidence>>

discover_deployed_checkpoint(r) ==
  LET action == select_deployment_action(finalized, r) IN
  /\ runs[r].pc = "discover"
  /\ IF action = None
     THEN Goto(r, "returned")
     ELSE runs' = [runs EXCEPT ![r].action = action,
                               ![r].pc = IF action = "Noop" THEN "fetch" ELSE "deploy"]
  /\ UNCHANGED <<chain, signers, reports, evidence>>

-----------------------------------------------------------------------------
(* deploy_checkpoint *)

(* Signer files are written, then the solana command is started, or fails   *)
(* to start.  If a file cannot be written the directory is dropped, which   *)
(* ignores an error of its removal.                                         *)
deploy_checkpoint(r) ==
  /\ runs[r].pc = "deploy"
  /\ \/ /\ signers' = [signers EXCEPT ![r] = TRUE]
        /\ \/ runs' = [runs EXCEPT ![r].pc = "cli", ![r].launched = TRUE]
           \/ Goto(r, "refund")
     \/ /\ \E left \in BOOLEAN : signers' = [signers EXCEPT ![r] = left]
        /\ Goto(r, "dropped")
  /\ UNCHANGED <<chain, reports, evidence>>

(* Transactions of the solana command: the buffer is created and filled...  *)
land_buffer(r) ==
  /\ runs[r].launched
  /\ buffers[r] = "none"
  /\ buffers' = [buffers EXCEPT ![r] = "open"]
  /\ UNCHANGED <<program, ended, root, txs, runs, signers, reports, evidence>>

(* ...and becomes the program.                                              *)
land_deploy(r) ==
  /\ runs[r].launched
  /\ buffers[r] = "open"
  /\ \/ program = None /\ runs[r].action = "Initial"
     \/ /\ program # None
        /\ program.upgrade_authority = PayerOf[r]
        /\ program.slot < slot
  /\ buffers' = [buffers EXCEPT ![r] = "deployed"]
  /\ program' = [executable |-> ArtifactOf[r], upgrade_authority |-> PayerOf[r], slot |-> slot]
  /\ UNCHANGED <<ended, root, txs, runs, signers, reports, evidence>>

(* The command reports success once it deployed, and failure at any time. *)
run_solana(r) ==
  /\ runs[r].pc = "cli"
  /\ \/ /\ buffers[r] = "deployed"
        /\ runs' = [runs EXCEPT ![r].pc = "cleanup", ![r].deploy_status = TRUE]
     \/ Goto(r, "refund")
  /\ UNCHANGED <<chain, signers, reports, evidence>>

(* Close the buffer.  The answer may be lost after the buffer was closed. *)
close_deploy_buffer(r) ==
  /\ runs[r].pc = "refund"
  /\ \E closed, confirmed \in BOOLEAN :
       /\ confirmed => closed
       /\ closed => buffers[r] = "open"
       /\ buffers' = IF closed THEN [buffers EXCEPT ![r] = "closed"] ELSE buffers
       /\ runs' = [runs EXCEPT ![r].pc = "cleanup", ![r].buffer_cleanup_failed = ~confirmed]
  /\ UNCHANGED <<program, ended, root, txs, signers, reports, evidence>>

(* Mutant: a signer directory that stays hides the buffer. *)
finish_deploy_attempt_first(buffer_cleanup_failed, signer_cleanup_failed) ==
  IF signer_cleanup_failed THEN {"signers"}
  ELSE IF buffer_cleanup_failed THEN {"buffer"} ELSE {}

(* What the error message names. *)
finish_deploy_attempt(buffer_cleanup_failed, signer_cleanup_failed) ==
  (IF buffer_cleanup_failed THEN {"buffer"} ELSE {})
    \cup (IF signer_cleanup_failed THEN {"signers"} ELSE {})

(* The signer directory is removed, or not, and the attempt ends. *)
remove_signers(r) ==
  /\ runs[r].pc = "cleanup"
  /\ \E failed \in BOOLEAN :
       /\ signers' = [signers EXCEPT ![r] = failed]
       /\ reports' = [reports EXCEPT
                        ![r] = finish_deploy_attempt(runs[r].buffer_cleanup_failed, failed)]
       /\ Goto(r, IF runs[r].deploy_status /\ ~failed THEN "fetch" ELSE "returned")
  /\ UNCHANGED <<chain, evidence>>

-----------------------------------------------------------------------------
(* The epoch *)

(* Mutant: the run goes on without a deployment. *)
fetch_deployed_checkpoint_unread(r) ==
  /\ runs[r].pc = "fetch"
  /\ runs' = [runs EXCEPT ![r].pc = "fund", ![r].deployed = finalized]
  /\ UNCHANGED <<chain, signers, reports, evidence>>

(* What is deployed must be the artifact, under the payer's authority if    *)
(* this run deployed it.                                                    *)
fetch_deployed_checkpoint(r) ==
  /\ runs[r].pc = "fetch"
  /\ IF /\ finalized # None
        /\ finalized.executable = ArtifactOf[r]
        /\ runs[r].action # "Noop" => finalized.upgrade_authority = PayerOf[r]
     THEN runs' = [runs EXCEPT ![r].pc = "fund", ![r].deployed = finalized]
     ELSE Goto(r, "returned")
  /\ UNCHANGED <<chain, signers, reports, evidence>>

(* send_with_signature: the transaction is confirmed in this slot, executed *)
(* by the program that is deployed.                                         *)
send(r, step, executable, next) ==
  /\ runs[r].pc = step
  /\ txs' = [txs EXCEPT ![r][step] = [slot |-> slot, executable |-> executable]]
  /\ Goto(r, next)
  /\ UNCHANGED <<program, ended, root, buffers, signers, reports, evidence>>

Callable == program # None /\ program.slot < slot

(* Mints, token accounts and the four funding transfers. *)
fund_pool_accounts(r) == send(r, "fund", None, "create")

(* initialize_pool and create_epoch. *)
create_epoch(r) == Callable /\ send(r, "create", program.executable, "lock")

lock(r) == Callable /\ send(r, "lock", program.executable, "settle")

settle(r) == Callable /\ send(r, "settle", program.executable, "verify")

-----------------------------------------------------------------------------
(* The evidence *)

(* Mutant: the deployment slot is not compared. *)
validate_deployment_any_slot(r) ==
  /\ finalized # None
  /\ finalized.upgrade_authority = runs[r].deployed.upgrade_authority
  /\ finalized.executable = ArtifactOf[r]

validate_deployment(r) ==
  /\ finalized # None
  /\ finalized.slot = runs[r].deployed.slot
  /\ finalized.upgrade_authority = runs[r].deployed.upgrade_authority
  /\ finalized.executable = ArtifactOf[r]

(* Deployment, funding, lock and settlement in strictly later slots. *)
validate_transactions(r) ==
  /\ runs[r].deployed.slot < txs[r]["fund"].slot
  /\ txs[r]["fund"].slot < txs[r]["lock"].slot
  /\ txs[r]["lock"].slot < txs[r]["settle"].slot

(* The run waits until its transactions are finalized, then verifies the    *)
(* evidence against finalized accounts.                                     *)
verify(r, pc, next) ==
  /\ runs[r].pc = pc
  /\ root >= txs[r]["settle"].slot
  /\ Goto(r, IF validate_deployment(r) /\ validate_transactions(r) THEN next ELSE "returned")
  /\ UNCHANGED <<chain, signers, reports, evidence>>

verify_devnet_evidence(r) == verify(r, "verify", "persist")

(* A fresh verifier process checks the bytes that will be written. *)
persist_verified_evidence(r) == verify(r, "persist", "publish")

(* Mutant: the evidence is renamed over whatever is there. *)
publish_bytes_clobbering(r) ==
  /\ runs[r].pc = "publish"
  /\ evidence' = r
  /\ Goto(r, "returned")
  /\ UNCHANGED <<chain, signers, reports>>

publish_bytes_noclobber(r) ==
  /\ runs[r].pc = "publish"
  /\ evidence' = IF evidence = None THEN r ELSE evidence
  /\ Goto(r, "returned")
  /\ UNCHANGED <<chain, signers, reports>>

(* An error of the run after or before its deploy attempt. *)
Fail(r) ==
  /\ runs[r].pc \in {"start", "discover", "deploy", "fetch", "verify", "persist", "publish"} \cup Steps
  /\ Goto(r, "returned")
  /\ UNCHANGED <<chain, signers, reports, evidence>>

(* The process dies. *)
Kill(r) ==
  /\ runs[r].pc \in {"cli", "refund", "cleanup"}
  /\ Goto(r, "killed")
  /\ UNCHANGED <<chain, signers, reports, evidence>>

-----------------------------------------------------------------------------
(* The chain *)

(* The upgrade authority redeploys without a proof run. *)
Upgrade(artifact) ==
  /\ program # None
  /\ program.upgrade_authority # None
  /\ program.slot < slot
  /\ program' = [program EXCEPT !.executable = artifact, !.slot = slot]
  /\ UNCHANGED <<ended, root, buffers, txs, runs, signers, reports, evidence>>

EndSlot ==
  /\ slot <= MaxSlot
  /\ ended' = Append(ended, program)
  /\ UNCHANGED <<program, root, buffers, txs, runs, signers, reports, evidence>>

Finalize(s) ==
  /\ root < s /\ s <= Len(ended)
  /\ root' = s
  /\ UNCHANGED <<program, ended, buffers, txs, runs, signers, reports, evidence>>

-----------------------------------------------------------------------------
(* Before the first run the program is absent or was deployed by somebody. *)
Init ==
  /\ program \in {None} \cup [executable: Artifacts, upgrade_authority: Payers \cup {None}, slot: {0}]
  /\ ended = <<program>>
  /\ root = 1
  /\ buffers = [r \in Runs |-> "none"]
  /\ txs = [r \in Runs |-> [step \in Steps |-> [slot |-> 0, executable |-> None]]]
  /\ runs = [r \in Runs |->
               [pc |-> "start", action |-> None, launched |-> FALSE, deploy_status |-> FALSE,
                buffer_cleanup_failed |-> FALSE, deployed |-> None]]
  /\ signers = [r \in Runs |-> FALSE]
  /\ reports = [r \in Runs |-> {}]
  /\ evidence = None

devnet_proof(r) ==
  \/ check_out(r)
  \/ discover_deployed_checkpoint(r)
  \/ deploy_checkpoint(r)
  \/ run_solana(r)
  \/ close_deploy_buffer(r)
  \/ remove_signers(r)
  \/ fetch_deployed_checkpoint(r)
  \/ fund_pool_accounts(r)
  \/ create_epoch(r)
  \/ lock(r)
  \/ settle(r)
  \/ verify_devnet_evidence(r)
  \/ persist_verified_evidence(r)
  \/ publish_bytes_noclobber(r)
  \/ Fail(r)
  \/ Kill(r)

Next ==
  \/ \E r \in Runs : devnet_proof(r) \/ land_buffer(r) \/ land_deploy(r)
  \/ \E artifact \in Artifacts : Upgrade(artifact)
  \/ EndSlot
  \/ \E s \in 1..Len(ended) : Finalize(s)

Spec == Init /\ [][Next]_vars

-----------------------------------------------------------------------------
(* Properties *)

(* Beside the types: a run that deploys nothing has no buffer, and one that *)
(* passed the deployment check knows the deployment.                        *)
TypeOK ==
  /\ program \in Program \cup {None}
  /\ ended \in Seq(Program \cup {None})
  /\ root \in 1..Len(ended)
  /\ buffers \in [Runs -> {"none", "open", "deployed", "closed"}]
  /\ txs \in [Runs -> [Steps -> [slot: Slots, executable: Artifacts \cup {None}]]]
  /\ runs \in [Runs -> Run]
  /\ signers \in [Runs -> BOOLEAN]
  /\ reports \in [Runs -> SUBSET {"buffer", "signers"}]
  /\ evidence \in Runs \cup {None}
  /\ \A r \in Runs :
       /\ runs[r].pc \in Steps \cup {"verify", "persist", "publish"} => runs[r].deployed # None
       /\ buffers[r] # "none" => runs[r].action \in {"Initial", "Upgrade"}

(* Published evidence speaks of one deployment: every transaction of its    *)
(* epoch was executed by the artifact it names, although the program may    *)
(* have been upgraded, and upgraded back, between any two steps of the run  *)
(* and finalized reads lag behind.                                          *)
EvidenceRanCheckpoint ==
  evidence # None =>
    \A step \in Steps \ {"fund"} : txs[evidence][step].executable = ArtifactOf[evidence]

(* Of several runs that find no evidence when they start, one publishes:    *)
(* evidence at the output path is never replaced.                           *)
EvidenceFinal == [][evidence # None => evidence' = evidence]_vars

(* A deploy attempt that got as far as its command leaves nothing behind in *)
(* silence: a deploy buffer that still holds the payer's rent, even one     *)
(* created by a late transaction, and a signer directory that could not be  *)
(* removed, are named in its error.  Not covered: a killed process, and an  *)
(* attempt dropped before the command, whose removal error is ignored.      *)
LeftoversReported ==
  \A r \in Runs :
    runs[r].pc \notin {"cli", "refund", "cleanup", "dropped", "killed"} =>
      /\ buffers[r] = "open" => "buffer" \in reports[r]
      /\ signers[r] => "signers" \in reports[r]
=============================================================================
