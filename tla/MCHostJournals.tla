--------------------------- MODULE MCHostJournals ---------------------------
(***************************************************************************)
(* HostJournals for TLC.  Every participant registers with the same        *)
(* balance, so that the total the accounts must hold can be stated.        *)
(***************************************************************************)
EXTENDS HostJournals, FiniteSetsExt, TLC

CONSTANT StartBase, StartQuote

MCInitialBalances == {[base |-> StartBase, quote |-> StartQuote]}

(* What callers state: less than the registered balance, or all of it. *)
MCAvailable == {[base |-> Lot, quote |-> Price], [base |-> StartBase, quote |-> StartQuote]}

(* Processes, participants, epochs and nonces are interchangeable. *)
Symmetry ==
  Permutations(Procs) \cup Permutations(Participants)
    \cup Permutations(EpochIds) \cup Permutations(Nonces)

Registered == {m \in Participants : accounts[m] # NoRecord}
Committed == {e \in EpochIds : applied_epochs[e] # NoRecord}

(* The stored balances add up to what was registered plus, once for each    *)
(* committed epoch, the vault delta of its result: no result is applied     *)
(* twice, on top of balances it was not computed from, or half.             *)
AccountsConserve ==
  LET held(m) == accounts[m].balance
      gained(e) == MapThenSumSet(
                     LAMBDA m : applied_epochs[e].balances[m].base
                                - applied_epochs[e].before_balances[m].base,
                     Members(applied_epochs[e]))
      paid(e) == MapThenSumSet(
                     LAMBDA m : applied_epochs[e].before_balances[m].quote
                                - applied_epochs[e].balances[m].quote,
                     Members(applied_epochs[e]))
  IN
  /\ MapThenSumSet(LAMBDA m : held(m).base, Registered)
       = Cardinality(Registered) * StartBase + MapThenSumSet(gained, Committed)
  /\ MapThenSumSet(LAMBDA m : held(m).quote, Registered)
       = Cardinality(Registered) * StartQuote - MapThenSumSet(paid, Committed)
=============================================================================
