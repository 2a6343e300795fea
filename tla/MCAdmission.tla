----------------------------- MODULE MCAdmission -----------------------------
(***************************************************************************)
(* Admission for TLC: two good envelopes with different receipts, and one  *)
(* for each way verify_admission refuses an envelope.                      *)
(***************************************************************************)
EXTENDS Admission, TLC

CONSTANTS r1, r2

Envelope(receipt, ciphertext, outer_signature) ==
  [receipt |-> receipt, ciphertext |-> ciphertext, outer_signature |-> outer_signature]

MCEnvelopes ==
  {Envelope(r1, "valid", "valid"), Envelope(r2, "valid", "valid"),
   Envelope(ZeroReceipt, "valid", "valid"), Envelope(r1, "malformed", "valid"),
   Envelope(r1, "valid", "invalid")}

Symmetry ==
  Permutations(Participants) \cup Permutations(TradingKeys) \cup Permutations(Nonces)
    \cup Permutations(Registries)
=============================================================================
