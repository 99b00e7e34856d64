----------------------------- MODULE MCSettlement -----------------------------
(* Small instances of Settlement. *)
EXTENDS Settlement

\* Failures after which no message may be lost.
HarmlessFaults == {"commit", "restart"}
=============================================================================
