---------------------------- MODULE MCGlEnvelope ----------------------------
(***************************************************************************)
(* Inputs for model-checking GlEnvelope: amounts that meet at zero and     *)
(* that withholding can exceed, a basis and a negative amount that the     *)
(* write service does not store.                                           *)
(***************************************************************************)
EXTENDS GlEnvelope

UpTo2 == 0 .. 2
FromMinus1 == -1 .. 2
ThreeBases == {"input", "withholding", "other"}
=============================================================================
