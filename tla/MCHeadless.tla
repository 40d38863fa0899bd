----------------------------- MODULE MCHeadless -----------------------------
(* Instances of Headless for TLC. *)
EXTENDS Headless, TLC
=============================================================================
