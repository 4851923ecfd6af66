----------------------------- MODULE MCPageSet -----------------------------
(* Instances of PageSet for TLC.                                           *)
EXTENDS PageSet
=============================================================================
