------------------------------ MODULE MCToolbox -----------------------------
(* Instances of Toolbox for TLC. *)
EXTENDS Toolbox
=============================================================================
