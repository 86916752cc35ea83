------------------------------ MODULE MCCothread ------------------------------
(***************************************************************************)
(* The instance of Cothread that TLC checks.                               *)
(***************************************************************************)
EXTENDS Cothread

=============================================================================
