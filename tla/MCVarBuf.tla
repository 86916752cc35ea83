------------------------------- MODULE MCVarBuf -------------------------------
(***************************************************************************)
(* The instance of VarBuf that TLC checks.                                 *)
(***************************************************************************)
EXTENDS VarBuf

=============================================================================
