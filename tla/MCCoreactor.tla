----------------------------- MODULE MCCoreactor -----------------------------
(***************************************************************************)
(* The instances of Coreactor that TLC checks.                             *)
(***************************************************************************)
EXTENDS CoreactorProps

=============================================================================
