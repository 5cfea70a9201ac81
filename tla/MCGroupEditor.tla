---------------------------- MODULE MCGroupEditor ----------------------------
(***************************************************************************)
(* An instance of GroupEditor for TLC.                                     *)
(***************************************************************************)
EXTENDS GroupEditorInv
=============================================================================
