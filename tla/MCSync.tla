------------------------------- MODULE MCSync --------------------------------
(***************************************************************************)
(* Instances of Sync for TLC.                                              *)
(***************************************************************************)
EXTENDS SyncInv

CONSTANTS contacts, templates, anna, bert
=============================================================================
