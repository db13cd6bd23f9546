------------------------------- MODULE MCBle -------------------------------
(***************************************************************************)
(* tble for TLC.                                                           *)
(***************************************************************************)
EXTENDS Ble
=============================================================================
