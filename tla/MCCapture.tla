----------------------------- MODULE MCCapture -----------------------------
(***************************************************************************)
(* The video path for TLC: it is finite as it stands.                      *)
(***************************************************************************)
EXTENDS Capture
=============================================================================
