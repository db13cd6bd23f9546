------------------------------ MODULE MCRunner ------------------------------
(* Runner on a small instance: a few frames, a throttle the frames exceed. *)
EXTENDS Runner
=============================================================================
