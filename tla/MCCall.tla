------------------------------ MODULE MCCall ------------------------------
(***************************************************************************)
(* The call and its signaling connection for TLC: two connections of four  *)
(* messages, so that a call in either role is set up, has a candidate or   *)
(* ends; of one or two bytes in turn behind a prefix of two, read in chunks*)
(* of two, so that a chunk may end in a prefix, in a message or between.   *)
(***************************************************************************)
EXTENDS Call

Length(c, k) == bound[c][k] - bound[c][k-1] - Prefix

MCInit ==
  /\ CallInit
  /\ \A c \in Connections : bound[c] = bound[1]
  /\ \A k \in 2 .. Messages : Length(1, k) # Length(1, k-1)

MCSpec == MCInit /\ [][CallNext]_allVars /\ CallFairness
=============================================================================
