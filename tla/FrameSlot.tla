----------------------------- MODULE FrameSlot -----------------------------
(***************************************************************************)
(* What a camera dialog promises of its recognition pipeline, whatever     *)
(* threads and locks implement it (aismart/gui/dialogs/runner.cpp and      *)
(* librose/gui/dialogs/ocr.cpp are the implementations).                   *)
(*                                                                         *)
(* One slot hands camera frames from the painting thread to a recognition  *)
(* worker.  A frame is known by its number; 0 stands for "none".  The slot *)
(* is not refilled before the worker has let go of it, the answer shown is *)
(* always that of the last frame worked on, and ending the capture waits   *)
(* for the frame being worked on, after which nothing is shown.            *)
(***************************************************************************)
EXTENDS Naturals

VARIABLES capturing, \* the camera delivers frames
          offered,   \* the frame in the slot
          working,   \* the frame the worker is recognising or about to answer
          shown      \* the frame whose answer is on the screen

vars == <<capturing, offered, working, shown>>

TypeOK ==
  /\ capturing \in BOOLEAN
  /\ offered \in Nat
  /\ working \in Nat
  /\ shown \in Nat

Init ==
  /\ capturing = FALSE
  /\ offered = 0
  /\ working = 0
  /\ shown = 0

Begin ==
  /\ ~capturing
  /\ capturing' = TRUE
  /\ UNCHANGED <<offered, working, shown>>

\* Frames are offered in the order the camera numbers them.
Offer ==
  /\ capturing
  /\ offered = 0
  /\ offered' \in Nat
  /\ offered' > working
  /\ offered' > shown
  /\ UNCHANGED <<capturing, working, shown>>

Take ==
  /\ capturing
  /\ offered # 0
  /\ working = 0
  /\ working' = offered
  /\ UNCHANGED <<capturing, offered, shown>>

Release ==
  /\ working # 0
  /\ offered = working
  /\ offered' = 0
  /\ UNCHANGED <<capturing, working, shown>>

Publish ==
  /\ working # 0
  /\ offered # working
  /\ shown' = working
  /\ working' = 0
  /\ UNCHANGED <<capturing, offered>>

\* The end of the capture drops a frame still waiting, never one in work.
End ==
  /\ capturing
  /\ working = 0
  /\ capturing' = FALSE
  /\ offered' = 0
  /\ shown' = 0
  /\ UNCHANGED working

Next ==
  \/ Begin
  \/ Offer
  \/ Take
  \/ Release
  \/ Publish
  \/ End

Spec == Init /\ [][Next]_vars
=============================================================================
