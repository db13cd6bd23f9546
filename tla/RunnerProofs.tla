---------------------------- MODULE RunnerProofs ----------------------------
(***************************************************************************)
(* Theorems about Runner for every MaxFrame and Threshold.                 *)
(*                                                                         *)
(* Nothing in the code says who owns the hand-over surface: it follows     *)
(* from the flag, from who holds recognition_mutex_ and from where the two *)
(* threads are.  IInv writes that down; everything else is read off it.    *)
(***************************************************************************)
EXTENDS Runner, TLAPS

Frame == current_surf.frame

Busy == {"reading", "rects", "release", "publish"}

\* Who holds recognition_mutex_, in terms of where the threads are.
MutexInv ==
  /\ recognition_mutex = "main" <=> mpc \in {"stop_reset", "stop_clear"}
  /\ wpc \in Holding => recognition_mutex = "worker"
  /\ recognition_mutex = "worker" => wpc \in Holding \cup {"crashed"}

\* The life of the dialog and of its thread.
LifeInv ==
  /\ alive <=> mpc \notin {"destroy", "join", "done"}
  /\ avcapture <=> /\ thread_state # "kInit"
                   /\ mpc \in {"idle", "copying", "painting", "stop_lock", "stop_reset"}
  /\ thread_state = "kInit" <=> wpc = "none"
  /\ mpc = "done" => wpc \in {"none", "exited"}
  /\ wpc = "crashed" => ~alive
  /\ mpc = "copying" => avcapture

\* The worker is only busy with the frame in the slot, and with a capture.
WorkInv ==
  /\ working # 0 => wpc \in Busy \cup {"crashed"}
  /\ wpc \in Busy => avcapture /\ working # 0
  /\ wpc \in {"reading", "rects", "release"} =>
       current_surf.valid /\ working = Frame
  /\ mpc = "copying" => ~current_surf.valid

\* Without a capture nothing is on offer and nothing is shown.
QuietInv ==
  ~Capturing =>
    /\ result = 0
    /\ rects = 0
    /\ Frame = 0
    /\ ~current_surf.valid
    /\ working = 0

TornInv ==
  /\ ~script.rects => rects = 0
  /\ script.rects => rects = IF wpc \in {"release", "publish"} THEN working ELSE result

\* The slot, the worker and the screen hold ever newer frames.
OrderInv ==
  /\ result <= Frame
  /\ working <= Frame
  /\ current_surf.valid => result < Frame
  /\ working # 0 => result < working
  /\ wpc = "publish" /\ current_surf.valid => working < Frame
  /\ mpc = "copying" => Frame = frames /\ result < Frame /\ working < Frame
  /\ avcapture => Frame <= frames
  /\ new_frame /\ mpc \notin {"copying", "painting"} => Frame < frames

IInv == /\ TypeOK
        /\ MutexInv
        /\ LifeInv
        /\ WorkInv
        /\ QuietInv
        /\ TornInv
        /\ OrderInv

-----------------------------------------------------------------------------
(* What holds when the dialog is created.                                   *)
LEMMA InitIInv == Init => IInv
<1> SUFFICES ASSUME Init PROVE IInv
    OBVIOUS
<1> USE RunnerAssumption DEF Init
<1>1. TypeOK
  <2>1. 0 \in 0 .. MaxFrame /\ 0 \in 0 .. (MaxFrame + Threshold)
    OBVIOUS
  <2>2. current_surf \in [valid : BOOLEAN, frame : 0 .. MaxFrame]
    BY <2>1 DEF NoSurf
  <2>3. mpc \in MainAt /\ wpc \in WorkerAt
    BY DEF MainAt, WorkerAt, Touching
  <2> QED
    BY <2>1, <2>2, <2>3 DEF TypeOK
<1>2. MutexInv /\ LifeInv /\ WorkInv
  BY DEF MutexInv, LifeInv, WorkInv, Busy, Holding, NoSurf
<1>3. QuietInv /\ TornInv /\ OrderInv
  BY DEF QuietInv, TornInv, OrderInv, Frame, NoSurf, Capturing
<1> QED
  BY <1>1, <1>2, <1>3 DEF IInv

(* Types alone are inductive. *)
LEMMA StepTypeOK == TypeOK /\ [Next]_vars => TypeOK'
<1> SUFFICES ASSUME TypeOK, [Next]_vars
             PROVE  TypeOK'
    OBVIOUS
<1> USE RunnerAssumption
<1> USE DEF TypeOK, MainAt, WorkerAt, Touching, mainVars, capVars, lockVars, dataVars
<1>1. CASE NewFrame
  BY <1>1 DEF NewFrame
<1>2. CASE AppFirstDrawn
  <2>1. 0 \in 0 .. MaxFrame
    OBVIOUS
  <2>2. current_surf' \in [valid : BOOLEAN, frame : 0 .. MaxFrame]
    BY <1>2, <2>1 DEF AppFirstDrawn, NoSurf
  <2> QED
    BY <1>2, <2>1, <2>2 DEF AppFirstDrawn
<1>3. CASE Draw
  BY <1>3 DEF Draw, WantsFrame
<1>4. CASE CopyDone
  <2>1. current_surf' \in [valid : BOOLEAN, frame : 0 .. MaxFrame]
    BY <1>4 DEF CopyDone
  <2>2. next_recognize_frame' \in 0 .. (MaxFrame + Threshold)
    BY <1>4 DEF CopyDone
  <2> QED
    BY <1>4, <2>1, <2>2 DEF CopyDone
<1>5. CASE Paint
  BY <1>5 DEF Paint
<1>6. CASE Stop
  BY <1>6 DEF Stop
<1>7. CASE StopLock
  BY <1>7 DEF StopLock
<1>8. CASE StopReset
  <2>1. 0 \in 0 .. MaxFrame
    OBVIOUS
  <2> QED
    BY <1>8, <2>1 DEF StopReset
<1>9. CASE StopClear
  BY <1>9 DEF StopClear, NoSurf
<1>10. CASE StopUnlock
  BY <1>10 DEF StopUnlock
<1>11. CASE DestroyMembers
  BY <1>11 DEF DestroyMembers
<1>12. CASE Destroy
  BY <1>12 DEF Destroy
<1>13. CASE Join
  BY <1>13 DEF Join
<1>14. CASE Reopen
  BY <1>14 DEF Reopen, NoSurf
<1>15. CASE WStart
  BY <1>15 DEF WStart, Go
<1>16. CASE WTest
  BY <1>16 DEF WTest, Go
<1>17. CASE WSetting
  BY <1>17 DEF WSetting, Go
<1>18. CASE WLock
  BY <1>18 DEF WLock, Go
<1>19. CASE WRecheck
  BY <1>19 DEF WRecheck, Go
<1>20. CASE WRead
  BY <1>20 DEF WRead, Go
<1>21. CASE WRects
  BY <1>21 DEF WRects, Go
<1>22. CASE WRelease
  BY <1>22 DEF WRelease, Go
<1>23. CASE WPublish
  BY <1>23 DEF WPublish, Go
<1>24. CASE WUnlock
  BY <1>24 DEF WUnlock, Go
<1>25. CASE WLeave
  BY <1>25 DEF WLeave, Go
<1>26. CASE WPost
  BY <1>26 DEF WPost
<1>27. CASE WTouchDead
  BY <1>27 DEF WTouchDead
<1>28. CASE UNCHANGED vars
  BY <1>28 DEF vars
<1> QED
  BY <1>1, <1>2, <1>3, <1>4, <1>5, <1>6, <1>7, <1>8, <1>9, <1>10, <1>11, <1>12, <1>13, <1>14, <1>15, <1>16, <1>17, <1>18, <1>19, <1>20, <1>21, <1>22, <1>23, <1>24, <1>25, <1>26, <1>27, <1>28 DEF Next, Main, Worker, Crashed

(* Every step keeps the inductive invariant. *)
LEMMA StepIInv == IInv /\ [Next]_vars => IInv'
<1> SUFFICES ASSUME IInv, [Next]_vars
             PROVE  IInv'
    OBVIOUS
<1>0. TypeOK'
  BY StepTypeOK DEF IInv
<1> USE <1>0, RunnerAssumption
<1> USE DEF IInv, TypeOK, MutexInv, LifeInv, WorkInv, QuietInv, TornInv, OrderInv,
            Frame, Busy, Capturing, Script, MainAt, WorkerAt, Touching, Holding,
            mainVars, capVars, lockVars, dataVars
<1>1. CASE NewFrame
  BY <1>1 DEF NewFrame
<1>2. CASE AppFirstDrawn
  <2>1. MutexInv'
    BY <1>2 DEF AppFirstDrawn, NoSurf
  <2>2. LifeInv'
    BY <1>2 DEF AppFirstDrawn, NoSurf
  <2>3. WorkInv'
    BY <1>2 DEF AppFirstDrawn, NoSurf
  <2>4. QuietInv'
    BY <1>2 DEF AppFirstDrawn, NoSurf
  <2>5. TornInv'
    BY <1>2 DEF AppFirstDrawn, NoSurf
  <2>6. OrderInv'
    BY <1>2 DEF AppFirstDrawn, NoSurf
  <2> QED
    BY <2>1, <2>2, <2>3, <2>4, <2>5, <2>6
<1>3. CASE Draw
  <2>1. MutexInv'
    BY <1>3 DEF Draw, WantsFrame
  <2>2. LifeInv'
    BY <1>3 DEF Draw, WantsFrame
  <2>3. WorkInv'
    BY <1>3 DEF Draw, WantsFrame
  <2>4. QuietInv'
    BY <1>3 DEF Draw, WantsFrame
  <2>5. TornInv'
    BY <1>3 DEF Draw, WantsFrame
  <2>6. OrderInv'
    <3>1. PICK seen \in {new_frame, FALSE} :
             \/ /\ WantsFrame(seen)
                /\ mpc' = "copying"
                /\ current_surf' = [current_surf EXCEPT !.frame = frames]
             \/ ~WantsFrame(seen) /\ mpc' = "painting" /\ UNCHANGED current_surf
      BY <1>3 DEF Draw
    <3>2. CASE mpc' = "copying"
      <4>1. new_frame
        <5>1. WantsFrame(seen)
          BY <3>1, <3>2
        <5>2. seen
          BY <5>1, Zenon DEF WantsFrame
        <5> QED
          BY <5>2, Zenon
      <4>2. Frame < frames /\ result < frames /\ working < frames
        BY <1>3, <4>1 DEF Draw
      <4>3. ~current_surf.valid
        BY <3>1, <3>2 DEF WantsFrame
      <4> QED
        BY <1>3, <3>1, <3>2, <4>2, <4>3 DEF Draw
    <3>3. CASE mpc' = "painting" /\ UNCHANGED current_surf
      BY <1>3, <3>3 DEF Draw
    <3> QED
      BY <3>1, <3>2, <3>3
  <2> QED
    BY <2>1, <2>2, <2>3, <2>4, <2>5, <2>6
<1>4. CASE CopyDone
  <2>1. MutexInv'
    BY <1>4 DEF CopyDone
  <2>2. LifeInv'
    BY <1>4 DEF CopyDone
  <2>3. WorkInv'
    BY <1>4 DEF CopyDone
  <2>4. QuietInv'
    BY <1>4 DEF CopyDone
  <2>5. TornInv'
    BY <1>4 DEF CopyDone
  <2>6. OrderInv'
    BY <1>4 DEF CopyDone
  <2> QED
    BY <2>1, <2>2, <2>3, <2>4, <2>5, <2>6
<1>5. CASE Paint
  <2>1. MutexInv'
    BY <1>5 DEF Paint
  <2>2. LifeInv'
    BY <1>5 DEF Paint
  <2>3. WorkInv'
    BY <1>5 DEF Paint
  <2>4. QuietInv'
    BY <1>5 DEF Paint
  <2>5. TornInv'
    BY <1>5 DEF Paint
  <2>6. OrderInv'
    BY <1>5 DEF Paint
  <2> QED
    BY <2>1, <2>2, <2>3, <2>4, <2>5, <2>6
<1>6. CASE Stop
  BY <1>6 DEF Stop
<1>7. CASE StopLock
  BY <1>7 DEF StopLock
<1>8. CASE StopReset
  <2>1. MutexInv'
    BY <1>8 DEF StopReset
  <2>2. LifeInv'
    BY <1>8 DEF StopReset
  <2>3. WorkInv'
    BY <1>8 DEF StopReset
  <2>4. QuietInv'
    BY <1>8 DEF StopReset
  <2>5. TornInv'
    BY <1>8 DEF StopReset
  <2>6. OrderInv'
    BY <1>8 DEF StopReset
  <2> QED
    BY <2>1, <2>2, <2>3, <2>4, <2>5, <2>6
<1>9. CASE StopClear
  BY <1>9 DEF StopClear, NoSurf
<1>10. CASE StopUnlock
  <2>1. MutexInv'
    BY <1>10 DEF StopUnlock
  <2>2. LifeInv'
    BY <1>10 DEF StopUnlock
  <2>3. WorkInv'
    BY <1>10 DEF StopUnlock
  <2>4. QuietInv'
    BY <1>10 DEF StopUnlock
  <2>5. TornInv'
    BY <1>10 DEF StopUnlock
  <2>6. OrderInv'
    BY <1>10 DEF StopUnlock
  <2> QED
    BY <2>1, <2>2, <2>3, <2>4, <2>5, <2>6
<1>11. CASE DestroyMembers
  <2>1. MutexInv'
    BY <1>11 DEF DestroyMembers
  <2>2. LifeInv'
    BY <1>11 DEF DestroyMembers
  <2>3. WorkInv'
    BY <1>11 DEF DestroyMembers
  <2>4. QuietInv'
    BY <1>11 DEF DestroyMembers
  <2>5. TornInv'
    BY <1>11 DEF DestroyMembers
  <2>6. OrderInv'
    BY <1>11 DEF DestroyMembers
  <2> QED
    BY <2>1, <2>2, <2>3, <2>4, <2>5, <2>6
<1>12. CASE Destroy
  BY <1>12 DEF Destroy
<1>13. CASE Join
  BY <1>13 DEF Join
<1>14. CASE Reopen
  BY <1>14 DEF Reopen, NoSurf
<1>15. CASE WStart
  BY <1>15 DEF WStart, Go
<1>16. CASE WTest
  BY <1>16 DEF WTest, Go
<1>17. CASE WSetting
  BY <1>17 DEF WSetting, Go
<1>18. CASE WLock
  BY <1>18 DEF WLock, Go
<1>19. CASE WRecheck
  BY <1>19 DEF WRecheck, Go
<1>20. CASE WRead
  BY <1>20 DEF WRead, Go
<1>21. CASE WRects
  BY <1>21 DEF WRects, Go
<1>22. CASE WRelease
  <2>1. MutexInv'
    BY <1>22 DEF WRelease, Go
  <2>2. LifeInv'
    BY <1>22 DEF WRelease, Go
  <2>3. WorkInv'
    BY <1>22 DEF WRelease, Go
  <2>4. QuietInv'
    BY <1>22 DEF WRelease, Go
  <2>5. TornInv'
    BY <1>22 DEF WRelease, Go
  <2>6. OrderInv'
    BY <1>22 DEF WRelease, Go
  <2> QED
    BY <2>1, <2>2, <2>3, <2>4, <2>5, <2>6
<1>23. CASE WPublish
  <2>1. MutexInv'
    BY <1>23 DEF WPublish, Go
  <2>2. LifeInv'
    BY <1>23 DEF WPublish, Go
  <2>3. WorkInv'
    BY <1>23 DEF WPublish, Go
  <2>4. QuietInv'
    BY <1>23 DEF WPublish, Go
  <2>5. TornInv'
    BY <1>23 DEF WPublish, Go
  <2>6. OrderInv'
    BY <1>23 DEF WPublish, Go
  <2> QED
    BY <2>1, <2>2, <2>3, <2>4, <2>5, <2>6
<1>24. CASE WUnlock
  BY <1>24 DEF WUnlock, Go
<1>25. CASE WLeave
  BY <1>25 DEF WLeave, Go
<1>26. CASE WPost
  BY <1>26 DEF WPost
<1>27. CASE WTouchDead
  BY <1>27 DEF WTouchDead
<1>28. CASE UNCHANGED vars
  BY <1>28 DEF vars
<1> QED
  BY <1>1, <1>2, <1>3, <1>4, <1>5, <1>6, <1>7, <1>8, <1>9, <1>10, <1>11, <1>12, <1>13, <1>14, <1>15, <1>16, <1>17, <1>18, <1>19, <1>20, <1>21, <1>22, <1>23, <1>24, <1>25, <1>26, <1>27, <1>28 DEF Next, Main, Worker, Crashed

-----------------------------------------------------------------------------
(* The theorems.                                                            *)

\* The inductive invariant holds throughout.
THEOREM Invariance == Spec => []IInv
BY InitIInv, StepIInv, PTL DEF Spec

\* Every variable keeps to its type: no frame number, throttle included,
\* leaves its range.
THEOREM TypeCorrect == Spec => []TypeOK
<1>1. IInv => TypeOK
  BY DEF IInv
<1> QED
  BY <1>1, Invariance, PTL

\* did_paper_draw_slice never writes current_surf_ while DoWork reads it.
THEOREM SlotIsExclusive == Spec => []SlotExclusive
<1>1. IInv => SlotExclusive
  BY DEF IInv, WorkInv, SlotExclusive
<1> QED
  BY <1>1, Invariance, PTL

\* DoWork recognises a frame only while avcapture_ is there.
THEOREM CaptureBehindRecognition == Spec => []RecognisesOnlyWhileCapturing
<1>1. IInv => RecognisesOnlyWhileCapturing
  BY DEF IInv, WorkInv, Busy, RecognisesOnlyWhileCapturing
<1> QED
  BY <1>1, Invariance, PTL

\* After stop_avcapture nothing of the recognition comes back.
THEOREM StopIsQuiet == Spec => []QuietAfterStop
<1>1. IInv => QuietAfterStop
  BY DEF IInv, LifeInv, QuietInv, Capturing, QuietAfterStop
<1> QED
  BY <1>1, Invariance, PTL

\* did_draw_paper shows rectangles and text of two frames only in the window
\* between the two variable_mutex_ sections of DoWork.
THEOREM TearingIsBounded == Spec => []TornOnlyWhilePublishing
<1>1. IInv => TornOnlyWhilePublishing
  BY DEF IInv, TypeOK, TornInv, WorkInv, OrderInv, Busy, TornOnlyWhilePublishing
<1> QED
  BY <1>1, Invariance, PTL

-----------------------------------------------------------------------------
(* The throttle.  next_recognize_frame is Threshold past the frame in the   *)
(* slot, so any two of the frames in the slot, at work and on the screen    *)
(* are Threshold apart unless they are the same.                            *)

Apart(older, newer) == older # 0 /\ older < newer => older + Threshold <= newer

ThrottleInv ==
  script.large =>
    /\ Frame # 0 /\ mpc # "copying" => next_recognize_frame = Frame + Threshold
    /\ Apart(working, Frame)
    /\ Apart(result, Frame)
    /\ Apart(result, working)

(* A new dialog has nothing to throttle. *)
LEMMA InitThrottle == Init => ThrottleInv
BY DEF Init, ThrottleInv, Apart, Frame, NoSurf

(* Every step keeps the distance between the answers. *)
LEMMA StepThrottle == IInv /\ ThrottleInv /\ [Next]_vars => ThrottleInv'
<1> SUFFICES ASSUME IInv, ThrottleInv, [Next]_vars
             PROVE  ThrottleInv'
    OBVIOUS
<1>0. TypeOK'
  BY StepTypeOK DEF IInv
<1> USE <1>0, RunnerAssumption
<1> USE DEF IInv, TypeOK, ThrottleInv, Apart, Frame, mainVars, capVars, lockVars, dataVars
<1>1. CASE NewFrame
  BY <1>1 DEF NewFrame
<1>2. CASE AppFirstDrawn
  BY <1>2 DEF AppFirstDrawn, NoSurf
<1>3. CASE Draw
  <2>1. CASE mpc' = "copying"
    <3>1. Frame' = frames /\ result' = result /\ working' = working /\ script' = script
      BY <1>3, <2>1 DEF Draw
    <3>2. script.large => frames >= next_recognize_frame
      BY <1>3, <2>1 DEF Draw, WantsFrame
    <3> QED
      BY <1>3, <2>1, <3>1, <3>2 DEF Draw, OrderInv
  <2>2. CASE UNCHANGED current_surf
    BY <1>3, <2>2 DEF Draw
  <2> QED
    BY <1>3, <2>1, <2>2 DEF Draw
<1>4. CASE CopyDone
  <2>1. Frame' = Frame /\ Frame = frames /\ next_recognize_frame' = frames + Threshold
    BY <1>4 DEF CopyDone, OrderInv
  <2> QED
    BY <1>4, <2>1 DEF CopyDone
<1>5. CASE Paint
  BY <1>5 DEF Paint
<1>6. CASE Stop
  BY <1>6 DEF Stop
<1>7. CASE StopLock
  BY <1>7 DEF StopLock
<1>8. CASE StopReset
  BY <1>8 DEF StopReset
<1>9. CASE StopClear
  BY <1>9 DEF StopClear, NoSurf
<1>10. CASE StopUnlock
  BY <1>10 DEF StopUnlock
<1>11. CASE DestroyMembers
  BY <1>11 DEF DestroyMembers
<1>12. CASE Destroy
  BY <1>12 DEF Destroy
<1>13. CASE Join
  BY <1>13 DEF Join
<1>14. CASE Reopen
  BY <1>14 DEF Reopen, NoSurf
<1>15. CASE WStart
  BY <1>15 DEF WStart, Go
<1>16. CASE WTest
  BY <1>16 DEF WTest, Go
<1>17. CASE WSetting
  BY <1>17 DEF WSetting, Go
<1>18. CASE WLock
  BY <1>18 DEF WLock, Go
<1>19. CASE WRecheck
  BY <1>19 DEF WRecheck, Go
<1>20. CASE WRead
  BY <1>20 DEF WRead, Go
<1>21. CASE WRects
  BY <1>21 DEF WRects, Go
<1>22. CASE WRelease
  BY <1>22 DEF WRelease, Go
<1>23. CASE WPublish
  BY <1>23 DEF WPublish, Go
<1>24. CASE WUnlock
  BY <1>24 DEF WUnlock, Go
<1>25. CASE WLeave
  BY <1>25 DEF WLeave, Go
<1>26. CASE WPost
  BY <1>26 DEF WPost
<1>27. CASE WTouchDead
  BY <1>27 DEF WTouchDead
<1>28. CASE UNCHANGED vars
  BY <1>28 DEF vars
<1> QED
  BY <1>1, <1>2, <1>3, <1>4, <1>5, <1>6, <1>7, <1>8, <1>9, <1>10, <1>11, <1>12, <1>13, <1>14, <1>15, <1>16, <1>17, <1>18, <1>19, <1>20, <1>21, <1>22, <1>23, <1>24, <1>25, <1>26, <1>27, <1>28 DEF Next, Main, Worker, Crashed

\* Answers are published in camera order, and, for large frames, Threshold
\* frames apart.
THEOREM AnswersAdvance == Spec => ResultsAdvance
<1> DEFINE Advance == result' # result =>
             \/ result' = 0
             \/ result' >= result + (IF script.large /\ result # 0 THEN Threshold ELSE 1)
<1>1. IInv /\ ThrottleInv /\ [Next]_vars => Advance
  <2> SUFFICES ASSUME IInv, ThrottleInv, [Next]_vars, result' # result
               PROVE  Advance
      OBVIOUS
  <2>1. CASE WPublish
    BY <2>1, RunnerAssumption DEF WPublish, Go, IInv, TypeOK, WorkInv, OrderInv, Busy,
         ThrottleInv, Apart
  <2>2. CASE AppFirstDrawn \/ StopClear
    BY <2>2 DEF AppFirstDrawn, StopClear
  <2> QED
    BY <2>1, <2>2 DEF Next, Main, Worker, Crashed, vars, mainVars, capVars, lockVars, dataVars,
         NewFrame, Draw, CopyDone, Paint, Stop, StopLock, StopReset, StopUnlock,
         DestroyMembers, Destroy, Join, Reopen, WStart, WTest, WSetting, WLock,
         WRecheck, WRead, WRects, WRelease, WUnlock, WLeave, WPost, WTouchDead
<1>2. IInv /\ ThrottleInv /\ [Next]_vars => [Advance]_vars
  BY <1>1
<1> QED
  BY <1>2, InitIInv, StepIInv, InitThrottle, StepThrottle, PTL DEF Spec, ResultsAdvance

-----------------------------------------------------------------------------
(* The dialog implements FrameSlot.                                         *)

(* A new dialog is a closed slot. *)
LEMMA InitSlot == Init => Slot!Init
BY DEF Init, Slot!Init, NoSurf, Capturing

(* Every step of the dialog is a step of the slot, or none. *)
LEMMA StepSlot == IInv /\ [Next]_vars => [Slot!Next]_Slot!vars
<1> SUFFICES ASSUME IInv, [Next]_vars
             PROVE  [Slot!Next]_Slot!vars
    OBVIOUS
<1>0. TypeOK'
  BY StepTypeOK DEF IInv
<1> USE <1>0, RunnerAssumption
<1> USE DEF IInv, TypeOK, Frame, Capturing, mainVars, capVars, lockVars,
            dataVars, Slot!vars
<1>1. CASE NewFrame
  BY <1>1 DEF NewFrame
<1>2. CASE AppFirstDrawn
  <2>1. Slot!Begin
    BY <1>2 DEF AppFirstDrawn, NoSurf, Slot!Begin, LifeInv, QuietInv
  <2> QED
    BY <2>1 DEF Slot!Next
<1>3. CASE Draw
  BY <1>3 DEF Draw, WantsFrame, WorkInv, OrderInv
<1>4. CASE CopyDone
  <2>1. Slot!Offer
    BY <1>4 DEF CopyDone, Slot!Offer, WorkInv, LifeInv, OrderInv
  <2> QED
    BY <2>1 DEF Slot!Next
<1>5. CASE Paint
  BY <1>5 DEF Paint
<1>6. CASE Stop
  BY <1>6 DEF Stop
<1>7. CASE StopLock
  BY <1>7 DEF StopLock
<1>8. CASE StopReset
  BY <1>8 DEF StopReset, LifeInv
<1>9. CASE StopClear
  <2>1. CASE thread_state # "kInit"
    <3>1. Slot!End
      BY <1>9, <2>1 DEF StopClear, NoSurf, Slot!End, MutexInv, LifeInv, WorkInv, Busy, Holding
    <3> QED
      BY <3>1 DEF Slot!Next
  <2>2. CASE thread_state = "kInit"
    BY <1>9, <2>2 DEF StopClear, NoSurf, LifeInv, QuietInv
  <2> QED
    BY <2>1, <2>2
<1>10. CASE StopUnlock
  BY <1>10 DEF StopUnlock
<1>11. CASE DestroyMembers
  BY <1>11 DEF DestroyMembers
<1>12. CASE Destroy
  BY <1>12 DEF Destroy
<1>13. CASE Join
  BY <1>13 DEF Join
<1>14. CASE Reopen
  BY <1>14 DEF Reopen, NoSurf, LifeInv, QuietInv
<1>15. CASE WStart
  BY <1>15 DEF WStart, Go
<1>16. CASE WTest
  BY <1>16 DEF WTest, Go
<1>17. CASE WSetting
  BY <1>17 DEF WSetting, Go
<1>18. CASE WLock
  BY <1>18 DEF WLock, Go
<1>19. CASE WRecheck
  <2>1. CASE avcapture /\ current_surf.valid
    <3>1. Slot!Take
      BY <1>19, <2>1 DEF WRecheck, Go, Slot!Take, WorkInv, OrderInv, LifeInv, Busy
    <3> QED
      BY <3>1 DEF Slot!Next
  <2>2. CASE ~(avcapture /\ current_surf.valid)
    BY <1>19, <2>2 DEF WRecheck, Go
  <2> QED
    BY <2>1, <2>2
<1>20. CASE WRead
  BY <1>20 DEF WRead, Go
<1>21. CASE WRects
  BY <1>21 DEF WRects, Go
<1>22. CASE WRelease
  <2>1. Slot!Release
    BY <1>22 DEF WRelease, Go, Slot!Release, WorkInv, Busy
  <2> QED
    BY <2>1 DEF Slot!Next
<1>23. CASE WPublish
  <2>1. Slot!Publish
    BY <1>23 DEF WPublish, Go, Slot!Publish, WorkInv, OrderInv, Busy
  <2> QED
    BY <2>1 DEF Slot!Next
<1>24. CASE WUnlock
  BY <1>24 DEF WUnlock, Go
<1>25. CASE WLeave
  BY <1>25 DEF WLeave, Go
<1>26. CASE WPost
  BY <1>26 DEF WPost
<1>27. CASE WTouchDead
  BY <1>27 DEF WTouchDead
<1>28. CASE UNCHANGED vars
  BY <1>28 DEF vars
<1> QED
  BY <1>1, <1>2, <1>3, <1>4, <1>5, <1>6, <1>7, <1>8, <1>9, <1>10, <1>11, <1>12, <1>13, <1>14, <1>15, <1>16, <1>17, <1>18, <1>19, <1>20, <1>21, <1>22, <1>23, <1>24, <1>25, <1>26, <1>27, <1>28 DEF Next, Main, Worker, Crashed

\* Every behaviour of the dialog is one of the hand-over of FrameSlot.
THEOREM Refinement == Spec => ImplementsFrameSlot
<1>1. Spec => Slot!Init /\ [][Slot!Next]_Slot!vars
  BY InitSlot, StepSlot, Invariance, PTL DEF Spec
<1> QED
  BY <1>1 DEF ImplementsFrameSlot, Slot!Spec
=============================================================================
