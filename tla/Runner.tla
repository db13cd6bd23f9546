------------------------------- MODULE Runner -------------------------------
(***************************************************************************)
(* The camera dialog trunner (aismart/gui/dialogs/runner.cpp): the main    *)
(* thread paints camera frames and hands some of them to a recognition     *)
(* worker (a tworker, librose/thread.hpp, on an rtc::SignalThread).        *)
(*                                                                         *)
(* Three actors run: the main thread (program counter mpc), the worker     *)
(* (wpc) and the camera's frame thread, of which only what the dialog sees *)
(* is here: NewFrame.  variable_mutex_ guards single reads and writes, so  *)
(* each of its sections is one step; recognition_mutex_ is held across     *)
(* steps and is a variable.  A frame is its number in frames().            *)
(***************************************************************************)
EXTENDS Naturals

CONSTANTS
  MaxFrame, \* bound: frames delivered in the life of one dialog
  Threshold \* recognize_threshold, 5 in the code

ASSUME RunnerAssumption ==
  /\ MaxFrame \in Nat
  /\ Threshold \in Nat \ {0}

VARIABLES
  script,                \* what the dialog was opened with: [large, rects]
  mpc, wpc,              \* where the main thread and the worker are
  thread_state,          \* SignalThread::state_
  alive,                 \* the members of trunner are not destroyed yet
  avcapture,             \* avcapture_ holds an object
  frames, new_frame,     \* of the capture's local VideoRenderer
  setting,               \* setting_
  recognition_mutex,     \* its holder
  current_surf,          \* current_surf_: [valid, frame]
  result, rects,         \* the frames result_ and rects_ were computed from
  working,               \* the worker's copy of the frame it recognises
  next_recognize_frame

mainVars == <<script, mpc, thread_state, alive>>
capVars  == <<avcapture, frames, new_frame>>
lockVars == <<setting, recognition_mutex>>
dataVars == <<current_surf, result, rects, working, next_recognize_frame>>
vars == <<script, mpc, wpc, thread_state, alive, avcapture, frames, new_frame,
          setting, recognition_mutex, current_surf, result, rects, working,
          next_recognize_frame>>

\* large: max_value > 640, recognition is throttled.  rects: the scenario is
\* classifier or pr, which report rectangles; detect does not.
Script == [large : BOOLEAN, rects : BOOLEAN]

NoSurf == [valid |-> FALSE, frame |-> 0]

MainAt == {"idle", "copying", "painting", "stop_lock", "stop_reset",
           "stop_clear", "stop_unlock", "closing", "destroy", "join", "done"}

\* Steps of DoWork and of what calls it; all but the last four are in DoWork
\* and use members of the dialog.
Touching == {"spawned", "test", "setting", "lock", "recheck", "reading",
             "rects", "release", "publish", "unlock", "leave"}
WorkerAt == Touching \cup {"none", "post", "exited", "crashed"}

\* Between WLock and WUnlock the worker owns recognition_mutex_.
Holding == {"recheck", "reading", "rects", "release", "publish", "unlock"}

TypeOK ==
  /\ script \in Script
  /\ mpc \in MainAt
  /\ wpc \in WorkerAt
  /\ thread_state \in {"kInit", "kRunning", "kStopping"}
  /\ alive \in BOOLEAN
  /\ avcapture \in BOOLEAN
  /\ frames \in 0 .. MaxFrame
  /\ new_frame \in BOOLEAN
  /\ setting \in BOOLEAN
  /\ recognition_mutex \in {"free", "main", "worker"}
  /\ current_surf \in [valid : BOOLEAN, frame : 0 .. MaxFrame]
  /\ result \in 0 .. MaxFrame
  /\ rects \in 0 .. MaxFrame
  /\ working \in 0 .. MaxFrame
  /\ next_recognize_frame \in 0 .. (MaxFrame + Threshold)

\* The constructor; SignalThread starts in kInit.
Init ==
  /\ script \in Script
  /\ mpc = "idle"
  /\ wpc = "none"
  /\ thread_state = "kInit"
  /\ alive = TRUE
  /\ avcapture = FALSE
  /\ frames = 0
  /\ new_frame = FALSE
  /\ setting = FALSE
  /\ recognition_mutex = "free"
  /\ current_surf = NoSurf
  /\ result = 0
  /\ rects = 0
  /\ working = 0
  /\ next_recognize_frame = 0

-----------------------------------------------------------------------------
(* The camera.  OnFrame and draw_slice both hold the sink mutex, so no      *)
(* frame arrives while the main thread paints.                              *)

NewFrame ==
  /\ wpc # "crashed"
  /\ avcapture
  /\ mpc \notin {"copying", "painting"}
  /\ frames < MaxFrame
  /\ frames' = frames + 1
  /\ new_frame' = TRUE
  /\ UNCHANGED <<wpc, mainVars, avcapture, lockVars, dataVars>>

-----------------------------------------------------------------------------
(* The main thread.                                                         *)

\* app_first_drawn with source_camera: start_avcapture, then thread_->Start().
\* No worker exists yet, so its locks are free and it is one step.
AppFirstDrawn ==
  /\ mpc = "idle"
  /\ thread_state = "kInit"
  /\ avcapture' = TRUE
  /\ frames' = 0
  /\ new_frame' = FALSE
  /\ current_surf' = NoSurf
  /\ result' = 0
  /\ rects' = 0
  /\ thread_state' = "kRunning"
  /\ wpc' = "spawned"
  /\ UNCHANGED <<script, mpc, alive, lockVars, working, next_recognize_frame>>

\* Mutant of WantsFrame: the flag of the slot is not looked at.
WantsFrameAlways(seen) == seen /\ (script.large => frames >= next_recognize_frame)

\* When did_paper_draw_slice copies the frame for the worker.
WantsFrame(seen) ==
  /\ seen
  /\ ~current_surf.valid
  /\ script.large => frames >= next_recognize_frame

\* draw_slice reads new_frame_ before it takes the sink mutex: a frame that
\* arrives in between is drawn without being announced (seen is FALSE).
Draw ==
  /\ mpc = "idle"
  /\ wpc # "crashed"
  /\ avcapture
  /\ frames # 0
  /\ \E seen \in {new_frame, FALSE} :
       \/ /\ WantsFrame(seen)
          /\ mpc' = "copying"
          /\ current_surf' = [current_surf EXCEPT !.frame = frames]
       \/ /\ ~WantsFrame(seen)
          /\ mpc' = "painting"
          /\ UNCHANGED current_surf
  /\ UNCHANGED <<script, wpc, thread_state, alive, capVars, lockVars, result, rects,
                 working, next_recognize_frame>>

\* Mutants of CopyDone: the throttle accumulates, or is forgotten.
CopyDoneAccumulates ==
  /\ mpc = "copying"
  /\ wpc # "crashed"
  /\ current_surf' = [current_surf EXCEPT !.valid = TRUE]
  /\ next_recognize_frame' = next_recognize_frame + frames + Threshold
  /\ mpc' = "painting"
  /\ UNCHANGED <<script, wpc, thread_state, alive, capVars, lockVars, result,
                 rects, working>>
CopyDoneUnthrottled ==
  /\ mpc = "copying"
  /\ wpc # "crashed"
  /\ current_surf' = [current_surf EXCEPT !.valid = TRUE]
  /\ mpc' = "painting"
  /\ UNCHANGED <<script, wpc, thread_state, alive, capVars, lockVars, result,
                 rects, working, next_recognize_frame>>

\* The memcpy has ended: hand the slot over.
CopyDone ==
  /\ mpc = "copying"
  /\ wpc # "crashed"
  /\ current_surf' = [current_surf EXCEPT !.valid = TRUE]
  /\ next_recognize_frame' = frames + Threshold
  /\ mpc' = "painting"
  /\ UNCHANGED <<script, wpc, thread_state, alive, capVars, lockVars, result, rects,
                 working>>

\* rects_ and result_ are read together; draw_slice clears new_frame_.
Paint ==
  /\ mpc = "painting"
  /\ wpc # "crashed"
  /\ mpc' = "idle"
  /\ new_frame' = FALSE
  /\ UNCHANGED <<script, wpc, thread_state, alive, avcapture, frames, lockVars,
                 dataVars>>

\* post_show: stop_avcapture, tsetting_lock first.
Stop ==
  /\ mpc = "idle"
  /\ wpc # "crashed"
  /\ setting' = TRUE
  /\ mpc' = "stop_lock"
  /\ UNCHANGED <<script, wpc, thread_state, alive, capVars, recognition_mutex, dataVars>>

\* Mutant of StopLock: the capture is torn down without recognition_mutex_.
StopWithoutLock ==
  /\ mpc = "stop_lock"
  /\ wpc # "crashed"
  /\ mpc' = "stop_reset"
  /\ UNCHANGED <<script, wpc, thread_state, alive, capVars, lockVars, dataVars>>

StopLock ==
  /\ mpc = "stop_lock"
  /\ wpc # "crashed"
  /\ recognition_mutex = "free"
  /\ recognition_mutex' = "main"
  /\ mpc' = "stop_reset"
  /\ UNCHANGED <<script, wpc, thread_state, alive, capVars, setting, dataVars>>

\* avcapture_.reset(): the pointer is null before the capture is torn down.
StopReset ==
  /\ mpc = "stop_reset"
  /\ wpc # "crashed"
  /\ avcapture' = FALSE
  /\ frames' = 0
  /\ new_frame' = FALSE
  /\ mpc' = "stop_clear"
  /\ UNCHANGED <<script, wpc, thread_state, alive, lockVars, dataVars>>

\* Mutant of StopClear: rects_.clear() is missing.
StopKeepsRects ==
  /\ mpc = "stop_clear"
  /\ wpc # "crashed"
  /\ current_surf' = NoSurf
  /\ result' = 0
  /\ recognition_mutex' = "free"
  /\ mpc' = "stop_unlock"
  /\ UNCHANGED <<script, wpc, thread_state, alive, capVars, setting, rects,
                 working, next_recognize_frame>>

StopClear ==
  /\ mpc = "stop_clear"
  /\ wpc # "crashed"
  /\ current_surf' = NoSurf
  /\ result' = 0
  /\ rects' = 0
  /\ recognition_mutex' = "free"
  /\ mpc' = "stop_unlock"
  /\ UNCHANGED <<script, wpc, thread_state, alive, capVars, setting, working,
                 next_recognize_frame>>

\* The tsetting_lock is released after the mutex.
StopUnlock ==
  /\ mpc = "stop_unlock"
  /\ wpc # "crashed"
  /\ setting' = FALSE
  /\ mpc' = "closing"
  /\ UNCHANGED <<script, wpc, thread_state, alive, capVars, recognition_mutex, dataVars>>

\* ~trunner destroys the members first, and only then, as a base class,
\* ~tworker calls thread_->Destroy(true).
DestroyMembers ==
  /\ mpc = "closing"
  /\ wpc # "crashed"
  /\ alive' = FALSE
  /\ mpc' = "destroy"
  /\ UNCHANGED <<script, wpc, thread_state, capVars, lockVars, dataVars>>

\* Destroy(true) of a thread that never ran returns at once; otherwise it
\* stops the worker and joins it.
Destroy ==
  /\ mpc = "destroy"
  /\ wpc # "crashed"
  /\ IF thread_state = "kInit"
       THEN mpc' = "done" /\ UNCHANGED thread_state
       ELSE mpc' = "join" /\ thread_state' = "kStopping"
  /\ UNCHANGED <<script, wpc, alive, capVars, lockVars, dataVars>>

Join ==
  /\ mpc = "join"
  /\ wpc = "exited"
  /\ mpc' = "done"
  /\ UNCHANGED <<script, wpc, thread_state, alive, capVars, lockVars, dataVars>>

\* The user opens the dialog again: a new trunner.
Reopen ==
  /\ mpc = "done"
  /\ script' \in Script
  /\ mpc' = "idle"
  /\ wpc' = "none"
  /\ thread_state' = "kInit"
  /\ alive' = TRUE
  /\ current_surf' = NoSurf
  /\ working' = 0
  /\ next_recognize_frame' = 0
  /\ UNCHANGED <<capVars, lockVars, result, rects>>

-----------------------------------------------------------------------------
(* The worker.                                                              *)

\* Moves the worker between two places of a dialog that still exists.
Go(from, to) ==
  /\ alive
  /\ wpc = from
  /\ wpc' = to

\* SignalThread::Run reaches trunner::DoWork by two virtual calls.
WStart ==
  /\ Go("spawned", "test")
  /\ UNCHANGED <<mainVars, capVars, lockVars, dataVars>>

\* while (avcapture_.get()), without a lock.
WTest ==
  /\ Go("test", IF avcapture THEN "setting" ELSE "leave")
  /\ UNCHANGED <<mainVars, capVars, lockVars, dataVars>>

\* Mutant of WSetting: the loop goes for the mutex whatever setting_ says.
WSettingIgnored ==
  /\ Go("setting", "lock")
  /\ UNCHANGED <<mainVars, capVars, lockVars, dataVars>>

\* if (setting_) the worker sleeps and tests again, and leaves the mutex alone.
WSetting ==
  /\ Go("setting", IF setting THEN "test" ELSE "lock")
  /\ UNCHANGED <<mainVars, capVars, lockVars, dataVars>>

WLock ==
  /\ Go("lock", "recheck")
  /\ recognition_mutex = "free"
  /\ recognition_mutex' = "worker"
  /\ UNCHANGED <<mainVars, capVars, setting, dataVars>>

\* Both tests again under the mutex; without a frame the worker sleeps with
\* the mutex held.
WRecheck ==
  /\ IF avcapture /\ current_surf.valid
       THEN /\ Go("recheck", "reading")
            /\ working' = current_surf.frame
       ELSE /\ Go("recheck", "unlock")
            /\ UNCHANGED working
  /\ UNCHANGED <<mainVars, capVars, lockVars, current_surf, result, rects,
                 next_recognize_frame>>

\* classifier_surface and pr_surface clone the pixels before they compute.
WRead ==
  /\ Go("reading", "rects")
  /\ UNCHANGED <<mainVars, capVars, lockVars, dataVars>>

WRects ==
  /\ Go("rects", "release")
  /\ rects' = IF script.rects THEN working ELSE rects
  /\ UNCHANGED <<mainVars, capVars, lockVars, current_surf, result, working,
                 next_recognize_frame>>

\* Mutants of WRelease: the mutex goes with the slot; the slot is not given back.
WReleaseAll ==
  /\ Go("release", "publish")
  /\ current_surf' = [current_surf EXCEPT !.valid = FALSE]
  /\ recognition_mutex' = "free"
  /\ UNCHANGED <<mainVars, capVars, setting, result, rects, working,
                 next_recognize_frame>>
WReleaseForgotten ==
  /\ Go("release", "publish")
  /\ UNCHANGED <<mainVars, capVars, lockVars, dataVars>>

\* current_surf_.first = false, without variable_mutex_.
WRelease ==
  /\ Go("release", "publish")
  /\ current_surf' = [current_surf EXCEPT !.valid = FALSE]
  /\ UNCHANGED <<mainVars, capVars, lockVars, result, rects, working,
                 next_recognize_frame>>

\* Mutant of WPublish: the answer is filed under what the slot now holds.
WPublishSlot ==
  /\ Go("publish", "unlock")
  /\ result' = current_surf.frame
  /\ working' = 0
  /\ UNCHANGED <<mainVars, capVars, lockVars, current_surf, rects,
                 next_recognize_frame>>

WPublish ==
  /\ Go("publish", "unlock")
  /\ result' = working
  /\ working' = 0
  /\ UNCHANGED <<mainVars, capVars, lockVars, current_surf, rects,
                 next_recognize_frame>>

WUnlock ==
  /\ Go("unlock", "test")
  /\ recognition_mutex' = "free"
  /\ UNCHANGED <<mainVars, capVars, setting, dataVars>>

\* recognition_thread_running_ = false.
WLeave ==
  /\ Go("leave", "post")
  /\ UNCHANGED <<mainVars, capVars, lockVars, dataVars>>

\* SignalThread::Run posts ST_MSG_WORKER_DONE; no dialog member is used, and
\* the main thread does not read messages again before it joins.
WPost ==
  /\ wpc = "post"
  /\ wpc' = "exited"
  /\ UNCHANGED <<mainVars, capVars, lockVars, dataVars>>

\* A step of DoWork on destroyed members is undefined.  The build either
\* still finds the null avcapture_ and setting_ in the dead frame, or dies.
WTouchDead ==
  /\ ~alive
  /\ wpc \in Touching
  /\ \/ wpc' = "crashed"
     \/ wpc \in {"test", "setting"} /\ wpc' = "leave"
     \/ wpc = "leave" /\ wpc' = "post"
  /\ UNCHANGED <<mainVars, capVars, lockVars, dataVars>>

\* A crashed process stays so.
Crashed ==
  /\ wpc = "crashed"
  /\ UNCHANGED vars

-----------------------------------------------------------------------------
Main == \/ AppFirstDrawn \/ Draw \/ CopyDone \/ Paint \/ Stop \/ StopLock
        \/ StopReset \/ StopClear \/ StopUnlock \/ DestroyMembers \/ Destroy
        \/ Join \/ Reopen

Worker == \/ WStart \/ WTest \/ WSetting \/ WLock \/ WRecheck \/ WRead
          \/ WRects \/ WRelease \/ WPublish \/ WUnlock \/ WLeave \/ WPost
          \/ WTouchDead

Next == NewFrame \/ Main \/ Worker \/ Crashed

\* Both threads are scheduled.  An SDL mutex queues nobody, so taking one is
\* only weakly fair.  Neither the user (Stop, Reopen), nor the camera, nor
\* the repaint is promised.
Fairness ==
  /\ WF_vars(CopyDone)
  /\ WF_vars(Paint)
  /\ WF_vars(StopLock)
  /\ WF_vars(StopReset)
  /\ WF_vars(StopClear)
  /\ WF_vars(StopUnlock)
  /\ WF_vars(DestroyMembers)
  /\ WF_vars(Destroy)
  /\ WF_vars(Join)
  /\ WF_vars(Worker)

Spec == Init /\ [][Next]_vars
FairSpec == Spec /\ Fairness

-----------------------------------------------------------------------------
(* Properties.                                                              *)

\* The painting thread never writes the hand-over surface while the worker
\* reads it, although neither side locks it for that: the flag alone
\* (current_surf_.first) passes the ownership to and fro.
SlotExclusive == ~(mpc = "copying" /\ wpc = "reading")

\* The worker only recognises with a capture behind it: a stop that slips in
\* between the unlocked test of the loop and the mutex is noticed.
RecognisesOnlyWhileCapturing == wpc \in {"reading", "rects", "release"} => avcapture

\* Once stop_avcapture has cleared them, no late worker brings an answer, a
\* rectangle or a frame back.
QuietAfterStop ==
  mpc \in {"stop_unlock", "closing", "destroy", "join", "done"} =>
    /\ result = 0
    /\ rects = 0
    /\ ~current_surf.valid

\* What a repaint shows is torn (rectangles of another frame than the text)
\* only between the two variable_mutex_ sections of one recognition, and the
\* rectangles are then those of the newer frame.
TornOnlyWhilePublishing ==
  script.rects /\ rects # result =>
    /\ wpc \in {"release", "publish"}
    /\ rects = working
    /\ rects > result

\* Answers come in camera order, none twice, and at least Threshold frames
\* apart when the frames are large.
ResultsAdvance ==
  [][result' # result =>
       \/ result' = 0
       \/ result' >= result + (IF script.large /\ result # 0 THEN Threshold ELSE 1)]_vars

\* A dialog that closes gets recognition_mutex_ although the worker takes it
\* again and again: this is what setting_ is for.
StopCompletes == mpc = "stop_lock" ~> mpc = "closing"

\* A frame handed over is recognised, or dropped by the stop.
FrameConsumed == current_surf.valid ~> ~current_surf.valid

\* The worker has left DoWork before the dialog's members are destroyed.
WorkerGoneBeforeMembers == ~alive => wpc \notin Touching

\* There is a capture, or the traces of one that stop_avcapture has not cleared.
Capturing == avcapture \/ (mpc = "stop_clear" /\ thread_state # "kInit")

\* The dialog is an implementation of the hand-over of FrameSlot.
Slot == INSTANCE FrameSlot WITH
          capturing <- Capturing,
          offered   <- IF current_surf.valid THEN current_surf.frame ELSE 0,
          shown     <- result

ImplementsFrameSlot == Slot!Spec
=============================================================================
