--------------------------- MODULE CaptureProofs ---------------------------
(***************************************************************************)
(* Frames and teardown of the video path: what the two sink mutexes, the   *)
(* worker of WebRTC and deconstructed_ promise together.                   *)
(***************************************************************************)
EXTENDS Capture, TLAPS

\* The holder of each mutex, from the places of the threads.
MutexInv ==
  \A s \in Sides :
    /\ sink_mutex[s] = "frame" <=> fpc[s] = "write"
    /\ sink_mutex[s] = "main" <=>
         \/ mpc = <<"drawing", s>>
         \/ s = "remote" /\ mpc = <<"pre_local", "local">>
         \/ s = "local" /\ mpc = <<"delete_remote", "remote">>

\* A frame is in OnFrame only while its renderer is a sink, and a sink is a
\* renderer that is not about to be freed.
SinkInv ==
  \A s \in Sides :
    /\ fpc[s] # "idle" => sink[s]
    /\ sink[s] => renderer[s] # "none" /\ mpc # <<"removed", s>>

\* A renderer is there while it is added, and going away while it is removed; both
\* are only added to an open connection.
BuildInv ==
  /\ mpc = <<"add", "local">> => connected /\ renderer["local"] = "made"
  /\ spc # "idle" => connected /\ renderer["remote"] = "made"
  /\ \A s \in Sides : mpc \in {<<"remove", s>>, <<"removed", s>>} => renderer[s] = "dying"

\* Renderers are stopped when the connection is closed, and it is closed when it
\* is deconstructed; before the first connection there is no sink.
CloseInv ==
  /\ mpc[1] \in {"stop", "remove", "removed", "deleted"} => ~connected
  /\ mpc[1] = "close" => deconstructed
  /\ ~connected => deconstructed \/ \A s \in Sides : ~sink[s]

\* A texture comes with the size of the renderer, and a renderer that is built
\* finds no texture of another one.
TextureInv ==
  /\ connected /\ renderer["remote"] = "none" => ~texture["remote"]
  /\ Alive => \A s \in Sides : texture[s] => app_size[s]
  /\ \A s \in Sides : fpc[s] = "write" => texture[s] /\ app_size[s]

CaptureInv ==
  /\ TypeOK /\ MutexInv /\ SinkInv /\ BuildInv /\ CloseInv /\ TextureInv
  /\ NoFrameAfterDeconstruct
-----------------------------------------------------------------------------
(* The steps.                                                               *)

\* Nothing is built at the start.
LEMMA InitKeeps == Init => CaptureInv
<1> SUFFICES ASSUME Init PROVE CaptureInv
  OBVIOUS
<1> USE DEF Init, All, Sides, Idle
<1>1. TypeOK
  BY DEF TypeOK, MainAt
<1>2. MutexInv /\ SinkInv /\ BuildInv /\ CloseInv
  BY DEF MutexInv, SinkInv, BuildInv, CloseInv
<1>3. TextureInv /\ NoFrameAfterDeconstruct
  BY DEF TextureInv, NoFrameAfterDeconstruct
<1>4. QED
  BY <1>1, <1>2, <1>3 DEF CaptureInv

\* Renderers that are built, with the worker of WebRTC adding their sinks.
LEMMA BuildKeeps ==
  ASSUME CaptureInv,
         Initialize \/ AssignLocal \/ OnAddStream \/ AssignRemote
         \/ WorkerAddsLocal \/ WorkerAddsRemote
  PROVE  CaptureInv'
<1> USE DEF CaptureInv, TypeOK, MutexInv, SinkInv, BuildInv, CloseInv, TextureInv,
            NoFrameAfterDeconstruct, Sides, MainAt, Idle, Crashed, mainVars, sideVars, Made, All, Alive
<1>1. CASE Initialize
  BY <1>1 DEF Initialize
<1>2. CASE AssignLocal
  BY <1>2 DEF AssignLocal
<1>3. CASE OnAddStream
  BY <1>3 DEF OnAddStream
<1>4. CASE AssignRemote
  BY <1>4 DEF AssignRemote
<1>5. CASE WorkerAddsLocal
  BY <1>5 DEF WorkerAddsLocal
<1>6. CASE WorkerAddsRemote
  BY <1>6 DEF WorkerAddsRemote
<1>7. QED
  BY <1>1, <1>2, <1>3, <1>4, <1>5, <1>6

\* Frames on their way, one of which may have the main thread make a texture.
LEMMA FrameKeeps ==
  ASSUME CaptureInv, NEW s \in Sides,
         OnFrame(s) \/ LockSink(s) \/ Written(s) \/ SetRendererTextureSize(s)
  PROVE  CaptureInv'
<1> USE DEF CaptureInv, TypeOK, MutexInv, SinkInv, BuildInv, CloseInv, TextureInv,
            NoFrameAfterDeconstruct, Sides, MainAt, Idle, Crashed, mainVars, sideVars, Alive
<1>1. CASE OnFrame(s)
  BY <1>1 DEF OnFrame
<1>2. CASE LockSink(s)
  BY <1>2 DEF LockSink
<1>3. CASE Written(s)
  BY <1>3 DEF Written
<1>4. CASE SetRendererTextureSize(s)
  <2>1. mpc' \in MainAt
    BY <1>4 DEF SetRendererTextureSize
  <2>2. CASE renderer[s] = "set"
    <3>1. /\ mpc' = Idle /\ mpc = Idle
          /\ app_size' = [app_size EXCEPT ![s] = TRUE]
          /\ fpc' = [fpc EXCEPT ![s] = "lock"]
      BY <1>4, <2>2 DEF SetRendererTextureSize
    <3>2. TypeOK'
      BY <1>4, <2>1, <3>1 DEF SetRendererTextureSize
    <3>3. QED
      BY <1>4, <3>1, <3>2 DEF SetRendererTextureSize
  <2>3. CASE renderer[s] # "set"
    <3>1. mpc' = Crashed /\ UNCHANGED <<app_size, fpc>>
      BY <1>4, <2>3 DEF SetRendererTextureSize
    <3>2. QED
      BY <1>4, <2>1, <3>1 DEF SetRendererTextureSize
  <2>4. QED
    BY <2>2, <2>3
<1>5. QED
  BY <1>1, <1>2, <1>3, <1>4

\* The main thread draws, or recreates the renderer of SDL, under the mutexes.
LEMMA DrawKeeps ==
  ASSUME CaptureInv, NEW s \in Sides,
         Draw(s) \/ DrawLock(s) \/ Drawn(s) \/ PreCreateRenderer \/ PreCreateLock \/ ReleaseTextures
  PROVE  CaptureInv'
<1> USE DEF CaptureInv, TypeOK, MutexInv, SinkInv, BuildInv, CloseInv, TextureInv,
            NoFrameAfterDeconstruct, Sides, MainAt, Idle, Crashed, mainVars, sideVars, All, Alive
<1>1. CASE Draw(s)
  BY <1>1 DEF Draw
<1>2. CASE DrawLock(s)
  BY <1>2 DEF DrawLock
<1>3. CASE Drawn(s)
  BY <1>3 DEF Drawn
<1>4. CASE PreCreateRenderer
  BY <1>4 DEF PreCreateRenderer
<1>5. CASE PreCreateLock
  BY <1>5 DEF PreCreateLock
<1>6. CASE ReleaseTextures
  BY <1>6 DEF ReleaseTextures
<1>7. QED
  BY <1>1, <1>2, <1>3, <1>4, <1>5, <1>6

\* DeletePeerConnection: no frame is in a section of a mutex when deconstructed_ is
\* set, and the worker has no frame in hand when it removes a sink.
LEMMA DeleteKeeps ==
  ASSUME CaptureInv, NEW s \in Sides,
         DeletePeerConnection \/ DeleteLock \/ Deconstruct \/ Close
         \/ StopRenderer(s) \/ WorkerRemoves(s) \/ Destroyed(s) \/ Deleted
  PROVE  CaptureInv'
<1> USE DEF CaptureInv, TypeOK, MutexInv, SinkInv, BuildInv, CloseInv, TextureInv,
            NoFrameAfterDeconstruct, Sides, MainAt, Idle, Crashed, mainVars, sideVars, Alive
<1>1. CASE DeletePeerConnection
  BY <1>1 DEF DeletePeerConnection
<1>2. CASE DeleteLock
  BY <1>2 DEF DeleteLock
<1>3. CASE Deconstruct
  BY <1>3 DEF Deconstruct
<1>4. CASE Close
  BY <1>4 DEF Close
<1>5. CASE StopRenderer(s)
  BY <1>5 DEF StopRenderer
<1>6. CASE WorkerRemoves(s)
  BY <1>6 DEF WorkerRemoves
<1>7. CASE Destroyed(s)
  BY <1>7 DEF Destroyed
<1>8. CASE Deleted
  BY <1>8 DEF Deleted
<1>9. QED
  BY <1>1, <1>2, <1>3, <1>4, <1>5, <1>6, <1>7, <1>8

\* The invariant, in every state of every behaviour.
THEOREM InvariantCapture == Spec => []CaptureInv
<1>1. CaptureInv /\ [Next]_vars => CaptureInv'
  <2> SUFFICES ASSUME CaptureInv, [Next]_vars PROVE CaptureInv'
    OBVIOUS
  <2>0. "local" \in Sides
    BY DEF Sides
  <2>1. CASE Main
    BY <2>0, <2>1, BuildKeeps, DrawKeeps, DeleteKeeps DEF Main
  <2>2. CASE Pump
    BY <2>2, FrameKeeps DEF Pump
  <2>3. CASE User
    BY <2>0, <2>3, BuildKeeps, DrawKeeps, DeleteKeeps DEF User
  <2>4. CASE Worker
    BY <2>4, BuildKeeps, DeleteKeeps DEF Worker
  <2>5. CASE OnAddStream \/ AssignRemote
    BY <2>5, BuildKeeps
  <2>6. ASSUME NEW s \in Sides, OnFrame(s) \/ Frame(s) PROVE CaptureInv'
    BY <2>6, FrameKeeps DEF Frame
  <2>7. CASE UNCHANGED vars
    BY <2>7 DEF vars, mainVars, sideVars, CaptureInv, TypeOK, MutexInv, SinkInv, BuildInv,
       CloseInv, TextureInv, NoFrameAfterDeconstruct, Alive
  <2>8. QED
    BY <2>1, <2>2, <2>3, <2>4, <2>5, <2>6, <2>7 DEF Next
<1>2. QED
  BY <1>1, InitKeeps, PTL DEF Spec

-----------------------------------------------------------------------------
(* The properties.                                                          *)

\* Every variable keeps its type; the main thread is at one of its places.
THEOREM TypesCapture == Spec => []TypeOK
<1>1. CaptureInv => TypeOK
  BY DEF CaptureInv
<1>2. QED
  BY <1>1, InvariantCapture, PTL

\* OnFrame never runs in a renderer that is gone, or free to go: the destructor
\* removes the sink first, and the worker waits for the frame in progress.
THEOREM FrameHasRendererAlways == Spec => []FrameHasRenderer
<1>1. CaptureInv => FrameHasRenderer
  BY DEF CaptureInv, SinkInv, FrameHasRenderer
<1>2. QED
  BY <1>1, InvariantCapture, PTL

\* A frame is written into a texture that is there, of known size and not drawn
\* meanwhile: the mutex is held for all of the writing and all of the drawing.
THEOREM WriteIntoTextureAlways == Spec => []WriteIntoTexture
<1>1. CaptureInv => WriteIntoTexture
  BY DEF CaptureInv, MutexInv, TextureInv, WriteIntoTexture
<1>2. QED
  BY <1>1, InvariantCapture, PTL

\* After both mutexes were held once with deconstructed_ set in between, no frame
\* is written until the next connection.
THEOREM NoFrameAfterDeconstructAlways == Spec => []NoFrameAfterDeconstruct
<1>1. CaptureInv => NoFrameAfterDeconstruct
  BY DEF CaptureInv
<1>2. QED
  BY <1>1, InvariantCapture, PTL
=============================================================================
