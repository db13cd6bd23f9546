------------------------------ MODULE Capture ------------------------------
(***************************************************************************)
(* The video path of trtc_client (librose/rtc_client.cpp): frame threads   *)
(* fill textures that the main thread draws, and the main thread builds    *)
(* and tears down the renderers while frames arrive.                       *)
(*                                                                         *)
(* There are two sides, the local camera and the remote peer, each with a  *)
(* VideoRenderer, a frame thread and a sink mutex.  The rest is WebRTC:    *)
(* the main and the signaling thread add and remove sinks by a call they   *)
(* wait for, which the worker thread executes under the lock of the side's *)
(* VideoBroadcaster, and that lock is held while OnFrame runs.             *)
(***************************************************************************)
EXTENDS Naturals

Sides == {"local", "remote"}

VARIABLES
  mpc,          \* the main thread: <<place, side>>
  spc,          \* the signaling thread
  fpc,          \* the frame threads: "idle" is outside OnFrame
  renderer,     \* "none", "made" (being built), "set" (in its unique_ptr)
                \* or "dying" (out of it, being destroyed)
  sink,         \* the renderer is a sink of its broadcaster
  texture,      \* frame_texture and pixels are there
  app_size,     \* app_width_ and app_height_ of the renderer are set
  has_frames,   \* frames() # 0
  sink_mutex,   \* its holder
  deconstructed,
  connected     \* the peer connection is open

mainVars == <<mpc, deconstructed, connected>>
sideVars == <<renderer, sink, texture, app_size, has_frames, sink_mutex>>
vars == <<mainVars, spc, fpc, sideVars>>

Idle == <<"idle", "local">>
Crashed == <<"crashed", "local">>

MainAt ==
  {Idle, Crashed, <<"pre_remote", "remote">>, <<"deleted", "remote">>}
    \cup {"add", "assign", "pre_local", "delete_local", "close"} \X {"local"}
    \cup {<<"delete_remote", "remote">>}
    \cup {"draw", "drawing", "stop", "remove", "removed"} \X Sides

TypeOK ==
  /\ mpc \in MainAt
  /\ spc \in {"idle", "add", "assign"}
  /\ fpc \in [Sides -> {"idle", "invoke", "lock", "write"}]
  /\ renderer \in [Sides -> {"none", "made", "set", "dying"}]
  /\ sink \in [Sides -> BOOLEAN]
  /\ texture \in [Sides -> BOOLEAN]
  /\ app_size \in [Sides -> BOOLEAN]
  /\ has_frames \in [Sides -> BOOLEAN]
  /\ sink_mutex \in [Sides -> {"free", "main", "frame"}]
  /\ deconstructed \in BOOLEAN
  /\ connected \in BOOLEAN

All(value) == [s \in Sides |-> value]

Init ==
  /\ mpc = Idle
  /\ spc = "idle"
  /\ fpc = All("idle")
  /\ renderer = All("none")
  /\ sink = All(FALSE)
  /\ texture = All(FALSE)
  /\ app_size = All(FALSE)
  /\ has_frames = All(FALSE)
  /\ sink_mutex = All("free")
  /\ deconstructed = FALSE
  /\ connected = FALSE

Alive == mpc # Crashed

-----------------------------------------------------------------------------
(* Building a renderer.  Its constructor adds the sink; frames may arrive    *)
(* before the pointer to it is stored.                                      *)

Made(s) ==
  /\ renderer' = [renderer EXCEPT ![s] = "made"]
  /\ app_size' = [app_size EXCEPT ![s] = FALSE]
  /\ has_frames' = [has_frames EXCEPT ![s] = FALSE]

\* InitializePeerConnection, down to StartLocalRenderer.
Initialize ==
  /\ mpc = Idle
  /\ ~connected
  /\ mpc' = <<"add", "local">>
  /\ deconstructed' = FALSE
  /\ connected' = TRUE
  /\ texture' = All(FALSE)
  /\ Made("local")
  /\ UNCHANGED <<spc, fpc, sink, sink_mutex>>

AssignLocal ==
  /\ mpc = <<"assign", "local">>
  /\ mpc' = Idle
  /\ renderer' = [renderer EXCEPT !["local"] = "set"]
  /\ UNCHANGED <<spc, fpc, sink, texture, app_size, has_frames, sink_mutex,
                 deconstructed, connected>>

\* OnAddStream, on the signaling thread.
OnAddStream ==
  /\ Alive
  /\ connected
  /\ mpc[1] # "add"
  /\ spc = "idle"
  /\ renderer["remote"] = "none"
  /\ spc' = "add"
  /\ Made("remote")
  /\ UNCHANGED <<mainVars, fpc, sink, texture, sink_mutex>>

AssignRemote ==
  /\ Alive
  /\ spc = "assign"
  /\ spc' = "idle"
  /\ renderer' = [renderer EXCEPT !["remote"] = "set"]
  /\ UNCHANGED <<mainVars, fpc, sink, texture, app_size, has_frames, sink_mutex>>

\* The worker executes AddOrUpdateSink or RemoveSink under the broadcaster's
\* lock, once no frame of that side is on its way through the sinks.
WorkerAddsLocal ==
  /\ mpc = <<"add", "local">>
  /\ fpc["local"] = "idle"
  /\ sink' = [sink EXCEPT !["local"] = TRUE]
  /\ mpc' = <<"assign", "local">>
  /\ UNCHANGED <<spc, fpc, renderer, texture, app_size, has_frames, sink_mutex,
                 deconstructed, connected>>

WorkerAddsRemote ==
  /\ Alive
  /\ spc = "add"
  /\ fpc["remote"] = "idle"
  /\ sink' = [sink EXCEPT !["remote"] = TRUE]
  /\ spc' = "assign"
  /\ UNCHANGED <<mainVars, fpc, renderer, texture, app_size, has_frames, sink_mutex>>

\* Mutant of WorkerRemoves: the worker does not wait for the frame.
WorkerRemovesAtOnce(s) ==
  /\ mpc = <<"remove", s>>
  /\ sink' = [sink EXCEPT ![s] = FALSE]
  /\ mpc' = <<"removed", s>>
  /\ UNCHANGED <<spc, fpc, renderer, texture, app_size, has_frames, sink_mutex,
                 deconstructed, connected>>

WorkerRemoves(s) ==
  /\ mpc = <<"remove", s>>
  /\ fpc[s] = "idle"
  /\ sink' = [sink EXCEPT ![s] = FALSE]
  /\ mpc' = <<"removed", s>>
  /\ UNCHANGED <<spc, fpc, renderer, texture, app_size, has_frames, sink_mutex,
                 deconstructed, connected>>

-----------------------------------------------------------------------------
(* VideoRenderer::OnFrame, on a frame thread.                               *)

\* Mutant of OnFrame: the main thread is asked with the mutex in hand.
OnFrameHolding(s) ==
  /\ Alive
  /\ fpc[s] = "idle"
  /\ sink[s]
  /\ sink_mutex[s] = "free"
  /\ fpc' = [fpc EXCEPT ![s] = IF texture[s] THEN "lock" ELSE "invoke"]
  /\ sink_mutex' = [sink_mutex EXCEPT ![s] = IF texture[s] THEN "free" ELSE "frame"]
  /\ UNCHANGED <<mainVars, spc, renderer, sink, texture, app_size, has_frames>>

\* Without a texture the main thread is asked for one, before the mutex.
OnFrame(s) ==
  /\ Alive
  /\ fpc[s] = "idle"
  /\ sink[s]
  /\ fpc' = [fpc EXCEPT ![s] = IF texture[s] THEN "lock" ELSE "invoke"]
  /\ UNCHANGED <<mainVars, spc, sideVars>>

\* Mutant of LockSink: deconstructed_ is not looked at.
LockSinkAnyway(s) ==
  /\ Alive
  /\ fpc[s] = "lock"
  /\ sink_mutex[s] = "free"
  /\ IF ~texture[s]
       THEN /\ fpc' = [fpc EXCEPT ![s] = "idle"]
            /\ UNCHANGED sink_mutex
       ELSE /\ fpc' = [fpc EXCEPT ![s] = "write"]
            /\ sink_mutex' = [sink_mutex EXCEPT ![s] = "frame"]
  /\ UNCHANGED <<mainVars, spc, renderer, sink, texture, app_size, has_frames>>

\* Under the mutex a frame of a connection that is being deleted, or whose
\* texture has gone meanwhile, is dropped.
LockSink(s) ==
  /\ Alive
  /\ fpc[s] = "lock"
  /\ sink_mutex[s] = "free"
  /\ IF deconstructed \/ ~texture[s]
       THEN /\ fpc' = [fpc EXCEPT ![s] = "idle"]
            /\ UNCHANGED sink_mutex
       ELSE /\ fpc' = [fpc EXCEPT ![s] = "write"]
            /\ sink_mutex' = [sink_mutex EXCEPT ![s] = "frame"]
  /\ UNCHANGED <<mainVars, spc, renderer, sink, texture, app_size, has_frames>>

\* The pixels are converted into the locked texture.
Written(s) ==
  /\ Alive
  /\ fpc[s] = "write"
  /\ fpc' = [fpc EXCEPT ![s] = "idle"]
  /\ has_frames' = [has_frames EXCEPT ![s] = TRUE]
  /\ sink_mutex' = [sink_mutex EXCEPT ![s] = "free"]
  /\ UNCHANGED <<mainVars, spc, renderer, sink, texture, app_size>>

\* base_instance::pump: set_renderer_texture_size for a waiting frame thread.
\* The renderer is reached by its unique_ptr; while that is empty the process
\* dies.
SetRendererTextureSize(s) ==
  /\ mpc = Idle
  /\ fpc[s] = "invoke"
  /\ texture' = [texture EXCEPT ![s] = TRUE]
  /\ IF renderer[s] = "set"
       THEN /\ app_size' = [app_size EXCEPT ![s] = TRUE]
            /\ fpc' = [fpc EXCEPT ![s] = "lock"]
            /\ UNCHANGED mpc
       ELSE /\ mpc' = Crashed
            /\ UNCHANGED <<app_size, fpc>>
  /\ UNCHANGED <<spc, renderer, sink, has_frames, sink_mutex, deconstructed, connected>>

-----------------------------------------------------------------------------
(* Drawing and the renderer of SDL.                                         *)

\* draw_slice, as the dialogs call it: with force_draw.
Draw(s) ==
  /\ mpc = Idle
  /\ renderer[s] = "set"
  /\ mpc' = <<"draw", s>>
  /\ UNCHANGED <<spc, fpc, sideVars, deconstructed, connected>>

DrawLock(s) ==
  /\ mpc = <<"draw", s>>
  /\ sink_mutex[s] = "free"
  /\ IF has_frames[s]
       THEN /\ mpc' = <<"drawing", s>>
            /\ sink_mutex' = [sink_mutex EXCEPT ![s] = "main"]
       ELSE /\ mpc' = Idle
            /\ UNCHANGED sink_mutex
  /\ UNCHANGED <<spc, fpc, renderer, sink, texture, app_size, has_frames,
                 deconstructed, connected>>

\* ttexture_2_mat_lock queries and locks the texture; of one that is gone it
\* gets nothing, and its VALIDATE looks at an unset variable: it fails, or the
\* drawing goes on with garbage.
Drawn(s) ==
  /\ mpc = <<"drawing", s>>
  /\ sink_mutex' = [sink_mutex EXCEPT ![s] = "free"]
  /\ mpc' \in IF texture[s] THEN {Idle} ELSE {Idle, Crashed}
  /\ UNCHANGED <<spc, fpc, renderer, sink, texture, app_size, has_frames,
                 deconstructed, connected>>

\* pre_create_renderer: the remote mutex, the local one, release_textures.
PreCreateRenderer ==
  /\ mpc = Idle
  /\ mpc' = <<"pre_remote", "remote">>
  /\ UNCHANGED <<spc, fpc, sideVars, deconstructed, connected>>

PreCreateLock ==
  /\ mpc = <<"pre_remote", "remote">>
  /\ sink_mutex["remote"] = "free"
  /\ sink_mutex' = [sink_mutex EXCEPT !["remote"] = "main"]
  /\ mpc' = <<"pre_local", "local">>
  /\ UNCHANGED <<spc, fpc, renderer, sink, texture, app_size, has_frames,
                 deconstructed, connected>>

\* Mutant of ReleaseTextures: the local mutex is not taken.
ReleaseTexturesUnlocked ==
  /\ mpc = <<"pre_local", "local">>
  /\ sink_mutex' = [sink_mutex EXCEPT !["remote"] = "free"]
  /\ texture' = All(FALSE)
  /\ app_size' = [s \in Sides |-> app_size[s] /\ renderer[s] # "set"]
  /\ mpc' = Idle
  /\ UNCHANGED <<spc, fpc, renderer, sink, has_frames, deconstructed, connected>>

ReleaseTextures ==
  /\ mpc = <<"pre_local", "local">>
  /\ sink_mutex["local"] = "free"
  /\ sink_mutex' = [sink_mutex EXCEPT !["remote"] = "free"]
  /\ texture' = All(FALSE)
  /\ app_size' = [s \in Sides |-> app_size[s] /\ renderer[s] # "set"]
  /\ mpc' = Idle
  /\ UNCHANGED <<spc, fpc, renderer, sink, has_frames, deconstructed, connected>>

-----------------------------------------------------------------------------
(* DeletePeerConnection.                                                    *)

DeletePeerConnection ==
  /\ mpc = Idle
  /\ connected
  /\ mpc' = <<"delete_local", "local">>
  /\ UNCHANGED <<spc, fpc, sideVars, deconstructed, connected>>

DeleteLock ==
  /\ mpc = <<"delete_local", "local">>
  /\ sink_mutex["local"] = "free"
  /\ sink_mutex' = [sink_mutex EXCEPT !["local"] = "main"]
  /\ mpc' = <<"delete_remote", "remote">>
  /\ UNCHANGED <<spc, fpc, renderer, sink, texture, app_size, has_frames,
                 deconstructed, connected>>

\* Both mutexes are given back: the frame threads have to get on.
Deconstruct ==
  /\ mpc = <<"delete_remote", "remote">>
  /\ sink_mutex["remote"] = "free"
  /\ sink_mutex' = [sink_mutex EXCEPT !["local"] = "free"]
  /\ deconstructed' = TRUE
  /\ mpc' = <<"close", "local">>
  /\ UNCHANGED <<spc, fpc, renderer, sink, texture, app_size, has_frames, connected>>

\* peer_connection_->Close() waits for the signaling thread.
Close ==
  /\ mpc = <<"close", "local">>
  /\ spc = "idle"
  /\ connected' = FALSE
  /\ mpc' = <<"stop", "local">>
  /\ UNCHANGED <<spc, fpc, sideVars, deconstructed>>

\* StopLocalRenderer, StopRemoteRenderer: the destructor waits for the worker.
StopRenderer(s) ==
  /\ mpc = <<"stop", s>>
  /\ IF renderer[s] = "set"
       THEN /\ renderer' = [renderer EXCEPT ![s] = "dying"]
            /\ mpc' = <<"remove", s>>
       ELSE /\ mpc' = IF s = "local" THEN <<"stop", "remote">> ELSE <<"deleted", s>>
            /\ UNCHANGED renderer
  /\ UNCHANGED <<spc, fpc, sink, texture, app_size, has_frames, sink_mutex,
                 deconstructed, connected>>

\* Mutant of Destroyed: the remote renderer is not stopped.
DestroyedLast(s) ==
  /\ mpc = <<"removed", s>>
  /\ renderer' = [renderer EXCEPT ![s] = "none"]
  /\ mpc' = <<"deleted", s>>
  /\ UNCHANGED <<spc, fpc, sink, texture, app_size, has_frames, sink_mutex,
                 deconstructed, connected>>

\* The renderer is gone; after the local one comes the remote one.
Destroyed(s) ==
  /\ mpc = <<"removed", s>>
  /\ renderer' = [renderer EXCEPT ![s] = "none"]
  /\ mpc' = IF s = "local" THEN <<"stop", "remote">> ELSE <<"deleted", s>>
  /\ UNCHANGED <<spc, fpc, sink, texture, app_size, has_frames, sink_mutex,
                 deconstructed, connected>>

\* The threads are joined; the client may connect again.
Deleted ==
  /\ mpc = <<"deleted", "remote">>
  /\ mpc' = Idle
  /\ UNCHANGED <<spc, fpc, sideVars, deconstructed, connected>>

-----------------------------------------------------------------------------
Main ==
  \/ AssignLocal \/ PreCreateLock \/ ReleaseTextures \/ DeleteLock \/ Deconstruct
  \/ Close \/ Deleted
  \/ \E s \in Sides : DrawLock(s) \/ Drawn(s) \/ StopRenderer(s) \/ Destroyed(s)

Pump == \E s \in Sides : SetRendererTextureSize(s)

User == \/ Initialize \/ PreCreateRenderer \/ DeletePeerConnection
        \/ \E s \in Sides : Draw(s)

Worker == \/ WorkerAddsLocal \/ WorkerAddsRemote
          \/ \E s \in Sides : WorkerRemoves(s)

Frame(s) == LockSink(s) \/ Written(s)

Next == \/ Main \/ Pump \/ User \/ Worker
        \/ OnAddStream \/ AssignRemote
        \/ \E s \in Sides : OnFrame(s) \/ Frame(s)

\* Every thread runs, and the main thread pumps between what the user does.
\* A frame holds a sink mutex far shorter than a camera waits for the next one,
\* so a thread that keeps finding it free in between gets it; so does the
\* worker with the lock of a broadcaster.
Fairness ==
  /\ WF_vars(Main)
  /\ \A s \in Sides : SF_vars(DrawLock(s))
  /\ SF_vars(PreCreateLock) /\ SF_vars(ReleaseTextures)
  /\ SF_vars(DeleteLock) /\ SF_vars(Deconstruct)
  /\ SF_vars(Pump)
  /\ SF_vars(Worker)
  /\ WF_vars(AssignRemote)
  /\ \A s \in Sides : WF_vars(Written(s)) /\ SF_vars(LockSink(s))

Spec == Init /\ [][Next]_vars
FairSpec == Spec /\ Fairness

-----------------------------------------------------------------------------
(* Properties.                                                              *)

\* OnFrame never runs in a renderer that is gone or going away for good: the
\* destructor waits for the frame in progress.
FrameHasRenderer ==
  \A s \in Sides : fpc[s] # "idle" => renderer[s] # "none" /\ mpc # <<"removed", s>>

\* A frame is only written into a texture that is there and of known size,
\* and not while the main thread draws or releases it.
WriteIntoTexture ==
  \A s \in Sides : fpc[s] = "write" =>
    texture[s] /\ app_size[s] /\ mpc # <<"drawing", s>>

\* Once the connection is deconstructed no frame is written any more.
NoFrameAfterDeconstruct == deconstructed => \A s \in Sides : fpc[s] # "write"

\* The main thread gets every sink mutex it waits for, in draw_slice, in
\* pre_create_renderer and in DeletePeerConnection: a frame thread does not hold
\* one while it waits for the main thread.
MutexesObtained ==
  mpc[1] \in {"draw", "pre_remote", "pre_local", "delete_local", "delete_remote"}
    ~> mpc[1] \in {"idle", "crashed", "close"}

\* What is drawn is a texture (VALIDATE of ttexture_2_mat_lock).
DrawnTextureExists == \A s \in Sides : mpc = <<"drawing", s>> => texture[s]

\* DeletePeerConnection comes to its end.
DeletionCompletes == mpc[1] = "close" ~> mpc[1] = "deleted"
=============================================================================
