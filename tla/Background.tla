----------------------------- MODULE Background -----------------------------
(***************************************************************************)
(* The background callbacks of base_instance (librose/base_instance.cpp):  *)
(* code that wants to run while the app is in the background registers a   *)
(* callback under an id; as long as one is registered there, the audio     *)
(* transmission is kept alive so that the system does not suspend the app. *)
(*                                                                         *)
(* The module has the operations; Ble composes them with their one client. *)
(* A callback is known by whose it is.  Ids are a counter that skips       *)
(* INVALID_UINT32_ID (0) and the ids in use; it wraps, at 2^32 - 1 in the  *)
(* code and at MaxId here.                                                 *)
(***************************************************************************)
EXTENDS Naturals, FiniteSetsExt

CONSTANT MaxId \* bound: the last id before the counter wraps

ASSUME MaxIdAssumption == MaxId \in Nat \ {0}

VARIABLES
  foreground,             \* foreground_
  callbacks,              \* background_callbacks_: whose callback an id is
  background_callback_id, \* the id given last
  xmit_audio              \* background_persist_xmit_audio_ holds a lock

backgroundVars == <<foreground, callbacks, background_callback_id, xmit_audio>>

Invalid == 0
Ids == 1 .. MaxId

Registered(cbs) == {id \in Ids : cbs[id] # "nobody"}
NoCallbacks == [id \in Ids |-> "nobody"]

BackgroundTypeOK ==
  /\ foreground \in BOOLEAN
  /\ callbacks \in [Ids -> {"nobody", "app", "ble"}]
  /\ background_callback_id \in Ids \cup {Invalid}
  /\ xmit_audio \in BOOLEAN

BackgroundInit ==
  /\ foreground = TRUE
  /\ callbacks = NoCallbacks
  /\ background_callback_id = Invalid
  /\ xmit_audio = FALSE

\* Mutant of get_callback_id: the counter does not turn around.
get_callback_id_unwrapped(last) == last + 1

\* The first id after the last one that is neither invalid nor in use.
get_callback_id(last) ==
  LET after(k) == ((last + k) % MaxId) + 1
      free     == {k \in 0 .. MaxId - 1 : after(k) \notin Registered(callbacks)}
  IN  after(Min(free))

\* Bound: an id is left.
IdLeft == Registered(callbacks) # Ids

\* In the background the first callback takes the lock.
background_connect(owner) ==
  LET id == get_callback_id(background_callback_id) IN
  /\ callbacks' = [callbacks EXCEPT ![id] = owner]
  /\ background_callback_id' = id
  /\ xmit_audio' = (xmit_audio \/ ~foreground)
  /\ UNCHANGED foreground

\* Mutant of handle_background: background_disconnect_th looks at the size
\* after the callback was erased.
handle_background_late(erase) ==
  /\ callbacks' = [id \in Ids |-> IF id \in erase THEN "nobody" ELSE callbacks[id]]
  /\ xmit_audio' = (xmit_audio /\ Cardinality(Registered(callbacks')) # 1)
  /\ UNCHANGED <<foreground, background_callback_id>>

\* The callbacks that return true are erased, by background_disconnect_th:
\* the last one to go gives the lock back.
handle_background(erase) ==
  /\ callbacks' = [id \in Ids |-> IF id \in erase THEN "nobody" ELSE callbacks[id]]
  /\ xmit_audio' = (xmit_audio /\ (erase # {} => Registered(callbacks') # {}))
  /\ UNCHANGED <<foreground, background_callback_id>>

\* SDL_APP_DIDENTERBACKGROUND: app_didenterbackground may register a callback
\* (registers) before foreground_ changes, and all get one lock.
did_enter_background(registers) ==
  LET id == get_callback_id(background_callback_id) IN
  /\ foreground' = FALSE
  /\ IF registers
       THEN /\ callbacks' = [callbacks EXCEPT ![id] = "app"]
            /\ background_callback_id' = id
       ELSE UNCHANGED <<callbacks, background_callback_id>>
  /\ xmit_audio' = (Registered(callbacks') # {})

\* SDL_APP_DIDENTERFOREGROUND clears every callback.
did_enter_foreground ==
  /\ foreground' = TRUE
  /\ callbacks' = NoCallbacks
  /\ xmit_audio' = FALSE
  /\ UNCHANGED background_callback_id

\* Who may be suspended: the lock is held exactly while it is needed, which
\* is what the VALIDATEs of base_instance.cpp assert piecemeal.
XmitAudioHeld == xmit_audio <=> ~foreground /\ Registered(callbacks) # {}
=============================================================================
