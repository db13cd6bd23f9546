------------------------------- MODULE Timers -------------------------------
(***************************************************************************)
(* The timers of the widgets (librose/gui/widgets/timer.cpp): the map of   *)
(* active timers, the thread of SDL that lets them expire, the TIMER_EVENTs*)
(* it pushes and the main thread that runs the callbacks.                  *)
(*                                                                         *)
(* SDL's timer thread looks a timer up in the map, pushes an event and     *)
(* keeps the timer armed; the event waits in the queue while the main      *)
(* thread adds and removes timers, from its event loop or from inside the  *)
(* callback of a timer.  An owner is what keeps the id of one timer: a     *)
(* ttimer member, a ttrack or the hover timer of a distributor.            *)
(*                                                                         *)
(* Every interval passed to add_timer in the tree is positive, so the      *)
(* erase of one-shot timers at the end of execute_timer never happens and  *)
(* is left out; no callback in the tree runs an event loop, so executions  *)
(* do not nest.                                                            *)
(***************************************************************************)
EXTENDS Naturals, Sequences, FiniteSets

CONSTANTS
    Owner,        \* the objects that keep the id of a timer
    NoOwner,      \* add_timer is not running
    MaxTimers,    \* bound: calls of add_timer
    MaxQueue      \* bound: TIMER_EVENTs in the event queue

ASSUME TimersAssumption ==
    /\ NoOwner \notin Owner
    /\ MaxTimers \in Nat
    /\ MaxQueue \in Nat

VARIABLES
    timers,               \* id -> owner bound into the callback
    id,                   \* the last id given out
    executing_id,         \* the timer whose callback runs, 0 if none
    executing_id_removed, \* its removal was requested
    armed,                \* the timers in SDL's own list
    queue,                \* ids of the TIMER_EVENTs in the event queue
    id_,                  \* the id each owner keeps, 0 if none
    adding,               \* the owner add_timer runs for, between its two halves
    dispatchers           \* a window is there to handle events

vars == <<timers, id, executing_id, executing_id_removed, armed, queue, id_,
          adding, dispatchers>>

INVALID_TIMER_ID == 0

Init ==
    /\ timers = [i \in {} |-> NoOwner]
    /\ id = 0
    /\ executing_id = 0
    /\ executing_id_removed = FALSE
    /\ armed = {}
    /\ queue = <<>>
    /\ id_ = [o \in Owner |-> INVALID_TIMER_ID]
    /\ adding = NoOwner
    /\ dispatchers = FALSE

----------------------------------------------------------------------------
(* The operations of timer.cpp.                                            *)

Live == DOMAIN timers

Without(T, i) == [k \in DOMAIN T \ {i} |-> T[k]]

With(T, i, o) == [k \in DOMAIN T \union {i} |-> IF k = i THEN o ELSE T[k]]

\* Mutant: the executing timer is erased like any other.
remove_timer_InCallback(T, i) ==
    \/ /\ i \notin DOMAIN T
       /\ timers' = T
       /\ UNCHANGED <<armed, executing_id_removed>>
    \/ /\ i \in DOMAIN T
       /\ timers' = Without(T, i)
       /\ armed' = armed \ {i}
       /\ UNCHANGED executing_id_removed

\* Mutant: SDL_RemoveTimer is not called.
remove_timer_KeepsSdl(T, i) ==
    /\ IF i \in DOMAIN T /\ i # executing_id THEN timers' = Without(T, i) ELSE timers' = T
    /\ executing_id_removed' = (executing_id_removed \/ (i \in DOMAIN T /\ i = executing_id))
    /\ UNCHANGED armed

\* remove_timer(i) on the map T: unknown, being executed, or erased at once.
remove_timer(T, i) ==
    \/ /\ i \notin DOMAIN T
       /\ timers' = T
       /\ UNCHANGED <<armed, executing_id_removed>>
    \/ /\ i \in DOMAIN T
       /\ i = executing_id
       /\ executing_id_removed' = TRUE
       /\ timers' = T
       /\ UNCHANGED armed
    \/ /\ i \in DOMAIN T
       /\ i # executing_id
       /\ timers' = Without(T, i)
       /\ armed' = armed \ {i}
       /\ UNCHANGED executing_id_removed

\* Mutant: the counter is not advanced.
NextId_Same == id

\* Mutant: the smallest free id is given out.
NextId_Reuse == CHOOSE i \in 1..id + 1 : i \notin DOMAIN timers /\ \A j \in 1..id : j < i => j \in DOMAIN timers

\* The next id, never INVALID_TIMER_ID and never one in use.
NextId == id + 1

\* First half of add_timer: an id, and SDL's timer already runs.
add_timer(o) ==
    /\ adding = NoOwner
    /\ id < MaxTimers
    /\ id' = NextId
    /\ armed' = armed \union {NextId}
    /\ adding' = o
    /\ UNCHANGED <<timers, executing_id, executing_id_removed, queue, id_, dispatchers>>

\* Second half: the entry is inserted, and the owner takes the id, removing
\* the timer it had (ttimer::reset).
InsertTimer ==
    /\ adding # NoOwner
    /\ remove_timer(With(timers, id, adding), id_[adding])
    /\ id_' = [id_ EXCEPT ![adding] = id]
    /\ adding' = NoOwner
    /\ UNCHANGED <<id, executing_id, queue, dispatchers>>

\* SDL_AddTimer fails: the id is used up, the owner's old timer given up.
AddTimerFails(o) ==
    /\ adding = NoOwner
    /\ id < MaxTimers
    /\ id' = NextId
    /\ remove_timer(timers, id_[o])
    /\ id_' = [id_ EXCEPT ![o] = INVALID_TIMER_ID]
    /\ UNCHANGED <<executing_id, queue, adding, dispatchers>>

\* Mutant: the id is kept after the removal.
reset_KeepsId(o) ==
    /\ adding = NoOwner
    /\ id_[o] # INVALID_TIMER_ID
    /\ remove_timer(timers, id_[o])
    /\ UNCHANGED <<id, executing_id, queue, id_, adding, dispatchers>>

\* ttimer::reset(), the destructors, set_timer_interval(0), stop_hover_timer.
reset(o) ==
    /\ adding = NoOwner
    /\ id_[o] # INVALID_TIMER_ID
    /\ remove_timer(timers, id_[o])
    /\ id_' = [id_ EXCEPT ![o] = INVALID_TIMER_ID]
    /\ UNCHANGED <<id, executing_id, queue, adding, dispatchers>>

\* timer_callback, on SDL's thread: an unknown timer is cancelled (it returns
\* 0), another one leaves an event and stays armed.
timer_callback(i) ==
    /\ i \in armed
    /\ \/ /\ i \notin Live
          /\ armed' = armed \ {i}
          /\ UNCHANGED queue
       \/ /\ i \in Live
          /\ Len(queue) < MaxQueue
          /\ queue' = Append(queue, i)
          /\ UNCHANGED armed
    /\ UNCHANGED <<timers, id, executing_id, executing_id_removed, id_, adding, dispatchers>>

\* Mutant: the request flag of the last execution is not cleared, and is believed.
execute_timer_OldRequest ==
    /\ executing_id = 0
    /\ adding = NoOwner
    /\ queue # <<>>
    /\ queue' = Tail(queue)
    /\ executing_id' = IF dispatchers /\ Head(queue) \in Live /\ ~executing_id_removed
                       THEN Head(queue) ELSE 0
    /\ UNCHANGED <<timers, id, executing_id_removed, armed, id_, adding, dispatchers>>

\* The main thread takes a TIMER_EVENT: thandler drops it when there is no
\* window, execute_timer ignores an id that is gone.
execute_timer ==
    /\ executing_id = 0
    /\ adding = NoOwner
    /\ queue # <<>>
    /\ queue' = Tail(queue)
    /\ \/ /\ dispatchers
          /\ Head(queue) \in Live
          /\ executing_id' = Head(queue)
          /\ executing_id_removed' = FALSE
       \/ /\ ~dispatchers \/ Head(queue) \notin Live
          /\ UNCHANGED <<executing_id, executing_id_removed>>
    /\ UNCHANGED <<timers, id, armed, id_, adding, dispatchers>>

\* Mutant: the postponed removal is forgotten.
CallbackReturns_Forgets ==
    /\ executing_id # 0
    /\ adding = NoOwner
    /\ executing_id' = 0
    /\ UNCHANGED <<timers, id, executing_id_removed, armed, queue, id_, adding, dispatchers>>

\* The callback returns: texecutor's destructor carries out the removal.
CallbackReturns ==
    /\ executing_id # 0
    /\ adding = NoOwner
    /\ executing_id' = 0
    /\ \/ /\ executing_id_removed
          /\ timers' = Without(timers, executing_id)
          /\ armed' = armed \ {executing_id}
       \/ /\ ~executing_id_removed
          /\ UNCHANGED <<timers, armed>>
    /\ UNCHANGED <<id, executing_id_removed, queue, id_, adding, dispatchers>>

\* The first window connects to the handler, the last one disconnects.
Windows ==
    /\ executing_id = 0
    /\ adding = NoOwner
    /\ dispatchers' = ~dispatchers
    /\ UNCHANGED <<timers, id, executing_id, executing_id_removed, armed, queue, id_, adding>>

Next ==
    \/ \E o \in Owner : add_timer(o) \/ AddTimerFails(o) \/ reset(o)
    \/ InsertTimer
    \/ \E i \in 1..MaxTimers : timer_callback(i)
    \/ execute_timer
    \/ CallbackReturns
    \/ Windows

\* The main thread goes on and every armed timer expires again and again; the
\* expiry is strongly fair because MaxQueue, unlike SDL's queue, is often full.
Fairness ==
    /\ WF_vars(InsertTimer)
    /\ WF_vars(execute_timer)
    /\ WF_vars(CallbackReturns)
    /\ \A i \in 1..MaxTimers : SF_vars(timer_callback(i))

Spec == Init /\ [][Next]_vars /\ Fairness

----------------------------------------------------------------------------
(* Properties.                                                             *)

\* The types of the variables.
TypeOK ==
    /\ id \in Nat
    /\ Live \subseteq 1..id
    /\ timers \in [Live -> Owner]
    /\ executing_id \in 0..id
    /\ executing_id_removed \in BOOLEAN
    /\ armed \subseteq 1..id
    /\ queue \in Seq(1..id)
    /\ id_ \in [Owner -> 0..id]
    /\ adding \in Owner \union {NoOwner}
    /\ dispatchers \in BOOLEAN

\* The callback of the timer being executed is not destroyed under it, and
\* the iterator execute_timer uses after it stays good.
CallbackKept == executing_id # 0 => executing_id \in Live

\* A timer that is in the map, and so may run its callback on its owner, is
\* the one its owner keeps; only the timer being executed may be disowned,
\* and then its removal is on its way.
OnlyHeldTimersRun ==
    \A i \in Live :
        \/ id_[timers[i]] = i
        \/ i = executing_id /\ executing_id_removed

\* The id an owner keeps is a timer that runs that owner's callback.
HeldTimersLive == \A o \in Owner : id_[o] # INVALID_TIMER_ID => id_[o] \in Live /\ timers[id_[o]] = o

\* The map and the ids its users keep agree in both directions: no callback
\* runs on an owner that gave its timer up, no owner keeps an id that is gone.
OwnersAndTimersAgree == OnlyHeldTimersRun /\ HeldTimersLive

\* SDL goes on with no timer that was removed.
NoGhostExpiry == armed \subseteq Live \union (IF adding = NoOwner THEN {} ELSE {id})

\* The event of a timer that was removed never runs a newer timer: an id that
\* is gone does not come back.
Gone(i) == i <= id /\ i \notin Live /\ ~(adding # NoOwner /\ i = id)
GoneForGood == [][\A i \in 1..MaxTimers : Gone(i) => Gone(i)']_vars

\* A live timer that SDL has armed gets its callback run, or is removed, as
\* long as there is a window.
TimersFire ==
    \A i \in 1..MaxTimers :
        i \in Live \intersect armed ~> executing_id = i \/ i \notin Live \/ ~dispatchers
=============================================================================
