---------------------------- MODULE TimersProofs ----------------------------
(***************************************************************************)
(* What Timers promises for every set of owners and every bound.           *)
(***************************************************************************)
EXTENDS Timers, SequenceTheorems, TLAPS

\* While add_timer runs, the id it has given out is fresh; and a timer whose
\* removal waits for the end of its callback has no owner any more.
Fresh == adding # NoOwner => id # 0 /\ id \notin Live /\ (\A o \in Owner : id_[o] # id)
Disowned == executing_id # 0 /\ executing_id_removed => \A o \in Owner : id_[o] # executing_id

IInv ==
    /\ TypeOK
    /\ CallbackKept
    /\ OnlyHeldTimersRun
    /\ HeldTimersLive
    /\ NoGhostExpiry
    /\ Fresh
    /\ Disowned

\* Nothing is live, held, armed or queued at the start.
LEMMA InitIInv == Init => IInv
<1> SUFFICES ASSUME Init PROVE IInv
    OBVIOUS
<1>1. Live = {}
    BY DEF Init, Live
<1>2. timers \in [Live -> Owner]
    BY <1>1 DEF Init, Live
<1>3. queue \in Seq(1..id)
    BY DEF Init
<1>4. TypeOK
    <2>1. id_ \in [Owner -> 0..id]
        BY DEF Init, INVALID_TIMER_ID
    <2>2. id \in Nat /\ executing_id \in 0..id /\ Live \subseteq 1..id /\ armed \subseteq 1..id
        BY <1>1 DEF Init
    <2>3. executing_id_removed \in BOOLEAN /\ dispatchers \in BOOLEAN /\ adding \in Owner \union {NoOwner}
        BY DEF Init
    <2>4. QED
        BY <1>2, <1>3, <2>1, <2>2, <2>3 DEF TypeOK
<1>5. QED
    BY <1>1, <1>4 DEF Init, IInv, CallbackKept, OnlyHeldTimersRun, HeldTimersLive,
                      NoGhostExpiry, Fresh, Disowned, INVALID_TIMER_ID

\* What remove_timer leaves of a map T of timers to owners.
Removed(T, i) ==
    /\ DOMAIN timers' \subseteq DOMAIN T
    /\ timers' \in [DOMAIN timers' -> Owner]
    /\ \A k \in DOMAIN T : k # i => k \in DOMAIN timers'
    /\ \A k \in DOMAIN timers' : timers'[k] = T[k]
    /\ i \in DOMAIN timers' => i = executing_id /\ executing_id_removed' = TRUE
    /\ executing_id \in DOMAIN T => executing_id \in DOMAIN timers'
    /\ armed' \subseteq armed
    /\ \A k \in armed' : k \in DOMAIN T => k \in DOMAIN timers'
    /\ \/ executing_id_removed' = executing_id_removed
       \/ executing_id_removed' = TRUE /\ i = executing_id

\* The three ways out of remove_timer agree on it.
LEMMA RemoveTimer ==
    ASSUME NEW T, T \in [DOMAIN T -> Owner], NEW i, remove_timer(T, i)
    PROVE  Removed(T, i)
<1> USE DEF Removed
<1>1. CASE i \notin DOMAIN T
    BY <1>1 DEF remove_timer
<1>2. CASE i \in DOMAIN T /\ i = executing_id
    BY <1>2 DEF remove_timer
<1>3. CASE i \in DOMAIN T /\ i # executing_id
    <2>1. timers' = Without(T, i) /\ armed' = armed \ {i} /\ UNCHANGED executing_id_removed
        BY <1>3 DEF remove_timer
    <2>2. DOMAIN timers' = DOMAIN T \ {i} /\ \A k \in DOMAIN T \ {i} : timers'[k] = T[k]
        BY <2>1 DEF Without
    <2>3. timers' \in [DOMAIN timers' -> Owner]
        BY <2>1 DEF Without
    <2>4. QED
        BY <1>3, <2>1, <2>2, <2>3
<1>4. QED
    BY <1>1, <1>2, <1>3

\* add_timer has an id no one else has.
LEMMA AddTimerKeeps ==
    ASSUME IInv, NEW o \in Owner, add_timer(o)
    PROVE  IInv'
<1> USE DEF IInv, TypeOK, add_timer, NextId, Live
<1>1. id' = id + 1 /\ id \in Nat /\ 1..id \subseteq 1..id' /\ 0..id \subseteq 0..id'
    OBVIOUS
<1>2. queue' \in Seq(1..id')
    BY <1>1, SeqMonotonic
<1>3. id_' \in [Owner -> 0..id'] /\ (\A p \in Owner : id_'[p] # id')
    BY <1>1
<1>4. adding' # NoOwner /\ id' \notin Live'
    BY <1>1, TimersAssumption
<1>5. TypeOK'
    BY <1>1, <1>2, <1>3
<1>6. NoGhostExpiry'
    BY <1>1, <1>4 DEF NoGhostExpiry
<1>7. Fresh'
    BY <1>1, <1>3, <1>4 DEF Fresh
<1>8. CallbackKept' /\ OnlyHeldTimersRun' /\ HeldTimersLive' /\ Disowned'
    BY DEF CallbackKept, OnlyHeldTimersRun, HeldTimersLive, Disowned
<1>9. QED
    BY <1>5, <1>6, <1>7, <1>8

\* The insertion gives the owner its new timer and takes its old one away.
LEMMA InsertTimerKeeps ==
    ASSUME IInv, InsertTimer
    PROVE  IInv'
<1> DEFINE T == With(timers, id, adding)
           old == id_[adding]
<1>1. /\ adding \in Owner /\ id \in Nat \ {0} /\ id \notin Live /\ id \in 1..id
      /\ \A o \in Owner : id_[o] # id
    BY DEF IInv, TypeOK, Fresh, InsertTimer
<1>2. /\ DOMAIN T = Live \union {id} /\ T[id] = adding
      /\ \A k \in Live : T[k] = timers[k]
    BY <1>1 DEF With, Live
<1>3. T \in [DOMAIN T -> Owner]
    BY <1>1 DEF With, IInv, TypeOK, Live
<1>4. remove_timer(T, old)
    BY DEF InsertTimer
<1>5. /\ id_' = [id_ EXCEPT ![adding] = id] /\ adding' = NoOwner
      /\ UNCHANGED <<id, executing_id, queue, dispatchers>>
    BY DEF InsertTimer
<1> HIDE DEF T
<1>6. Removed(T, old)
    BY <1>3, <1>4, RemoveTimer
<1>7. /\ Live' \subseteq Live \union {id}
      /\ timers' \in [Live' -> Owner]
      /\ \A k \in Live \union {id} : k # old => k \in Live'
      /\ \A k \in Live' : timers'[k] = T[k]
      /\ old \in Live' => old = executing_id /\ executing_id_removed' = TRUE
      /\ executing_id \in Live => executing_id \in Live'
      /\ armed' \subseteq armed
      /\ \A k \in armed' : k \in Live \union {id} => k \in Live'
      /\ \/ executing_id_removed' = executing_id_removed
         \/ executing_id_removed' = TRUE /\ old = executing_id
    BY <1>2, <1>6 DEF Removed, Live
<1>8. /\ old \in 0..id /\ old # id
      /\ id_' \in [Owner -> 0..id] /\ id_'[adding] = id
      /\ \A o \in Owner : o # adding => id_'[o] = id_[o]
    BY <1>1, <1>5 DEF IInv, TypeOK
<1>9. TypeOK'
    <2>1. Live' \subseteq 1..id' /\ armed' \subseteq 1..id' /\ executing_id' \in 0..id' /\ id' \in Nat
        BY <1>1, <1>5, <1>7 DEF IInv, TypeOK
    <2>2. executing_id_removed' \in BOOLEAN
        BY <1>7 DEF IInv, TypeOK
    <2>3. queue' \in Seq(1..id') /\ adding' \in Owner \union {NoOwner} /\ dispatchers' \in BOOLEAN
        BY <1>5 DEF IInv, TypeOK
    <2>4. id_' \in [Owner -> 0..id']
        BY <1>5, <1>8
    <2>5. QED
        BY <1>7, <2>1, <2>2, <2>3, <2>4 DEF TypeOK
<1>10. CallbackKept'
    BY <1>5, <1>7 DEF IInv, CallbackKept
<1>11. OnlyHeldTimersRun'
    <2> SUFFICES ASSUME NEW i \in Live'
                 PROVE  id_'[timers'[i]] = i \/ (i = executing_id' /\ executing_id_removed')
        BY DEF OnlyHeldTimersRun
    <2>1. CASE i = id
        BY <2>1, <1>2, <1>7, <1>8
    <2>2. CASE i = old
        BY <2>2, <1>5, <1>7
    <2>3. CASE i # id /\ i # old
        <3>1. i \in Live /\ timers'[i] = timers[i] /\ timers[i] \in Owner
            BY <2>3, <1>2, <1>7 DEF IInv, TypeOK
        <3>2. CASE id_[timers[i]] = i
            BY <2>3, <3>1, <3>2, <1>8
        <3>3. CASE i = executing_id /\ executing_id_removed
            BY <3>3, <1>5, <1>7
        <3>4. QED
            BY <3>1, <3>2, <3>3 DEF IInv, OnlyHeldTimersRun
    <2>4. QED
        BY <2>1, <2>2, <2>3
<1>12. HeldTimersLive'
    <2> SUFFICES ASSUME NEW o \in Owner, id_'[o] # INVALID_TIMER_ID
                 PROVE  id_'[o] \in Live' /\ timers'[id_'[o]] = o
        BY DEF HeldTimersLive
    <2>1. CASE o = adding
        BY <2>1, <1>2, <1>7, <1>8
    <2>2. CASE o # adding
        <3>1. id_'[o] = id_[o] /\ id_[o] \in Live /\ timers[id_[o]] = o
            BY <2>2, <1>8 DEF IInv, HeldTimersLive
        <3>2. id_[o] # old
            BY <1>1, <2>2, <3>1 DEF IInv, HeldTimersLive, INVALID_TIMER_ID
        <3>3. QED
            BY <3>1, <3>2, <1>2, <1>7
    <2>3. QED
        BY <2>1, <2>2
<1>13. NoGhostExpiry'
    BY <1>1, <1>5, <1>7 DEF IInv, NoGhostExpiry, InsertTimer
<1>14. Fresh'
    BY <1>5 DEF Fresh
<1>15. Disowned'
    <2> SUFFICES ASSUME executing_id' # 0, executing_id_removed', NEW o \in Owner,
                        id_'[o] = executing_id'
                 PROVE  FALSE
        BY DEF Disowned
    <2>1. executing_id = id_'[o] /\ executing_id # 0 /\ executing_id \in Live
        BY <1>5 DEF IInv, CallbackKept
    <2>2. o # adding /\ id_[o] = executing_id
        BY <2>1, <1>1, <1>8
    <2>3. ~executing_id_removed
        BY <2>1, <2>2 DEF IInv, Disowned
    <2>4. old = executing_id
        BY <2>3, <1>7
    <2>5. timers[executing_id] = o /\ timers[executing_id] = adding
        BY <2>1, <2>2, <2>4, <1>1 DEF IInv, HeldTimersLive, INVALID_TIMER_ID
    <2>6. QED
        BY <2>2, <2>5
<1>16. QED
    BY <1>9, <1>10, <1>11, <1>12, <1>13, <1>14, <1>15 DEF IInv

\* An owner gives up its timer, if it has one; one that is executing is erased
\* later.
LEMMA GivingUpKeeps ==
    ASSUME IInv, NEW p \in Owner, adding = NoOwner, id' \in {id, id + 1},
           remove_timer(timers, id_[p]), id_' = [id_ EXCEPT ![p] = INVALID_TIMER_ID],
           UNCHANGED <<executing_id, queue, adding, dispatchers>>
    PROVE  IInv'
<1> DEFINE old == id_[p]
<1>1. /\ id_' = [id_ EXCEPT ![p] = INVALID_TIMER_ID] /\ adding = NoOwner
      /\ old # 0 => old \in Live /\ timers[old] = p
      /\ UNCHANGED <<executing_id, queue, adding, dispatchers>>
      /\ id \in Nat /\ id' \in Nat /\ 1..id \subseteq 1..id' /\ 0..id \subseteq 0..id'
      /\ 0 \notin Live
    BY DEF IInv, TypeOK, HeldTimersLive, INVALID_TIMER_ID
<1>2. timers \in [Live -> Owner] /\ Live = DOMAIN timers /\ remove_timer(timers, old)
    BY DEF IInv, TypeOK, Live
<1>3. Removed(timers, old)
    BY <1>2, RemoveTimer
<1>4. /\ Live' \subseteq Live
      /\ timers' \in [Live' -> Owner]
      /\ \A k \in Live : k # old => k \in Live'
      /\ \A k \in Live' : timers'[k] = timers[k]
      /\ old \in Live' => old = executing_id /\ executing_id_removed' = TRUE
      /\ executing_id \in Live => executing_id \in Live'
      /\ armed' \subseteq armed
      /\ \A k \in armed' : k \in Live => k \in Live'
      /\ \/ executing_id_removed' = executing_id_removed
         \/ executing_id_removed' = TRUE /\ old = executing_id
    BY <1>2, <1>3 DEF Removed, Live
<1>5. /\ id_' \in [Owner -> 0..id] /\ id_'[p] = 0
      /\ \A o \in Owner : o # p => id_'[o] = id_[o]
    BY <1>1 DEF IInv, TypeOK, INVALID_TIMER_ID
<1>6. TypeOK'
    <2>1. Live' \subseteq 1..id' /\ armed' \subseteq 1..id' /\ executing_id' \in 0..id' /\ id' \in Nat
        BY <1>1, <1>4 DEF IInv, TypeOK
    <2>2. executing_id_removed' \in BOOLEAN
        BY <1>4 DEF IInv, TypeOK
    <2>3. queue' \in Seq(1..id')
        BY <1>1, SeqMonotonic DEF IInv, TypeOK
    <2>6. adding' \in Owner \union {NoOwner} /\ dispatchers' \in BOOLEAN
        BY <1>1 DEF IInv, TypeOK
    <2>4. id_' \in [Owner -> 0..id']
        BY <1>1, <1>5
    <2>5. QED
        BY <1>4, <2>1, <2>2, <2>3, <2>4, <2>6 DEF TypeOK
<1>7. CallbackKept'
    BY <1>1, <1>4 DEF IInv, CallbackKept
<1>8. OnlyHeldTimersRun'
    <2> SUFFICES ASSUME NEW i \in Live'
                 PROVE  id_'[timers'[i]] = i \/ (i = executing_id' /\ executing_id_removed')
        BY DEF OnlyHeldTimersRun
    <2>1. CASE i = old
        BY <2>1, <1>1, <1>4
    <2>2. CASE i # old
        <3>1. i \in Live /\ timers'[i] = timers[i] /\ timers[i] \in Owner
            BY <1>4 DEF IInv, TypeOK
        <3>2. CASE id_[timers[i]] = i
            BY <2>2, <3>1, <3>2, <1>5
        <3>3. CASE i = executing_id /\ executing_id_removed
            BY <3>3, <1>1, <1>4
        <3>4. QED
            BY <3>1, <3>2, <3>3 DEF IInv, OnlyHeldTimersRun
    <2>3. QED
        BY <2>1, <2>2
<1>9. HeldTimersLive'
    <2> SUFFICES ASSUME NEW o \in Owner, id_'[o] # 0
                 PROVE  id_'[o] \in Live' /\ timers'[id_'[o]] = o
        BY DEF HeldTimersLive, INVALID_TIMER_ID
    <2>1. o # p /\ id_'[o] = id_[o] /\ id_[o] \in Live /\ timers[id_[o]] = o
        BY <1>5 DEF IInv, HeldTimersLive, INVALID_TIMER_ID
    <2>2. id_[o] # old
        BY <1>1, <2>1
    <2>3. QED
        BY <2>1, <2>2, <1>4
<1>10. NoGhostExpiry'
    BY <1>1, <1>4 DEF IInv, NoGhostExpiry
<1>11. Fresh'
    BY <1>1 DEF Fresh
<1>12. Disowned'
    <2> SUFFICES ASSUME executing_id' # 0, executing_id_removed', NEW o \in Owner,
                        id_'[o] = executing_id'
                 PROVE  FALSE
        BY DEF Disowned
    <2>1. o # p /\ id_[o] = executing_id /\ executing_id # 0 /\ timers[executing_id] = o
        BY <1>1, <1>5 DEF IInv, HeldTimersLive, INVALID_TIMER_ID
    <2>2. ~executing_id_removed
        BY <2>1 DEF IInv, Disowned
    <2>3. old = executing_id
        BY <2>2, <1>4
    <2>4. QED
        BY <2>1, <2>3, <1>1
<1>13. QED
    BY <1>6, <1>7, <1>8, <1>9, <1>10, <1>11, <1>12 DEF IInv

\* reset is that,
LEMMA ResetKeeps ==
    ASSUME IInv, NEW p \in Owner, reset(p)
    PROVE  IInv'
BY GivingUpKeeps DEF reset

\* ... and so is a failed add_timer, which uses up an id.
LEMMA AddTimerFailsKeeps ==
    ASSUME IInv, NEW p \in Owner, AddTimerFails(p)
    PROVE  IInv'
BY GivingUpKeeps DEF AddTimerFails, NextId

\* SDL's thread only adds events of live timers, or drops a timer that is gone.
LEMMA TimerCallbackKeeps ==
    ASSUME IInv, NEW i \in 1..MaxTimers, timer_callback(i)
    PROVE  IInv'
<1>1. /\ UNCHANGED <<timers, id, executing_id, executing_id_removed, id_, adding, dispatchers>>
      /\ armed' \subseteq armed /\ Live' = Live /\ i \in 1..id
    BY DEF timer_callback, Live, IInv, TypeOK
<1>2. queue' \in Seq(1..id)
    <2>1. queue \in Seq(1..id) /\ i \in 1..id
        BY <1>1 DEF IInv, TypeOK
    <2>2. queue' = queue \/ queue' = Append(queue, i)
        BY DEF timer_callback
    <2>3. Append(queue, i) \in Seq(1..id)
        BY <2>1
    <2>4. QED
        BY <2>1, <2>2, <2>3
<1>3. TypeOK'
    <2>1. armed' \subseteq 1..id' /\ queue' \in Seq(1..id')
        BY <1>1, <1>2 DEF IInv, TypeOK
    <2>2. QED
        BY <1>1, <2>1 DEF IInv, TypeOK
<1>4. NoGhostExpiry'
    BY <1>1 DEF IInv, NoGhostExpiry
<1>5. CallbackKept' /\ OnlyHeldTimersRun' /\ HeldTimersLive' /\ Fresh' /\ Disowned'
    BY <1>1 DEF IInv, CallbackKept, OnlyHeldTimersRun, HeldTimersLive, Fresh, Disowned
<1>6. QED
    BY <1>3, <1>4, <1>5 DEF IInv

\* The timer about to be executed is held, since nothing is executing before.
LEMMA ExecuteTimerKeeps ==
    ASSUME IInv, execute_timer
    PROVE  IInv'
<1>1. /\ UNCHANGED <<timers, id, armed, id_, adding, dispatchers>> /\ Live' = Live
      /\ executing_id = 0 /\ adding = NoOwner /\ queue # <<>> /\ queue' = Tail(queue)
    BY DEF execute_timer, Live
<1>2. queue' \in Seq(1..id)
    BY <1>1 DEF IInv, TypeOK
<1>3. \/ executing_id' \in Live /\ executing_id_removed' = FALSE
      \/ UNCHANGED <<executing_id, executing_id_removed>>
    BY DEF execute_timer
<1>4. TypeOK'
    <2>1. executing_id' \in 0..id' /\ executing_id_removed' \in BOOLEAN
        <3>1. id \in Nat /\ Live \subseteq 1..id /\ executing_id \in 0..id
              /\ executing_id_removed \in BOOLEAN
            BY DEF IInv, TypeOK
        <3>2. CASE executing_id' \in Live /\ executing_id_removed' = FALSE
            <4>1. executing_id' \in 1..id
                BY <3>1, <3>2
            <4>2. id' = id
                BY <1>1
            <4>3. executing_id' \in 0..id
                BY <3>1, <4>1
            <4>4. executing_id_removed' \in BOOLEAN
                BY <3>2
            <4>5. QED
                BY <4>2, <4>3, <4>4
        <3>3. CASE UNCHANGED <<executing_id, executing_id_removed>>
            BY <1>1, <3>1, <3>3
        <3>4. QED
            BY <1>3, <3>2, <3>3
    <2>2. queue' \in Seq(1..id') /\ armed' \subseteq 1..id'
        BY <1>1, <1>2 DEF IInv, TypeOK
    <2>3. QED
        BY <1>1, <2>1, <2>2 DEF IInv, TypeOK
<1>5. CallbackKept' /\ Disowned'
    BY <1>1, <1>3 DEF IInv, CallbackKept, Disowned
<1>6. 0 \notin Live
    BY DEF IInv, TypeOK
<1>7. OnlyHeldTimersRun'
    BY <1>1, <1>6 DEF IInv, OnlyHeldTimersRun
<1>8. HeldTimersLive' /\ NoGhostExpiry' /\ Fresh'
    BY <1>1 DEF IInv, HeldTimersLive, NoGhostExpiry, Fresh
<1>9. QED
    BY <1>4, <1>5, <1>7, <1>8 DEF IInv

\* The postponed removal erases a timer that has no owner.
LEMMA CallbackReturnsKeeps ==
    ASSUME IInv, CallbackReturns
    PROVE  IInv'
<1>1. /\ UNCHANGED <<id, executing_id_removed, queue, id_, adding, dispatchers>>
      /\ executing_id # 0 /\ executing_id' = 0 /\ adding = NoOwner
    BY DEF CallbackReturns
<1>2. CASE executing_id_removed
    <2>1. timers' = Without(timers, executing_id) /\ armed' = armed \ {executing_id}
        BY <1>2 DEF CallbackReturns
    <2>2. /\ Live' = Live \ {executing_id} /\ timers' \in [Live' -> Owner]
          /\ \A k \in Live' : timers'[k] = timers[k]
        BY <2>1 DEF Without, Live, IInv, TypeOK
    <2>3. TypeOK'
        BY <1>1, <2>1, <2>2 DEF IInv, TypeOK
    <2>4. CallbackKept' /\ Disowned' /\ Fresh'
        BY <1>1 DEF CallbackKept, Disowned, Fresh
    <2>5. OnlyHeldTimersRun'
        BY <1>1, <2>2 DEF IInv, OnlyHeldTimersRun
    <2>6. HeldTimersLive'
        BY <1>1, <1>2, <2>2 DEF IInv, HeldTimersLive, Disowned, INVALID_TIMER_ID
    <2>7. NoGhostExpiry'
        BY <1>1, <2>1, <2>2 DEF IInv, NoGhostExpiry
    <2>8. QED
        BY <2>3, <2>4, <2>5, <2>6, <2>7 DEF IInv
<1>3. CASE ~executing_id_removed
    <2>1. UNCHANGED <<timers, armed>> /\ Live' = Live
        BY <1>3 DEF CallbackReturns, Live
    <2>2. TypeOK'
        BY <1>1, <2>1 DEF IInv, TypeOK
    <2>3. CallbackKept' /\ Disowned' /\ Fresh'
        BY <1>1 DEF CallbackKept, Disowned, Fresh
    <2>4. OnlyHeldTimersRun' /\ HeldTimersLive' /\ NoGhostExpiry'
        BY <1>1, <1>3, <2>1 DEF IInv, OnlyHeldTimersRun, HeldTimersLive, NoGhostExpiry
    <2>5. QED
        BY <2>2, <2>3, <2>4 DEF IInv
<1>4. QED
    BY <1>2, <1>3 DEF IInv, TypeOK

\* Steps that touch no timer.
LEMMA OtherStepsKeep ==
    ASSUME IInv, Windows \/ UNCHANGED vars
    PROVE  IInv'
<1>1. /\ UNCHANGED <<timers, id, executing_id, executing_id_removed, armed, queue, id_, adding>>
      /\ Live' = Live /\ dispatchers' \in BOOLEAN
    BY DEF Windows, vars, Live, IInv, TypeOK
<1>2. TypeOK'
    BY <1>1 DEF IInv, TypeOK
<1>3. CallbackKept' /\ OnlyHeldTimersRun' /\ HeldTimersLive' /\ NoGhostExpiry' /\ Fresh' /\ Disowned'
    BY <1>1 DEF IInv, CallbackKept, OnlyHeldTimersRun, HeldTimersLive, NoGhostExpiry, Fresh, Disowned
<1>4. QED
    BY <1>2, <1>3 DEF IInv

\* Every action of the main thread and of SDL's thread keeps the invariant.
LEMMA NextIInv == IInv /\ [Next]_vars => IInv'
<1> SUFFICES ASSUME IInv, [Next]_vars PROVE IInv'
    OBVIOUS
<1>1. ASSUME NEW o \in Owner, add_timer(o) PROVE IInv'
    BY <1>1, AddTimerKeeps
<1>2. ASSUME NEW o \in Owner, reset(o) PROVE IInv'
    BY <1>2, ResetKeeps
<1>9. ASSUME NEW o \in Owner, AddTimerFails(o) PROVE IInv'
    BY <1>9, AddTimerFailsKeeps
<1>3. CASE InsertTimer
    BY <1>3, InsertTimerKeeps
<1>4. ASSUME NEW i \in 1..MaxTimers, timer_callback(i) PROVE IInv'
    BY <1>4, TimerCallbackKeeps
<1>5. CASE execute_timer
    BY <1>5, ExecuteTimerKeeps
<1>6. CASE CallbackReturns
    BY <1>6, CallbackReturnsKeeps
<1>7. CASE Windows \/ UNCHANGED vars
    BY <1>7, OtherStepsKeep
<1>8. QED
    BY <1>1, <1>2, <1>3, <1>4, <1>5, <1>6, <1>7, <1>9 DEF Next

\* The inductive invariant of the timers: the map, the ids kept, what SDL has
\* armed and the postponed removal fit together in every reachable state.
THEOREM InvariantTimers == Spec => []IInv
<1>1. QED
    BY InitIInv, NextIInv, PTL DEF Spec

\* For every set of owners and any number of timers: the variables keep their types.
THEOREM TypesTimers == Spec => []TypeOK
<1>1. IInv => TypeOK
    BY DEF IInv
<1>2. QED
    BY <1>1, InvariantTimers, PTL

\* A timer may be removed in its own callback: the callback outlives it.
THEOREM CallbackKeptAlways == Spec => []CallbackKept
<1>1. IInv => CallbackKept
    BY DEF IInv
<1>2. QED
    BY <1>1, InvariantTimers, PTL

\* Between an expiry and its event being handled the timer may be removed:
\* its callback then does not run.  The owners' ids and the map agree.
THEOREM OwnersAndTimersAgreeAlways == Spec => []OwnersAndTimersAgree
<1>1. IInv => OwnersAndTimersAgree
    BY DEF IInv, OwnersAndTimersAgree
<1>2. QED
    BY <1>1, InvariantTimers, PTL

\* A removed timer is out of SDL's list too.
THEOREM NoGhostExpiryAlways == Spec => []NoGhostExpiry
<1>1. IInv => NoGhostExpiry
    BY DEF IInv
<1>2. QED
    BY <1>1, InvariantTimers, PTL

\* No id is given out twice: an event left in the queue cannot run a newer timer.
THEOREM IdsAreNotReused == Spec => GoneForGood
<1>1. ASSUME IInv, [Next]_vars, NEW i \in 1..MaxTimers, Gone(i)
      PROVE  Gone(i)'
    <2>1. ASSUME NEW o \in Owner, add_timer(o) PROVE Gone(i)'
        BY <1>1, <2>1 DEF add_timer, NextId, Gone, IInv, TypeOK, Live
    <2>9. ASSUME NEW o \in Owner, AddTimerFails(o) PROVE Gone(i)'
        <3>1. timers \in [DOMAIN timers -> Owner] /\ id \in Nat
            BY <1>1 DEF IInv, TypeOK, Live
        <3>2. Removed(timers, id_[o])
            BY <2>9, <3>1, RemoveTimer DEF AddTimerFails
        <3>3. Live' \subseteq Live
            BY <3>2 DEF Removed, Live
        <3>4. QED
            BY <1>1, <2>9, <3>1, <3>3 DEF AddTimerFails, NextId, Gone
    <2>2. ASSUME NEW o \in Owner, reset(o) PROVE Gone(i)'
        <3>1. timers \in [DOMAIN timers -> Owner]
            BY <1>1 DEF IInv, TypeOK, Live
        <3>2. Removed(timers, id_[o])
            BY <2>2, <3>1, RemoveTimer DEF reset
        <3>3. Live' \subseteq Live
            BY <3>2 DEF Removed, Live
        <3>4. QED
            BY <1>1, <2>2, <3>3 DEF reset, Gone
    <2>3. CASE InsertTimer
        <3> DEFINE T == With(timers, id, adding)
        <3>1. timers \in [DOMAIN timers -> Owner] /\ adding \in Owner
            BY <1>1, <2>3 DEF InsertTimer, IInv, TypeOK, Live
        <3>2. T \in [DOMAIN T -> Owner] /\ DOMAIN T = Live \union {id}
            BY <3>1 DEF With, Live
        <3>3. remove_timer(T, id_[adding])
            BY <2>3 DEF InsertTimer
        <3> HIDE DEF T
        <3>4. Removed(T, id_[adding])
            BY <3>2, <3>3, RemoveTimer
        <3>5. Live' \subseteq Live \union {id}
            BY <3>2, <3>4 DEF Removed, Live
        <3>6. QED
            BY <1>1, <2>3, <3>5 DEF InsertTimer, Gone
    <2>4. ASSUME NEW k \in 1..MaxTimers, timer_callback(k) PROVE Gone(i)'
        BY <1>1, <2>4 DEF timer_callback, Gone, Live
    <2>5. CASE execute_timer
        BY <1>1, <2>5 DEF execute_timer, Gone, Live
    <2>6. CASE CallbackReturns
        <3>1. Live' \subseteq Live
            BY <2>6 DEF CallbackReturns, Without, Live
        <3>2. QED
            BY <1>1, <2>6, <3>1 DEF CallbackReturns, Gone
    <2>7. CASE Windows \/ UNCHANGED vars
        BY <1>1, <2>7 DEF Windows, vars, Gone, Live
    <2>8. QED
        BY <1>1, <2>1, <2>2, <2>3, <2>4, <2>5, <2>6, <2>7, <2>9 DEF Next
<1>2. IInv /\ [Next]_vars => [\A i \in 1..MaxTimers : Gone(i) => Gone(i)']_vars
    BY <1>1
<1>3. QED
    BY <1>2, InvariantTimers, PTL DEF Spec, GoneForGood
=============================================================================
