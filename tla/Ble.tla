-------------------------------- MODULE Ble --------------------------------
(***************************************************************************)
(* The Bluetooth central tble (librose/ble.cpp): one peripheral at a time  *)
(* is being connected or connected; while there is none it scans and       *)
(* reconnects to the one it knows, and in the background it raises an      *)
(* alarm (disconnect_music_) when that takes too long.                     *)
(*                                                                         *)
(* The radio is external: a link per peripheral, and events, the calls of  *)
(* SDL_BleCallbacks that are on their way.  Requests are asynchronous: the *)
(* event that answers one may find tble in another state.                  *)
(*                                                                         *)
(* Two threads run: tble's, and the one that calls the background          *)
(* callbacks.  background_reconnect_detect(true) is three steps for it     *)
(* (arming); everything else tble does it sees done or not done.  Its own  *)
(* background_callback is four steps for tble (judging): the two           *)
(* judgements, the music, the VALIDATE and the flags.                      *)
(***************************************************************************)
EXTENDS Background, Sequences

CONSTANTS
  Peripherals,
  None,
  MaxEvents,   \* bound: events on their way
  MaxLocks,    \* bound: nesting of tpersist_scan_lock, tdisable_reconnect_lock
  Patient,     \* the app connects only when all earlier links are settled
  StartInterrupted \* another thread may clear the flags while they are being set

ASSUME BleAssumption ==
  /\ None \notin Peripherals
  /\ MaxEvents \in Nat \ {0}
  /\ MaxLocks \in Nat
  /\ Patient \in BOOLEAN
  /\ StartInterrupted \in BOOLEAN

VARIABLES
  connecting_peripheral, peripheral, \* a peripheral or None
  connector,                         \* the peripheral *connector_ matches
  persist_scan, disable_reconnect,   \* nesting depth of the two kinds of lock
  require_reconnect,
  background_scan_ticks,             \* "off", "pending" or "due"
  background_id,
  alarm,                             \* disconnect_music_ is playing
  arming,                            \* inside background_reconnect_detect(true)
  judging,                           \* inside background_callback
  wanted,                            \* history: the app has not asked for the scan to stop
  scan, link, events                 \* the radio

tbleVars   == <<connecting_peripheral, peripheral, connector>>
scanLocks  == <<persist_scan, disable_reconnect, require_reconnect>>
detectVars == <<background_scan_ticks, background_id, alarm>>
radioVars  == <<link, events>>
vars == <<backgroundVars, tbleVars, scanLocks, detectVars, arming, judging, wanted,
          scan, radioVars>>

\* Nobody is in background_reconnect_detect(true); otherwise <<thread, step>>.
NotArming == <<"nobody", "no">>

\* Nobody is in background_callback; otherwise <<what it does next, the id it was
\* called for>>.
Out == <<"out", Invalid>>

\* A VALIDATE of background_callback has failed: the program has ended.
Aborted == judging[1] = "aborted"

Event == [type : {"connect", "disconnect"}, of : Peripherals, error : BOOLEAN]

TypeOK ==
  /\ BackgroundTypeOK
  /\ connecting_peripheral \in Peripherals \cup {None}
  /\ peripheral \in Peripherals \cup {None}
  /\ connector \in Peripherals \cup {None}
  /\ persist_scan \in 0 .. MaxLocks
  /\ disable_reconnect \in 0 .. MaxLocks
  /\ require_reconnect \in BOOLEAN
  /\ background_scan_ticks \in {"off", "pending", "due"}
  /\ background_id \in Ids \cup {Invalid}
  /\ alarm \in BOOLEAN
  /\ arming \in {NotArming} \cup ({"tble", "app"} \X {"connect", "assign"})
  /\ judging \in {Out} \cup ({"play", "check", "clear", "aborted"} \X Ids)
  /\ wanted \in BOOLEAN
  /\ scan \in BOOLEAN
  /\ link \in [Peripherals -> {"down", "connecting", "up", "leaving"}]
  /\ events \in Seq(Event)
  /\ Len(events) <= MaxEvents

Init ==
  /\ BackgroundInit
  /\ connecting_peripheral = None
  /\ peripheral = None
  /\ connector = None
  /\ persist_scan = 0
  /\ disable_reconnect = 0
  /\ require_reconnect = TRUE
  /\ background_scan_ticks = "off"
  /\ background_id = Invalid
  /\ alarm = FALSE
  /\ arming = NotArming
  /\ judging = Out
  /\ wanted = FALSE
  /\ scan = FALSE
  /\ link = [p \in Peripherals |-> "down"]
  /\ events = <<>>

-----------------------------------------------------------------------------
(* The radio and its requests.                                              *)

Connect(p) == link' = [link EXCEPT ![p] = IF @ = "down" THEN "connecting" ELSE @]
Disconnect(p) == link' = [link EXCEPT ![p] = IF @ = "up" THEN "leaving" ELSE @]

\* A link changes by itself and tble will hear of it.
Radio(p, from, to, type, error) ==
  /\ link[p] = from
  /\ Len(events) < MaxEvents
  /\ link' = [link EXCEPT ![p] = to]
  /\ events' = Append(events, [type |-> type, of |-> p, error |-> error])
  /\ UNCHANGED <<backgroundVars, tbleVars, scanLocks, detectVars, arming, judging,
                 wanted, scan>>

LinkUp(p)     == Radio(p, "connecting", "up", "connect", FALSE)
LinkFails(p)  == Radio(p, "connecting", "down", "connect", TRUE)
LinkLost(p)   == Radio(p, "up", "down", "disconnect", TRUE)
LinkClosed(p) == \E error \in BOOLEAN : Radio(p, "leaving", "down", "disconnect", error)

\* disconnect_threshold_ (60 s) passes; never between two statements of tble.
ThresholdPasses ==
  /\ background_scan_ticks = "pending"
  /\ arming = NotArming
  /\ background_scan_ticks' = "due"
  /\ UNCHANGED <<backgroundVars, tbleVars, scanLocks, background_id, alarm, arming,
                 judging, wanted, scan, radioVars>>

-----------------------------------------------------------------------------
(* Scanning.                                                                *)

Free == connecting_peripheral = None /\ peripheral = None

\* start_scan: in the background it starts the reconnect detection first,
\* unless that runs already or there is no address to reconnect to.
start_scan(thread) ==
  /\ wanted' = TRUE
  /\ \E mac_addr_valid \in BOOLEAN :
     IF ~foreground' /\ mac_addr_valid /\ Free' /\ background_id' = Invalid
       THEN /\ IdLeft'
            /\ arming' = <<thread, "connect">>
            /\ background_scan_ticks' = "pending"
            /\ UNCHANGED scan
       ELSE /\ scan' = TRUE
            /\ UNCHANGED <<arming, background_scan_ticks>>

NoScan == UNCHANGED <<arming, background_scan_ticks, wanted, scan>>

stop_scan == scan' = FALSE

\* background_reconnect_detect(true), the callback: from here on the other
\* thread may call it.
ArmConnect ==
  /\ arming[2] = "connect"
  /\ ~Aborted
  /\ background_connect("ble")
  /\ arming' = <<arming[1], "assign">>
  /\ UNCHANGED <<tbleVars, scanLocks, detectVars, judging, wanted, scan, radioVars>>

\* The id background_connect returned is assigned; start_scan goes on.
ArmAssign ==
  /\ arming[2] = "assign"
  /\ ~Aborted
  /\ background_id' = background_callback_id
  /\ arming' = NotArming
  /\ scan' = TRUE
  /\ UNCHANGED <<backgroundVars, tbleVars, scanLocks, background_scan_ticks, alarm,
                 judging, wanted, radioVars>>

\* tble's thread can take up something new.
Idle == arming = NotArming /\ ~Aborted

\* Another thread may clear the flags now.
Interrupts == Idle \/ (StartInterrupted /\ arming[1] = "tble" /\ ~Aborted)

\* Mutant of BleDone: the id is the only judgement.
BleDoneById == background_id = Invalid

\* background_callback: the detection was stopped.
BleDone == background_id = Invalid /\ background_scan_ticks = "off"

Of(owner) == {id \in Ids : callbacks[id] = owner}

\* handle_background walks the callbacks in the order of their ids.  All of
\* tble's return the same, unless the time is up: then the walk is at the first
\* of them, inside background_callback.
HandleBackground ==
  LET mine == Of("ble")
      due  == ~BleDone /\ background_scan_ticks = "due" /\ mine # {} IN
  /\ judging = Out
  /\ ~foreground
  /\ \E erase \in SUBSET Of("app") :
       /\ due => \A id \in erase : id < Min(mine)
       /\ handle_background(erase \cup (IF BleDone THEN mine ELSE {}))
  /\ judging' = IF due THEN <<"play", Min(mine)>> ELSE Out
  /\ UNCHANGED <<tbleVars, scanLocks, detectVars, arming, wanted, scan, radioVars>>

\* The music starts, unless some other is playing.
BlePlay ==
  /\ judging[1] = "play"
  /\ alarm' \in {alarm, TRUE}
  /\ judging' = <<"check", judging[2]>>
  /\ UNCHANGED <<backgroundVars, tbleVars, scanLocks, background_scan_ticks,
                 background_id, arming, wanted, scan, radioVars>>

\* Mutant of BleCheck: nothing is validated.
BleCheckNot ==
  /\ judging[1] = "check"
  /\ judging' = <<"clear", judging[2]>>
  /\ UNCHANGED <<backgroundVars, tbleVars, scanLocks, detectVars, arming, wanted, scan,
                 radioVars>>

\* The VALIDATE of background_callback: nobody may have stopped the detection
\* since the two judgements.
BleCheck ==
  /\ judging[1] = "check"
  /\ judging' = <<IF background_id # Invalid THEN "clear" ELSE "aborted", judging[2]>>
  /\ UNCHANGED <<backgroundVars, tbleVars, scanLocks, detectVars, arming, wanted, scan,
                 radioVars>>

\* The detection is over.  The walk goes on behind this callback, and those of
\* tble's that follow find the flags cleared.
BleClear ==
  /\ judging[1] = "clear"
  /\ Interrupts
  /\ background_scan_ticks' = "off"
  /\ background_id' = Invalid
  /\ \E erase \in SUBSET {id \in Of("app") : id > judging[2]} :
       handle_background(erase \cup {id \in Of("ble") : id >= judging[2]})
  /\ judging' = Out
  /\ UNCHANGED <<tbleVars, scanLocks, alarm, arming, wanted, scan, radioVars>>

-----------------------------------------------------------------------------
(* The events of the radio.  They come on tble's thread, in order.          *)

\* The next event is e.
Deliver(e) ==
  /\ Idle
  /\ events # <<>>
  /\ e = Head(events)
  /\ events' = Tail(events)

\* connect_peripheral, without its VALIDATE.
connect(p) ==
  /\ connecting_peripheral' = p
  /\ connector' = p
  /\ Connect(p)

\* Mutant of DidDiscover: the connector is not asked.
DidDiscoverAny(p) ==
  /\ Idle
  /\ scan
  /\ link[p] \in {"down", "connecting"}
  /\ \A i \in DOMAIN events : events[i].of # p
  /\ Free
  /\ connect(p)
  /\ UNCHANGED <<backgroundVars, peripheral, scanLocks, detectVars, arming, judging,
                 wanted, scan, events>>

\* did_discover_peripheral.  An advertisement comes from a peripheral without
\* a link, and after the events that told of the last one.
DidDiscover(p) ==
  /\ Idle
  /\ scan
  /\ link[p] \in {"down", "connecting"}
  /\ \A i \in DOMAIN events : events[i].of # p
  /\ Free
  /\ connector = p
  /\ connect(p)
  /\ UNCHANGED <<backgroundVars, peripheral, scanLocks, detectVars, arming, judging,
                 wanted, scan, events>>

\* did_release_peripheral: SDL forgets a peripheral that is not connected.
DidRelease(p) ==
  /\ Idle
  /\ link[p] \in {"down", "connecting"}
  /\ \A i \in DOMAIN events : events[i].of # p
  /\ peripheral # p
  /\ connecting_peripheral' = IF connecting_peripheral = p THEN None ELSE connecting_peripheral
  /\ link' = [link EXCEPT ![p] = "down"]
  /\ UNCHANGED <<backgroundVars, peripheral, connector, scanLocks, detectVars, arming,
                 judging, wanted, scan, events>>

\* background_reconnect_detect(false), the last thing a connect event does.
stop_detect ==
  /\ background_scan_ticks' = "off"
  /\ background_id' = Invalid
  /\ alarm' = (alarm /\ peripheral' = None)

\* Mutant of Accept: the error is not looked at.
AcceptAnyway(e) ==
  /\ connecting_peripheral # None
  /\ connecting_peripheral' = None
  /\ peripheral' = e.of
  /\ IF persist_scan = 0 THEN stop_scan ELSE UNCHANGED scan
  /\ UNCHANGED link

\* The connection is there.  Which peripheral it is to is not compared with
\* the one that is being connected.
Accept(e) ==
  /\ connecting_peripheral # None
  /\ ~e.error
  /\ connecting_peripheral' = None
  /\ peripheral' = e.of
  /\ IF persist_scan = 0 THEN stop_scan ELSE UNCHANGED scan
  /\ UNCHANGED link

\* Mutant of CloseCancelled: the link is left open.
CloseCancelledNot(e) ==
  /\ connecting_peripheral = None
  /\ ~e.error
  /\ peripheral = None
  /\ UNCHANGED <<connecting_peripheral, peripheral, scan, link>>

\* It was cancelled in the meantime: close the link again.
CloseCancelled(e) ==
  /\ connecting_peripheral = None
  /\ ~e.error
  /\ peripheral = None
  /\ Disconnect(e.of)
  /\ UNCHANGED <<connecting_peripheral, peripheral, scan>>

\* A failure leaves connecting_peripheral_ to the app.
Fail(e) ==
  /\ e.error
  /\ UNCHANGED <<connecting_peripheral, peripheral, scan, link>>

\* did_connect_peripheral.
DidConnect(e) ==
  /\ Deliver(e)
  /\ e.type = "connect"
  /\ Accept(e) \/ CloseCancelled(e) \/ Fail(e)
  /\ stop_detect
  /\ UNCHANGED <<backgroundVars, connector, scanLocks, arming, judging, wanted>>

\* did_disconnect_peripheral.
DidDisconnect(e) ==
  /\ Deliver(e)
  /\ e.type = "disconnect"
  /\ \/ /\ peripheral = e.of
        /\ peripheral' = None
     \/ /\ peripheral = None
        /\ ~e.error => connecting_peripheral = None
        /\ UNCHANGED peripheral
  /\ UNCHANGED <<backgroundVars, connecting_peripheral, connector, scanLocks,
                 background_id, alarm, judging, link>>
  /\ IF disable_reconnect = 0 THEN start_scan("tble") ELSE NoScan

-----------------------------------------------------------------------------
(* What the app calls.                                                      *)

StartScan ==
  /\ Idle
  /\ UNCHANGED <<backgroundVars, tbleVars, scanLocks, background_id, alarm, judging,
                 radioVars>>
  /\ start_scan("tble")

StopScan ==
  /\ Idle
  /\ stop_scan
  /\ wanted' = FALSE
  /\ UNCHANGED <<backgroundVars, tbleVars, scanLocks, detectVars, arming, judging,
                 radioVars>>

\* All earlier links are down and tble knows it.
Settled == events = <<>> /\ \A p \in Peripherals : link[p] = "down"

\* connect_peripheral; the app must not call it while there is another.
ConnectPeripheral(p) ==
  /\ Idle
  /\ Free
  /\ Patient => Settled
  /\ connect(p)
  /\ UNCHANGED <<backgroundVars, peripheral, scanLocks, detectVars, arming, judging,
                 wanted, scan, events>>

\* disconnect_peripheral: a connection that is only being made is forgotten.
DisconnectPeripheral ==
  /\ Idle
  /\ \/ /\ peripheral # None
        /\ Disconnect(peripheral)
        /\ UNCHANGED connecting_peripheral
     \/ /\ peripheral = None
        /\ connecting_peripheral # None
        /\ connecting_peripheral' = None
        /\ UNCHANGED link
  /\ UNCHANGED <<backgroundVars, peripheral, connector, scanLocks, detectVars, arming,
                 judging, wanted, scan, events>>

\* clear_connector: no more reconnecting by itself.
ClearConnector ==
  /\ Idle
  /\ connector' = None
  /\ UNCHANGED <<backgroundVars, connecting_peripheral, peripheral, scanLocks,
                 detectVars, arming, judging, wanted, scan, radioVars>>

\* tpersist_scan_lock(): the two kinds of lock exclude each other.
TakePersistScan ==
  /\ Idle
  /\ disable_reconnect = 0
  /\ persist_scan < MaxLocks
  /\ persist_scan' = persist_scan + 1
  /\ UNCHANGED <<backgroundVars, tbleVars, disable_reconnect, require_reconnect,
                 background_id, alarm, judging,
                 radioVars>>
  /\ start_scan("tble")

\* ~tpersist_scan_lock()
DropPersistScan ==
  /\ Idle
  /\ persist_scan > 0
  /\ persist_scan' = persist_scan - 1
  /\ UNCHANGED <<backgroundVars, tbleVars, disable_reconnect, require_reconnect,
                 background_id, alarm, judging,
                 radioVars>>
  /\ CASE persist_scan' = 0 /\ peripheral # None ->
            stop_scan /\ UNCHANGED <<arming, background_scan_ticks, wanted>>
       [] peripheral = None -> start_scan("tble")
       [] OTHER -> NoScan

\* tdisable_reconnect_lock(require).  Inside a lock that forbids to reconnect
\* the destructor of another would fail its VALIDATE.
TakeDisableReconnect(require) ==
  /\ Idle
  /\ persist_scan = 0
  /\ disable_reconnect < MaxLocks
  /\ require_reconnect
  /\ disable_reconnect' = disable_reconnect + 1
  /\ require_reconnect' = require
  /\ UNCHANGED <<backgroundVars, tbleVars, persist_scan, detectVars, arming, judging, wanted,
                 scan, radioVars>>

\* Mutant of DropDisableReconnect: it does not scan.
DropDisableReconnectSilent ==
  /\ Idle
  /\ disable_reconnect > 0
  /\ disable_reconnect' = disable_reconnect - 1
  /\ require_reconnect' = TRUE
  /\ UNCHANGED <<backgroundVars, tbleVars, persist_scan, background_id, alarm, judging,
                 radioVars>>
  /\ CASE disable_reconnect' # 0  -> NoScan
       [] disable_reconnect' = 0 /\ require_reconnect -> NoScan
       [] OTHER -> wanted' = FALSE /\ UNCHANGED <<arming, background_scan_ticks, scan>>

\* ~tdisable_reconnect_lock(): the outermost one scans, if it asked to.
DropDisableReconnect ==
  /\ Idle
  /\ disable_reconnect > 0
  /\ disable_reconnect' = disable_reconnect - 1
  /\ require_reconnect' = TRUE
  /\ UNCHANGED <<backgroundVars, tbleVars, persist_scan, background_id, alarm, judging,
                 radioVars>>
  /\ CASE disable_reconnect' # 0  -> NoScan
       [] disable_reconnect' = 0 /\ require_reconnect -> start_scan("tble")
       [] OTHER -> wanted' = FALSE /\ UNCHANGED <<arming, background_scan_ticks, scan>>

\* base_instance::handle_app_event, then tble::handle_app_event(true).
DidEnterBackground ==
  /\ Idle
  /\ foreground
  /\ \E registers \in BOOLEAN :
       (registers => IdLeft) /\ did_enter_background(registers)
  /\ UNCHANGED <<tbleVars, scanLocks, background_id, alarm, judging,
                 radioVars>>
  /\ IF Free THEN start_scan("app") ELSE NoScan

\* Mutant of DidEnterForeground: tble does not clear its flags.
DidEnterForegroundFlagsKept ==
  /\ Interrupts
  /\ judging = Out
  /\ ~foreground
  /\ did_enter_foreground
  /\ UNCHANGED <<tbleVars, scanLocks, detectVars, radioVars, arming, judging>>
  /\ IF Free THEN scan' = TRUE /\ wanted' = TRUE ELSE UNCHANGED <<scan, wanted>>

\* The same with tble::handle_app_event(false), which clears the flags.  Never
\* within a walk over the callbacks, whose map it clears.
DidEnterForeground ==
  /\ Interrupts
  /\ judging = Out
  /\ ~foreground
  /\ did_enter_foreground
  /\ background_id' = Invalid
  /\ UNCHANGED <<tbleVars, scanLocks, alarm, radioVars, arming, judging>>
  /\ background_scan_ticks' = "off"
  /\ IF Free THEN scan' = TRUE /\ wanted' = TRUE ELSE UNCHANGED <<scan, wanted>>

-----------------------------------------------------------------------------
Events == \E e \in Event : DidConnect(e) \/ DidDisconnect(e)

App == \/ StartScan \/ StopScan \/ DisconnectPeripheral \/ ClearConnector
       \/ TakePersistScan \/ DropPersistScan \/ DropDisableReconnect
       \/ DidEnterBackground \/ DidEnterForeground
       \/ \E require \in BOOLEAN : TakeDisableReconnect(require)

Next ==
  \/ \E p \in Peripherals : \/ LinkUp(p) \/ LinkFails(p) \/ LinkLost(p) \/ LinkClosed(p)
                            \/ DidDiscover(p) \/ DidRelease(p) \/ ConnectPeripheral(p)
  \/ Events
  \/ App
  \/ ThresholdPasses
  \/ ArmConnect
  \/ ArmAssign
  \/ HandleBackground \/ BlePlay \/ BleCheck \/ BleClear

\* Time passes, and both threads are scheduled.  Nothing is promised of the
\* radio, the user or the app.
Fairness ==
  /\ WF_vars(ThresholdPasses)
  /\ WF_vars(ArmConnect)
  /\ WF_vars(ArmAssign)
  /\ WF_vars(HandleBackground)
  /\ WF_vars(BlePlay)
  /\ WF_vars(BleCheck)
  /\ WF_vars(BleClear)
  /\ WF_vars(Events)

Spec == Init /\ [][Next]_vars
FairSpec == Spec /\ Fairness

-----------------------------------------------------------------------------
(* Properties.                                                              *)

Queued(type, p) == \E i \in DOMAIN events : events[i].type = type /\ events[i].of = p
QueuedOk(p) == \E i \in DOMAIN events : events[i] = [type |-> "connect", of |-> p, error |-> FALSE]

\* A peripheral counts as connected until the event that its link has ended is
\* delivered, never longer: its pointer is not kept past the end of the link.
PeripheralLinked ==
  \A p \in Peripherals :
    peripheral = p => link[p] \in {"up", "leaving"} \/ Queued("disconnect", p)

\* No link stays open behind tble's back, not even that of a connect that was
\* cancelled while it was under way.
NoOrphanLink ==
  \A p \in Peripherals : link[p] = "up" => peripheral = p \/ QueuedOk(p)

\* The VALIDATEs of did_connect_peripheral and did_disconnect_peripheral: an
\* event never finds tble busy with another peripheral.
EventsExpected ==
  events # <<>> =>
    LET e == Head(events) IN
    /\ e.type = "connect" /\ ~e.error => connecting_peripheral # None \/ peripheral = None
    /\ e.type = "disconnect" => peripheral \in {None, e.of}
    /\ e.type = "disconnect" /\ ~e.error /\ peripheral = None => connecting_peripheral = None

\* While there is no peripheral and reconnecting is not disabled the scan that
\* would find it is on, whatever locks came and went meanwhile.
ScanWhenLost ==
  wanted /\ Free /\ disable_reconnect = 0 /\ Idle => scan

\* A detection is armed only for a connection that is missing.  The alarm it
\* raises may come after the connection is back, for tble's thread can pass
\* background_callback between its judgements and its music; but then no
\* detection runs any more, the callback has its VALIDATE before it and that
\* fails: the alarm never plays on beside a connection.
AlarmOnlyWhenLost ==
  /\ arming # NotArming \/ background_id # Invalid => peripheral = None
  /\ alarm /\ peripheral # None =>
       Aborted \/ (judging[1] = "check" /\ background_id = Invalid)

\* The two judgements of background_callback avoid the race with the thread that
\* sets the flags, as its comment says: its VALIDATE does not fail.
CallbackAsserts == ~Aborted

\* A running detection has a callback that will look at it and a time at which
\* it fires, and none is half running: two threads set and clear the flags, the
\* two judgements of background_callback keep them from losing it.
DetectorRegistered ==
  Idle =>
    /\ background_id # Invalid => callbacks[background_id] = "ble"
    /\ background_id # Invalid <=> background_scan_ticks # "off"

\* A detection comes to an end: by a connection, in the foreground or by the
\* alarm.
DetectionEnds == background_id # Invalid ~> background_id = Invalid
=============================================================================
