----------------------------- MODULE BleProofs -----------------------------
(***************************************************************************)
(* What tble promises about its links, its locks, its scan and its         *)
(* reconnect detection, for every number of peripherals, events and ids.   *)
(***************************************************************************)
EXTENDS Ble, SequenceTheorems, WellFoundedInduction, TLAPS

\* Counting around.
LEMMA Around ==
  ASSUME NEW m \in Nat \ {0}, NEW x \in 0 .. m - 1
  PROVE  x % m = x /\ (x + m) % m = x
<1>1. x % m = x
  BY SMTT(30)
<1>2. (x + m) % m = x
  BY SMTT(30)
<1>3. QED
  BY <1>1, <1>2

\* A set of numbers that is not empty has a first one.
LEMMA FirstOf ==
  ASSUME NEW S \in SUBSET Nat, S # {}
  PROVE  Min(S) \in S
<1>1. \E m \in S : \A k \in S : ~ (<<k, m>> \in OpToRel(<, Nat))
  BY WFMin, NatLessThanWellFounded
<1>2. PICK m \in S : \A k \in S : ~ (k < m)
  BY <1>1 DEF OpToRel
<1>3. \A k \in S : m <= k
  BY <1>2
<1>4. QED
  BY <1>3 DEF Min

\* While an id is left, get_callback_id finds one that is not in use.
LEMMA FreshId ==
  ASSUME BackgroundTypeOK, IdLeft
  PROVE  get_callback_id(background_callback_id) \in Ids \ Registered(callbacks)
<1> DEFINE last == background_callback_id
           after(k) == ((last + k) % MaxId) + 1
           free == {k \in 0 .. MaxId - 1 : after(k) \notin Registered(callbacks)}
<1>1. last \in 0 .. MaxId /\ MaxId \in Nat \ {0}
  BY MaxIdAssumption DEF BackgroundTypeOK, Ids, Invalid
<1>2. PICK id \in Ids : id \notin Registered(callbacks)
  BY DEF IdLeft, Registered
<1>3. id - 1 \in 0 .. MaxId - 1
  BY <1>1, <1>2 DEF Ids
<1> HIDE DEF last
<1>4. \E k \in 0 .. MaxId - 1 : after(k) = id
  <2> DEFINE k == IF id - 1 >= last THEN id - 1 - last
                  ELSE IF last = MaxId THEN id - 1 ELSE id - 1 - last + MaxId
  <2>1. k \in 0 .. MaxId - 1 /\ (last + k = id - 1 \/ last + k = id - 1 + MaxId)
    BY <1>1, <1>3
  <2>2. (last + k) % MaxId = id - 1
    BY <1>1, <1>3, <2>1, Around
  <2>3. after(k) = id
    BY <1>2, <2>2 DEF Ids
  <2>4. QED
    BY <2>1, <2>3
<1>5. free # {} /\ free \in SUBSET Nat
  BY <1>2, <1>4
<1> HIDE DEF free
<1>7. Min(free) \in free
  BY <1>5, FirstOf
<1>8. \A k \in Nat : after(k) \in Ids
  <2> SUFFICES ASSUME NEW k \in Nat PROVE after(k) \in Ids
    OBVIOUS
  <2>1. last + k \in Nat
    BY <1>1
  <2>2. \A n \in Nat : n % MaxId \in 0 .. MaxId - 1
    BY <1>1, SMTT(30)
  <2>3. (last + k) % MaxId \in 0 .. MaxId - 1
    BY <2>1, <2>2
  <2>4. QED
    BY <1>1, <2>3 DEF Ids
<1>9. after(Min(free)) \in Ids \ Registered(callbacks)
  BY <1>5, <1>7, <1>8 DEF free
<1>10. QED
  BY <1>9 DEF get_callback_id, last, free

-----------------------------------------------------------------------------
(* Types.                                                                   *)

\* An id is left for a callback that is about to be registered.
IdInv == arming[2] = "connect" => IdLeft

Callbacks == {"nobody", "app", "ble"}
Threads == {"tble", "app"}

\* The operations on the callbacks keep their types.
LEMMA BackgroundTypes ==
  ASSUME BackgroundTypeOK,
         \/ \E owner \in {"app", "ble"} : IdLeft /\ background_connect(owner)
         \/ \E erase \in SUBSET Ids : handle_background(erase)
         \/ \E registers \in BOOLEAN : (registers => IdLeft) /\ did_enter_background(registers)
         \/ did_enter_foreground
         \/ UNCHANGED backgroundVars
  PROVE  BackgroundTypeOK'
<1>1. ASSUME NEW owner \in {"app", "ble"}, IdLeft, background_connect(owner)
      PROVE  BackgroundTypeOK'
  <2> DEFINE id == get_callback_id(background_callback_id)
  <2>1. id \in Ids
    BY <1>1, FreshId
  <2>2. callbacks' = [callbacks EXCEPT ![id] = owner] /\ background_callback_id' = id
        /\ xmit_audio' = (xmit_audio \/ ~foreground) /\ foreground' = foreground
    BY <1>1 DEF background_connect
  <2> HIDE DEF id
  <2>3. xmit_audio' \in BOOLEAN
    BY <2>2, Zenon
  <2>4. QED
    BY <1>1, <2>1, <2>2, <2>3 DEF BackgroundTypeOK
<1>2. ASSUME NEW erase \in SUBSET Ids, handle_background(erase)
      PROVE  BackgroundTypeOK'
  <2>1. xmit_audio' \in BOOLEAN
    BY <1>2, Zenon DEF handle_background
  <2>2. QED
    BY <1>2, <2>1 DEF handle_background, BackgroundTypeOK
<1>3. ASSUME NEW registers \in BOOLEAN, registers => IdLeft, did_enter_background(registers)
      PROVE  BackgroundTypeOK'
  <2> DEFINE id == get_callback_id(background_callback_id)
  <2>1. xmit_audio' \in BOOLEAN
    BY <1>3, Zenon DEF did_enter_background
  <2>2. /\ foreground' = FALSE
        /\ \/ /\ registers
              /\ callbacks' = [callbacks EXCEPT ![id] = "app"] /\ background_callback_id' = id
           \/ UNCHANGED <<callbacks, background_callback_id>>
    BY <1>3 DEF did_enter_background
  <2>3. registers => id \in Ids
    BY <1>3, FreshId
  <2> HIDE DEF id
  <2>4. QED
    BY <2>1, <2>2, <2>3 DEF BackgroundTypeOK
<1>4. CASE did_enter_foreground
  BY <1>4 DEF did_enter_foreground, NoCallbacks, BackgroundTypeOK
<1>5. CASE UNCHANGED backgroundVars
  BY <1>5 DEF backgroundVars, BackgroundTypeOK
<1>6. QED
  BY <1>1, <1>2, <1>3, <1>4, <1>5

\* A scan that is started.
LEMMA ScanTypes ==
  ASSUME TypeOK, NEW t \in Threads, start_scan(t)
  PROVE  /\ wanted' = TRUE
         /\ scan' = TRUE \/ scan' = scan
         /\ arming' \in {<<t, "connect">>, arming}
         /\ background_scan_ticks' \in {"pending", background_scan_ticks}
BY DEF start_scan

\* What the types say of tble itself, apart from the callbacks.
BleTypeOK ==
  /\ connecting_peripheral \in Peripherals \cup {None}
  /\ peripheral \in Peripherals \cup {None}
  /\ connector \in Peripherals \cup {None}
  /\ persist_scan \in 0 .. MaxLocks
  /\ disable_reconnect \in 0 .. MaxLocks
  /\ require_reconnect \in BOOLEAN
  /\ background_scan_ticks \in {"off", "pending", "due"}
  /\ background_id \in Ids \cup {Invalid}
  /\ alarm \in BOOLEAN
  /\ arming \in {NotArming} \cup (Threads \X {"connect", "assign"})
  /\ wanted \in BOOLEAN
  /\ scan \in BOOLEAN

JudgingTypeOK ==
  judging \in {Out} \cup ({"play", "check", "clear", "aborted"} \X Ids)

RadioTypeOK ==
  /\ link \in [Peripherals -> {"down", "connecting", "up", "leaving"}]
  /\ events \in Seq(Event)
  /\ Len(events) <= MaxEvents

\* The types in four parts.
LEMMA TypesByPart == TypeOK <=> BackgroundTypeOK /\ BleTypeOK /\ JudgingTypeOK /\ RadioTypeOK
BY DEF TypeOK, BleTypeOK, JudgingTypeOK, RadioTypeOK, Threads

\* Only these steps change the queue and the links,
LEMMA RadioTypes ==
  ASSUME TypeOK, [Next]_vars
  PROVE  RadioTypeOK'
<1> USE TypesByPart DEF RadioTypeOK
<1>1. ASSUME NEW p \in Peripherals, LinkUp(p) \/ LinkFails(p) \/ LinkLost(p) \/ LinkClosed(p)
      PROVE  RadioTypeOK'
  <2>1. PICK to \in {"down", "up"}, type \in {"connect", "disconnect"}, error \in BOOLEAN :
          /\ Len(events) < MaxEvents
          /\ link' = [link EXCEPT ![p] = to]
          /\ events' = Append(events, [type |-> type, of |-> p, error |-> error])
    BY <1>1 DEF LinkUp, LinkFails, LinkLost, LinkClosed, Radio
  <2>2. [type |-> type, of |-> p, error |-> error] \in Event
    BY DEF Event
  <2> DEFINE e == [type |-> type, of |-> p, error |-> error]
  <2> HIDE DEF e
  <2>3. events' \in Seq(Event) /\ Len(events') = Len(events) + 1 /\ Len(events) \in Nat
    BY <2>1, <2>2 DEF e
  <2>4. QED
    BY <2>1, <2>3, BleAssumption
<1>2. ASSUME NEW e \in Event, DidConnect(e) \/ DidDisconnect(e)
      PROVE  RadioTypeOK'
  <2>1. events # <<>> /\ events' = Tail(events)
    BY <1>2 DEF DidConnect, DidDisconnect, Deliver
  <2>2. events' \in Seq(Event) /\ Len(events') = Len(events) - 1 /\ Len(events) \in Nat
    BY <2>1
  <2>3. link' = link \/ link' = [link EXCEPT ![e.of] = IF @ = "up" THEN "leaving" ELSE @]
    BY <1>2 DEF DidConnect, DidDisconnect, Accept, CloseCancelled, Fail, Disconnect
  <2>4. e.of \in Peripherals
    BY DEF Event
  <2>5. QED
    BY <2>2, <2>3, <2>4, BleAssumption
<1>3. ASSUME NEW p \in Peripherals, DidDiscover(p) \/ DidRelease(p) \/ ConnectPeripheral(p)
      PROVE  RadioTypeOK'
  BY <1>3 DEF DidDiscover, DidRelease, ConnectPeripheral, connect, Connect
<1>4. CASE DisconnectPeripheral
  BY <1>4 DEF DisconnectPeripheral, Disconnect, BleTypeOK
<1>5. CASE UNCHANGED radioVars
  BY <1>5 DEF radioVars
<1>6. ASSUME ThresholdPasses \/ ArmConnect \/ ArmAssign \/ HandleBackground \/ UNCHANGED vars
             \/ BlePlay \/ BleCheck \/ BleClear \/ StartScan \/ StopScan \/ ClearConnector \/ TakePersistScan \/ DropPersistScan
             \/ DropDisableReconnect \/ DidEnterBackground \/ DidEnterForeground
             \/ (\E require \in BOOLEAN : TakeDisableReconnect(require))
      PROVE  UNCHANGED radioVars
  BY <1>6 DEF ThresholdPasses, ArmConnect, ArmAssign, HandleBackground, BlePlay, BleCheck,
     BleClear, vars, StartScan, StopScan,
     ClearConnector, TakePersistScan, DropPersistScan, DropDisableReconnect, DidEnterBackground,
     DidEnterForeground, TakeDisableReconnect, radioVars
<1>7. QED
  BY <1>1, <1>2, <1>3, <1>4, <1>5, <1>6 DEF Next, Events, App

\* ... and these the callbacks.
LEMMA CallbackTypes ==
  ASSUME TypeOK, IdInv, [Next]_vars
  PROVE  BackgroundTypeOK'
<1> USE TypesByPart
<1>1. CASE ArmConnect
  BY <1>1, BackgroundTypes DEF ArmConnect, IdInv
<1>2. CASE HandleBackground \/ BleClear
  <2>1. PICK erase \in SUBSET Ids : handle_background(erase)
    BY <1>2 DEF HandleBackground, BleClear, Of
  <2>2. QED
    BY <2>1, BackgroundTypes
<1>3. CASE DidEnterBackground
  BY <1>3, BackgroundTypes DEF DidEnterBackground
<1>4. CASE DidEnterForeground
  BY <1>4, BackgroundTypes DEF DidEnterForeground
<1>5. ASSUME NEW p \in Peripherals,
             \/ LinkUp(p) \/ LinkFails(p) \/ LinkLost(p) \/ LinkClosed(p)
             \/ DidDiscover(p) \/ DidRelease(p) \/ ConnectPeripheral(p)
      PROVE  UNCHANGED backgroundVars
  BY <1>5 DEF LinkUp, LinkFails, LinkLost, LinkClosed, Radio, DidDiscover, DidRelease,
     ConnectPeripheral
<1>6. ASSUME NEW e \in Event, DidConnect(e) \/ DidDisconnect(e)
      PROVE  UNCHANGED backgroundVars
  BY <1>6 DEF DidConnect, DidDisconnect, backgroundVars
<1>7. ASSUME \/ ThresholdPasses \/ ArmAssign \/ UNCHANGED vars \/ DisconnectPeripheral
             \/ BlePlay \/ BleCheck
             \/ StartScan \/ StopScan \/ ClearConnector \/ TakePersistScan \/ DropPersistScan
             \/ DropDisableReconnect \/ (\E require \in BOOLEAN : TakeDisableReconnect(require))
      PROVE  UNCHANGED backgroundVars
  BY <1>7 DEF ThresholdPasses, ArmAssign, BlePlay, BleCheck, vars, StartScan, StopScan,
     DisconnectPeripheral,
     ClearConnector, TakePersistScan, DropPersistScan, DropDisableReconnect, TakeDisableReconnect
<1>8. QED
  BY <1>1, <1>2, <1>3, <1>4, <1>5, <1>6, <1>7, BackgroundTypes DEF Next, Events, App

\* The rest are flags of tble, which every step sets to what they may be.
LEMMA FlagTypes ==
  ASSUME TypeOK, [Next]_vars
  PROVE  BleTypeOK'
<1> USE TypesByPart
<1>1. ASSUME NEW p \in Peripherals, DidDiscover(p) \/ DidRelease(p) \/ ConnectPeripheral(p)
      PROVE  BleTypeOK'
  BY <1>1 DEF DidDiscover, DidRelease, ConnectPeripheral, connect, scanLocks, detectVars, BleTypeOK
<1>2. ASSUME NEW e \in Event, DidConnect(e)
      PROVE  BleTypeOK'
  <2>1. e.of \in Peripherals
    BY DEF Event
  <2>2. alarm' \in BOOLEAN
    BY <1>2, Zenon DEF DidConnect, stop_detect
  <2>3. /\ peripheral' \in Peripherals \cup {None}
        /\ connecting_peripheral' \in Peripherals \cup {None}
        /\ scan' = FALSE \/ scan' = scan
    BY <1>2, <2>1 DEF DidConnect, Accept, CloseCancelled, Fail, stop_scan, BleTypeOK
  <2>4. QED
    BY <1>2, <2>2, <2>3 DEF DidConnect, stop_detect, scanLocks, BleTypeOK
<1>3. ASSUME NEW t \in Threads, start_scan(t), UNCHANGED <<background_id, alarm, require_reconnect>>,
             connecting_peripheral' \in Peripherals \cup {None},
             peripheral' \in Peripherals \cup {None}, connector' = connector,
             persist_scan' \in 0 .. MaxLocks, disable_reconnect' \in 0 .. MaxLocks
      PROVE  BleTypeOK'
  <2>1. scan' \in BOOLEAN /\ wanted' \in BOOLEAN
    BY <1>3, ScanTypes DEF BleTypeOK
  <2>2. arming' \in {NotArming} \cup (Threads \X {"connect", "assign"})
    <3>1. arming' = <<t, "connect">> \/ arming' = arming
      BY <1>3, ScanTypes
    <3>2. <<t, "connect">> \in Threads \X {"connect", "assign"}
      BY <1>3
    <3>3. QED
      BY <3>1, <3>2 DEF BleTypeOK
  <2>3. QED
    BY <1>3, <2>1, <2>2, ScanTypes DEF BleTypeOK
<1>4. ASSUME NEW e \in Event, DidDisconnect(e)
      PROVE  BleTypeOK'
  <2>1. peripheral' \in Peripherals \cup {None}
    BY <1>4 DEF DidDisconnect, BleTypeOK
  <2>2. CASE disable_reconnect = 0
    BY <1>3, <1>4, <2>1, <2>2 DEF DidDisconnect, scanLocks, BleTypeOK, Threads
  <2>3. CASE disable_reconnect # 0
    BY <1>4, <2>1, <2>3 DEF DidDisconnect, scanLocks, BleTypeOK, NoScan
  <2>4. QED
    BY <2>2, <2>3
<1>5. CASE StartScan \/ TakePersistScan
  BY <1>3, <1>5, BleAssumption DEF StartScan, TakePersistScan, tbleVars, scanLocks, BleTypeOK, Threads
<1>6. CASE StopScan \/ DisconnectPeripheral \/ ClearConnector
  BY <1>6 DEF StopScan, stop_scan, DisconnectPeripheral, ClearConnector, tbleVars, scanLocks,
     detectVars, BleTypeOK
<1>7. CASE DropPersistScan
  <2>1. persist_scan' \in 0 .. MaxLocks /\ UNCHANGED <<tbleVars, disable_reconnect,
          require_reconnect, background_id, alarm>>
    BY <1>7, BleAssumption DEF DropPersistScan, BleTypeOK
  <2>2. CASE start_scan("tble")
    BY <1>3, <2>1, <2>2 DEF tbleVars, BleTypeOK, Threads
  <2>3. CASE (stop_scan /\ UNCHANGED <<arming, background_scan_ticks, wanted>>) \/ NoScan
    BY <2>1, <2>3 DEF tbleVars, BleTypeOK, stop_scan, NoScan
  <2>4. QED
    BY <1>7, <2>2, <2>3 DEF DropPersistScan
<1>8. ASSUME NEW require \in BOOLEAN, TakeDisableReconnect(require)
      PROVE  BleTypeOK'
  BY <1>8, BleAssumption DEF TakeDisableReconnect, tbleVars, detectVars, BleTypeOK
<1>9. CASE DropDisableReconnect
  <2>1. disable_reconnect' \in 0 .. MaxLocks /\ require_reconnect' = TRUE
        /\ UNCHANGED <<tbleVars, persist_scan, background_id, alarm>>
    BY <1>9, BleAssumption DEF DropDisableReconnect, BleTypeOK
  <2>2. CASE NoScan
    BY <2>1, <2>2 DEF tbleVars, BleTypeOK, NoScan
  <2>3. CASE wanted' = FALSE /\ UNCHANGED <<arming, background_scan_ticks, scan>>
    BY <2>1, <2>3 DEF tbleVars, BleTypeOK
  <2>4. CASE start_scan("tble") /\ disable_reconnect' = 0 /\ require_reconnect
    <3>1. require_reconnect' = require_reconnect
      BY <2>1, <2>4 DEF BleTypeOK
    <3>2. QED
      BY <1>3, <2>1, <2>4, <3>1 DEF tbleVars, BleTypeOK, Threads
  <2>5. QED
    BY <1>9, <2>2, <2>3, <2>4 DEF DropDisableReconnect
<1>10. CASE DidEnterBackground
  <2>1. CASE Free
    BY <1>3, <1>10, <2>1 DEF DidEnterBackground, tbleVars, scanLocks, BleTypeOK, Threads
  <2>2. CASE ~Free
    BY <1>10, <2>2 DEF DidEnterBackground, tbleVars, scanLocks, BleTypeOK, NoScan
  <2>3. QED
    BY <2>1, <2>2
<1>11. CASE DidEnterForeground
  BY <1>11 DEF DidEnterForeground, tbleVars, scanLocks, BleTypeOK
<1>12. CASE ThresholdPasses \/ ArmConnect
  BY <1>12 DEF ThresholdPasses, ArmConnect, tbleVars, scanLocks, detectVars, BleTypeOK, NotArming,
     Threads
<1>13. CASE ArmAssign
  BY <1>13 DEF ArmAssign, tbleVars, scanLocks, BleTypeOK, BackgroundTypeOK
<1>14. CASE HandleBackground \/ BlePlay \/ BleCheck \/ BleClear
  BY <1>14 DEF HandleBackground, BlePlay, BleCheck, BleClear, tbleVars, scanLocks, detectVars,
     BleTypeOK
<1>15. ASSUME \/ UNCHANGED vars
              \/ \E p \in Peripherals : LinkUp(p) \/ LinkFails(p) \/ LinkLost(p) \/ LinkClosed(p)
       PROVE  BleTypeOK'
  BY <1>15 DEF vars, LinkUp, LinkFails, LinkLost, LinkClosed, Radio, tbleVars, scanLocks,
     detectVars, BleTypeOK
<1>16. QED
  BY <1>1, <1>2, <1>4, <1>5, <1>6, <1>7, <1>8, <1>9, <1>10, <1>11, <1>12, <1>13, <1>14, <1>15
     DEF Next, Events, App

\* The thread of the callbacks is in background_callback for one of their ids.
LEMMA JudgingTypes ==
  ASSUME TypeOK, [Next]_vars
  PROVE  JudgingTypeOK'
<1> USE TypesByPart DEF JudgingTypeOK
<1>1. CASE HandleBackground
  <2> DEFINE mine == Of("ble")
  <2>1. mine # {} => Min(mine) \in Ids
    BY FirstOf DEF Of, Ids
  <2>2. judging' = Out \/ (mine # {} /\ judging' = <<"play", Min(mine)>>)
    BY <1>1 DEF HandleBackground
  <2> HIDE DEF mine
  <2>3. QED
    BY <2>1, <2>2
<1>2. CASE BlePlay \/ BleCheck \/ BleClear
  <2>1. judging' = Out \/ judging[1] \in {"play", "check"}
    BY <1>2 DEF BlePlay, BleCheck, BleClear
  <2>2. judging[1] \in {"play", "check"} => judging[2] \in Ids
    BY DEF Out
  <2>3. judging' = Out \/ \E place \in {"check", "clear", "aborted"} : judging' = <<place, judging[2]>>
    BY <1>2 DEF BlePlay, BleCheck, BleClear
  <2>4. QED
    BY <2>1, <2>2, <2>3
<1>3. CASE UNCHANGED judging
  BY <1>3
<1>4. ASSUME NEW p \in Peripherals,
             \/ LinkUp(p) \/ LinkFails(p) \/ LinkLost(p) \/ LinkClosed(p)
             \/ DidDiscover(p) \/ DidRelease(p) \/ ConnectPeripheral(p)
      PROVE  UNCHANGED judging
  BY <1>4 DEF LinkUp, LinkFails, LinkLost, LinkClosed, Radio, DidDiscover, DidRelease,
     ConnectPeripheral
<1>5. ASSUME NEW e \in Event, DidConnect(e) \/ DidDisconnect(e)
      PROVE  UNCHANGED judging
  BY <1>5 DEF DidConnect, DidDisconnect
<1>6. ASSUME \/ ThresholdPasses \/ ArmConnect \/ ArmAssign \/ UNCHANGED vars
             \/ DisconnectPeripheral \/ StartScan \/ StopScan \/ ClearConnector
             \/ TakePersistScan \/ DropPersistScan \/ DropDisableReconnect
             \/ DidEnterBackground \/ DidEnterForeground
             \/ (\E require \in BOOLEAN : TakeDisableReconnect(require))
      PROVE  UNCHANGED judging
  BY <1>6 DEF ThresholdPasses, ArmConnect, ArmAssign, vars, StartScan, StopScan,
     DisconnectPeripheral, ClearConnector, TakePersistScan, DropPersistScan,
     DropDisableReconnect, TakeDisableReconnect, DidEnterBackground, DidEnterForeground
<1>7. QED
  BY <1>1, <1>2, <1>3, <1>4, <1>5, <1>6 DEF Next, Events, App

\* An id stays left while background_reconnect_detect is on its way to take one.
LEMMA IdStays ==
  ASSUME TypeOK, IdInv, [Next]_vars
  PROVE  IdInv'
<1>1. ASSUME UNCHANGED <<backgroundVars, arming>> PROVE IdInv'
  BY <1>1 DEF IdInv, IdLeft, Registered, backgroundVars
<1>2. ASSUME NEW t, start_scan(t), UNCHANGED callbacks PROVE IdInv'
  <2>1. CASE IdLeft'
    BY <2>1 DEF IdInv
  <2>2. CASE UNCHANGED arming
    BY <1>2, <2>2 DEF IdInv, IdLeft, Registered
  <2>3. QED
    BY <1>2, <2>1, <2>2 DEF start_scan
<1>3. ASSUME ~(arming'[2] = "connect") PROVE IdInv'
  BY <1>3 DEF IdInv
<1>4. CASE HandleBackground \/ BleClear
  <2>1. Registered(callbacks)' \subseteq Registered(callbacks) /\ UNCHANGED arming
    BY <1>4 DEF HandleBackground, BleClear, handle_background, Registered
  <2>2. QED
    BY <2>1 DEF IdInv, IdLeft, Registered
<1>5. CASE DidEnterBackground
  <2>1. arming'[2] # "connect" \/ IdLeft'
    BY <1>5 DEF DidEnterBackground, start_scan, NoScan, Idle, NotArming
  <2>2. QED
    BY <2>1 DEF IdInv
<1>6. CASE DidEnterForeground
  <2>1. 1 \in Ids /\ callbacks'[1] = "nobody"
    BY <1>6, MaxIdAssumption DEF DidEnterForeground, did_enter_foreground, NoCallbacks, Ids
  <2>2. QED
    BY <2>1 DEF IdInv, IdLeft, Registered
<1>7. CASE ArmConnect \/ ArmAssign
  BY <1>3, <1>7 DEF ArmConnect, ArmAssign, NotArming
<1>8. ASSUME NEW e \in Event, DidConnect(e) \/ DidDisconnect(e)
      PROVE  IdInv'
  BY <1>1, <1>2, <1>8 DEF DidConnect, DidDisconnect, NoScan, backgroundVars
<1>9. ASSUME NEW p \in Peripherals,
             \/ LinkUp(p) \/ LinkFails(p) \/ LinkLost(p) \/ LinkClosed(p)
             \/ DidDiscover(p) \/ DidRelease(p) \/ ConnectPeripheral(p)
      PROVE  IdInv'
  BY <1>1, <1>9 DEF LinkUp, LinkFails, LinkLost, LinkClosed, Radio, DidDiscover, DidRelease,
     ConnectPeripheral
<1>10. CASE StartScan \/ TakePersistScan \/ DropPersistScan \/ DropDisableReconnect
  <2>1. UNCHANGED backgroundVars /\ ((\E t : start_scan(t)) \/ UNCHANGED arming)
    BY <1>10 DEF StartScan, TakePersistScan, DropPersistScan, DropDisableReconnect, NoScan
  <2>2. QED
    BY <1>1, <1>2, <2>1 DEF backgroundVars
<1>11. ASSUME \/ StopScan \/ DisconnectPeripheral \/ ClearConnector \/ ThresholdPasses
              \/ BlePlay \/ BleCheck \/ UNCHANGED vars \/ \E require \in BOOLEAN : TakeDisableReconnect(require)
       PROVE  IdInv'
  BY <1>1, <1>11 DEF StopScan, DisconnectPeripheral, ClearConnector, ThresholdPasses, BlePlay,
     BleCheck, vars, TakeDisableReconnect
<1>12. QED
  BY <1>4, <1>5, <1>6, <1>7, <1>8, <1>9, <1>10, <1>11 DEF Next, Events, App

\* The types, in every state of every behaviour.
LEMMA Typed == Spec => [](TypeOK /\ IdInv)
<1>1. Init => TypeOK /\ IdInv
  <2> SUFFICES ASSUME Init PROVE TypeOK /\ IdInv
    OBVIOUS
  <2>1. BackgroundTypeOK
    BY DEF Init, BackgroundInit, NoCallbacks, BackgroundTypeOK
  <2>2. BleTypeOK
    <3>1. 0 \in 0 .. MaxLocks
      BY BleAssumption
    <3>2. arming \in {NotArming} \cup (Threads \X {"connect", "assign"})
      BY DEF Init
    <3>3. wanted \in BOOLEAN /\ scan \in BOOLEAN /\ alarm \in BOOLEAN /\ require_reconnect \in BOOLEAN
      BY DEF Init
    <3>4. QED
      BY <3>1, <3>2, <3>3 DEF Init, BleTypeOK
  <2>3. RadioTypeOK
    BY BleAssumption DEF Init, RadioTypeOK
  <2>4. IdInv
    BY DEF Init, IdInv, NotArming
  <2>5. JudgingTypeOK
    BY DEF Init, JudgingTypeOK
  <2>6. QED
    BY <2>1, <2>2, <2>3, <2>4, <2>5, TypesByPart
<1>2. TypeOK /\ IdInv /\ [Next]_vars => (TypeOK /\ IdInv)'
  BY RadioTypes, CallbackTypes, FlagTypes, JudgingTypes, IdStays, TypesByPart, PTL
<1>3. QED
  BY <1>1, <1>2, PTL DEF Spec

\* Every variable of tble and of base_instance keeps its type.
THEOREM TypesBle == Spec => []TypeOK
BY Typed, PTL

-----------------------------------------------------------------------------
(* The audio lock.                                                          *)

\* Each operation on the callbacks takes and gives the lock as it should.
LEMMA XmitKeeps ==
  ASSUME TypeOK, IdInv, XmitAudioHeld, [Next]_vars
  PROVE  XmitAudioHeld'
<1> USE TypesByPart
<1>1. CASE ArmConnect
  <2> DEFINE id == get_callback_id(background_callback_id)
  <2>1. id \in Ids
    BY <1>1, FreshId DEF ArmConnect, IdInv
  <2>2. callbacks' = [callbacks EXCEPT ![id] = "ble"] /\ foreground' = foreground
        /\ xmit_audio' = (xmit_audio \/ ~foreground)
    BY <1>1 DEF ArmConnect, background_connect
  <2> HIDE DEF id
  <2>3. id \in Registered(callbacks)'
    BY <2>1, <2>2 DEF Registered, BackgroundTypeOK
  <2>4. xmit_audio' <=> ~foreground
    BY <2>2 DEF XmitAudioHeld
  <2>5. QED
    BY <2>2, <2>3, <2>4 DEF XmitAudioHeld
<1>2. CASE HandleBackground \/ BleClear
  <2>1. PICK erase : handle_background(erase)
    BY <1>2 DEF HandleBackground, BleClear
  <2>2. foreground' = foreground
    BY <2>1 DEF handle_background
  <2>3. xmit_audio' <=> xmit_audio /\ (erase # {} => Registered(callbacks)' # {})
    BY <2>1 DEF handle_background, Registered
  <2>4. Registered(callbacks)' \subseteq Registered(callbacks)
    BY <2>1 DEF handle_background, Registered
  <2>5. erase = {} => Registered(callbacks)' = Registered(callbacks)
    BY <2>1 DEF handle_background, Registered
  <2>6. QED
    BY <2>2, <2>3, <2>4, <2>5 DEF XmitAudioHeld
<1>3. CASE DidEnterBackground
  BY <1>3 DEF DidEnterBackground, did_enter_background, XmitAudioHeld
<1>4. CASE DidEnterForeground
  BY <1>4 DEF DidEnterForeground, did_enter_foreground, XmitAudioHeld
<1>5. ASSUME UNCHANGED backgroundVars PROVE XmitAudioHeld'
  BY <1>5 DEF backgroundVars, XmitAudioHeld, Registered
<1>6. ASSUME NEW p \in Peripherals,
             \/ LinkUp(p) \/ LinkFails(p) \/ LinkLost(p) \/ LinkClosed(p)
             \/ DidDiscover(p) \/ DidRelease(p) \/ ConnectPeripheral(p)
      PROVE  UNCHANGED backgroundVars
  BY <1>6 DEF LinkUp, LinkFails, LinkLost, LinkClosed, Radio, DidDiscover, DidRelease,
     ConnectPeripheral
<1>7. ASSUME NEW e \in Event, DidConnect(e) \/ DidDisconnect(e)
      PROVE  UNCHANGED backgroundVars
  BY <1>7 DEF DidConnect, DidDisconnect, backgroundVars
<1>8. ASSUME \/ ThresholdPasses \/ ArmAssign \/ UNCHANGED vars \/ DisconnectPeripheral
             \/ BlePlay \/ BleCheck
             \/ StartScan \/ StopScan \/ ClearConnector \/ TakePersistScan \/ DropPersistScan
             \/ DropDisableReconnect \/ (\E require \in BOOLEAN : TakeDisableReconnect(require))
      PROVE  UNCHANGED backgroundVars
  BY <1>8 DEF ThresholdPasses, ArmAssign, BlePlay, BleCheck, vars, StartScan, StopScan,
     DisconnectPeripheral,
     ClearConnector, TakePersistScan, DropPersistScan, DropDisableReconnect, TakeDisableReconnect
<1>9. QED
  BY <1>1, <1>2, <1>3, <1>4, <1>5, <1>6, <1>7, <1>8 DEF Next, Events, App

\* base_instance holds the lock that keeps the app awake exactly while it is in
\* the background and somebody is registered there, for any number of ids and of
\* callbacks, and also when app events interrupt tble.
THEOREM XmitAudioHeldAlways == Spec => []XmitAudioHeld
<1>1. Init => XmitAudioHeld
  BY DEF Init, BackgroundInit, XmitAudioHeld
<1>2. TypeOK /\ IdInv /\ XmitAudioHeld /\ [Next]_vars => XmitAudioHeld'
  BY XmitKeeps
<1>3. QED
  BY <1>1, <1>2, Typed, PTL DEF Spec

-----------------------------------------------------------------------------
(* The scan.                                                                *)

\* Nobody is in background_reconnect_detect(true).
AtRest == arming = NotArming

\* A peripheral is being connected or connected, never both.
OneAtATime == connecting_peripheral = None \/ peripheral = None

\* Without a peripheral the scan is on even while one is being connected: that
\* may fail.
ScanInv == wanted /\ peripheral = None /\ disable_reconnect = 0 /\ AtRest => scan

\* A scan that is started is on, or will be when the detection is armed.
LEMMA StartScanScans ==
  ASSUME NEW t \in Threads, start_scan(t)
  PROVE  scan' \/ ~AtRest'
<1>1. <<t, "connect">> # NotArming
  BY DEF NotArming
<1>2. scan' = TRUE \/ arming' = <<t, "connect">>
  BY DEF start_scan
<1>3. QED
  BY <1>1, <1>2 DEF AtRest

\* Locks, events and calls keep the scan going.
LEMMA ScanKeeps ==
  ASSUME TypeOK, OneAtATime, ScanInv, [Next]_vars
  PROVE  (OneAtATime /\ ScanInv)'
<1> USE TypesByPart
<1>1. ASSUME NEW t \in Threads, start_scan(t), connecting_peripheral' = connecting_peripheral,
             peripheral' \in {peripheral, None}
      PROVE  (OneAtATime /\ ScanInv)'
  BY <1>1, StartScanScans DEF OneAtATime, ScanInv
<1>2. ASSUME UNCHANGED <<scan, wanted, peripheral, arming>>, OneAtATime',
             disable_reconnect' = 0 => disable_reconnect = 0
      PROVE  (OneAtATime /\ ScanInv)'
  BY <1>2 DEF ScanInv, AtRest
<1>3. ASSUME NEW p \in Peripherals, DidDiscover(p) \/ DidRelease(p) \/ ConnectPeripheral(p)
      PROVE  (OneAtATime /\ ScanInv)'
  <2>1. OneAtATime'
    BY <1>3 DEF DidDiscover, DidRelease, ConnectPeripheral, connect, Free, OneAtATime
  <2>2. QED
    BY <1>2, <1>3, <2>1 DEF DidDiscover, DidRelease, ConnectPeripheral, scanLocks
<1>4. ASSUME NEW p \in Peripherals, LinkUp(p) \/ LinkFails(p) \/ LinkLost(p) \/ LinkClosed(p)
      PROVE  (OneAtATime /\ ScanInv)'
  BY <1>2, <1>4 DEF LinkUp, LinkFails, LinkLost, LinkClosed, Radio, scanLocks, tbleVars, OneAtATime
<1>5. ASSUME NEW e \in Event, DidConnect(e)
      PROVE  (OneAtATime /\ ScanInv)'
  <2>1. e.of \in Peripherals /\ e.of # None
    BY BleAssumption DEF Event
  <2>2. CASE Accept(e)
    BY <1>5, <2>1, <2>2 DEF DidConnect, Accept, OneAtATime, ScanInv
  <2>3. CASE CloseCancelled(e) \/ Fail(e)
    BY <1>2, <1>5, <2>3 DEF DidConnect, CloseCancelled, Fail, scanLocks, OneAtATime
  <2>4. QED
    BY <1>5, <2>2, <2>3 DEF DidConnect
<1>6. ASSUME NEW e \in Event, DidDisconnect(e)
      PROVE  (OneAtATime /\ ScanInv)'
  <2>1. connecting_peripheral' = connecting_peripheral /\ peripheral' \in {peripheral, None}
        /\ disable_reconnect' = disable_reconnect
    BY <1>6 DEF DidDisconnect, scanLocks
  <2>2. CASE disable_reconnect = 0
    BY <1>1, <1>6, <2>1, <2>2 DEF DidDisconnect, Threads
  <2>3. CASE disable_reconnect # 0
    BY <2>1, <2>3 DEF OneAtATime, ScanInv
  <2>4. QED
    BY <2>2, <2>3
<1>7. CASE StartScan \/ TakePersistScan
  BY <1>1, <1>7 DEF StartScan, TakePersistScan, tbleVars, Threads
<1>8. CASE StopScan
  BY <1>8 DEF StopScan, tbleVars, OneAtATime, ScanInv
<1>9. CASE DropPersistScan
  <2>1. UNCHANGED <<connecting_peripheral, peripheral, disable_reconnect>>
    BY <1>9 DEF DropPersistScan, tbleVars
  <2>2. CASE start_scan("tble")
    BY <1>1, <2>1, <2>2 DEF Threads
  <2>3. CASE peripheral # None
    BY <2>1, <2>3 DEF OneAtATime, ScanInv
  <2>4. QED
    BY <1>9, <2>2, <2>3 DEF DropPersistScan
<1>10. CASE DropDisableReconnect
  <2>1. UNCHANGED <<connecting_peripheral, peripheral>>
    BY <1>10 DEF DropDisableReconnect, tbleVars
  <2>2. CASE start_scan("tble")
    BY <1>1, <2>1, <2>2 DEF Threads
  <2>3. CASE disable_reconnect' # 0 \/ wanted' = FALSE
    BY <2>1, <2>3 DEF OneAtATime, ScanInv
  <2>4. QED
    BY <1>10, <2>2, <2>3 DEF DropDisableReconnect
<1>11. ASSUME NEW require \in BOOLEAN, TakeDisableReconnect(require)
       PROVE  (OneAtATime /\ ScanInv)'
  <2>1. disable_reconnect' # 0
    BY <1>11 DEF TakeDisableReconnect, BleTypeOK
  <2>2. QED
    BY <1>11, <2>1 DEF TakeDisableReconnect, tbleVars, OneAtATime, ScanInv
<1>12. CASE DisconnectPeripheral \/ ClearConnector
  BY <1>2, <1>12 DEF DisconnectPeripheral, ClearConnector, scanLocks, OneAtATime
<1>13. CASE DidEnterBackground
  <2>1. UNCHANGED <<connecting_peripheral, peripheral, disable_reconnect>>
    BY <1>13 DEF DidEnterBackground, tbleVars, scanLocks
  <2>2. CASE Free
    BY <1>1, <1>13, <2>1, <2>2 DEF DidEnterBackground, Threads
  <2>3. CASE ~Free
    BY <1>2, <1>13, <2>1, <2>3 DEF DidEnterBackground, NoScan, OneAtATime
  <2>4. QED
    BY <2>2, <2>3
<1>14. CASE DidEnterForeground
  BY <1>14 DEF DidEnterForeground, tbleVars, scanLocks, OneAtATime, ScanInv, Idle, AtRest
<1>15. CASE ArmConnect
  <2>1. ~AtRest'
    BY <1>15 DEF ArmConnect, AtRest, NotArming
  <2>2. QED
    BY <1>15, <2>1 DEF ArmConnect, tbleVars, OneAtATime, ScanInv
<1>16. CASE ArmAssign
  BY <1>16 DEF ArmAssign, tbleVars, OneAtATime, ScanInv
<1>17. CASE \/ ThresholdPasses \/ HandleBackground \/ BlePlay \/ BleCheck \/ BleClear
            \/ UNCHANGED vars
  BY <1>2, <1>17 DEF ThresholdPasses, HandleBackground, BlePlay, BleCheck, BleClear, vars, tbleVars, scanLocks, OneAtATime
<1>18. QED
  BY <1>3, <1>4, <1>5, <1>6, <1>7, <1>8, <1>9, <1>10, <1>11, <1>12, <1>13, <1>14, <1>15, <1>16,
     <1>17 DEF Next, Events, App

\* A lost peripheral is scanned for, however persistent scans and locks against
\* reconnecting are nested and whatever events come between.
THEOREM ScanWhenLostAlways == Spec => []ScanWhenLost
<1>1. Init => OneAtATime /\ ScanInv
  BY DEF Init, OneAtATime, ScanInv
<1>2. TypeOK /\ OneAtATime /\ ScanInv /\ [Next]_vars => (OneAtATime /\ ScanInv)'
  BY ScanKeeps
<1>3. ScanInv => ScanWhenLost
  BY DEF ScanInv, ScanWhenLost, Free, Idle, AtRest
<1>4. QED
  BY <1>1, <1>2, <1>3, TypesBle, PTL DEF Spec

-----------------------------------------------------------------------------
(* The reconnect detection, when no flag is cleared while they are set.     *)

\* Inside background_reconnect_detect(true) the time is set and the id is not; the
\* callback is registered before its id is assigned.
ArmingInv ==
  /\ ~AtRest => background_id = Invalid /\ background_scan_ticks = "pending"
  /\ arming[2] = "assign" =>
       background_callback_id \in Ids /\ callbacks[background_callback_id] = "ble"

\* DetectorRegistered, also when the program has ended.
RegisteredInv ==
  AtRest =>
    /\ background_id # Invalid => callbacks[background_id] = "ble"
    /\ background_id # Invalid <=> background_scan_ticks # "off"

DetectInv == ArmingInv /\ RegisteredInv

\* A detection that is armed begins without a peripheral and without an id.
LEMMA StartScanArms ==
  ASSUME TypeOK, DetectInv, AtRest, NEW t \in Threads, start_scan(t),
         UNCHANGED background_id,
         \A id \in Ids : callbacks[id] = "ble" => callbacks'[id] = "ble"
  PROVE  DetectInv'
<1>1. background_id \in Ids \cup {Invalid}
  BY TypesByPart DEF BleTypeOK
<1>2. RegisteredInv
  BY DEF DetectInv
<1>3. CASE /\ Free' /\ background_id' = Invalid
           /\ arming' = <<t, "connect">> /\ background_scan_ticks' = "pending"
  <2>1. ~AtRest' /\ arming'[2] # "assign"
    BY <1>3 DEF AtRest, NotArming
  <2>2. ArmingInv' /\ RegisteredInv'
    BY <1>3, <2>1 DEF ArmingInv, RegisteredInv
  <2>3. QED
    BY <2>2 DEF DetectInv
<1>4. CASE UNCHANGED <<arming, background_scan_ticks>>
  <2>1. AtRest' /\ arming'[2] # "assign"
    BY <1>4 DEF AtRest, NotArming
  <2>2. ArmingInv'
    BY <2>1 DEF ArmingInv
  <2>3. RegisteredInv'
    BY <1>1, <1>2, <1>4 DEF RegisteredInv, Invalid, AtRest
  <2>4. QED
    BY <2>2, <2>3 DEF DetectInv
<1>5. QED
  BY <1>3, <1>4 DEF start_scan

\* What leaves the flags and the callbacks of tble alone.
LEMMA DetectStutter ==
  ASSUME TypeOK, DetectInv,
         UNCHANGED <<arming, background_id, background_scan_ticks, background_callback_id>>,
         \A id \in Ids : callbacks[id] = "ble" => callbacks'[id] = "ble"
  PROVE  DetectInv'
<1>1. background_id \in Ids \cup {Invalid}
  BY TypesByPart DEF BleTypeOK
<1>2. ArmingInv'
  BY DEF DetectInv, ArmingInv, AtRest, NotArming
<1>3. RegisteredInv'
  BY <1>1 DEF DetectInv, RegisteredInv, AtRest, Invalid
<1>4. QED
  BY <1>2, <1>3 DEF DetectInv

\* The two threads keep it.
LEMMA DetectKeeps ==
  ASSUME ~StartInterrupted, TypeOK, IdInv, DetectInv, [Next]_vars
  PROVE  DetectInv'
<1> USE TypesByPart
<1>1. background_id \in Ids \cup {Invalid} /\ BackgroundTypeOK
  BY DEF BleTypeOK
<1>2. ASSUME NEW p \in Peripherals, LinkUp(p) \/ LinkFails(p) \/ LinkLost(p) \/ LinkClosed(p)
      PROVE  DetectInv'
  BY <1>2, DetectStutter DEF LinkUp, LinkFails, LinkLost, LinkClosed, Radio, tbleVars, detectVars,
     backgroundVars
<1>3. ASSUME NEW p \in Peripherals, DidDiscover(p) \/ DidRelease(p) \/ ConnectPeripheral(p)
      PROVE  DetectInv'
  BY <1>3, DetectStutter DEF DidDiscover, DidRelease, ConnectPeripheral, detectVars, backgroundVars
<1>4. CASE StopScan \/ DisconnectPeripheral \/ ClearConnector \/ UNCHANGED vars
           \/ \E require \in BOOLEAN : TakeDisableReconnect(require)
  BY <1>4, DetectStutter DEF StopScan, DisconnectPeripheral, ClearConnector, TakeDisableReconnect,
     vars, tbleVars, detectVars, backgroundVars
<1>5. ASSUME NEW e \in Event, DidConnect(e)
      PROVE  DetectInv'
  <2>1. AtRest /\ arming' = arming /\ background_scan_ticks' = "off" /\ background_id' = Invalid
    BY <1>5 DEF DidConnect, Deliver, stop_detect, Idle, AtRest
  <2>2. QED
    BY <2>1 DEF DetectInv, ArmingInv, RegisteredInv, AtRest, NotArming
<1>6. ASSUME NEW e \in Event, DidDisconnect(e)
      PROVE  DetectInv'
  <2>1. AtRest /\ UNCHANGED <<background_id, callbacks, background_callback_id>>
    BY <1>6 DEF DidDisconnect, Deliver, backgroundVars, Idle, AtRest
  <2>2. CASE disable_reconnect = 0
    BY <1>6, <2>1, <2>2, StartScanArms DEF DidDisconnect, Threads
  <2>3. CASE disable_reconnect # 0
    <3>1. UNCHANGED <<arming, background_scan_ticks>>
      BY <1>6, <2>3 DEF DidDisconnect, NoScan
    <3>2. QED
      BY <1>1, <2>1, <3>1 DEF DetectInv, ArmingInv, RegisteredInv, AtRest,
         NotArming
  <2>4. QED
    BY <2>2, <2>3
<1>7. CASE StartScan \/ TakePersistScan
  BY <1>7, StartScanArms DEF StartScan, TakePersistScan, backgroundVars, Threads, Idle, AtRest
<1>8. CASE DropPersistScan \/ DropDisableReconnect
  <2>1. AtRest /\ UNCHANGED <<background_id, callbacks, background_callback_id>>
    BY <1>8 DEF DropPersistScan, DropDisableReconnect, backgroundVars, Idle, AtRest
  <2>2. start_scan("tble") \/ UNCHANGED <<arming, background_scan_ticks>>
    BY <1>8 DEF DropPersistScan, DropDisableReconnect, NoScan
  <2>3. QED
    BY <2>1, <2>2, StartScanArms, DetectStutter DEF Threads
<1>9. CASE DidEnterBackground
  <2> DEFINE id == get_callback_id(background_callback_id)
  <2>1. AtRest /\ UNCHANGED background_id
    BY <1>9 DEF DidEnterBackground, Idle, AtRest
  <2>2. callbacks' = callbacks
        \/ (IdLeft /\ callbacks' = [callbacks EXCEPT ![id] = "app"])
    BY <1>9 DEF DidEnterBackground, did_enter_background
  <2>3. IdLeft => id \in Ids \ Registered(callbacks)
    BY <1>1, FreshId
  <2> HIDE DEF id
  <2>4. \A i \in Ids : callbacks[i] = "ble" => callbacks'[i] = "ble"
    BY <1>1, <2>2, <2>3 DEF Registered, BackgroundTypeOK
  <2>5. CASE Free
    BY <1>9, <2>1, <2>4, <2>5, StartScanArms DEF DidEnterBackground, Threads
  <2>6. CASE ~Free
    <3>1. UNCHANGED <<arming, background_scan_ticks>>
      BY <1>9, <2>6 DEF DidEnterBackground, NoScan
    <3>2. QED
      BY <1>1, <2>1, <2>4, <3>1 DEF DetectInv, ArmingInv, RegisteredInv,
         AtRest, NotArming, Invalid
  <2>7. QED
    BY <2>5, <2>6
<1>10. CASE DidEnterForeground
  <2>1. AtRest /\ UNCHANGED arming /\ background_id' = Invalid /\ background_scan_ticks' = "off"
    BY <1>10 DEF DidEnterForeground, Interrupts, Idle, AtRest
  <2>2. QED
    BY <2>1 DEF DetectInv, ArmingInv, RegisteredInv, AtRest, NotArming
<1>11. CASE ThresholdPasses
  BY <1>11 DEF ThresholdPasses, backgroundVars, DetectInv, ArmingInv, RegisteredInv,
     AtRest, NotArming
<1>12. CASE ArmConnect
  <2> DEFINE id == get_callback_id(background_callback_id)
  <2>1. id \in Ids
    BY <1>1, <1>12, FreshId DEF ArmConnect, IdInv
  <2>2. callbacks' = [callbacks EXCEPT ![id] = "ble"] /\ background_callback_id' = id
        /\ UNCHANGED detectVars /\ arming[2] = "connect"
        /\ arming' = <<arming[1], "assign">>
    BY <1>12 DEF ArmConnect, background_connect
  <2> HIDE DEF id
  <2>3. ~AtRest /\ ~AtRest'
    BY <2>2 DEF AtRest, NotArming
  <2>4. callbacks'[id] = "ble"
    BY <1>1, <2>1, <2>2 DEF BackgroundTypeOK
  <2>5. QED
    BY <2>1, <2>2, <2>3, <2>4 DEF DetectInv, ArmingInv, RegisteredInv,
       detectVars
<1>13. CASE ArmAssign
  <2>1. ~AtRest /\ AtRest' /\ arming[2] = "assign" /\ arming' = NotArming
        /\ background_id' = background_callback_id
        /\ UNCHANGED <<callbacks, background_scan_ticks>>
    BY <1>13 DEF ArmAssign, AtRest, NotArming, backgroundVars
  <2>2. background_id' # Invalid /\ callbacks[background_id'] = "ble"
        /\ background_scan_ticks = "pending"
    BY <2>1 DEF DetectInv, ArmingInv, Ids, Invalid
  <2>3. QED
    BY <2>1, <2>2 DEF DetectInv, ArmingInv, RegisteredInv, NotArming
<1>14. CASE HandleBackground
  <2> DEFINE mine == Of("ble")
  <2>1. PICK erase \in SUBSET Of("app") :
          handle_background(erase \cup (IF BleDone THEN mine ELSE {}))
    BY <1>14 DEF HandleBackground
  <2>2. UNCHANGED <<arming, background_id, background_scan_ticks, background_callback_id>>
    BY <1>14, <2>1 DEF HandleBackground, detectVars, handle_background
  <2>3. CASE BleDone
    <3>1. AtRest /\ background_id = Invalid /\ background_scan_ticks = "off"
      BY <2>3 DEF BleDone, DetectInv, ArmingInv
    <3>2. QED
      BY <2>2, <3>1 DEF DetectInv, ArmingInv, RegisteredInv, AtRest, NotArming
  <2>4. CASE ~BleDone
    <3>1. \A id \in Ids : callbacks[id] = "ble" => callbacks'[id] = "ble"
      BY <2>1, <2>4 DEF handle_background, Of
    <3>2. QED
      BY <2>2, <3>1, DetectStutter
  <2>5. QED
    BY <2>3, <2>4
<1>15. CASE BlePlay \/ BleCheck
  BY <1>15, DetectStutter DEF BlePlay, BleCheck, detectVars, backgroundVars
<1>16. CASE BleClear
  <2>1. AtRest /\ UNCHANGED arming /\ background_id' = Invalid /\ background_scan_ticks' = "off"
    BY <1>16 DEF BleClear, Interrupts, Idle, AtRest
  <2>2. QED
    BY <2>1 DEF DetectInv, ArmingInv, RegisteredInv, AtRest, NotArming
<1>17. QED
  BY <1>2, <1>3, <1>4, <1>5, <1>6, <1>7, <1>8, <1>9, <1>10, <1>11, <1>12, <1>13, <1>14, <1>15,
     <1>16 DEF Next, Events, App

\* The flags of the detection, in every state of every behaviour.
LEMMA Detection == ~StartInterrupted => (Spec => []DetectInv)
<1> SUFFICES ASSUME ~StartInterrupted PROVE Spec => []DetectInv
  OBVIOUS
<1>1. Init => DetectInv
  BY DEF Init, DetectInv, ArmingInv, RegisteredInv, AtRest, NotArming
<1>2. TypeOK /\ IdInv /\ DetectInv /\ [Next]_vars => DetectInv'
  BY DetectKeeps
<1>3. QED
  BY <1>1, <1>2, Typed, PTL DEF Spec

\* A running detection has its callback and its time, although the thread of the
\* callbacks takes both away when it is over.
THEOREM DetectorRegisteredAlways == ~StartInterrupted => (Spec => []DetectorRegistered)
<1>1. DetectInv => DetectorRegistered
  BY DEF DetectInv, RegisteredInv, DetectorRegistered, Idle, AtRest
<1>2. QED
  BY <1>1, Detection, PTL

\* A detection that is started finds no peripheral.
LEMMA StartScanLost ==
  ASSUME AlarmOnlyWhenLost, arming = NotArming, NEW t \in Threads, start_scan(t),
         UNCHANGED <<background_id, alarm, judging>>,
         peripheral' \in {peripheral, None}
  PROVE  AlarmOnlyWhenLost'
<1>1. (arming' # NotArming \/ background_id' # Invalid) => peripheral' = None
  BY DEF AlarmOnlyWhenLost, start_scan, Free
<1>2. (alarm /\ peripheral # None => Aborted \/ (judging[1] = "check" /\ background_id = Invalid))'
  BY DEF AlarmOnlyWhenLost, Aborted
<1>3. QED
  BY <1>1, <1>2 DEF AlarmOnlyWhenLost

\* What leaves the alarm and its callback alone; the flags may be cleared.
LEMMA AlarmStutter ==
  ASSUME AlarmOnlyWhenLost, UNCHANGED <<alarm, judging, peripheral>>,
         background_id' \in {background_id, Invalid},
         arming' # NotArming => arming # NotArming
  PROVE  AlarmOnlyWhenLost'
BY DEF AlarmOnlyWhenLost, Aborted

\* The two threads keep the alarm to lost connections, wherever they meet.
LEMMA AlarmKeeps ==
  ASSUME TypeOK, AlarmOnlyWhenLost, [Next]_vars
  PROVE  AlarmOnlyWhenLost'
<1>1. ASSUME NEW p \in Peripherals,
             \/ LinkUp(p) \/ LinkFails(p) \/ LinkLost(p) \/ LinkClosed(p)
             \/ DidDiscover(p) \/ DidRelease(p) \/ ConnectPeripheral(p)
      PROVE  AlarmOnlyWhenLost'
  BY <1>1, AlarmStutter DEF LinkUp, LinkFails, LinkLost, LinkClosed, Radio, DidDiscover,
     DidRelease, ConnectPeripheral, tbleVars, detectVars
<1>2. ASSUME NEW e \in Event, DidConnect(e)
      PROVE  AlarmOnlyWhenLost'
  <2>1. arming = NotArming /\ arming' = arming /\ background_id' = Invalid
        /\ alarm' = (alarm /\ peripheral' = None)
    BY <1>2 DEF DidConnect, Deliver, Idle, stop_detect
  <2>2. alarm' => peripheral' = None
    BY <2>1
  <2>3. QED
    BY <2>1, <2>2 DEF AlarmOnlyWhenLost
<1>3. ASSUME NEW e \in Event, DidDisconnect(e)
      PROVE  AlarmOnlyWhenLost'
  <2>1. arming = NotArming /\ UNCHANGED <<background_id, alarm, judging>>
        /\ peripheral' \in {peripheral, None}
    BY <1>3 DEF DidDisconnect, Deliver, Idle
  <2>2. CASE start_scan("tble")
    BY <2>1, <2>2, StartScanLost DEF Threads
  <2>3. CASE UNCHANGED arming
    BY <2>1, <2>3 DEF AlarmOnlyWhenLost, Aborted
  <2>4. QED
    BY <1>3, <2>2, <2>3 DEF DidDisconnect, NoScan
<1>4. CASE StartScan \/ TakePersistScan \/ DropPersistScan \/ DropDisableReconnect
           \/ DidEnterBackground
  <2>1. arming = NotArming /\ UNCHANGED <<background_id, alarm, judging, peripheral>>
    BY <1>4 DEF StartScan, TakePersistScan, DropPersistScan, DropDisableReconnect,
       DidEnterBackground, Idle, tbleVars
  <2>2. (\E t \in Threads : start_scan(t)) \/ UNCHANGED arming
    BY <1>4 DEF StartScan, TakePersistScan, DropPersistScan, DropDisableReconnect,
       DidEnterBackground, NoScan, Threads
  <2>3. QED
    BY <2>1, <2>2, StartScanLost, AlarmStutter
<1>5. CASE \/ StopScan \/ DisconnectPeripheral \/ ClearConnector \/ ThresholdPasses
           \/ DidEnterForeground \/ HandleBackground \/ UNCHANGED vars
           \/ \E require \in BOOLEAN : TakeDisableReconnect(require)
  <2>1. CASE HandleBackground
    <3>1. UNCHANGED <<alarm, peripheral, background_id, arming>> /\ judging = Out
      BY <2>1 DEF HandleBackground, tbleVars, detectVars
    <3>2. alarm => peripheral = None
      BY <3>1 DEF AlarmOnlyWhenLost, Aborted, Out
    <3>3. QED
      BY <3>1, <3>2 DEF AlarmOnlyWhenLost
  <2>2. CASE ~HandleBackground
    BY <1>5, <2>2, AlarmStutter DEF StopScan, DisconnectPeripheral, ClearConnector,
       ThresholdPasses, DidEnterForeground, TakeDisableReconnect, vars, tbleVars, detectVars
  <2>3. QED
    BY <2>1, <2>2
<1>6. CASE ArmConnect
  BY <1>6 DEF ArmConnect, NotArming, tbleVars, detectVars, AlarmOnlyWhenLost, Aborted
<1>7. CASE ArmAssign
  <2>1. arming # NotArming /\ UNCHANGED peripheral
    BY <1>7 DEF ArmAssign, NotArming, tbleVars
  <2>2. QED
    BY <2>1 DEF AlarmOnlyWhenLost
<1>8. CASE BlePlay
  <2>1. judging'[1] = "check" /\ UNCHANGED <<background_id, arming, peripheral>>
    BY <1>8 DEF BlePlay, tbleVars
  <2>2. QED
    BY <2>1 DEF AlarmOnlyWhenLost
<1>9. CASE BleCheck
  <2>1. judging'[1] = (IF background_id # Invalid THEN "clear" ELSE "aborted")
        /\ UNCHANGED <<alarm, background_id, arming, peripheral>>
    BY <1>9 DEF BleCheck, tbleVars, detectVars
  <2>2. QED
    BY <2>1 DEF AlarmOnlyWhenLost, Aborted
<1>10. CASE BleClear
  <2>1. judging[1] = "clear" /\ UNCHANGED <<alarm, arming, peripheral>> /\ background_id' = Invalid
    BY <1>10 DEF BleClear, tbleVars
  <2>2. alarm => peripheral = None
    BY <2>1 DEF AlarmOnlyWhenLost, Aborted
  <2>3. QED
    BY <2>1, <2>2 DEF AlarmOnlyWhenLost
<1>11. QED
  BY <1>1, <1>2, <1>3, <1>4, <1>5, <1>6, <1>7, <1>8, <1>9, <1>10 DEF Next, Events, App

\* No detection while there is a connection; and an alarm that comes too late,
\* because the connection came back inside background_callback, does not get
\* past the VALIDATE there.  Also when the flags are cleared while they are set.
THEOREM AlarmOnlyWhenLostAlways == Spec => []AlarmOnlyWhenLost
<1>1. Init => AlarmOnlyWhenLost
  BY DEF Init, AlarmOnlyWhenLost
<1>2. TypeOK /\ AlarmOnlyWhenLost /\ [Next]_vars => AlarmOnlyWhenLost'
  BY AlarmKeeps
<1>3. QED
  BY <1>1, <1>2, TypesBle, PTL DEF Spec

-----------------------------------------------------------------------------
(* The links, when the app is patient.                                      *)

Connected(p) == [type |-> "connect", of |-> p, error |-> FALSE]
Failed(p) == [type |-> "connect", of |-> p, error |-> TRUE]
Lost(p) == [type |-> "disconnect", of |-> p, error |-> TRUE]
Left(p) == [type |-> "disconnect", of |-> p, error |-> FALSE]

\* From the request to the event that answers it, which may be followed by the
\* end of the link already.  The request may have been cancelled.
Connecting(p) ==
  /\ peripheral = None
  /\ \/ events = <<>> /\ link[p] \in {"down", "connecting"}
     \/ events = <<Connected(p)>> /\ link[p] = "up"
     \/ events = <<Connected(p), Lost(p)>> /\ link[p] = "down"
     \/ events = <<Failed(p)>> /\ link[p] = "down"

\* From there to the event that tells of its end.
Closing(p) ==
  /\ connecting_peripheral = None
  /\ \/ events = <<>> /\ link[p] \in {"up", "leaving"} /\ (link[p] = "up" => peripheral = p)
     \/ events \in {<<Lost(p)>>, <<Left(p)>>} /\ link[p] = "down"

\* Everything that is under way is about p.
Current(p) ==
  /\ connector \in {None, p} /\ connecting_peripheral \in {None, p} /\ peripheral \in {None, p}
  /\ \A q \in Peripherals \ {p} : link[q] = "down"
  /\ Connecting(p) \/ Closing(p)

\* Queues of up to two events.
LEMMA ShortQueues ==
  ASSUME NEW e \in Event, NEW f \in Event
  PROVE  /\ Append(<<>>, e) = <<e>> /\ Append(<<e>>, f) = <<e, f>>
         /\ Head(<<e>>) = e /\ Tail(<<e>>) = <<>>
         /\ Head(<<e, f>>) = e /\ Tail(<<e, f>>) = <<f>>
         /\ <<e>> # <<>> /\ <<e, f>> # <<>>
         /\ 1 \in DOMAIN <<e>> /\ <<e>>[1] = e
         /\ 1 \in DOMAIN <<e, f>> /\ <<e, f>>[1] = e
<1>1. Append(<<>>, e) = <<e>>
  OBVIOUS
<1>2. Append(<<e>>, f) = <<e, f>>
  <2>1. <<e>> \in Seq(Event) /\ Len(<<e>>) = 1 /\ <<e>>[1] = e
    OBVIOUS
  <2>2. <<e, f>> \in Seq(Event) /\ Len(<<e, f>>) = 2 /\ <<e, f>>[1] = e /\ <<e, f>>[2] = f
    OBVIOUS
  <2>3. Append(<<e>>, f) \in Seq(Event) /\ Len(Append(<<e>>, f)) = 2
        /\ Append(<<e>>, f)[1] = e /\ Append(<<e>>, f)[2] = f
    BY <2>1
  <2>4. \A i \in 1 .. Len(<<e, f>>) : Append(<<e>>, f)[i] = <<e, f>>[i]
    BY <2>2, <2>3
  <2>5. QED
    BY <2>2, <2>3, <2>4, SeqEqual
<1>3. Head(<<e>>) = e /\ Tail(<<e>>) = <<>> /\ <<e>> # <<>>
  OBVIOUS
<1>4. Head(<<e, f>>) = e /\ Tail(<<e, f>>) = <<f>> /\ <<e, f>> # <<>>
  OBVIOUS
<1>5. 1 \in DOMAIN <<e>> /\ <<e>>[1] = e /\ 1 \in DOMAIN <<e, f>> /\ <<e, f>>[1] = e
  OBVIOUS
<1>6. QED
  BY <1>1, <1>2, <1>3, <1>4, <1>5

\* The events of a peripheral.
LEMMA EventsOf ==
  ASSUME NEW p \in Peripherals
  PROVE  /\ Connected(p) \in Event /\ Failed(p) \in Event /\ Lost(p) \in Event /\ Left(p) \in Event
         /\ Connected(p).type = "connect" /\ Connected(p).of = p /\ Connected(p).error = FALSE
         /\ Failed(p).type = "connect" /\ Failed(p).of = p /\ Failed(p).error = TRUE
         /\ Lost(p).type = "disconnect" /\ Lost(p).of = p /\ Lost(p).error = TRUE
         /\ Left(p).type = "disconnect" /\ Left(p).of = p /\ Left(p).error = FALSE
BY DEF Connected, Failed, Lost, Left, Event

\* Queues of these events.
LEMMA QueuesOf ==
  ASSUME NEW p \in Peripherals
  PROVE  /\ Append(<<>>, Connected(p)) = <<Connected(p)>>
         /\ Append(<<>>, Failed(p)) = <<Failed(p)>>
         /\ Append(<<>>, Lost(p)) = <<Lost(p)>>
         /\ Append(<<>>, Left(p)) = <<Left(p)>>
         /\ Append(<<Connected(p)>>, Lost(p)) = <<Connected(p), Lost(p)>>
         /\ Tail(<<Connected(p), Lost(p)>>) = <<Lost(p)>>
         /\ \A e \in {Connected(p), Failed(p), Lost(p), Left(p)} :
               /\ <<e>> # <<>> /\ Head(<<e>>) = e /\ Tail(<<e>>) = <<>>
               /\ 1 \in DOMAIN <<e>> /\ <<e>>[1] = e
         /\ <<Connected(p), Lost(p)>> # <<>>
         /\ Head(<<Connected(p), Lost(p)>>) = Connected(p)
         /\ 1 \in DOMAIN <<Connected(p), Lost(p)>> /\ <<Connected(p), Lost(p)>>[1] = Connected(p)
<1>1. Connected(p) \in Event /\ Failed(p) \in Event /\ Lost(p) \in Event /\ Left(p) \in Event
  BY EventsOf
<1>2. \A e \in {Connected(p), Failed(p), Lost(p), Left(p)} :
         /\ Append(<<>>, e) = <<e>>
         /\ <<e>> # <<>> /\ Head(<<e>>) = e /\ Tail(<<e>>) = <<>>
         /\ 1 \in DOMAIN <<e>> /\ <<e>>[1] = e
  BY <1>1, ShortQueues
<1>3. /\ Append(<<Connected(p)>>, Lost(p)) = <<Connected(p), Lost(p)>>
      /\ Tail(<<Connected(p), Lost(p)>>) = <<Lost(p)>>
      /\ <<Connected(p), Lost(p)>> # <<>>
      /\ Head(<<Connected(p), Lost(p)>>) = Connected(p)
      /\ 1 \in DOMAIN <<Connected(p), Lost(p)>> /\ <<Connected(p), Lost(p)>>[1] = Connected(p)
  BY <1>1, ShortQueues
<1>4. QED
  BY <1>2, <1>3

\* What is first in the queue is about p; if nothing in it is, it is empty.
LEMMA HeadOf ==
  ASSUME NEW p \in Peripherals, Current(p)
  PROVE  /\ events # <<>> => 1 \in DOMAIN events /\ events[1].of = p /\ Head(events).of = p
         /\ events # <<>> /\ Head(events).type = "connect" =>
              \/ events = <<Connected(p)>> /\ link[p] = "up" /\ peripheral = None
              \/ events = <<Connected(p), Lost(p)>> /\ link[p] = "down" /\ peripheral = None
              \/ events = <<Failed(p)>> /\ link[p] = "down" /\ peripheral = None
         /\ events # <<>> /\ Head(events).type = "disconnect" =>
              /\ events \in {<<Lost(p)>>, <<Left(p)>>}
              /\ link[p] = "down" /\ connecting_peripheral = None
<1>1. CASE events = <<>>
  BY <1>1
<1>2. CASE events = <<Connected(p)>> /\ link[p] = "up" /\ peripheral = None
  BY <1>2, QueuesOf, EventsOf
<1>3. CASE events = <<Connected(p), Lost(p)>> /\ link[p] = "down" /\ peripheral = None
  <2>1. Head(events) = Connected(p) /\ events # <<>> /\ 1 \in DOMAIN events /\ events[1] = Connected(p)
    BY <1>3, QueuesOf
  <2>2. Connected(p).type = "connect" /\ Connected(p).of = p
    BY EventsOf
  <2>3. QED
    BY <1>3, <2>1, <2>2
<1>4. CASE events = <<Failed(p)>> /\ link[p] = "down" /\ peripheral = None
  BY <1>4, QueuesOf, EventsOf
<1>5. ASSUME NEW e \in {Lost(p), Left(p)}, events = <<e>>
      PROVE  Head(events).type = "disconnect" /\ Head(events).of = p /\ events # <<>>
             /\ 1 \in DOMAIN events /\ events[1].of = p
  <2>1. Head(events) = e /\ events # <<>> /\ 1 \in DOMAIN events /\ events[1] = e
    BY <1>5, QueuesOf
  <2>2. e.type = "disconnect" /\ e.of = p
    BY DEF Lost, Left
  <2>3. QED
    BY <2>1, <2>2
<1>6. QED
  BY <1>1, <1>2, <1>3, <1>4, <1>5 DEF Current, Connecting, Closing

\* The radio.
LEMMA RadioCurrent ==
  ASSUME TypeOK, NEW p \in Peripherals, Current(p), NEW q \in Peripherals,
         LinkUp(q) \/ LinkFails(q) \/ LinkLost(q) \/ LinkClosed(q)
  PROVE  Current(p)'
<1> USE TypesByPart DEF RadioTypeOK
<1>1. q = p /\ UNCHANGED tbleVars
  BY DEF LinkUp, LinkFails, LinkLost, LinkClosed, Radio, Current
<1>2. \A to : link' = [link EXCEPT ![p] = to] =>
         link'[p] = to /\ \A r \in Peripherals \ {p} : link'[r] = "down"
  BY DEF Current
<1>3. CASE LinkUp(p)
  <2>1. link[p] = "connecting" /\ link' = [link EXCEPT ![p] = "up"]
        /\ events' = Append(events, Connected(p))
    BY <1>3 DEF LinkUp, Radio, Connected
  <2>2. events = <<>> /\ peripheral = None
    BY <2>1 DEF Current, Connecting, Closing
  <2>3. events' = <<Connected(p)>>
    BY <2>1, <2>2, QueuesOf, EventsOf
  <2>4. QED
    BY <1>1, <1>2, <2>1, <2>2, <2>3 DEF Current, Connecting, tbleVars
<1>4. CASE LinkFails(p)
  <2>1. link[p] = "connecting" /\ link' = [link EXCEPT ![p] = "down"]
        /\ events' = Append(events, Failed(p))
    BY <1>4 DEF LinkFails, Radio, Failed
  <2>2. events = <<>> /\ peripheral = None
    BY <2>1 DEF Current, Connecting, Closing
  <2>3. events' = <<Failed(p)>>
    BY <2>1, <2>2, QueuesOf, EventsOf
  <2>4. QED
    BY <1>1, <1>2, <2>1, <2>2, <2>3 DEF Current, Connecting, tbleVars
<1>5. CASE LinkLost(p)
  <2>1. link[p] = "up" /\ link' = [link EXCEPT ![p] = "down"]
        /\ events' = Append(events, Lost(p))
    BY <1>5 DEF LinkLost, Radio, Lost
  <2>2. CASE events = <<Connected(p)>> /\ peripheral = None
    <3>1. events' = <<Connected(p), Lost(p)>>
      BY <2>1, <2>2, QueuesOf, EventsOf
    <3>2. QED
      BY <1>1, <1>2, <2>1, <2>2, <3>1 DEF Current, Connecting, tbleVars
  <2>3. CASE events = <<>> /\ connecting_peripheral = None
    <3>1. events' = <<Lost(p)>>
      BY <2>1, <2>3, QueuesOf, EventsOf
    <3>2. QED
      BY <1>1, <1>2, <2>1, <2>3, <3>1 DEF Current, Closing, tbleVars
  <2>4. QED
    BY <2>1, <2>2, <2>3 DEF Current, Connecting, Closing
<1>6. CASE LinkClosed(p)
  <2>1. events' \in {Append(events, Lost(p)), Append(events, Left(p))}
    BY <1>6 DEF LinkClosed, Radio, Lost, Left
  <2>2. link[p] = "leaving" /\ link' = [link EXCEPT ![p] = "down"]
    BY <1>6 DEF LinkClosed, Radio
  <2>3. events = <<>> /\ connecting_peripheral = None
    BY <2>2 DEF Current, Connecting, Closing
  <2>4. events' \in {<<Lost(p)>>, <<Left(p)>>}
    BY <2>1, <2>3, QueuesOf, EventsOf
  <2>5. QED
    BY <1>1, <1>2, <2>2, <2>3, <2>4 DEF Current, Closing, tbleVars
<1>7. QED
  BY <1>1, <1>3, <1>4, <1>5, <1>6

\* The events.
LEMMA EventCurrent ==
  ASSUME TypeOK, NEW p \in Peripherals, Current(p), NEW e \in Event, DidConnect(e) \/ DidDisconnect(e)
  PROVE  Current(p)'
<1>0. DidDisconnect(e) => peripheral' = None
  <2> SUFFICES ASSUME DidDisconnect(e) PROVE peripheral' = None
    OBVIOUS
  <2>1. \/ peripheral' = None
        \/ peripheral = None /\ UNCHANGED peripheral
    BY DEF DidDisconnect
  <2>2. QED
    BY <2>1
<1> USE TypesByPart DEF RadioTypeOK
<1>1. events # <<>> /\ e = Head(events) /\ events' = Tail(events) /\ connector' = connector
  BY DEF DidConnect, DidDisconnect, Deliver
<1>2. e.of = p
  BY <1>1, HeadOf
<1>3. CASE DidConnect(e)
  <2>1. e.type = "connect" /\ (Accept(e) \/ CloseCancelled(e) \/ Fail(e))
    BY <1>3 DEF DidConnect
  <2>2. \/ UNCHANGED link
        \/ /\ CloseCancelled(e)
           /\ link' = [link EXCEPT ![p] = IF @ = "up" THEN "leaving" ELSE @]
    BY <1>2, <2>1 DEF Accept, CloseCancelled, Fail, Disconnect
  <2>3. \A q \in Peripherals \ {p} : link'[q] = "down"
    BY <2>2 DEF Current
  <2>4. CASE events = <<Failed(p)>> /\ link[p] = "down" /\ peripheral = None
    <3>1. e = Failed(p) /\ e.error = TRUE /\ events' = <<>>
      BY <1>1, <2>4, QueuesOf, EventsOf
    <3>2. Fail(e)
      BY <2>1, <3>1 DEF Accept, CloseCancelled
    <3>3. QED
      BY <1>1, <2>3, <2>4, <3>1, <3>2 DEF Current, Connecting, Fail
  <2>5. CASE \/ events = <<Connected(p)>> /\ link[p] = "up" /\ peripheral = None
             \/ events = <<Connected(p), Lost(p)>> /\ link[p] = "down" /\ peripheral = None
    <3>0. e = Connected(p)
      BY <1>1, <2>5, QueuesOf
    <3>1. e = Connected(p) /\ e.error = FALSE
      BY <3>0 DEF Connected
    <3>2. /\ connecting_peripheral' = None /\ peripheral' \in {None, p}
          /\ (peripheral' = p /\ UNCHANGED link) \/ CloseCancelled(e)
      BY <1>2, <2>1, <2>5, <3>1 DEF Accept, CloseCancelled, Fail
    <3>3. CASE events = <<Connected(p)>> /\ link[p] = "up"
      <4>1. events' = <<>>
        BY <1>1, <3>3, QueuesOf, EventsOf
      <4>2. (link'[p] = "up" /\ peripheral' = p) \/ link'[p] = "leaving"
        BY <2>2, <3>2, <3>3, <1>2 DEF CloseCancelled, Disconnect
      <4>3. QED
        BY <1>1, <2>3, <3>2, <4>1, <4>2 DEF Current, Closing
    <3>4. CASE events = <<Connected(p), Lost(p)>> /\ link[p] = "down"
      <4>1. events' = <<Lost(p)>>
        BY <1>1, <3>4, QueuesOf, EventsOf
      <4>2. link'[p] = "down"
        BY <2>2, <3>4
      <4>3. QED
        BY <1>1, <2>3, <3>2, <4>1, <4>2 DEF Current, Closing
    <3>5. QED
      BY <2>5, <3>3, <3>4
  <2>6. QED
    BY <1>1, <2>1, <2>4, <2>5, HeadOf
<1>4. CASE DidDisconnect(e)
  <2>1. e.type = "disconnect"
    BY <1>4 DEF DidDisconnect
  <2>6. connecting_peripheral' = connecting_peripheral /\ link' = link
    BY <1>4 DEF DidDisconnect
  <2>7. peripheral' = None
    BY <1>0, <1>4
  <2>2. events \in {<<Lost(p)>>, <<Left(p)>>}
    BY <1>1, <2>1, HeadOf
  <2>3. events' = <<>>
    BY <1>1, <2>2, QueuesOf, EventsOf
  <2>4. link[p] = "down" /\ peripheral' = None
    BY <1>1, <2>1, <2>7, HeadOf
  <2>5. QED
    BY <1>1, <2>6, <2>3, <2>4 DEF Current, Connecting
<1>5. QED
  BY <1>3, <1>4

\* Requests, and what the radio finds and forgets.
LEMMA RequestCurrent ==
  ASSUME Patient, TypeOK, NEW p \in Peripherals, Current(p), NEW q \in Peripherals,
         DidDiscover(q) \/ DidRelease(q) \/ ConnectPeripheral(q) \/ DisconnectPeripheral
  PROVE  \E r \in Peripherals : Current(r)'
<1> USE TypesByPart DEF RadioTypeOK
<1>1. p # None /\ q # None
  BY BleAssumption
<1>2. CASE DidDiscover(q)
  <2>1. q = p
    BY <1>1, <1>2 DEF DidDiscover, Current
  <2>2. events = <<>>
    BY <1>2, <2>1, HeadOf DEF DidDiscover
  <2>3. /\ link[p] \in {"down", "connecting"} /\ peripheral = None
        /\ connecting_peripheral' = p /\ connector' = p /\ UNCHANGED <<peripheral, events>>
        /\ link' = [link EXCEPT ![p] = IF @ = "down" THEN "connecting" ELSE @]
    BY <1>2, <2>1 DEF DidDiscover, connect, Connect, Free
  <2>4. Current(p)'
    BY <2>2, <2>3 DEF Current, Connecting
  <2>5. QED
    BY <2>4
<1>3. CASE ConnectPeripheral(q)
  <2>1. /\ events = <<>> /\ peripheral = None /\ \A r \in Peripherals : link[r] = "down"
        /\ connecting_peripheral' = q /\ connector' = q /\ UNCHANGED <<peripheral, events>>
        /\ link' = [link EXCEPT ![q] = IF @ = "down" THEN "connecting" ELSE @]
    BY <1>3 DEF ConnectPeripheral, Settled, connect, Connect, Free
  <2>2. Current(q)'
    BY <2>1 DEF Current, Connecting
  <2>3. QED
    BY <2>2
<1>4. CASE DidRelease(q)
  <2>1. /\ link[q] \in {"down", "connecting"} /\ UNCHANGED <<peripheral, connector, events>>
        /\ connecting_peripheral' \in {None, connecting_peripheral}
        /\ link' = [link EXCEPT ![q] = "down"]
    BY <1>4 DEF DidRelease
  <2>2. CASE q = p
    <3>1. events = <<>>
      BY <1>4, <2>2, HeadOf DEF DidRelease
    <3>2. peripheral = None
      BY <2>1, <2>2, <3>1 DEF Current, Connecting, Closing
    <3>3. Current(p)'
      BY <2>1, <2>2, <3>1, <3>2 DEF Current, Connecting
    <3>4. QED
      BY <3>3
  <2>3. CASE q # p
    <3>1. link'[p] = link[p] /\ \A r \in Peripherals \ {p} : link'[r] = "down"
      BY <2>1, <2>3 DEF Current
    <3>2. Current(p)'
      BY <2>1, <3>1 DEF Current, Connecting, Closing
    <3>3. QED
      BY <3>2
  <2>4. QED
    BY <2>2, <2>3
<1>5. CASE DisconnectPeripheral
  <2>1. UNCHANGED <<peripheral, connector, events>>
    BY <1>5 DEF DisconnectPeripheral
  <2>2. CASE peripheral # None
    <3>1. peripheral = p /\ UNCHANGED connecting_peripheral
          /\ link' = [link EXCEPT ![p] = IF @ = "up" THEN "leaving" ELSE @]
      BY <1>5, <2>2 DEF DisconnectPeripheral, Disconnect, Current
    <3>2. Closing(p)
      BY <2>2 DEF Current, Connecting
    <3>3. (\A r \in Peripherals \ {p} : link'[r] = "down") /\ link'[p] # "up"
          /\ (link[p] = "down" => link'[p] = "down")
          /\ (link[p] \in {"up", "leaving"} => link'[p] = "leaving")
      BY <3>1 DEF Current
    <3>4. Current(p)'
      BY <2>1, <3>1, <3>2, <3>3 DEF Current, Closing
    <3>5. QED
      BY <3>4
  <2>3. CASE peripheral = None
    <3>1. connecting_peripheral' = None /\ UNCHANGED link
      BY <1>5, <2>3 DEF DisconnectPeripheral
    <3>2. Current(p)'
      BY <2>1, <3>1 DEF Current, Connecting, Closing
    <3>3. QED
      BY <3>2
  <2>4. QED
    BY <2>2, <2>3
<1>6. QED
  BY <1>2, <1>3, <1>4, <1>5

\* Everything else leaves the links alone.
LEMMA OtherCurrent ==
  ASSUME NEW p \in Peripherals, Current(p),
         \/ ThresholdPasses \/ ArmConnect \/ ArmAssign \/ HandleBackground \/ UNCHANGED vars
         \/ BlePlay \/ BleCheck \/ BleClear
         \/ StartScan \/ StopScan \/ ClearConnector \/ TakePersistScan \/ DropPersistScan
         \/ DropDisableReconnect \/ DidEnterBackground \/ DidEnterForeground
         \/ (\E require \in BOOLEAN : TakeDisableReconnect(require))
  PROVE  Current(p)'
<1>1. UNCHANGED <<connecting_peripheral, peripheral, link, events>> /\ connector' \in {connector, None}
  BY DEF ThresholdPasses, ArmConnect, ArmAssign, HandleBackground, BlePlay, BleCheck, BleClear,
     vars, StartScan, StopScan,
     ClearConnector, TakePersistScan, DropPersistScan, DropDisableReconnect, DidEnterBackground,
     DidEnterForeground, TakeDisableReconnect, radioVars, tbleVars
<1>2. QED
  BY <1>1 DEF Current, Connecting, Closing

SomeCurrent == \E p \in Peripherals : Current(p)

\* At any time everything that is under way is about one peripheral.
LEMMA OneCurrent == Patient /\ Peripherals # {} => (Spec => []SomeCurrent)
<1> SUFFICES ASSUME Patient, Peripherals # {} PROVE Spec => []SomeCurrent
  OBVIOUS
<1>1. Init => SomeCurrent
  <2> SUFFICES ASSUME Init, NEW p \in Peripherals PROVE Current(p)
    BY DEF SomeCurrent
  <2>1. QED
    BY DEF Init, Current, Connecting
<1>2. TypeOK /\ SomeCurrent /\ [Next]_vars => SomeCurrent'
  <2> SUFFICES ASSUME TypeOK, [Next]_vars, NEW p \in Peripherals, Current(p)
               PROVE  \E r \in Peripherals : Current(r)'
    BY DEF SomeCurrent
  <2>1. QED
    BY RadioCurrent, EventCurrent, RequestCurrent, OtherCurrent DEF Next, Events, App
<1>3. QED
  BY <1>1, <1>2, TypesBle, PTL DEF Spec

\* The pointer to a peripheral is not kept past the end of its link, but for the
\* event on its way, if the app lets earlier links settle before it connects.
THEOREM PeripheralLinkedAlways == Patient /\ Peripherals # {} => (Spec => []PeripheralLinked)
<1>1. SomeCurrent => PeripheralLinked
  <2> SUFFICES ASSUME NEW p \in Peripherals, Current(p), peripheral = p
               PROVE  link[p] \in {"up", "leaving"} \/ Queued("disconnect", p)
    BY BleAssumption DEF SomeCurrent, PeripheralLinked, Current
  <2>1. Closing(p)
    BY BleAssumption DEF Current, Connecting
  <2>2. CASE link[p] = "down"
    <3>1. PICK e \in {Lost(p), Left(p)} : events = <<e>>
      BY <2>1, <2>2 DEF Closing
    <3>2. 1 \in DOMAIN events /\ events[1] = e
      BY <3>1, QueuesOf
    <3>3. e.type = "disconnect" /\ e.of = p
      BY DEF Lost, Left
    <3>4. QED
      BY <3>2, <3>3 DEF Queued
  <2>3. QED
    BY <2>1, <2>2 DEF Closing
<1>2. QED
  BY <1>1, OneCurrent, PTL

\* ... no link stays open without a pointer to it, not even a cancelled one,
THEOREM NoOrphanLinkAlways == Patient /\ Peripherals # {} => (Spec => []NoOrphanLink)
<1>1. SomeCurrent => NoOrphanLink
  <2> SUFFICES ASSUME NEW p \in Peripherals, Current(p), link[p] = "up"
               PROVE  peripheral = p \/ QueuedOk(p)
    BY DEF SomeCurrent, NoOrphanLink, Current
  <2>1. CASE events = <<Connected(p)>>
    <3>1. 1 \in DOMAIN events /\ events[1] = Connected(p)
      BY <2>1, QueuesOf, EventsOf
    <3>2. QED
      BY <3>1 DEF QueuedOk, Connected
  <2>2. CASE events # <<Connected(p)>>
    BY <2>2 DEF Current, Connecting, Closing
  <2>3. QED
    BY <2>1, <2>2
<1>2. QED
  BY <1>1, OneCurrent, PTL

\* ... and the assertions of the two event handlers of tble hold.
THEOREM EventsExpectedAlways == Patient /\ Peripherals # {} => (Spec => []EventsExpected)
<1>1. SomeCurrent => EventsExpected
  <2> SUFFICES ASSUME NEW p \in Peripherals, Current(p), events # <<>>
               PROVE  LET e == Head(events) IN
                      /\ e.type = "connect" /\ ~e.error =>
                           connecting_peripheral # None \/ peripheral = None
                      /\ e.type = "disconnect" => peripheral \in {None, e.of}
                      /\ e.type = "disconnect" /\ ~e.error /\ peripheral = None =>
                           connecting_peripheral = None
    BY DEF SomeCurrent, EventsExpected
  <2>1. Head(events).type = "connect" => peripheral = None
    BY HeadOf
  <2>2. Head(events).type = "disconnect" => connecting_peripheral = None
    BY HeadOf
  <2>3. peripheral \in {None, Head(events).of}
    BY HeadOf DEF Current
  <2>4. QED
    BY <2>1, <2>2, <2>3
<1>2. QED
  BY <1>1, OneCurrent, PTL
=============================================================================
