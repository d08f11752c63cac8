------------------------- MODULE ApplicationProofs -------------------------
(***************************************************************************)
(* Proofs about Application, for streams of any size: its type invariant,  *)
(* and that the status LED never rests in the wrong branch.                *)
(***************************************************************************)
EXTENDS Application, TLAPS

-----------------------------------------------------------------------------
\* TypeOK holds of every reachable state: neither the tasks nor the callbacks
\* leave the places the model gives them, and no stream overflows.
THEOREM TypeCorrect == Spec => []TypeOK
<1>1. Init => TypeOK
  <2> SUFFICES ASSUME Init PROVE TypeOK
    OBVIOUS
  <2>1. group \in SUBSET SyncEvents /\ tx \in [Stream -> 0..TxSize]
    BY TxAssumption DEF Init
  <2> QED
    BY <2>1 DEF Init, TypeOK
<1>2. TypeOK /\ [Next]_vars => TypeOK'
  <2> SUFFICES ASSUME TypeOK, [Next]_vars PROVE TypeOK'
    OBVIOUS
  <2>1. CASE Callbacks
    <3>1. group' \in SUBSET SyncEvents
      BY <2>1 DEF TypeOK, Callbacks, ConnectionCallback, DisconnectionCallback, ClearFailed,
                  SyncEvents
    <3>2. callback' \in {"none", "connection", "disconnection"} /\ online' \in BOOLEAN
      BY <2>1 DEF TypeOK, Callbacks, ConnectionCallback, DisconnectionCallback
    <3>3. time' = time \/ time' = Release(time)
      BY <2>1 DEF Callbacks, ConnectionCallback
    <3>4. mqtt' = mqtt \/ mqtt' = ReleaseMqtt(mqtt)
      BY <2>1 DEF Callbacks, ConnectionCallback
    <3>5. UNCHANGED <<led, woken, flagVars, tx, owed>>
      BY <2>1 DEF Callbacks
    <3> QED
      BY <3>1, <3>2, <3>3, <3>4, <3>5 DEF TypeOK, Release, ReleaseMqtt, flagVars
  <2>2. CASE StatusLed
    BY <2>2 DEF TypeOK, StatusLed, timeVars, flagVars
  <2>3. CASE StartTime
    <3>1. time' \in {"wifi", "sntp"}
          /\ UNCHANGED <<wifiVars, led, woken, flagVars, mqtt, tx, owed>>
      BY <2>3 DEF StartTime
    <3> QED
      BY <3>1 DEF TypeOK, wifiVars, flagVars
  <2>4. CASE Synchronized
    <3>1. time' = "delay" /\ UNCHANGED <<wifiVars, led, woken, flagVars, mqtt, tx, owed>>
      BY <2>4, Zenon DEF Synchronized
    <3> QED
      BY <3>1 DEF TypeOK, wifiVars, flagVars
  <2>5. CASE Delay
    <3>1. /\ time' = "check" /\ woken' \in {"timeout", "event"} /\ notified' = FALSE
          /\ UNCHANGED <<wifiVars, led, shouldSendTime, prepareForCountdown, mqtt, tx, owed>>
      BY <2>5 DEF Delay
    <3> QED
      BY <3>1 DEF TypeOK, wifiVars
  <2>6. CASE SkipSecond
    <3>1. /\ time' = "delay" /\ prepareForCountdown' = FALSE
          /\ UNCHANGED <<wifiVars, led, woken, shouldSendTime, notified, mqtt, tx, owed>>
      BY <2>6, Zenon DEF SkipSecond, KeepTime
    <3> QED
      BY <3>1 DEF TypeOK, wifiVars
  <2>7. CASE StartSend
    <3>1. time' \in {"time0", "sync0"}
          /\ UNCHANGED <<wifiVars, led, woken, flagVars, mqtt, tx, owed>>
      BY <2>7 DEF StartSend
    <3> QED
      BY <3>1 DEF TypeOK, wifiVars, flagVars
  <2>8. CASE SendTimePerUart
    <3>1. owed' \in BOOLEAN
      BY <2>8 DEF TypeOK, SendTimePerUart
    <3>2. time' \in {"time1", "timeDone"} /\ tx' \in [Stream -> 0..TxSize]
      BY <2>8, TxAssumption DEF TypeOK, SendTimePerUart, Send, HasRoom, Stream
    <3>3. UNCHANGED <<wifiVars, led, woken, flagVars, mqtt>>
      BY <2>8 DEF SendTimePerUart
    <3> QED
      BY <3>1, <3>2, <3>3 DEF TypeOK, wifiVars, flagVars
  <2>9. CASE TimeSent
    <3>1. /\ time' = "delay" /\ shouldSendTime' = FALSE
          /\ UNCHANGED <<wifiVars, led, woken, prepareForCountdown, notified, mqtt, tx, owed>>
      BY <2>9, Zenon DEF TimeSent
    <3> QED
      BY <3>1 DEF TypeOK, wifiVars
  <2>10. CASE SendTimeSync
    BY <2>10, TxAssumption DEF TypeOK, SendTimeSync, Send, HasRoom, Stream, wifiVars, flagVars
  <2>11. CASE OnTimeSync
    <3>1. group' \in SUBSET SyncEvents
      BY <2>11 DEF TypeOK, OnTimeSync, SyncEvents
    <3> QED
      BY <2>11, <3>1 DEF TypeOK, OnTimeSync, timeVars
  <2>12. CASE QueueTimeSend
    <3>1. owed' \in BOOLEAN
      BY <2>12, Zenon DEF QueueTimeSend
    <3>2. shouldSendTime' \in BOOLEAN
      BY <2>12 DEF QueueTimeSend
    <3>3. UNCHANGED <<wifiVars, led, timeVars, prepareForCountdown, notified, mqtt, tx>>
      BY <2>12 DEF QueueTimeSend
    <3> QED
      BY <3>1, <3>2, <3>3 DEF TypeOK, wifiVars, timeVars
  <2>13. CASE StartMqtt
    BY <2>13 DEF TypeOK, StartMqtt, wifiVars, timeVars, flagVars
  <2>14. CASE ReceiveData
    BY <2>14 DEF TypeOK, ReceiveData, wifiVars, timeVars, flagVars
  <2>15. CASE ForwardData
    BY <2>15, TxAssumption
       DEF TypeOK, ForwardData, Send, HasRoom, Stream, wifiVars, timeVars, flagVars
  <2>16. CASE DataForwarded
    BY <2>16 DEF TypeOK, DataForwarded, wifiVars, timeVars, flagVars
  <2>17. CASE AlignTimeSyncToCountdown
    <3>1. prepareForCountdown' \in BOOLEAN /\ notified' \in BOOLEAN
      BY <2>17 DEF TypeOK, AlignTimeSyncToCountdown
    <3>2. mqtt' \in {"notify", "idle"}
      BY <2>17 DEF AlignTimeSyncToCountdown
    <3>3. UNCHANGED <<wifiVars, led, timeVars, shouldSendTime, tx, owed>>
      BY <2>17 DEF AlignTimeSyncToCountdown
    <3> QED
      BY <3>1, <3>2, <3>3 DEF TypeOK, wifiVars, timeVars
  <2>18. ASSUME NEW s \in Stream, UartTx(s) PROVE TypeOK'
    BY <2>18, TxAssumption DEF TypeOK, UartTx, wifiVars, timeVars, flagVars
  <2>19. CASE UNCHANGED vars
    BY <2>19 DEF TypeOK, vars, wifiVars, timeVars, flagVars
  <2> QED
    BY <2>1, <2>2, <2>3, <2>4, <2>5, <2>6, <2>7, <2>8, <2>9, <2>10, <2>11, <2>12, <2>13,
       <2>14, <2>15, <2>16, <2>17, <2>18, <2>19 DEF Next, TimeSource, Mqtt
<1> QED
  BY <1>1, <1>2, PTL DEF Spec

-----------------------------------------------------------------------------
\* LedHasNews is not inductive: it says nothing of a callback that is half done,
\* nor of the bit that is not set.
LedInv ==
  /\ led \in {"blink", "steady"}
  /\ callback \in {"none", "connection", "disconnection"}
  /\ callback = "connection" => "ConnectionFailed" \notin group
  /\ callback = "disconnection" => "ConnectedToWifi" \notin group
  /\ callback = "none" /\ online =>
       "ConnectionFailed" \notin group /\ (led = "blink" => "ConnectedToWifi" \in group)
  /\ callback = "none" /\ ~online =>
       "ConnectedToWifi" \notin group /\ (led = "steady" => "ConnectionFailed" \in group)

\* What the tasks other than the manager and the LED do to the group is at most
\* to set TimeIsSynchronized.
LEMMA OthersKeepLedInv ==
  ASSUME LedInv, UNCHANGED <<led, callback, online>>,
         group' \in {group, group \cup {"TimeIsSynchronized"}}
  PROVE  LedInv'
BY DEF LedInv

\* The status LED always has news: the bit that corrects a wrong branch is set,
\* however its loop interleaves with the halves of the manager's callbacks.
THEOREM LedCorrect == Spec => []LedHasNews
<1>1. Init => LedInv
  BY DEF Init, LedInv
<1>2. LedInv /\ [Next]_vars => LedInv'
  <2> SUFFICES ASSUME LedInv, [Next]_vars PROVE LedInv'
    OBVIOUS
  <2>1. CASE Callbacks
    BY <2>1 DEF LedInv, Callbacks, ConnectionCallback, DisconnectionCallback, ClearFailed
  <2>2. CASE StatusLed
    BY <2>2 DEF LedInv, StatusLed
  <2>3. CASE TimeSource
    BY <2>3, OthersKeepLedInv
       DEF TimeSource, StartTime, Synchronized, Delay, SkipSecond, StartSend, SendTimePerUart,
           TimeSent, SendTimeSync, wifiVars
  <2>4. CASE OnTimeSync
    BY <2>4, OthersKeepLedInv DEF OnTimeSync
  <2>5. CASE QueueTimeSend \/ StartMqtt \/ ReceiveData \/ Mqtt
    BY <2>5, OthersKeepLedInv
       DEF QueueTimeSend, StartMqtt, ReceiveData, Mqtt, ForwardData, DataForwarded,
           AlignTimeSyncToCountdown, wifiVars
  <2>6. CASE \E s \in Stream : UartTx(s)
    BY <2>6, OthersKeepLedInv DEF UartTx, wifiVars
  <2>7. CASE UNCHANGED vars
    BY <2>7, OthersKeepLedInv DEF vars, wifiVars
  <2> QED
    BY <2>1, <2>2, <2>3, <2>4, <2>5, <2>6, <2>7 DEF Next
<1>3. LedInv => LedHasNews
  BY DEF LedInv, LedHasNews
<1> QED
  BY <1>1, <1>2, <1>3, PTL DEF Spec
=============================================================================
