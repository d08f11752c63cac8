---------------------------- MODULE Application ----------------------------
(***************************************************************************)
(* The application's tasks around the Wi-Fi manager: the two callbacks of  *)
(* Application.cxx that turn its messages into the bits of syncEventGroup, *)
(* StatusLed, TimeSource with its SNTP callback, the MQTT client's data    *)
(* callback, and UartTx, which empties the streams the last three fill.    *)
(*                                                                         *)
(* A stream holds whole packets here: the pieces a packet is sent in are   *)
(* abstracted.  Time is abstracted too: a wait may time out at any moment. *)
(* The processor has one core, so a task that is ready runs before one of  *)
(* lower priority: that matters to StatusLed, which consumes a bit others  *)
(* wait for.                                                               *)
(*                                                                         *)
(* A definition called like another with Always, Unchecked, Kept or Lost   *)
(* added is a mutant: what the other would be with a plausible mistake.    *)
(***************************************************************************)
EXTENDS Naturals

CONSTANT TxSize        \* packets a stream has room for

ASSUME TxAssumption == TxSize \in Nat \ {0}

VARIABLES group,       \* syncEventGroup
          callback,    \* the second half of a callback that is in progress
          online,      \* external: what the manager's last callback was about
          led,         \* the branch StatusLed's loop is in
          time,        \* where TimeSource is
          woken,       \* how TimeSource's last wait ended
          shouldSendTime,
          prepareForCountdown,
          notified,    \* TimeSource has a notification pending
          mqtt,        \* where the MQTT client (its data callback) is
          tx,          \* packets in txStream0 and txStream1
          owed         \* history: a request has yet to be answered

wifiVars == <<group, callback, online>>
timeVars == <<time, woken>>
flagVars == <<shouldSendTime, prepareForCountdown, notified>>
vars == <<wifiVars, led, timeVars, flagVars, mqtt, tx, owed>>

Stream == {0, 1}
SyncEvents == {"ConnectedToWifi", "ConnectionFailed", "TimeIsSynchronized"}

TypeOK ==
  /\ group \in SUBSET SyncEvents
  /\ callback \in {"none", "connection", "disconnection"}
  /\ online \in BOOLEAN
  /\ led \in {"blink", "steady"}
  /\ time \in {"start", "wifi", "sntp", "delay", "check", "time0", "time1", "timeDone",
               "sync0", "sync1"}
  /\ woken \in {"timeout", "event"}
  /\ shouldSendTime \in BOOLEAN
  /\ prepareForCountdown \in BOOLEAN
  /\ notified \in BOOLEAN
  /\ mqtt \in {"start", "wifi", "idle", "data0", "data1", "filter", "prepare", "notify"}
  /\ tx \in [Stream -> 0..TxSize]
  /\ owed \in BOOLEAN

\* app_main has registered the callbacks; the tasks are about to be started.
Init ==
  /\ group = {} /\ callback = "none" /\ online = FALSE
  /\ led = "blink"
  /\ time = "start" /\ woken = "timeout"
  /\ shouldSendTime = FALSE /\ prepareForCountdown = FALSE /\ notified = FALSE
  /\ mqtt = "start"
  /\ tx = [s \in Stream |-> 0]
  /\ owed = FALSE

-----------------------------------------------------------------------------
\* The manager task calls the callbacks, one at a time.

\* Setting a bit releases the tasks that wait for it at once.
Release(now) == IF now = "wifi" THEN "sntp" ELSE now
ReleaseMqtt(now) == IF now = "wifi" THEN "idle" ELSE now

ClearFailedKept == UNCHANGED group
ClearFailed == group' = group \ {"ConnectionFailed"}

ConnectionCallback ==
  \/ /\ callback = "none"
     /\ ClearFailed
     /\ callback' = "connection"
     /\ UNCHANGED <<online, time, mqtt>>
  \/ /\ callback = "connection"
     /\ group' = group \cup {"ConnectedToWifi"}
     /\ time' = Release(time)
     /\ mqtt' = ReleaseMqtt(mqtt)
     /\ callback' = "none"
     /\ online' = TRUE

DisconnectionCallback ==
  \/ /\ callback = "none"
     /\ group' = group \ {"ConnectedToWifi"}
     /\ callback' = "disconnection"
     /\ UNCHANGED online
  \/ /\ callback = "disconnection"
     /\ group' = group \cup {"ConnectionFailed"}
     /\ callback' = "none"
     /\ online' = FALSE

Callbacks ==
  /\ \/ ConnectionCallback
     \/ DisconnectionCallback /\ UNCHANGED <<time, mqtt>>
  /\ UNCHANGED <<led, woken, flagVars, tx, owed>>

-----------------------------------------------------------------------------
\* StatusLed: it has the lowest priority, so it first runs when the others wait.

LedMayRunAlways == TRUE
LedMayRun == time # "start" /\ mqtt # "start"

StatusLed ==
  /\ LedMayRun
  /\ \/ led = "blink" /\ "ConnectedToWifi" \in group
        /\ group' = group \ {"ConnectedToWifi"} /\ led' = "steady"
     \/ led = "steady" /\ "ConnectionFailed" \in group
        /\ group' = group \ {"ConnectionFailed"} /\ led' = "blink"
  /\ UNCHANGED <<callback, online, timeVars, flagVars, mqtt, tx, owed>>

-----------------------------------------------------------------------------
\* TimeSource.

\* Both tasks first wait for the Wi-Fi, without clearing the bit.
StartTime ==
  /\ time = "start"
  /\ time' = IF "ConnectedToWifi" \in group THEN "sntp" ELSE "wifi"
  /\ UNCHANGED <<wifiVars, led, woken, flagVars, mqtt, tx, owed>>

StartMqtt ==
  /\ mqtt = "start"
  /\ mqtt' = IF "ConnectedToWifi" \in group THEN "idle" ELSE "wifi"
  /\ UNCHANGED <<wifiVars, led, timeVars, flagVars, tx, owed>>

\* SNTP's answer, asked for since TimeSource got out of its first wait.
OnTimeSync ==
  /\ time \notin {"start", "wifi"}
  /\ group' = group \cup {"TimeIsSynchronized"}
  /\ shouldSendTime' = TRUE
  /\ UNCHANGED <<callback, online, led, timeVars, prepareForCountdown, notified, mqtt, tx, owed>>

Synchronized ==
  /\ time = "sntp" /\ "TimeIsSynchronized" \in group
  /\ time' = "delay"
  /\ UNCHANGED <<wifiVars, led, woken, flagVars, mqtt, tx, owed>>

\* delayUntilEventOrTimeout
Delay ==
  /\ time = "delay"
  /\ time' = "check"
  /\ woken' = IF notified THEN "event" ELSE "timeout"
  /\ notified' = FALSE
  /\ UNCHANGED <<wifiVars, led, shouldSendTime, prepareForCountdown, mqtt, tx, owed>>

KeepTimeLost == shouldSendTime' = FALSE
KeepTime == UNCHANGED shouldSendTime

SkipSecond ==
  /\ time = "check" /\ prepareForCountdown
  /\ prepareForCountdown' = FALSE
  /\ KeepTime
  /\ time' = "delay"
  /\ UNCHANGED <<wifiVars, led, woken, notified, mqtt, tx, owed>>

StartSend ==
  /\ time = "check" /\ ~prepareForCountdown
  /\ time' = IF shouldSendTime THEN "time0" ELSE "sync0"
  /\ UNCHANGED <<wifiVars, led, woken, flagVars, mqtt, tx, owed>>

HasRoomUnchecked(s) == TRUE
HasRoom(s) == tx[s] < TxSize
Send(s) == HasRoom(s) /\ tx' = [tx EXCEPT ![s] = @ + 1]

\* sendTimePerUart and sendTimeSync wait for room in each stream.
SendTimePerUart ==
  /\ \/ time = "time0" /\ Send(0) /\ time' = "time1" /\ UNCHANGED owed
     \/ time = "time1" /\ Send(1) /\ time' = "timeDone" /\ owed' = FALSE
  /\ UNCHANGED <<wifiVars, led, woken, flagVars, mqtt>>

TimeSent ==
  /\ time = "timeDone"
  /\ shouldSendTime' = FALSE
  /\ time' = "delay"
  /\ UNCHANGED <<wifiVars, led, woken, prepareForCountdown, notified, mqtt, tx, owed>>

SendTimeSync ==
  /\ \/ time = "sync0" /\ Send(0) /\ time' = "sync1"
     \/ time = "sync1" /\ Send(1) /\ time' = "delay"
  /\ UNCHANGED <<wifiVars, led, woken, flagVars, mqtt, owed>>

SendingTime == time \in {"time0", "time1", "timeDone"}

\* A clock's request, as PacketProcessor::processPacket finds it.  It counts as
\* owed unless a time packet is being sent.
QueueTimeSend ==
  /\ shouldSendTime' = TRUE
  /\ owed' = (owed \/ ~SendingTime)
  /\ UNCHANGED <<wifiVars, led, timeVars, prepareForCountdown, notified, mqtt, tx>>

-----------------------------------------------------------------------------
\* MqttClient::dataCallback, in the MQTT library's task.

ReceiveData ==
  /\ mqtt = "idle"
  /\ mqtt' = "data0"
  /\ UNCHANGED <<wifiVars, led, timeVars, flagVars, tx, owed>>

ForwardData ==
  /\ \/ mqtt = "data0" /\ Send(0) /\ mqtt' = "data1"
     \/ mqtt = "data1" /\ Send(1) /\ mqtt' = "filter"
  /\ UNCHANGED <<wifiVars, led, timeVars, flagVars, owed>>

\* Only "start" and "resume" of a countdown go on.
DataForwarded ==
  /\ mqtt = "filter"
  /\ mqtt' \in {"idle", "prepare"}
  /\ UNCHANGED <<wifiVars, led, timeVars, flagVars, tx, owed>>

AlignTimeSyncToCountdown ==
  /\ \/ /\ mqtt = "prepare" /\ mqtt' = "notify"
        /\ prepareForCountdown' = TRUE /\ UNCHANGED notified
     \/ /\ mqtt = "notify" /\ mqtt' = "idle"
        /\ notified' = TRUE /\ UNCHANGED prepareForCountdown
  /\ UNCHANGED <<wifiVars, led, timeVars, shouldSendTime, tx, owed>>

\* UartTx takes what a stream holds, as far as its buffer has room.
UartTx(s) ==
  \E n \in 1..tx[s] :
    /\ tx' = [tx EXCEPT ![s] = @ - n]
    /\ UNCHANGED <<wifiVars, led, timeVars, flagVars, mqtt, owed>>

-----------------------------------------------------------------------------
TimeSource == \/ StartTime \/ Synchronized \/ Delay \/ SkipSecond \/ StartSend
              \/ SendTimePerUart \/ TimeSent \/ SendTimeSync
Mqtt == ForwardData \/ DataForwarded \/ AlignTimeSyncToCountdown

Next == \/ Callbacks \/ StatusLed
        \/ TimeSource \/ OnTimeSync \/ QueueTimeSend
        \/ StartMqtt \/ ReceiveData \/ Mqtt
        \/ \E s \in Stream : UartTx(s)

Spec == Init /\ [][Next]_vars

\* The scheduler runs every ready task (the manager's too, so a callback ends),
\* and waits with a timeout end.
Fairness ==
  /\ WF_vars(callback # "none" /\ Callbacks)
  /\ WF_vars(StatusLed) /\ WF_vars(TimeSource) /\ WF_vars(StartMqtt) /\ WF_vars(Mqtt)
  /\ \A s \in Stream : WF_vars(UartTx(s))

FairSpec == Spec /\ Fairness

-----------------------------------------------------------------------------
\* Properties.

\* Although StatusLed consumes the bits it reads, and the callbacks set and
\* clear them in two steps, the LED never rests in the wrong branch: when it
\* disagrees with the manager's last callback, the bit that ends the branch is
\* set.
LedHasNews ==
  callback = "none" =>
    /\ online /\ led = "blink" => "ConnectedToWifi" \in group
    /\ ~online /\ led = "steady" => "ConnectionFailed" \in group

\* StatusLed never takes the bit from TimeSource and the MQTT client: both start
\* to work once the Wi-Fi is connected, whenever they begin to wait for it.
TasksStart ==
  (<>[]online) => <>(time \notin {"start", "wifi"} /\ mqtt \notin {"start", "wifi"})

\* A clock's request leads to a time packet to both clocks, unless it comes
\* while one is being sent; countdown commands may only delay it.
RequestAnswered ==
  (<>[][~ReceiveData]_vars) =>
    [](owed /\ "TimeIsSynchronized" \in group => <>~owed)

\* "align time sync to countdown start/resume", "wait until next second": the
\* round that a countdown's notification starts sends no packet.
AlignmentWaits == [][StartSend => woken = "timeout"]_vars
=============================================================================
