---------------------------- MODULE WifiManager ----------------------------
(***************************************************************************)
(* The Wi-Fi manager of the clock's central unit: one task that drains a   *)
(* queue of three messages, and the four tasks that fill the queue:        *)
(*   "manager"  the task itself, which posts to its own queue,             *)
(*   "events"   the event loop, which runs wifi_manager_event_handler,     *)
(*   "http"     the portal's web server (http_app.c), which runs the       *)
(*              request handlers,                                          *)
(*   "timers"   the timer daemon, which runs the two timer callbacks.      *)
(* A timer is started and stopped by commands to the daemon, which carries *)
(* them out when it comes to run.                                          *)
(* Every one of them posts with xQueueSend(..., portMAX_DELAY), so each may*)
(* be suspended holding a message: posting[t] is the message t is trying   *)
(* to post.  A handler that reads the event bits once and acts on the copy *)
(* later is two actions, with the copy in mgr.seen.                        *)
(*                                                                         *)
(* The Wi-Fi driver is external.  It is modelled by what the code relies   *)
(* on: a station that is idle, connecting or connected, an access point    *)
(* that is up in APSTA mode, a scan, and events for the event loop.        *)
(*                                                                         *)
(* A definition called like another with Unchecked, Missing, Kept, Always, *)
(* OffByOne, WithoutAp, ScanOnly, LinkOnly or OrDrop added is that one     *)
(* with a plausible bug.                                                   *)
(***************************************************************************)
EXTENDS Naturals, Sequences

CONSTANTS Network,         \* the pairs of ssid and password a user may enter
          NoNetwork,       \* the zeroed configuration
          QueueLength,     \* slots of wifi_manager_queue (3 in the code)
          TimerQueueLength,  \* slots of the timer daemon's queue (10 in sdkconfig)
          MaxRetry,        \* WIFI_MANAGER_MAX_RETRY_START_AP
          EventBound,      \* bound: driver events waiting for the event loop
          PortalRequests   \* requests the portal's user makes

ASSUME NetworkAssumption == NoNetwork \notin Network
ASSUME QueueAssumption   == QueueLength \in Nat \ {0}
ASSUME TimerAssumption   == TimerQueueLength \in Nat \ {0}
ASSUME RetryAssumption   == MaxRetry \in Nat
ASSUME BoundAssumption   == EventBound \in Nat \ {0}
ASSUME PortalAssumption  == PortalRequests \subseteq {"connect", "disconnect", "scan"}

VARIABLES queue,          \* wifi_manager_queue, oldest message first
          posting,        \* what each task is waiting to post
          mgr,            \* where the manager task is, and its copy of bits
          bits,           \* wifi_manager_event_group
          retries,        \* failed attempts since the last success
          retryTimer,     \* wifi_manager_retry_timer is running
          shutdownTimer,  \* wifi_manager_shutdown_ap_timer is running
          commands,       \* external: the timer daemon's queue, oldest first
          config,         \* wifi_manager_config_sta, in RAM
          nvs,            \* the configuration in flash
          status,         \* the reason code of ip_info_json, or "empty"
          staIp,          \* wifi_manager_sta_ip is not 0.0.0.0
          dns,            \* the captive portal's DNS task runs
          sta,            \* external: state of the driver's station
          mode,           \* external: mode of the driver
          scanning,       \* external: the driver is scanning
          events          \* external: events for the event loop, oldest first

managerVars == <<mgr, retries>>
timerVars   == <<retryTimer, shutdownTimer, commands>>
dataVars    == <<config, nvs, status, staIp>>
driverVars  == <<sta, mode, scanning, events>>
vars == <<queue, posting, managerVars, bits, timerVars, dataVars, dns, driverVars>>

-----------------------------------------------------------------------------
\* Messages: a message_code_t with the part of its parameter that is read.

Task     == {"manager", "events", "http", "timers"}
Requests == {"user", "auto", "restore"}
Reasons  == {"ASSOC_LEAVE", "CONNECT_FAILED", "BEACON_TIMEOUT"}

Message(code)      == [code |-> code, param |-> "none"]
ConnectSta(by)     == [code |-> "CONNECT_STA", param |-> by]
StaDisconnected(r) == [code |-> "STA_DISCONNECTED", param |-> r]

Orders  == {Message(c) : c \in {"START_WIFI_SCAN", "LOAD_AND_RESTORE_STA",
                                "DISCONNECT_STA", "START_AP", "STOP_AP"}}
             \cup {ConnectSta(by) : by \in Requests}
Reports == {Message(c) : c \in {"SCAN_DONE", "STA_GOT_IP"}}
             \cup {StaDisconnected(r) : r \in Reasons}
Messages  == Orders \cup Reports
NoMessage == Message("NONE")
Event     == Reports \cup {Message(c) : c \in {"AP_START", "AP_STOP"}}

\* Commands to the timer daemon.
Command == {Message(c) : c \in {"START_RETRY", "STOP_RETRY", "START_SHUTDOWN", "STOP_SHUTDOWN"}}

Bits == {"CONNECTED", "AP_STARTED", "REQUEST_STA_CONNECT",
         "REQUEST_RESTORE_STA", "REQUEST_DISCONNECT", "SCAN"}

\* Where the manager task is between two actions, the message it handles, and
\* those bits of its copy that the rest of the handler reads.
Places  == {"receive", "connect", "disconnected", "got_ip", "stop_ap", "restart_http"}
Receive == [pc |-> "receive", msg |-> NoMessage, seen |-> {}]
At(pc, msg, read) == [pc |-> pc, msg |-> msg, seen |-> bits' \cap read]

Statuses == {"empty", "CONNECTION_OK", "FAILED_ATTEMPT", "USER_DISCONNECT",
             "LOST_CONNECTION"}

TypeOK ==
  /\ queue \in Seq(Messages)
  /\ Len(queue) <= QueueLength
  /\ posting \in [Task -> Messages \cup {NoMessage}]
  /\ mgr \in [pc : Places, msg : Messages \cup {NoMessage}, seen : SUBSET Bits]
  /\ bits \in SUBSET Bits
  /\ retries \in 0..MaxRetry
  /\ retryTimer \in BOOLEAN
  /\ shutdownTimer \in BOOLEAN
  /\ commands \in Seq(Command)
  /\ Len(commands) <= TimerQueueLength
  /\ config \in Network \cup {NoNetwork}
  /\ nvs \in Network \cup {NoNetwork}
  /\ status \in Statuses
  /\ staIp \in BOOLEAN
  /\ dns \in BOOLEAN
  /\ sta \in {"idle", "connecting", "connected"}
  /\ mode \in {"STA", "APSTA"}
  /\ scanning \in BOOLEAN
  /\ events \in Seq(Event)

\* wifi_manager_start, then the task up to its loop: the driver is in station
\* mode, the web server runs, and the first message is being posted.
BootPosting == [t \in Task |-> IF t = "manager" THEN Message("LOAD_AND_RESTORE_STA")
                                              ELSE NoMessage]

Init ==
  /\ queue = << >>
  /\ posting = BootPosting
  /\ mgr = Receive
  /\ bits = {}
  /\ retries = 0
  /\ retryTimer = FALSE
  /\ shutdownTimer = FALSE
  /\ commands = << >>
  /\ config = NoNetwork
  /\ status = "empty"
  /\ staIp = FALSE
  /\ dns = FALSE
  /\ sta = "idle"
  /\ mode = "STA"
  /\ scanning = FALSE
  /\ events = << >>
  /\ nvs \in Network \cup {NoNetwork}

-----------------------------------------------------------------------------
\* Posting.  A task that calls wifi_manager_send_message has a message in
\* posting until the queue has room for it, and does nothing else meanwhile.

Free(t) == posting[t] = NoMessage
Post(t, m) == posting' = [posting EXCEPT ![t] = m]

DeliverOrDrop(t) ==
  /\ ~Free(t)
  /\ queue' = IF Len(queue) < QueueLength THEN Append(queue, posting[t]) ELSE queue
  /\ Post(t, NoMessage)
  /\ UNCHANGED <<managerVars, bits, timerVars, dataVars, dns, driverVars>>

Deliver(t) ==
  /\ ~Free(t)
  /\ Len(queue) < QueueLength
  /\ queue' = Append(queue, posting[t])
  /\ Post(t, NoMessage)
  /\ UNCHANGED <<managerVars, bits, timerVars, dataVars, dns, driverVars>>

\* xTimerStart and xTimerStop, with no ticks to wait: the command goes to the
\* daemon's queue, and is lost if that is full.
Order(command) ==
  commands' = IF Len(commands) < TimerQueueLength THEN Append(commands, Message(command))
                                                  ELSE commands

\* The manager at the top of its loop, with a message of this code to handle.
Take(code) ==
  /\ mgr.pc = "receive"
  /\ Free("manager")
  /\ queue # << >>
  /\ Head(queue).code = code
  /\ queue' = Tail(queue)

-----------------------------------------------------------------------------
\* The driver's calls, as the handlers use them.  A station that is busy or
\* has no ssid does not start an attempt; one that is idle has nothing to
\* disconnect, and then no event follows; a station that is connecting refuses
\* a scan, unless it is associated and waits for its address.

EspWifiConnect == sta' = IF sta = "idle" /\ config # NoNetwork THEN "connecting" ELSE sta

EspWifiDisconnect ==
  \/ sta = "idle" /\ UNCHANGED <<sta, events>>
  \/ /\ sta # "idle"
     /\ sta' = "idle"
     /\ events' = Append(events, StaDisconnected("ASSOC_LEAVE"))

EspWifiSetMode(m, event) ==
  /\ mode' = m
  /\ events' = IF mode = m THEN events ELSE Append(events, Message(event))

EspWifiScanStart ==
  \/ sta = "connecting" /\ UNCHANGED <<scanning, events>>
  \/ /\ scanning' = TRUE
     /\ events' = IF scanning THEN Append(events, Message("SCAN_DONE")) ELSE events

EspWifiScanStop ==
  /\ scanning' = FALSE
  /\ events' = IF scanning THEN Append(events, Message("SCAN_DONE")) ELSE events

-----------------------------------------------------------------------------
\* The manager's handlers.

\* The scan list is refreshed for the portal; nothing here depends on it.
ScanDone ==
  /\ Take("SCAN_DONE")
  /\ UNCHANGED <<posting, managerVars, bits, timerVars, dataVars, dns, driverVars>>

StartWifiScan ==
  /\ Take("START_WIFI_SCAN")
  /\ \/ "SCAN" \in bits /\ UNCHANGED <<bits, scanning, events>>
     \/ "SCAN" \notin bits /\ bits' = bits \cup {"SCAN"} /\ EspWifiScanStart
  /\ UNCHANGED <<posting, managerVars, timerVars, dataVars, dns, sta, mode>>

\* What follows from the saved configuration, or from there being none.
FirstOrderUnchecked == ConnectSta("restore")
FirstOrder == IF nvs # NoNetwork THEN ConnectSta("restore") ELSE Message("START_AP")

LoadAndRestoreSta ==
  /\ Take("LOAD_AND_RESTORE_STA")
  /\ config' = nvs
  /\ Post("manager", FirstOrder)
  /\ UNCHANGED <<managerVars, bits, timerVars, nvs, status, staIp, dns, driverVars>>

\* CONNECT_STA up to the copy of the bits ...
MarkRequest ==
  /\ Take("CONNECT_STA")
  /\ bits' = bits \cup (CASE Head(queue).param = "user"    -> {"REQUEST_STA_CONNECT"}
                          [] Head(queue).param = "restore" -> {"REQUEST_RESTORE_STA"}
                          [] OTHER                         -> {})
  /\ mgr' = At("connect", Head(queue), {"CONNECTED", "SCAN"})
  /\ UNCHANGED <<posting, retries, timerVars, dataVars, dns, driverVars>>

\* ... and the attempt, unless the copy says that the station is connected.
StartAttempt ==
  /\ mgr.pc = "connect"
  /\ mgr' = Receive
  /\ \/ "CONNECTED" \in mgr.seen /\ UNCHANGED <<sta, scanning, events>>
     \/ /\ "CONNECTED" \notin mgr.seen
        /\ EspWifiConnect
        /\ \/ "SCAN" \in mgr.seen /\ EspWifiScanStop
           \/ "SCAN" \notin mgr.seen /\ UNCHANGED <<scanning, events>>
  /\ UNCHANGED <<queue, posting, retries, bits, timerVars, dataVars, dns, mode>>

ClearIpKept == UNCHANGED staIp
ClearIp == staIp' = FALSE

\* Only a timer that runs is stopped; one whose start is still a command is not.
CancelShutdown == \/ shutdownTimer /\ Order("STOP_SHUTDOWN")
                  \/ ~shutdownTimer /\ UNCHANGED commands

\* STA_DISCONNECTED up to the copy of the bits ...
ForgetIp ==
  /\ Take("STA_DISCONNECTED")
  /\ ClearIp
  /\ CancelShutdown
  /\ bits' = bits
  /\ mgr' = At("disconnected", Head(queue),
             {"REQUEST_STA_CONNECT", "REQUEST_DISCONNECT", "AP_STARTED"})
  /\ UNCHANGED <<posting, retries, retryTimer, shutdownTimer, config, nvs, status, dns,
                 driverVars>>

\* ... and its three cases: a user's attempt failed, ...
AttemptFailed ==
  /\ mgr.pc = "disconnected"
  /\ "REQUEST_STA_CONNECT" \in mgr.seen
  /\ bits' = bits \ {"REQUEST_STA_CONNECT"}
  /\ status' = "FAILED_ATTEMPT"
  /\ mgr' = Receive
  /\ UNCHANGED <<queue, posting, retries, timerVars, config, nvs, staIp, dns, driverVars>>

RestartApMissing == UNCHANGED posting
RestartAp == Post("manager", Message("START_AP"))

\* ... a user asked to disconnect (the erased configuration may fail to reach
\* the flash: the result of wifi_manager_save_sta_config is not looked at), ...
UserDisconnected ==
  /\ mgr.pc = "disconnected"
  /\ mgr.seen \cap {"REQUEST_STA_CONNECT", "REQUEST_DISCONNECT"} = {"REQUEST_DISCONNECT"}
  /\ bits' = bits \ {"REQUEST_DISCONNECT"}
  /\ config' = NoNetwork
  /\ status' = "USER_DISCONNECT"
  /\ nvs' \in {NoNetwork, nvs}
  /\ RestartAp
  /\ mgr' = Receive
  /\ UNCHANGED <<queue, retries, timerVars, staIp, dns, driverVars>>

BelowThresholdOffByOne == retries <= MaxRetry
BelowThreshold == retries < MaxRetry

ScheduleRetryWithoutAp == IF "AP_STARTED" \in mgr.seen THEN UNCHANGED commands
                                                      ELSE Order("START_RETRY")
ScheduleRetry == Order("START_RETRY")

ReportLossMissing == UNCHANGED status
ReportLoss == status' = "LOST_CONNECTION"

\* ... or the connection was lost, or an attempt nobody waits for failed.
ConnectionLost ==
  /\ mgr.pc = "disconnected"
  /\ mgr.seen \cap {"REQUEST_STA_CONNECT", "REQUEST_DISCONNECT"} = {}
  /\ ReportLoss
  /\ ScheduleRetry
  /\ bits' = bits \ {"REQUEST_RESTORE_STA"}
  /\ \/ "AP_STARTED" \in mgr.seen /\ UNCHANGED <<retries, posting>>
     \/ "AP_STARTED" \notin mgr.seen /\ BelowThreshold /\ retries' = retries + 1
        /\ UNCHANGED posting
     \/ "AP_STARTED" \notin mgr.seen /\ ~BelowThreshold /\ retries' = 0
        /\ Post("manager", Message("START_AP"))
  /\ mgr' = Receive
  /\ UNCHANGED <<queue, retryTimer, shutdownTimer, config, nvs, staIp, dns, driverVars>>

StartAp ==
  /\ Take("START_AP")
  /\ EspWifiSetMode("APSTA", "AP_START")
  /\ bits' = bits
  /\ mgr' = At("restart_http", Head(queue), {})
  /\ UNCHANGED <<posting, retries, timerVars, dataVars, dns, sta, scanning>>

\* STOP_AP up to the copy of the bits ...
CheckConnected ==
  /\ Take("STOP_AP")
  /\ bits' = bits
  /\ mgr' = At("stop_ap", Head(queue), {"CONNECTED"})
  /\ UNCHANGED <<posting, retries, timerVars, dataVars, dns, driverVars>>

StillConnectedUnchecked == TRUE
StillConnected == "CONNECTED" \in mgr.seen

\* ... and the access point goes down, if the copy says it is connected.
StopAp ==
  /\ mgr.pc = "stop_ap"
  /\ \/ /\ StillConnected
        /\ EspWifiSetMode("STA", "AP_STOP")
        /\ dns' = FALSE
        /\ mgr' = [mgr EXCEPT !.pc = "restart_http", !.seen = {}]
     \/ /\ ~StillConnected
        /\ mgr' = Receive
        /\ UNCHANGED <<mode, events, dns>>
  /\ UNCHANGED <<queue, posting, retries, bits, timerVars, dataVars, sta, scanning>>

StartDnsAlways == TRUE
StartDns == mgr.msg.code = "START_AP"

\* http_app_stop waits for the web server's task to leave its handler; then
\* the server starts again, and with an access point the DNS task too.
RestartHttp ==
  /\ mgr.pc = "restart_http"
  /\ Free("http")
  /\ dns' = (dns \/ StartDns)
  /\ mgr' = Receive
  /\ UNCHANGED <<queue, posting, retries, bits, timerVars, dataVars, driverVars>>

\* STA_GOT_IP up to the new address ...
ReadIp ==
  /\ Take("STA_GOT_IP")
  /\ mgr' = [pc |-> "got_ip", msg |-> Head(queue),
             seen |-> bits \cap {"REQUEST_RESTORE_STA", "AP_STARTED"}]
  /\ bits' = bits \ {"REQUEST_STA_CONNECT"}
  /\ staIp' = TRUE
  /\ UNCHANGED <<posting, retries, timerVars, config, nvs, status, dns, driverVars>>

EndRestoreMissing == UNCHANGED bits
EndRestore == bits' = bits \ {"REQUEST_RESTORE_STA"}

ScheduleShutdownMissing == UNCHANGED commands
ScheduleShutdown == Order("START_SHUTDOWN")

\* ... and the rest.  Saving may fail, and nobody looks at the result.
GotIp ==
  /\ mgr.pc = "got_ip"
  /\ \/ "REQUEST_RESTORE_STA" \in mgr.seen /\ EndRestore /\ UNCHANGED nvs
     \/ "REQUEST_RESTORE_STA" \notin mgr.seen /\ nvs' \in {config, nvs} /\ UNCHANGED bits
  /\ retries' = 0
  /\ status' = "CONNECTION_OK"
  /\ dns' = FALSE
  /\ \/ "AP_STARTED" \in mgr.seen /\ ScheduleShutdown
     \/ "AP_STARTED" \notin mgr.seen /\ UNCHANGED commands
  /\ mgr' = Receive
  /\ UNCHANGED <<queue, posting, retryTimer, shutdownTimer, config, staIp, driverVars>>

DisconnectSta ==
  /\ Take("DISCONNECT_STA")
  /\ bits' = bits \cup {"REQUEST_DISCONNECT"}
  /\ EspWifiDisconnect
  /\ UNCHANGED <<posting, managerVars, timerVars, dataVars, dns, mode, scanning>>

Manager ==
  \/ ScanDone \/ StartWifiScan \/ LoadAndRestoreSta \/ MarkRequest \/ StartAttempt
  \/ ForgetIp \/ AttemptFailed \/ UserDisconnected \/ ConnectionLost
  \/ StartAp \/ CheckConnected \/ StopAp \/ RestartHttp
  \/ ReadIp \/ GotIp \/ DisconnectSta

-----------------------------------------------------------------------------
\* The event loop: wifi_manager_event_handler on the oldest driver event.

\* The bits the handler clears and sets for an event of each code.
ClearsScanOnly(code) == IF code \in {"SCAN_DONE", "STA_DISCONNECTED"} THEN {"SCAN"} ELSE {}
ClearsLinkOnly(code) == CASE code = "SCAN_DONE"        -> {"SCAN"}
                          [] code = "STA_DISCONNECTED" -> {"CONNECTED"}
                          [] code = "AP_STOP"          -> {"AP_STARTED"}
                          [] OTHER                     -> {}
Clears(code) == CASE code = "SCAN_DONE"        -> {"SCAN"}
                  [] code = "STA_DISCONNECTED" -> {"CONNECTED", "SCAN"}
                  [] code = "AP_STOP"          -> {"AP_STARTED"}
                  [] OTHER                     -> {}
Sets(code)   == CASE code = "STA_GOT_IP"       -> {"CONNECTED"}
                  [] code = "AP_START"         -> {"AP_STARTED"}
                  [] OTHER                     -> {}

HandleEvent ==
  /\ events # << >>
  /\ Free("events")
  /\ events' = Tail(events)
  /\ bits' = (bits \ Clears(Head(events).code)) \cup Sets(Head(events).code)
  /\ \/ Head(events) \in Reports /\ Post("events", Head(events))
     \/ Head(events) \notin Reports /\ UNCHANGED posting
  /\ UNCHANGED <<queue, managerVars, timerVars, dataVars, dns, sta, mode, scanning>>

-----------------------------------------------------------------------------
\* The timer daemon.  Both timers are one-shot, and both callbacks post, after a
\* command to stop the timer that has just expired.

RunCommand ==
  /\ commands # << >>
  /\ Free("timers")
  /\ commands' = Tail(commands)
  /\ retryTimer' = CASE Head(commands).code = "START_RETRY" -> TRUE
                     [] Head(commands).code = "STOP_RETRY"  -> FALSE
                     [] OTHER                               -> retryTimer
  /\ shutdownTimer' = CASE Head(commands).code = "START_SHUTDOWN" -> TRUE
                        [] Head(commands).code = "STOP_SHUTDOWN"  -> FALSE
                        [] OTHER                                  -> shutdownTimer
  /\ UNCHANGED <<queue, posting, managerVars, bits, dataVars, dns, driverVars>>

RetryTimerFires ==
  /\ retryTimer
  /\ Free("timers")
  /\ retryTimer' = FALSE
  /\ Order("STOP_RETRY")
  /\ Post("timers", ConnectSta("auto"))
  /\ UNCHANGED <<queue, managerVars, bits, shutdownTimer, dataVars, dns, driverVars>>

ShutdownTimerFires ==
  /\ shutdownTimer
  /\ Free("timers")
  /\ shutdownTimer' = FALSE
  /\ Order("STOP_SHUTDOWN")
  /\ Post("timers", Message("STOP_AP"))
  /\ UNCHANGED <<queue, managerVars, bits, retryTimer, dataVars, dns, driverVars>>

Daemon == RunCommand \/ RetryTimerFires \/ ShutdownTimerFires

-----------------------------------------------------------------------------
\* The web server.  A request reaches it over the access point or over the
\* network, while the server is not being restarted.

Serving == /\ mgr.pc # "restart_http"
           /\ Free("http")
           /\ mode = "APSTA" \/ sta = "connected"

\* POST connect.json
RequestConnect(n) ==
  /\ Serving /\ "connect" \in PortalRequests
  /\ config' = n
  /\ status' = "empty"
  /\ Post("http", ConnectSta("user"))
  /\ UNCHANGED <<queue, managerVars, bits, timerVars, nvs, staIp, dns, driverVars>>

\* DELETE connect.json
RequestDisconnect ==
  /\ Serving /\ "disconnect" \in PortalRequests
  /\ Post("http", Message("DISCONNECT_STA"))
  /\ UNCHANGED <<queue, managerVars, bits, timerVars, dataVars, dns, driverVars>>

\* GET ap.json
RequestScan ==
  /\ Serving /\ "scan" \in PortalRequests
  /\ Post("http", Message("START_WIFI_SCAN"))
  /\ UNCHANGED <<queue, managerVars, bits, timerVars, dataVars, dns, driverVars>>

Portal == (\E n \in Network : RequestConnect(n)) \/ RequestDisconnect \/ RequestScan

-----------------------------------------------------------------------------
\* The driver and the world.

Station(from, to, event) ==
  /\ sta = from
  /\ Len(events) < EventBound
  /\ sta' = to
  /\ events' = Append(events, event)
  /\ UNCHANGED <<queue, posting, managerVars, bits, timerVars, dataVars, dns, mode, scanning>>

AttemptSucceeds == Station("connecting", "connected", Message("STA_GOT_IP"))
AttemptFails    == Station("connecting", "idle", StaDisconnected("CONNECT_FAILED"))
LinkLost        == Station("connected", "idle", StaDisconnected("BEACON_TIMEOUT"))

ScanCompletes ==
  /\ scanning
  /\ Len(events) < EventBound
  /\ scanning' = FALSE
  /\ events' = Append(events, Message("SCAN_DONE"))
  /\ UNCHANGED <<queue, posting, managerVars, bits, timerVars, dataVars, dns, sta, mode>>

\* A reset at any moment: the flash is all that survives it.
PowerCycle ==
  /\ queue' = << >>
  /\ posting' = BootPosting
  /\ mgr' = Receive
  /\ bits' = {} /\ retries' = 0
  /\ retryTimer' = FALSE /\ shutdownTimer' = FALSE /\ commands' = << >>
  /\ config' = NoNetwork /\ status' = "empty" /\ staIp' = FALSE /\ dns' = FALSE
  /\ sta' = "idle" /\ mode' = "STA" /\ scanning' = FALSE /\ events' = << >>
  /\ UNCHANGED nvs

-----------------------------------------------------------------------------
Step ==
  \/ Manager
  \/ \E t \in Task : Deliver(t)
  \/ HandleEvent
  \/ Daemon
  \/ Portal
  \/ AttemptSucceeds \/ AttemptFails \/ LinkLost \/ ScanCompletes

Next == Step \/ PowerCycle

Spec == Init /\ [][Next]_vars

\* The scheduler runs every task that can go on; of those that wait for a full
\* queue, the event loop and the timer daemon get a slot in the end, however
\* often the web server asks; the daemon carries out its commands, and a running
\* timer expires; the driver ends every scan.  An attempt need not end: a station
\* that nobody gives an address to has no news, and nothing here waits for it.
Fairness ==
  /\ WF_vars(Manager \/ Deliver("manager"))
  /\ WF_vars(Deliver("http"))
  /\ SF_vars(HandleEvent \/ Deliver("events"))
  /\ SF_vars(Daemon \/ Deliver("timers"))
  /\ WF_vars(ScanCompletes)

\* A device after its last reset, which is an initial state like the first one.
FairSpec == Init /\ [][Step]_vars /\ Fairness

-----------------------------------------------------------------------------
\* Properties.

\* The messages on their way to the manager's handlers, oldest first: the one
\* being handled, the queue, the one the event loop is posting, and the events.
OneOrNone(m) == IF m = NoMessage THEN << >> ELSE <<m>>
Channel  == (OneOrNone(mgr.msg) \o queue) \o OneOrNone(posting["events"])
Pipeline == Channel \o events
Awaited(code) == \E i \in DOMAIN Pipeline : Pipeline[i].code = code

\* Whether something is on after the messages of s, which switch it on and off,
\* if it was so before them: the newest message about it says.
After(s, on, off, before) ==
  \/ \E i \in DOMAIN s : /\ s[i].code = on
                         /\ \A j \in DOMAIN s : j > i => s[j].code \notin {on, off}
  \/ before /\ \A i \in DOMAIN s : s[i].code \notin {on, off}

LinkAfter(s, before) == After(s, "STA_GOT_IP", "STA_DISCONNECTED", before)
ApAfter(s, before)   == After(s, "AP_START", "AP_STOP", before)

\* CONNECTED_BIT and AP_STARTED_BIT are what the driver did, up to the events
\* that the event loop has yet to handle.
BitsFollowDriver ==
  /\ (sta = "connected") <=> LinkAfter(events, "CONNECTED" \in bits)
  /\ (mode = "APSTA") <=> ApAfter(events, "AP_STARTED" \in bits)

\* What the manager believes of the link (the address it gives the web server)
\* agrees with the driver once no news of the station is on its way, however
\* the event loop, the queue and the handlers interleave; and until then the
\* newest news is what the driver did last.
BeliefFollowsDriver == (sta = "connected") <=> LinkAfter(Pipeline, staIp)

\* status.json says "connected" only while the station is, or while the news
\* that it no longer is has not been handled yet.
StatusHonest ==
  status = "CONNECTION_OK" => sta = "connected" \/ Awaited("STA_DISCONNECTED")

\* The bit that stops GOT_IP from saving the configuration, set by the attempt
\* made at startup, outlives no attempt: while it is there one is being made, or
\* news of the station has yet to be handled.
RestoreBitTracksAttempt ==
  "REQUEST_RESTORE_STA" \in bits =>
    \/ mgr.pc = "connect" \/ sta = "connecting"
    \/ Awaited("STA_GOT_IP") \/ Awaited("STA_DISCONNECTED")

\* The captive portal's DNS answers only while there is an access point.
DnsNeedsAp == dns => mode = "APSTA"

\* The access point is taken down only from a device that is online, or whose
\* loss of the link the manager has yet to handle (it then starts its retries).
ApStopsOnlyOnline ==
  [][StopAp /\ mode = "APSTA" /\ mode' = "STA" =>
       sta = "connected" \/ Awaited("STA_DISCONNECTED")]_vars

\* Nothing is on its way: no message, no event, no handler in progress, and no
\* command to a timer.
Quiet == /\ mgr.pc = "receive" /\ Pipeline = << >> /\ \A t \in Task : Free(t)
         /\ commands = << >>

\* A device that is offline when everything has settled has a way back: the
\* timer that starts the next attempt, or an access point to configure it by.
AlwaysAWayBack == Quiet /\ sta = "idle" => retryTimer \/ mode = "APSTA"

\* The manager gets out of every wifi_manager_send_message it makes itself.
ManagerPostsEnd == ~Free("manager") ~> Free("manager")

\* REQUEST_DISCONNECT_BIT says that a user asked for a disconnect that has yet
\* to happen: on a device that has settled online there is none, so that a link
\* lost later is not taken for it, and the configuration not erased.
NoStaleDisconnect == Quiet /\ sta = "connected" => "REQUEST_DISCONNECT" \notin bits

\* News of the link among the messages of s: whether it came up or went down.
IsLinkNews(m) == m.code \in {"STA_GOT_IP", "STA_DISCONNECTED"}
News(m) == IF m.code = "STA_GOT_IP" THEN "up" ELSE "down"
LinkNewsIn(s) ==
  LET first[n \in 0..Len(s)] == IF n = 0 THEN << >>
                               ELSE IF IsLinkNews(s[n]) THEN Append(first[n - 1], News(s[n]))
                               ELSE first[n - 1]
  IN  first[Len(s)]

Link == INSTANCE LinkNews WITH
          link   <- sta = "connected",
          news   <- LinkNewsIn((queue \o OneOrNone(posting["events"])) \o events),
          belief <- staIp

\* Through the event loop, a queue that may be full and handlers that post
\* themselves, the manager is told of every change of the link, once, in order.
LinkNewsDelivered == Link!Spec

\* What the liveness properties need beside fairness: the manager never waits for
\* good, be it for its own queue or for the web server it restarts
\* (ManagerPostsEnd says why it may).
GoesOn == []<>(mgr.pc = "receive" /\ Free("manager"))

\* An attempt that has no end: associating, or waiting for an address that nobody
\* gives.  There is no timeout for it.
Stuck == <>[](sta = "connecting")

\* A device that no attempt connects ends with an access point to configure it
\* by, whatever scans and disconnects its user asks for; unless an attempt of its
\* has no end: then there is neither a retry nor an access point.
EventuallyReachable ==
  GoesOn => ([]<>(sta = "connected") \/ <>[](mode = "APSTA") \/ Stuck)

\* The saved configuration is still to be loaded.
Loading == \/ posting["manager"].code = "LOAD_AND_RESTORE_STA"
           \/ \E i \in DOMAIN queue : queue[i].code = "LOAD_AND_RESTORE_STA"
HasNetwork == config # NoNetwork \/ (Loading /\ nvs # NoNetwork)

\* A device that has a configuration makes attempt after attempt for as long as
\* it is offline, access point or not, until a user's disconnect erases it.
KeepsTrying == GoesOn => []<>~(sta = "idle" /\ HasNetwork)

\* "SCAN_BIT is cleared too": a scan the portal's user asked for comes to its
\* end and lets the next one start, even if the driver refused it or the link
\* was lost meanwhile.  One refused by an attempt that then succeeds, or has no
\* end, does not.
ScanEnds ==
  GoesOn => ([]<>("SCAN" \notin bits \/ sta = "connected") \/ Stuck)

\* Once the manager has handled GOT_IP with the access point up, the access point
\* goes down in the end, unless the link is lost: whatever the timer daemon still
\* has to do for an earlier connection, its start is carried out and not undone.
ApCloses ==
  GoesOn => [](mgr.pc = "got_ip" /\ "AP_STARTED" \in mgr.seen
                 => <>(sta # "connected" \/ mode = "STA"))
=============================================================================
