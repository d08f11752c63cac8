------------------------- MODULE WifiManagerProofs -------------------------
(***************************************************************************)
(* Proofs about WifiManager, for every set of networks and of portal       *)
(* requests, every length of the queue, threshold of retries and bound on  *)
(* the events.                                                             *)
(*                                                                         *)
(* The argument: CONNECTED_BIT and AP_STARTED_BIT follow the driver up to  *)
(* the events the event loop has yet to handle (BitsFollowDriver), and the *)
(* manager's belief follows CONNECTED_BIT up to the messages it has yet to *)
(* handle (BeliefFollowsBit).  Together, its belief follows the driver up  *)
(* to all that is on its way (BeliefFollowsDriver), and what it does by    *)
(* its belief (the shutdown timer, the status) is right up to the same.    *)
(*                                                                         *)
(* For LinkNews, what is on its way is the news in the queue, in the event *)
(* loop's message and in the driver's events, behind one another: each     *)
(* step puts a piece at the end, takes one from the front, or moves one    *)
(* from a part to the part before it.                                      *)
(***************************************************************************)
EXTENDS WifiManager, FiniteSetTheorems, TLAPS

-----------------------------------------------------------------------------
\* After, one message at a time.

\* What one message makes of "on before".
Turn(m, on, off, before) == m.code = on \/ (before /\ m.code # off)

\* No message changes nothing.
LEMMA AfterEmpty ==
  ASSUME NEW on, NEW off, NEW b \in BOOLEAN
  PROVE  After(<< >>, on, off, b) <=> b
BY DEF After

\* A newer message decides, if it is about the thing at all.
LEMMA AfterAppend ==
  ASSUME NEW S, NEW s \in Seq(S), NEW e \in S, NEW on, NEW off, on # off, NEW b \in BOOLEAN
  PROVE  After(Append(s, e), on, off, b) <=> Turn(e, on, off, After(s, on, off, b))
<1> DEFINE t == Append(s, e)
<1>1. DOMAIN s = 1..Len(s) /\ Len(s) \in Nat /\ DOMAIN t = 1..(Len(s) + 1)
      /\ t[Len(s) + 1] = e /\ \A i \in DOMAIN s : t[i] = s[i]
  OBVIOUS
<1> HIDE DEF t
<1>2. CASE e.code = on
  BY <1>1, <1>2 DEF After, Turn
<1>3. CASE e.code = off
  BY <1>1, <1>3 DEF After, Turn
<1>4. CASE e.code \notin {on, off}
  <2>1. After(t, on, off, b) => After(s, on, off, b)
    BY <1>1, <1>4 DEF After
  <2>2. After(s, on, off, b) => After(t, on, off, b)
    BY <1>1, <1>4 DEF After
  <2> QED BY <2>1, <2>2, <1>4 DEF Turn, t
<1> QED BY <1>2, <1>3, <1>4 DEF t

\* The oldest message can be handled first.
LEMMA AfterTail ==
  ASSUME NEW S, NEW s \in Seq(S), s # << >>, NEW on, NEW off, on # off,
         NEW b \in BOOLEAN, NEW c \in BOOLEAN, c <=> Turn(Head(s), on, off, b)
  PROVE  After(s, on, off, b) <=> After(Tail(s), on, off, c)
<1> DEFINE t == Tail(s)
<1> DEFINE h == Head(s)
<1>1. Len(s) \in Nat \ {0} /\ DOMAIN s = 1..Len(s) /\ DOMAIN t = 1..(Len(s) - 1)
      /\ s[1] = h /\ \A i \in DOMAIN t : t[i] = s[i + 1]
  OBVIOUS
<1>2. \A i \in DOMAIN s : i # 1 => i - 1 \in DOMAIN t /\ t[i - 1] = s[i]
  BY <1>1
<1>3. \A i \in DOMAIN t : i + 1 \in DOMAIN s
  BY <1>1
<1> SUFFICES After(s, on, off, b) <=> After(t, on, off, c)
  OBVIOUS
<1>c. c <=> h.code = on \/ (b /\ h.code # off)
  BY DEF Turn
<1> HIDE DEF t, h
<1>4. ASSUME After(s, on, off, b)
      PROVE  After(t, on, off, c)
  <2>1. CASE \A i \in DOMAIN s : s[i].code \notin {on, off}
    <3>1. b /\ 1 \in DOMAIN s
      BY <1>1, <1>4, <2>1 DEF After
    <3>2. \A i \in DOMAIN t : t[i].code \notin {on, off}
      BY <1>1, <1>3, <2>1
    <3> QED BY <1>1, <1>c, <2>1, <3>1, <3>2 DEF After
  <2>2. CASE ~ \A i \in DOMAIN s : s[i].code \notin {on, off}
    <3>1. PICK i \in DOMAIN s : /\ s[i].code = on
                                /\ \A j \in DOMAIN s : j > i => s[j].code \notin {on, off}
      BY <1>4, <2>2 DEF After
    <3>2. CASE i = 1
      <4>1. \A j \in DOMAIN t : t[j].code \notin {on, off}
        BY <1>1, <1>3, <3>1, <3>2
      <4> QED BY <1>1, <1>c, <3>1, <3>2, <4>1 DEF After
    <3>3. CASE i # 1
      <4>1. i - 1 \in DOMAIN t /\ t[i - 1].code = on
        BY <1>2, <3>1, <3>3
      <4>2. \A j \in DOMAIN t : j > i - 1 => t[j].code \notin {on, off}
        BY <1>1, <1>3, <3>1
      <4> QED BY <4>1, <4>2 DEF After
    <3> QED BY <3>2, <3>3
  <2> QED BY <2>1, <2>2
<1>5. ASSUME After(t, on, off, c)
      PROVE  After(s, on, off, b)
  <2>1. CASE \A i \in DOMAIN t : t[i].code \notin {on, off}
    <3>1. c /\ 1 \in DOMAIN s
      BY <1>1, <1>5, <2>1 DEF After
    <3>2. \A i \in DOMAIN s : i # 1 => s[i].code \notin {on, off}
      BY <1>2, <2>1
    <3>3. \A i \in DOMAIN s : i > 1 => i # 1
      BY <1>1
    <3> QED BY <1>1, <1>c, <3>1, <3>2, <3>3 DEF After
  <2>2. CASE ~ \A i \in DOMAIN t : t[i].code \notin {on, off}
    <3>1. PICK i \in DOMAIN t : /\ t[i].code = on
                                /\ \A j \in DOMAIN t : j > i => t[j].code \notin {on, off}
      BY <1>5, <2>2 DEF After
    <3>2. i + 1 \in DOMAIN s /\ s[i + 1].code = on
      BY <1>1, <1>3, <3>1
    <3>3. \A j \in DOMAIN s : j > i + 1 => s[j].code \notin {on, off}
      BY <1>1, <1>2, <3>1
    <3> QED BY <3>2, <3>3 DEF After
  <2> QED BY <2>1, <2>2
<1> QED BY <1>4, <1>5

\* Messages behind one another are handled one after the other.
LEMMA AfterConcat ==
  ASSUME NEW S, NEW s \in Seq(S), NEW t \in Seq(S), NEW on, NEW off, on # off,
         NEW b \in BOOLEAN, NEW c \in BOOLEAN, c <=> After(s, on, off, b)
  PROVE  After(s \o t, on, off, b) <=> After(t, on, off, c)
<1> DEFINE u == s \o t
<1>1. /\ Len(s) \in Nat /\ Len(t) \in Nat
      /\ DOMAIN s = 1..Len(s) /\ DOMAIN t = 1..Len(t)
      /\ DOMAIN u = 1..(Len(s) + Len(t))
      /\ \A i \in DOMAIN s : u[i] = s[i]
      /\ \A i \in DOMAIN t : u[Len(s) + i] = t[i]
  OBVIOUS
<1>2. \A i \in DOMAIN u : i \in DOMAIN s \/ (i - Len(s) \in DOMAIN t /\ u[i] = t[i - Len(s)])
  BY <1>1
<1>3. \A i \in DOMAIN s : i \in DOMAIN u
  BY <1>1
<1>4. \A i \in DOMAIN t : Len(s) + i \in DOMAIN u
  BY <1>1
<1> SUFFICES After(u, on, off, b) <=> After(t, on, off, c)
  OBVIOUS
<1> HIDE DEF u
<1>5. CASE \A i \in DOMAIN t : t[i].code \notin {on, off}
  <2>1. After(t, on, off, c) <=> c
    BY <1>5 DEF After
  <2>2. After(u, on, off, b) => After(s, on, off, b)
    <3>1. CASE \E i \in DOMAIN u : /\ u[i].code = on
                                  /\ \A j \in DOMAIN u : j > i => u[j].code \notin {on, off}
      <4>1. PICK i \in DOMAIN u : /\ u[i].code = on
                                 /\ \A j \in DOMAIN u : j > i => u[j].code \notin {on, off}
        BY <3>1
      <4>2. i \in DOMAIN s
        BY <1>2, <1>5, <4>1
      <4> QED BY <1>1, <1>3, <4>1, <4>2 DEF After
    <3>2. CASE b /\ \A i \in DOMAIN u : u[i].code \notin {on, off}
      BY <1>1, <1>3, <3>2 DEF After
    <3> QED BY <3>1, <3>2 DEF After
  <2>3. After(s, on, off, b) => After(u, on, off, b)
    <3>1. \A j \in DOMAIN u : j \in DOMAIN s \/ u[j].code \notin {on, off}
      BY <1>2, <1>5
    <3> QED BY <1>1, <1>3, <3>1 DEF After
  <2> QED BY <2>1, <2>2, <2>3
<1>6. CASE ~ \A i \in DOMAIN t : t[i].code \notin {on, off}
  <2>1. ASSUME After(u, on, off, b)
        PROVE  After(t, on, off, c)
    <3>1. PICK i \in DOMAIN u : /\ u[i].code = on
                                /\ \A j \in DOMAIN u : j > i => u[j].code \notin {on, off}
      BY <1>1, <1>4, <1>6, <2>1 DEF After
    <3>2. i - Len(s) \in DOMAIN t /\ u[i] = t[i - Len(s)]
      BY <1>1, <1>2, <1>4, <1>6, <3>1
    <3>3. \A j \in DOMAIN t : j > i - Len(s) => t[j].code \notin {on, off}
      BY <1>1, <1>4, <3>1, <3>2
    <3> QED BY <3>1, <3>2, <3>3 DEF After
  <2>2. ASSUME After(t, on, off, c)
        PROVE  After(u, on, off, b)
    <3>1. PICK i \in DOMAIN t : /\ t[i].code = on
                                /\ \A j \in DOMAIN t : j > i => t[j].code \notin {on, off}
      BY <1>6, <2>2 DEF After
    <3>2. \A j \in DOMAIN u : j > Len(s) + i => u[j].code \notin {on, off}
      BY <1>1, <1>2, <3>1
    <3> QED BY <1>1, <1>4, <3>1, <3>2 DEF After
  <2> QED BY <2>1, <2>2
<1> QED BY <1>5, <1>6

-----------------------------------------------------------------------------
\* Which message is which.

\* Every message the code sends is an order or a report; "none" is neither.
LEMMA MessageFacts ==
  /\ {Message("START_WIFI_SCAN"), Message("LOAD_AND_RESTORE_STA"), Message("DISCONNECT_STA"),
      Message("START_AP"), Message("STOP_AP"),
      ConnectSta("user"), ConnectSta("auto"), ConnectSta("restore")} \subseteq Orders
  /\ {Message("SCAN_DONE"), Message("STA_GOT_IP"), StaDisconnected("ASSOC_LEAVE"),
      StaDisconnected("CONNECT_FAILED"), StaDisconnected("BEACON_TIMEOUT")} \subseteq Reports
  /\ {Message("AP_START"), Message("AP_STOP")} \subseteq Event
  /\ Reports \subseteq Event
  /\ Orders \subseteq Messages
  /\ Reports \subseteq Messages
  /\ NoMessage \notin Messages
BY DEF NoMessage, Messages, Orders, Reports, Event, Message, ConnectSta, StaDisconnected,
       Requests, Reasons

\* The manager at the top of its loop has no message in its hands.
LEMMA ReceiveFacts ==
  /\ Receive \in [pc : Places, msg : Messages \cup {NoMessage}, seen : SUBSET Bits]
  /\ Receive.pc = "receive"
  /\ Receive.msg = NoMessage
BY DEF Receive, Places

\* The codes of the messages.
LEMMA CodeFacts ==
  /\ NoMessage.code = "NONE"
  /\ \A m \in Orders : m.code \in {"START_WIFI_SCAN", "LOAD_AND_RESTORE_STA", "DISCONNECT_STA",
                                   "START_AP", "STOP_AP", "CONNECT_STA"}
  /\ \A m \in Reports : m.code \in {"SCAN_DONE", "STA_GOT_IP", "STA_DISCONNECTED"}
  /\ \A m \in Event \ Reports : m.code \in {"AP_START", "AP_STOP"}
  /\ Message("SCAN_DONE").code = "SCAN_DONE"
  /\ Message("STA_GOT_IP").code = "STA_GOT_IP"
  /\ Message("AP_START").code = "AP_START"
  /\ Message("AP_STOP").code = "AP_STOP"
  /\ \A r \in Reasons : StaDisconnected(r).code = "STA_DISCONNECTED"
  /\ StaDisconnected("ASSOC_LEAVE").code = "STA_DISCONNECTED"
  /\ StaDisconnected("CONNECT_FAILED").code = "STA_DISCONNECTED"
  /\ StaDisconnected("BEACON_TIMEOUT").code = "STA_DISCONNECTED"
BY DEF NoMessage, Messages, Orders, Reports, Event, Message, ConnectSta, StaDisconnected

-----------------------------------------------------------------------------
\* Type correctness.

\* The flags, and everything else.
FlagsOK == /\ retryTimer \in BOOLEAN /\ shutdownTimer \in BOOLEAN
           /\ staIp \in BOOLEAN /\ dns \in BOOLEAN /\ scanning \in BOOLEAN
StateOK ==
  /\ queue \in Seq(Messages)
  /\ Len(queue) <= QueueLength
  /\ posting \in [Task -> Messages \cup {NoMessage}]
  /\ mgr \in [pc : Places, msg : Messages \cup {NoMessage}, seen : SUBSET Bits]
  /\ bits \in SUBSET Bits
  /\ retries \in 0..MaxRetry
  /\ config \in Network \cup {NoNetwork}
  /\ nvs \in Network \cup {NoNetwork}
  /\ status \in Statuses
  /\ sta \in {"idle", "connecting", "connected"}
  /\ mode \in {"STA", "APSTA"}
  /\ events \in Seq(Event)

CommandsOK == commands \in Seq(Command) /\ Len(commands) <= TimerQueueLength

\* TypeOK is the type of the flags, of the timer daemon's queue and of the rest.
LEMMA TypeSplit == TypeOK <=> StateOK /\ FlagsOK /\ CommandsOK
BY DEF TypeOK, StateOK, FlagsOK, CommandsOK

\* A command goes to the daemon's queue only if there is room for it.
LEMMA OrderType ==
  ASSUME CommandsOK, NEW c, Message(c) \in Command, Order(c)
  PROVE  CommandsOK'
BY TimerAssumption DEF CommandsOK, Order

\* Every step keeps the daemon's queue in its slots.
LEMMA CommandsNext == CommandsOK /\ [Next]_vars => CommandsOK'
<1> SUFFICES ASSUME CommandsOK, [Next]_vars
             PROVE  CommandsOK'
  OBVIOUS
<1>1. CASE UNCHANGED commands
  BY <1>1, Zenon DEF CommandsOK
<1>2. /\ Message("START_RETRY") \in Command /\ Message("STOP_RETRY") \in Command
      /\ Message("START_SHUTDOWN") \in Command /\ Message("STOP_SHUTDOWN") \in Command
  BY DEF Command
<1>3. CASE \/ ScanDone \/ StartWifiScan \/ LoadAndRestoreSta \/ MarkRequest \/ StartAttempt
           \/ AttemptFailed \/ UserDisconnected \/ StartAp \/ CheckConnected \/ StopAp
           \/ RestartHttp \/ ReadIp \/ DisconnectSta \/ (\E t \in Task : Deliver(t))
           \/ HandleEvent \/ Portal
           \/ AttemptSucceeds \/ AttemptFails \/ LinkLost \/ ScanCompletes \/ UNCHANGED vars
  <2>1. UNCHANGED commands
    BY <1>3, Zenon DEF ScanDone, StartWifiScan, LoadAndRestoreSta, MarkRequest, StartAttempt,
       AttemptFailed, UserDisconnected, StartAp, CheckConnected, StopAp, RestartHttp, ReadIp,
       DisconnectSta, Deliver, HandleEvent, Portal, RequestConnect, RequestDisconnect,
       RequestScan, AttemptSucceeds, AttemptFails, LinkLost, Station, ScanCompletes, vars,
       timerVars
  <2> QED BY <1>1, <2>1
<1>4. CASE ForgetIp
  BY <1>1, <1>2, <1>4, OrderType DEF ForgetIp, CancelShutdown
<1>5. CASE ConnectionLost
  BY <1>2, <1>5, OrderType DEF ConnectionLost, ScheduleRetry
<1>6. CASE GotIp
  BY <1>1, <1>2, <1>6, OrderType DEF GotIp, ScheduleShutdown
<1>7. CASE RetryTimerFires \/ ShutdownTimerFires
  BY <1>2, <1>7, OrderType DEF RetryTimerFires, ShutdownTimerFires
<1>8. CASE RunCommand
  <2>1. commands # << >> /\ commands' = Tail(commands)
    BY <1>8 DEF RunCommand
  <2> QED BY <2>1, TimerAssumption DEF CommandsOK
<1>9. CASE PowerCycle
  BY <1>9, TimerAssumption DEF PowerCycle, CommandsOK
<1> QED BY <1>3, <1>4, <1>5, <1>6, <1>7, <1>8, <1>9 DEF Next, Step, Daemon, Manager

\* Every step keeps the flags Boolean.
LEMMA FlagsNext == FlagsOK /\ [Next]_vars => FlagsOK'
<1> SUFFICES ASSUME FlagsOK, [Next]_vars
             PROVE  FlagsOK'
  OBVIOUS
<1> USE DEF FlagsOK, managerVars, timerVars, dataVars, driverVars
<1>1. CASE ScanDone
  BY <1>1, Zenon DEF ScanDone
<1>2. CASE StartWifiScan
  BY <1>2, Zenon DEF StartWifiScan, EspWifiScanStart
<1>3. CASE LoadAndRestoreSta
  BY <1>3, Zenon DEF LoadAndRestoreSta
<1>4. CASE MarkRequest
  BY <1>4, Zenon DEF MarkRequest
<1>5. CASE StartAttempt
  BY <1>5, Zenon DEF StartAttempt, EspWifiScanStop
<1>6. CASE ForgetIp
  BY <1>6, Zenon DEF ForgetIp, ClearIp, CancelShutdown
<1>7. CASE AttemptFailed
  BY <1>7, Zenon DEF AttemptFailed
<1>8. CASE UserDisconnected
  BY <1>8, Zenon DEF UserDisconnected
<1>9. CASE ConnectionLost
  BY <1>9, Zenon DEF ConnectionLost, ScheduleRetry
<1>10. CASE StartAp
  BY <1>10, Zenon DEF StartAp
<1>11. CASE CheckConnected
  BY <1>11, Zenon DEF CheckConnected
<1>12. CASE StopAp
  BY <1>12, Zenon DEF StopAp
<1>13. CASE RestartHttp
  BY <1>13, Zenon DEF RestartHttp
<1>14. CASE ReadIp
  BY <1>14, Zenon DEF ReadIp
<1>15. CASE GotIp
  BY <1>15, Zenon DEF GotIp
<1>16. CASE DisconnectSta
  BY <1>16, Zenon DEF DisconnectSta
<1>17. CASE \E t \in Task : Deliver(t)
  BY <1>17, Zenon DEF Deliver
<1>18. CASE HandleEvent
  BY <1>18, Zenon DEF HandleEvent
<1>19. CASE RetryTimerFires
  BY <1>19, Zenon DEF RetryTimerFires
<1>28. CASE RunCommand
  BY <1>28, Zenon DEF RunCommand
<1>20. CASE ShutdownTimerFires
  BY <1>20, Zenon DEF ShutdownTimerFires
<1>21. CASE Portal
  BY <1>21, Zenon DEF Portal, RequestConnect, RequestDisconnect, RequestScan
<1>22. CASE AttemptSucceeds
  BY <1>22, Zenon DEF AttemptSucceeds, Station
<1>23. CASE AttemptFails
  BY <1>23, Zenon DEF AttemptFails, Station
<1>24. CASE LinkLost
  BY <1>24, Zenon DEF LinkLost, Station
<1>25. CASE ScanCompletes
  BY <1>25, Zenon DEF ScanCompletes
<1>26. CASE PowerCycle
  BY <1>26, Zenon DEF PowerCycle
<1>27. CASE UNCHANGED vars
  BY <1>27, Zenon DEF vars
<1> QED BY <1>1, <1>2, <1>3, <1>4, <1>5, <1>6, <1>7, <1>8, <1>9, <1>10, <1>11, <1>12, <1>13, <1>14, <1>15, <1>16, <1>17, <1>18, <1>19, <1>20, <1>21, <1>22, <1>23, <1>24, <1>25, <1>26, <1>27, <1>28 DEF Next, Step, Daemon, Manager

\* A device that starts is in a state of the right type.
LEMMA TypeInit == Init => TypeOK
<1> SUFFICES ASSUME Init
             PROVE  TypeOK
  OBVIOUS
<1>1. StateOK
  BY MessageFacts, ReceiveFacts, RetryAssumption, QueueAssumption
     DEF Init, StateOK, BootPosting, Task, Statuses
<1>2. FlagsOK
  BY Zenon DEF Init, FlagsOK
<1>3. CommandsOK
  BY TimerAssumption DEF Init, CommandsOK
<1> QED BY <1>1, <1>2, <1>3, TypeSplit

\* Every step keeps the type of the rest: the queue is never longer than its slots,
\* the counter of retries never above its threshold.
LEMMA StateNext == StateOK /\ [Next]_vars => StateOK'
<1> SUFFICES ASSUME StateOK, [Next]_vars
             PROVE  StateOK'
  OBVIOUS
<1> USE MessageFacts, ReceiveFacts, RetryAssumption, QueueAssumption
<1> USE DEF StateOK, Task, Places, Statuses, Bits, Requests, Reasons,
            managerVars, timerVars, dataVars, driverVars
<1>1. CASE ScanDone
  <2>1. queue' \in Seq(Messages) /\ Len(queue') <= QueueLength
    BY <1>1 DEF ScanDone, Take
  <2>2. UNCHANGED <<posting, mgr, retries, bits, config, nvs, status, sta, mode, events>>
    BY <1>1, Zenon DEF ScanDone
  <2> QED BY <2>1, <2>2
<1>2. CASE StartWifiScan
  <2>1. queue' \in Seq(Messages) /\ Len(queue') <= QueueLength
    BY <1>2 DEF StartWifiScan, Take
  <2>2. bits' \in SUBSET Bits
    BY <1>2 DEF StartWifiScan
  <2>3. events' \in Seq(Event)
    <3>1. events' = events \/ events' = Append(events, Message("SCAN_DONE"))
      BY <1>2, Zenon DEF StartWifiScan, EspWifiScanStart
    <3>2. Append(events, Message("SCAN_DONE")) \in Seq(Event)
      OBVIOUS
    <3> QED BY <3>1, <3>2
  <2>4. UNCHANGED <<posting, mgr, retries, config, nvs, status, sta, mode>>
    BY <1>2, Zenon DEF StartWifiScan
  <2> QED BY <2>1, <2>2, <2>3, <2>4
<1>3. CASE LoadAndRestoreSta
  BY <1>3 DEF LoadAndRestoreSta, Take, Post, FirstOrder
<1>4. CASE MarkRequest
  BY <1>4 DEF MarkRequest, Take, At
<1>5. CASE StartAttempt
  <2>1. mgr' = Receive /\ UNCHANGED <<queue, posting, retries, bits, config, nvs, status, mode>>
    BY <1>5, Zenon DEF StartAttempt
  <2>2. sta' \in {"idle", "connecting", "connected"} /\ events' \in Seq(Event)
    <3>1. sta' \in {sta, "connecting"}
      BY <1>5 DEF StartAttempt, EspWifiConnect
    <3>2. events' = events \/ events' = Append(events, Message("SCAN_DONE"))
      BY <1>5, Zenon DEF StartAttempt, EspWifiScanStop
    <3>3. Append(events, Message("SCAN_DONE")) \in Seq(Event)
      OBVIOUS
    <3> QED BY <3>1, <3>2, <3>3
  <2> QED BY <2>1, <2>2
<1>6. CASE ForgetIp
  BY <1>6 DEF ForgetIp, Take, At, ClearIp, CancelShutdown
<1>7. CASE AttemptFailed
  BY <1>7 DEF AttemptFailed
<1>8. CASE UserDisconnected
  BY <1>8 DEF UserDisconnected, RestartAp, Post
<1>9. CASE ConnectionLost
  BY <1>9 DEF ConnectionLost, ReportLoss, ScheduleRetry, BelowThreshold, Post
<1>10. CASE StartAp
  BY <1>10 DEF StartAp, Take, EspWifiSetMode, At
<1>11. CASE CheckConnected
  BY <1>11 DEF CheckConnected, Take, At
<1>12. CASE StopAp
  <2>1. \/ EspWifiSetMode("STA", "AP_STOP")
        \/ UNCHANGED <<mode, events>>
    BY <1>12 DEF StopAp
  <2>2. mode' \in {"STA", "APSTA"} /\ events' \in Seq(Event)
    <3>1. Append(events, Message("AP_STOP")) \in Seq(Event)
      OBVIOUS
    <3> QED BY <2>1, <3>1 DEF EspWifiSetMode
  <2>3. mgr' \in [pc : Places, msg : Messages \cup {NoMessage}, seen : SUBSET Bits]
    BY <1>12 DEF StopAp
  <2> QED BY <1>12, <2>2, <2>3 DEF StopAp
<1>13. CASE RestartHttp
  BY <1>13 DEF RestartHttp, StartDns
<1>14. CASE ReadIp
  BY <1>14 DEF ReadIp, Take
<1>15. CASE GotIp
  <2>1. bits' \in SUBSET Bits /\ nvs' \in Network \cup {NoNetwork}
    BY <1>15 DEF GotIp, EndRestore
  <2>2. retries' = 0 /\ status' = "CONNECTION_OK" /\ mgr' = Receive
        /\ UNCHANGED <<queue, posting, config, sta, mode, events>>
    BY <1>15 DEF GotIp
  <2> QED BY <2>1, <2>2
<1>16. CASE DisconnectSta
  <2>1. queue' \in Seq(Messages) /\ Len(queue') <= QueueLength
    BY <1>16 DEF DisconnectSta, Take
  <2>2. bits' \in SUBSET Bits
    BY <1>16 DEF DisconnectSta
  <2>3. sta' \in {"idle", "connecting", "connected"} /\ events' \in Seq(Event)
    <3>1. Append(events, StaDisconnected("ASSOC_LEAVE")) \in Seq(Event)
      OBVIOUS
    <3> QED BY <1>16, <3>1 DEF DisconnectSta, EspWifiDisconnect
  <2>4. UNCHANGED <<posting, mgr, retries, config, nvs, status, mode>>
    BY <1>16, Zenon DEF DisconnectSta
  <2> QED BY <2>1, <2>2, <2>3, <2>4
<1>17. CASE \E t \in Task : Deliver(t)
  BY <1>17 DEF Deliver, Free, Post
<1>18. CASE HandleEvent
  <2>1. UNCHANGED <<queue, mgr, retries, config, nvs, status, sta, mode>>
    BY <1>18, Zenon DEF HandleEvent, managerVars, dataVars
  <2>2. events # << >> /\ events' = Tail(events)
        /\ bits' = (bits \ Clears(Head(events).code)) \cup Sets(Head(events).code)
    BY <1>18, Zenon DEF HandleEvent
  <2>3. bits' \in SUBSET Bits
    BY <2>2 DEF Sets
  <2>4. events' \in Seq(Event)
    BY <2>2
  <2>5. posting' \in [Task -> Messages \cup {NoMessage}]
    BY <1>18 DEF HandleEvent, Post
  <2> QED BY <2>1, <2>3, <2>4, <2>5
<1>19. CASE RetryTimerFires
  BY <1>19 DEF RetryTimerFires, Post
<1>28. CASE RunCommand
  BY <1>28 DEF RunCommand
<1>20. CASE ShutdownTimerFires
  BY <1>20 DEF ShutdownTimerFires, Post
<1>21. CASE Portal
  <2>1. CASE \E n \in Network : RequestConnect(n)
    <3>1. PICK n \in Network : RequestConnect(n)
      BY <2>1
    <3>2. posting' \in [Task -> Messages \cup {NoMessage}]
      BY <3>1 DEF RequestConnect, Post
    <3>3. config' = n /\ status' = "empty"
          /\ UNCHANGED <<queue, mgr, retries, bits, nvs, sta, mode, events>>
      BY <3>1, Zenon DEF RequestConnect
    <3> QED BY <3>2, <3>3
  <2>2. CASE RequestDisconnect
    BY <2>2 DEF RequestDisconnect, Post
  <2>3. CASE RequestScan
    BY <2>3 DEF RequestScan, Post
  <2> QED BY <1>21, <2>1, <2>2, <2>3, Zenon DEF Portal
<1>22. CASE AttemptSucceeds
  BY <1>22 DEF AttemptSucceeds, Station
<1>23. CASE AttemptFails
  BY <1>23 DEF AttemptFails, Station
<1>24. CASE LinkLost
  BY <1>24 DEF LinkLost, Station
<1>25. CASE ScanCompletes
  BY <1>25 DEF ScanCompletes
<1>26. CASE PowerCycle
  BY <1>26 DEF PowerCycle, BootPosting
<1>27. CASE UNCHANGED vars
  BY <1>27 DEF vars
<1> QED BY <1>1, <1>2, <1>3, <1>4, <1>5, <1>6, <1>7, <1>8, <1>9, <1>10, <1>11, <1>12, <1>13, <1>14, <1>15, <1>16, <1>17, <1>18, <1>19, <1>20, <1>21, <1>22, <1>23, <1>24, <1>25, <1>26, <1>27, <1>28 DEF Next, Step, Daemon, Manager

\* TypeOK holds of every reachable state: wifi_manager_queue never overflows and
\* the counter of failed attempts never passes WIFI_MANAGER_MAX_RETRY_START_AP.
THEOREM TypeCorrect == Spec => []TypeOK
<1>1. TypeOK' <=> StateOK' /\ FlagsOK' /\ CommandsOK'
  BY DEF TypeOK, StateOK, FlagsOK, CommandsOK
<1>2. TypeOK /\ [Next]_vars => TypeOK'
  BY <1>1, FlagsNext, StateNext, CommandsNext, TypeSplit
<1> QED BY TypeInit, <1>2, PTL DEF Spec

-----------------------------------------------------------------------------
\* Which task posts what, and which message is handled where.

\* Only the event loop posts reports, and it posts nothing else.
PostingOK ==
  /\ posting["events"] \in Reports \cup {NoMessage}
  /\ \A t \in Task \ {"events"} : posting[t] \in Orders \cup {NoMessage}

\* A handler in two steps has its own message in its hands, and an address or none.
PlaceOK ==
  /\ mgr.pc = "receive" => mgr.msg = NoMessage
  /\ mgr.pc = "disconnected" => mgr.msg.code = "STA_DISCONNECTED" /\ ~staIp
  /\ mgr.pc = "got_ip" => mgr.msg.code = "STA_GOT_IP" /\ staIp
  /\ mgr.pc \in {"connect", "stop_ap", "restart_http"} => mgr.msg \in Orders

\* Every step keeps who posts what.
LEMMA PostingNext == TypeOK /\ PostingOK /\ [Next]_vars => PostingOK'
<1> SUFFICES ASSUME TypeOK, PostingOK, [Next]_vars
             PROVE  PostingOK'
  OBVIOUS
<1>1. posting \in [Task -> Messages \cup {NoMessage}]
  BY DEF TypeOK
<1> USE <1>1, MessageFacts DEF PostingOK, Task
<1>2. CASE UNCHANGED posting
  BY <1>2
<1>3. ASSUME NEW t \in Task, NEW m, Post(t, m),
             t = "events" => m \in Reports \cup {NoMessage},
             t # "events" => m \in Orders \cup {NoMessage}
      PROVE  PostingOK'
  BY <1>3 DEF Post
<1>4. CASE Manager
  <2>1. \/ UNCHANGED posting
        \/ Post("manager", FirstOrder)
        \/ Post("manager", Message("START_AP"))
    BY <1>4 DEF Manager, ScanDone, StartWifiScan, LoadAndRestoreSta, MarkRequest, StartAttempt,
       ForgetIp, AttemptFailed, UserDisconnected, RestartAp, ConnectionLost, StartAp,
       CheckConnected, StopAp, RestartHttp, ReadIp, GotIp, DisconnectSta
  <2>2. FirstOrder \in Orders
    BY DEF FirstOrder
  <2> QED BY <2>1, <2>2, <1>2, <1>3
<1>5. CASE \E t \in Task : Deliver(t)
  BY <1>3, <1>5 DEF Deliver
<1>6. CASE HandleEvent
  BY <1>2, <1>3, <1>6 DEF HandleEvent
<1>7. CASE RunCommand \/ RetryTimerFires \/ ShutdownTimerFires
  BY <1>3, <1>7 DEF RunCommand, RetryTimerFires, ShutdownTimerFires
<1>8. CASE Portal
  BY <1>3, <1>8 DEF Portal, RequestConnect, RequestDisconnect, RequestScan
<1>9. CASE AttemptSucceeds \/ AttemptFails \/ LinkLost \/ ScanCompletes \/ UNCHANGED vars
  BY <1>2, <1>9 DEF AttemptSucceeds, AttemptFails, LinkLost, Station, ScanCompletes, vars
<1>10. CASE PowerCycle
  BY <1>10 DEF PowerCycle, BootPosting
<1> QED BY <1>4, <1>5, <1>6, <1>7, <1>8, <1>9, <1>10 DEF Next, Step, Daemon

\* Every step keeps which message is handled where.
LEMMA PlaceNext == TypeOK /\ PlaceOK /\ [Next]_vars => PlaceOK'
<1> SUFFICES ASSUME TypeOK, PlaceOK, [Next]_vars
             PROVE  PlaceOK'
  OBVIOUS
<1> USE ReceiveFacts DEF PlaceOK
<1>1. CASE UNCHANGED <<mgr, staIp>>
  BY <1>1
<1>2. CASE mgr' = Receive
  BY <1>2
<1>3. \A m \in Messages : m.code \in {"CONNECT_STA", "STOP_AP", "START_AP"} => m \in Orders
  BY CodeFacts DEF Messages
<1>4. queue # << >> => Head(queue) \in Messages
  BY DEF TypeOK
<1>5. CASE MarkRequest \/ StartAp \/ CheckConnected
  BY <1>3, <1>4, <1>5 DEF MarkRequest, StartAp, CheckConnected, Take, At
<1>6. CASE ForgetIp
  BY <1>6 DEF ForgetIp, Take, At, ClearIp
<1>7. CASE ReadIp
  BY <1>7 DEF ReadIp, Take
<1>8. CASE StopAp
  BY <1>2, <1>8 DEF StopAp, TypeOK
<1>9. CASE \/ ScanDone \/ StartWifiScan \/ LoadAndRestoreSta \/ DisconnectSta
           \/ HandleEvent \/ RunCommand \/ RetryTimerFires \/ ShutdownTimerFires \/ Portal
           \/ AttemptSucceeds \/ AttemptFails \/ LinkLost \/ ScanCompletes
           \/ (\E t \in Task : Deliver(t)) \/ UNCHANGED vars
  BY <1>1, <1>9 DEF ScanDone, StartWifiScan, LoadAndRestoreSta, DisconnectSta, HandleEvent,
     RunCommand, RetryTimerFires, ShutdownTimerFires, Portal, RequestConnect, RequestDisconnect, RequestScan,
     AttemptSucceeds, AttemptFails, LinkLost, Station, ScanCompletes, Deliver, vars,
     managerVars, dataVars
<1>10. CASE \/ StartAttempt \/ AttemptFailed \/ UserDisconnected \/ ConnectionLost
            \/ RestartHttp \/ GotIp \/ PowerCycle
  BY <1>2, <1>10 DEF StartAttempt, AttemptFailed, UserDisconnected, ConnectionLost, RestartHttp,
     GotIp, PowerCycle
<1> QED BY <1>5, <1>6, <1>7, <1>8, <1>9, <1>10 DEF Next, Step, Daemon, Manager

-----------------------------------------------------------------------------
\* The bits of the event group and the driver.

\* LinkAfter, one message appended or taken: only GOT_IP and DISCONNECTED count.
LEMMA LinkFacts ==
  ASSUME NEW S, NEW s \in Seq(S), NEW b \in BOOLEAN
  PROVE  /\ LinkAfter(<< >>, b) <=> b
         /\ \A e \in S : LinkAfter(Append(s, e), b) <=>
              e.code = "STA_GOT_IP" \/ (LinkAfter(s, b) /\ e.code # "STA_DISCONNECTED")
         /\ s # << >> => \A c \in BOOLEAN :
              (c <=> Head(s).code = "STA_GOT_IP" \/ (b /\ Head(s).code # "STA_DISCONNECTED"))
                => (LinkAfter(s, b) <=> LinkAfter(Tail(s), c))
<1>1. LinkAfter(<< >>, b) <=> b
  BY AfterEmpty DEF LinkAfter
<1>2. ASSUME NEW e \in S
      PROVE  LinkAfter(Append(s, e), b) <=>
               e.code = "STA_GOT_IP" \/ (LinkAfter(s, b) /\ e.code # "STA_DISCONNECTED")
  BY AfterAppend DEF LinkAfter, Turn
<1>3. ASSUME s # << >>, NEW c \in BOOLEAN,
             c <=> Turn(Head(s), "STA_GOT_IP", "STA_DISCONNECTED", b)
      PROVE  LinkAfter(s, b) <=> LinkAfter(Tail(s), c)
  BY <1>3, AfterTail DEF LinkAfter
<1> QED BY <1>1, <1>2, <1>3 DEF Turn

\* ApAfter, one message appended or taken: only AP_START and AP_STOP count.
LEMMA ApFacts ==
  ASSUME NEW S, NEW s \in Seq(S), NEW b \in BOOLEAN
  PROVE  /\ ApAfter(<< >>, b) <=> b
         /\ \A e \in S : ApAfter(Append(s, e), b) <=>
              e.code = "AP_START" \/ (ApAfter(s, b) /\ e.code # "AP_STOP")
         /\ s # << >> => \A c \in BOOLEAN :
              (c <=> Head(s).code = "AP_START" \/ (b /\ Head(s).code # "AP_STOP"))
                => (ApAfter(s, b) <=> ApAfter(Tail(s), c))
<1>1. ApAfter(<< >>, b) <=> b
  BY AfterEmpty DEF ApAfter
<1>2. ASSUME NEW e \in S
      PROVE  ApAfter(Append(s, e), b) <=>
               e.code = "AP_START" \/ (ApAfter(s, b) /\ e.code # "AP_STOP")
  BY AfterAppend DEF ApAfter, Turn
<1>3. ASSUME s # << >>, NEW c \in BOOLEAN, c <=> Turn(Head(s), "AP_START", "AP_STOP", b)
      PROVE  ApAfter(s, b) <=> ApAfter(Tail(s), c)
  BY <1>3, AfterTail DEF ApAfter
<1> QED BY <1>1, <1>2, <1>3 DEF Turn

\* Every step keeps the bits in agreement with the driver, up to waiting events.
LEMMA BitsNext == TypeOK /\ BitsFollowDriver /\ [Next]_vars => BitsFollowDriver'
<1> SUFFICES ASSUME TypeOK, BitsFollowDriver, [Next]_vars
             PROVE  BitsFollowDriver'
  OBVIOUS
<1>1. PICK c \in BOOLEAN : c <=> "CONNECTED" \in bits
  OBVIOUS
<1>2. PICK a \in BOOLEAN : a <=> "AP_STARTED" \in bits
  OBVIOUS
<1>3. PICK c1 \in BOOLEAN : c1 <=> "CONNECTED" \in bits'
  OBVIOUS
<1>4. PICK a1 \in BOOLEAN : a1 <=> "AP_STARTED" \in bits'
  OBVIOUS
<1>5. /\ (sta = "connected") <=> LinkAfter(events, c)
      /\ (mode = "APSTA") <=> ApAfter(events, a)
  BY <1>1, <1>2 DEF BitsFollowDriver, LinkAfter, ApAfter, After
<1>6. SUFFICES /\ (sta' = "connected") <=> LinkAfter(events', c1)
               /\ (mode' = "APSTA") <=> ApAfter(events', a1)
  BY <1>3, <1>4 DEF BitsFollowDriver, LinkAfter, ApAfter, After
<1>7. events \in Seq(Event)
  BY DEF TypeOK
\* Steps that post no event to the event loop and take none.
<1>8. CASE UNCHANGED <<events, mode>> /\ (sta' = "connected" <=> sta = "connected")
           /\ c1 = c /\ a1 = a
  BY <1>5, <1>8
\* Steps of the driver that append one event.
<1>9. ASSUME NEW e \in Event, events' = Append(events, e), c1 = c, a1 = a,
             sta' = "connected" <=> e.code = "STA_GOT_IP"
                                    \/ (sta = "connected" /\ e.code # "STA_DISCONNECTED"),
             mode' = "APSTA" <=> e.code = "AP_START" \/ (mode = "APSTA" /\ e.code # "AP_STOP")
      PROVE  /\ (sta' = "connected") <=> LinkAfter(events', c1)
             /\ (mode' = "APSTA") <=> ApAfter(events', a1)
  <2>1. LinkAfter(Append(events, e), c) <=>
          e.code = "STA_GOT_IP" \/ (LinkAfter(events, c) /\ e.code # "STA_DISCONNECTED")
    BY <1>7, LinkFacts
  <2>2. ApAfter(Append(events, e), a) <=>
          e.code = "AP_START" \/ (ApAfter(events, a) /\ e.code # "AP_STOP")
    BY <1>7, ApFacts
  <2> QED BY <2>1, <2>2, <1>5, <1>9
<1>e. {Message("SCAN_DONE"), Message("STA_GOT_IP"), Message("AP_START"), Message("AP_STOP"),
       StaDisconnected("ASSOC_LEAVE"), StaDisconnected("CONNECT_FAILED"),
       StaDisconnected("BEACON_TIMEOUT")} \subseteq Event
  BY MessageFacts
<1>10. CASE /\ UNCHANGED <<events, mode, sta>>
            /\ bits' \subseteq bits \cup {"REQUEST_STA_CONNECT", "REQUEST_RESTORE_STA"}
            /\ bits \ {"REQUEST_STA_CONNECT", "REQUEST_DISCONNECT", "REQUEST_RESTORE_STA"} \subseteq bits'
  <2>1. c1 = c /\ a1 = a
    BY <1>1, <1>2, <1>3, <1>4, <1>10
  <2> QED BY <2>1, <1>8, <1>10
<1>11. CASE \/ ScanDone \/ LoadAndRestoreSta \/ MarkRequest \/ ForgetIp \/ AttemptFailed
            \/ UserDisconnected \/ ConnectionLost \/ CheckConnected \/ RestartHttp
            \/ ReadIp \/ GotIp \/ (\E t \in Task : Deliver(t))
            \/ RunCommand \/ RetryTimerFires \/ ShutdownTimerFires \/ Portal \/ UNCHANGED vars
  BY <1>10, <1>11 DEF ScanDone, LoadAndRestoreSta, MarkRequest, ForgetIp, AttemptFailed,
     UserDisconnected, ConnectionLost, CheckConnected, RestartHttp, ReadIp, GotIp, EndRestore,
     Deliver, RunCommand, RetryTimerFires, ShutdownTimerFires, Portal, RequestConnect, RequestDisconnect,
     RequestScan, vars, driverVars
<1>12. CASE StartWifiScan
  <2>1. c1 = c /\ a1 = a /\ UNCHANGED <<sta, mode>>
    BY <1>1, <1>2, <1>3, <1>4, <1>12 DEF StartWifiScan
  <2>2. events' = events \/ events' = Append(events, Message("SCAN_DONE"))
    BY <1>12 DEF StartWifiScan, EspWifiScanStart
  <2> QED BY <2>1, <2>2, <1>8, <1>9, <1>e, CodeFacts
<1>13. CASE StartAttempt
  <2>1. c1 = c /\ a1 = a /\ UNCHANGED mode /\ (sta' = "connected" <=> sta = "connected")
    BY <1>1, <1>2, <1>3, <1>4, <1>13 DEF StartAttempt, EspWifiConnect
  <2>2. events' = events \/ events' = Append(events, Message("SCAN_DONE"))
    BY <1>13 DEF StartAttempt, EspWifiScanStop
  <2> QED BY <2>1, <2>2, <1>8, <1>9, <1>e, CodeFacts
<1>14. CASE StartAp
  <2>1. c1 = c /\ a1 = a /\ UNCHANGED sta /\ mode' = "APSTA"
    BY <1>1, <1>2, <1>3, <1>4, <1>14 DEF StartAp, EspWifiSetMode
  <2>2. (mode = "APSTA" /\ events' = events) \/ events' = Append(events, Message("AP_START"))
    BY <1>14 DEF StartAp, EspWifiSetMode
  <2> QED BY <2>1, <2>2, <1>8, <1>9, <1>e, CodeFacts
<1>15. CASE StopAp
  <2>1. c1 = c /\ a1 = a /\ UNCHANGED sta
    BY <1>1, <1>2, <1>3, <1>4, <1>15 DEF StopAp
  <2>2. \/ UNCHANGED <<mode, events>>
        \/ mode' = "STA" /\ events' = Append(events, Message("AP_STOP"))
    BY <1>15 DEF StopAp, EspWifiSetMode
  <2> QED BY <2>1, <2>2, <1>8, <1>9, <1>e, CodeFacts
<1>16. CASE DisconnectSta
  <2>1. c1 = c /\ a1 = a /\ UNCHANGED mode
    BY <1>1, <1>2, <1>3, <1>4, <1>16 DEF DisconnectSta
  <2>2. \/ UNCHANGED <<sta, events>>
        \/ sta' = "idle" /\ events' = Append(events, StaDisconnected("ASSOC_LEAVE"))
    BY <1>16 DEF DisconnectSta, EspWifiDisconnect
  <2> QED BY <2>1, <2>2, <1>8, <1>9, <1>e, CodeFacts
<1>17. CASE AttemptSucceeds \/ AttemptFails \/ LinkLost
  <2>1. c1 = c /\ a1 = a /\ UNCHANGED mode
    BY <1>1, <1>2, <1>3, <1>4, <1>17 DEF AttemptSucceeds, AttemptFails, LinkLost, Station
  <2>2. \/ sta' = "connected" /\ events' = Append(events, Message("STA_GOT_IP"))
        \/ sta' = "idle" /\ events' = Append(events, StaDisconnected("CONNECT_FAILED"))
        \/ sta' = "idle" /\ events' = Append(events, StaDisconnected("BEACON_TIMEOUT"))
    BY <1>17 DEF AttemptSucceeds, AttemptFails, LinkLost, Station
  <2> QED BY <2>1, <2>2, <1>9, <1>e, CodeFacts
<1>18. CASE ScanCompletes
  <2>1. c1 = c /\ a1 = a /\ UNCHANGED <<sta, mode>>
    BY <1>1, <1>2, <1>3, <1>4, <1>18 DEF ScanCompletes
  <2> QED BY <2>1, <1>9, <1>18, <1>e, CodeFacts DEF ScanCompletes
<1>19. CASE HandleEvent
  <2> DEFINE e == Head(events)
  <2>1. events # << >> /\ e \in Event /\ events' = Tail(events) /\ UNCHANGED <<sta, mode>>
    BY <1>7, <1>19 DEF HandleEvent
  <2>2. bits' = (bits \ Clears(e.code)) \cup Sets(e.code)
    BY <1>19 DEF HandleEvent
  <2>3. c1 <=> e.code = "STA_GOT_IP" \/ (c /\ e.code # "STA_DISCONNECTED")
    BY <2>2, <1>1, <1>3 DEF Clears, Sets
  <2>4. a1 <=> e.code = "AP_START" \/ (a /\ e.code # "AP_STOP")
    BY <2>2, <1>2, <1>4 DEF Clears, Sets
  <2>5. LinkAfter(events, c) <=> LinkAfter(Tail(events), c1)
    BY <1>7, <2>1, <2>3, LinkFacts
  <2>6. ApAfter(events, a) <=> ApAfter(Tail(events), a1)
    BY <1>7, <2>1, <2>4, ApFacts
  <2> QED BY <2>1, <2>5, <2>6, <1>5
<1>20. CASE PowerCycle
  <2>1. events' = << >> /\ ~c1 /\ ~a1 /\ sta' = "idle" /\ mode' = "STA"
    BY <1>3, <1>4, <1>20 DEF PowerCycle
  <2>2. ~LinkAfter(<< >>, FALSE) /\ ~ApAfter(<< >>, FALSE)
    BY AfterEmpty DEF LinkAfter, ApAfter
  <2> QED BY <2>1, <2>2
<1> QED
  BY <1>11, <1>12, <1>13, <1>14, <1>15, <1>16, <1>17, <1>18, <1>19, <1>20 DEF Next, Step, Daemon, Manager

\* At the start the bits agree with a driver that is idle, in station mode.
LEMMA BitsInit == Init => BitsFollowDriver
<1> SUFFICES ASSUME Init
             PROVE  BitsFollowDriver
  OBVIOUS
<1>1. /\ events = << >> /\ sta # "connected" /\ mode # "APSTA"
      /\ "CONNECTED" \notin bits /\ "AP_STARTED" \notin bits
  BY DEF Init
<1>2. ~LinkAfter(<< >>, "CONNECTED" \in bits) /\ ~ApAfter(<< >>, "AP_STARTED" \in bits)
  BY <1>1 DEF LinkAfter, ApAfter, After
<1> QED BY <1>1, <1>2 DEF BitsFollowDriver

\* CONNECTED_BIT and AP_STARTED_BIT follow the driver's station and mode, up to
\* the events that wifi_manager_event_handler has yet to handle.
THEOREM BitsCorrect == Spec => []BitsFollowDriver
<1>1. TypeOK /\ BitsFollowDriver /\ [Next]_vars => BitsFollowDriver'
  BY BitsNext
<1> QED BY <1>1, BitsInit, TypeCorrect, PTL DEF Spec

-----------------------------------------------------------------------------
\* What the manager believes of the link.

\* What one message makes of "connected before".
LinkAt(m, b) == m.code = "STA_GOT_IP" \/ (b /\ m.code # "STA_DISCONNECTED")

\* CONNECTED_BIT is what the manager believes, up to the messages it has yet to
\* handle: the one in its hands, the queue, and the one being posted.
BeliefFollowsBit ==
  ("CONNECTED" \in bits) <=>
    LinkAt(posting["events"], LinkAfter(queue, LinkAt(mgr.msg, staIp)))

\* An order says nothing about the link.
LEMMA OrdersKeepLink ==
  ASSUME NEW m \in Orders \cup {NoMessage}, NEW b \in BOOLEAN
  PROVE  LinkAt(m, b) <=> b
BY CodeFacts DEF LinkAt

\* At the start there is no address, and CONNECTED_BIT is not set.
LEMMA BeliefBitInit == Init => BeliefFollowsBit
<1> SUFFICES ASSUME Init
             PROVE  BeliefFollowsBit
  OBVIOUS
<1>1. /\ queue = << >> /\ "CONNECTED" \notin bits /\ ~staIp
      /\ mgr.msg = NoMessage /\ posting["events"] = NoMessage
  BY ReceiveFacts DEF Init, BootPosting, Task
<1>2. ~LinkAt(mgr.msg, staIp)
  BY <1>1, CodeFacts DEF LinkAt
<1>3. ~LinkAfter(queue, LinkAt(mgr.msg, staIp))
  BY <1>1, <1>2 DEF LinkAfter, After
<1> QED BY <1>1, <1>3, CodeFacts DEF BeliefFollowsBit, LinkAt

\* Every step keeps the belief in agreement with CONNECTED_BIT, up to the messages
\* on their way: a message stays ahead of what was posted after it.
LEMMA BeliefBitNext ==
  TypeOK /\ PostingOK /\ PlaceOK /\ BeliefFollowsBit /\ [Next]_vars => BeliefFollowsBit'
<1> SUFFICES ASSUME TypeOK, PostingOK, PlaceOK, BeliefFollowsBit, [Next]_vars
             PROVE  BeliefFollowsBit'
  OBVIOUS
<1> DEFINE p == posting["events"]
<1>1. PICK c \in BOOLEAN : c <=> "CONNECTED" \in bits
  OBVIOUS
<1>2. PICK c1 \in BOOLEAN : c1 <=> "CONNECTED" \in bits'
  OBVIOUS
<1>3. PICK b \in BOOLEAN : b <=> LinkAt(mgr.msg, staIp)
  OBVIOUS
<1>4. PICK b1 \in BOOLEAN : b1 <=> LinkAt(mgr'.msg, staIp')
  OBVIOUS
<1>5. c <=> LinkAt(p, LinkAfter(queue, b))
  BY <1>1, <1>3 DEF BeliefFollowsBit, LinkAt, LinkAfter, After
<1>6. SUFFICES c1 <=> LinkAt(p', LinkAfter(queue', b1))
  BY <1>2, <1>4 DEF BeliefFollowsBit, LinkAt, LinkAfter, After
<1>7. queue \in Seq(Messages) /\ (queue # << >> => Head(queue) \in Messages)
  BY DEF TypeOK
<1>8. p \in Reports \cup {NoMessage}
  BY DEF PostingOK
<1> HIDE DEF p
\* Nothing that matters changes.
<1>9. CASE c1 = c /\ b1 = b /\ queue' = queue /\ p' = p
  BY <1>5, <1>9
\* The manager takes a message off the queue.
<1>10. ASSUME NEW k, Take(k), c1 = c, p' = p, b1 <=> LinkAt(Head(queue), b)
       PROVE  c1 <=> LinkAt(p', LinkAfter(queue', b1))
  <2>1. queue # << >> /\ queue' = Tail(queue)
    BY <1>10 DEF Take
  <2>2. LinkAfter(queue, b) <=> LinkAfter(Tail(queue), b1)
    BY <2>1, <1>7, <1>10, LinkFacts DEF LinkAt
  <2> QED BY <2>1, <2>2, <1>5, <1>10 DEF LinkAt
\* The manager ends a handler that had a message in its hands.
<1>11. ASSUME UNCHANGED <<queue, posting, staIp>>, c1 = c,
              mgr.pc # "receive", mgr'.msg \in {NoMessage, mgr.msg},
              mgr'.msg = NoMessage \/ mgr.pc = "stop_ap"
       PROVE  c1 <=> LinkAt(p', LinkAfter(queue', b1))
  <2>1. p' = p
    BY <1>11 DEF p
  <2>2. mgr.pc \in Places
    BY DEF TypeOK
  <2>3. CASE mgr.pc \in {"connect", "stop_ap", "restart_http"}
    <3>1. mgr.msg \in Orders /\ mgr'.msg \in Orders \cup {NoMessage}
      BY <1>11, <2>3 DEF PlaceOK
    <3>2. (b <=> staIp) /\ (b1 <=> staIp)
      BY <1>3, <1>4, <1>11, <3>1, CodeFacts DEF LinkAt
    <3> QED BY <1>9, <1>11, <2>1, <3>2
  <2>4. CASE mgr.pc = "disconnected"
    <3>1. mgr.msg.code = "STA_DISCONNECTED" /\ ~staIp /\ mgr'.msg = NoMessage
      BY <1>11, <2>4 DEF PlaceOK
    <3>2. ~b /\ ~b1
      BY <1>3, <1>4, <1>11, <3>1, CodeFacts DEF LinkAt
    <3> QED BY <1>9, <1>11, <2>1, <3>2
  <2>5. CASE mgr.pc = "got_ip"
    <3>1. mgr.msg.code = "STA_GOT_IP" /\ staIp /\ mgr'.msg = NoMessage
      BY <1>11, <2>5 DEF PlaceOK
    <3>2. b /\ b1
      BY <1>3, <1>4, <1>11, <3>1, CodeFacts DEF LinkAt
    <3> QED BY <1>9, <1>11, <2>1, <3>2
  <2> QED BY <2>2, <2>3, <2>4, <2>5, <1>11 DEF Places
<1>12. ASSUME UNCHANGED mgr, UNCHANGED staIp
       PROVE  b1 = b
  BY <1>3, <1>4, <1>12 DEF LinkAt
<1>13. CASE ScanDone \/ StartWifiScan \/ LoadAndRestoreSta \/ DisconnectSta
  <2>1. c1 = c /\ UNCHANGED <<mgr, staIp>>
    BY <1>1, <1>2, <1>13 DEF ScanDone, StartWifiScan, LoadAndRestoreSta, DisconnectSta,
       managerVars, dataVars
  <2>2. p' = p
    BY <1>13, TypeOK DEF ScanDone, StartWifiScan, LoadAndRestoreSta, DisconnectSta, Post, p,
       TypeOK, Task
  <2>3. PICK k \in {"SCAN_DONE", "START_WIFI_SCAN", "LOAD_AND_RESTORE_STA", "DISCONNECT_STA"} :
          Take(k)
    BY <1>13 DEF ScanDone, StartWifiScan, LoadAndRestoreSta, DisconnectSta
  <2>4. mgr.msg = NoMessage /\ Head(queue).code = k
    BY <2>3 DEF Take, PlaceOK
  <2>5. (b <=> staIp) /\ (LinkAt(Head(queue), b) <=> b)
    BY <1>3, <2>3, <2>4, CodeFacts DEF LinkAt
  <2> QED BY <1>10, <1>12, <2>1, <2>2, <2>3, <2>5
<1>14. CASE MarkRequest \/ StartAp \/ CheckConnected
  <2>1. c1 = c /\ UNCHANGED <<posting, staIp>> /\ mgr'.msg = Head(queue)
    BY <1>1, <1>2, <1>14 DEF MarkRequest, StartAp, CheckConnected, dataVars, At
  <2>2. p' = p
    BY <2>1 DEF p
  <2>3. PICK k : Take(k)
    BY <1>14 DEF MarkRequest, StartAp, CheckConnected
  <2>4. mgr.msg = NoMessage
    BY <2>3 DEF Take, PlaceOK
  <2>5. b1 <=> LinkAt(Head(queue), b)
    BY <1>3, <1>4, <2>1, <2>4, CodeFacts DEF LinkAt
  <2> QED BY <1>10, <2>1, <2>2, <2>3, <2>5
<1>15. CASE ForgetIp \/ ReadIp
  <2>1. c1 = c /\ UNCHANGED posting /\ mgr'.msg = Head(queue)
    BY <1>1, <1>2, <1>15 DEF ForgetIp, ReadIp, At
  <2>2. p' = p
    BY <2>1 DEF p
  <2>3. PICK k \in {"STA_DISCONNECTED", "STA_GOT_IP"} : Take(k)
    BY <1>15 DEF ForgetIp, ReadIp
  <2>4. Head(queue).code = k
    BY <2>3 DEF Take
  <2>5. b1 <=> LinkAt(Head(queue), b)
    BY <1>4, <2>1, <2>3, <2>4, <1>15 DEF LinkAt, ForgetIp, ReadIp, ClearIp, Take
  <2> QED BY <1>10, <2>1, <2>2, <2>3, <2>5
<1>16. CASE StartAttempt \/ AttemptFailed \/ RestartHttp \/ GotIp \/ StopAp
  <2>1. UNCHANGED <<queue, posting, staIp>> /\ c1 = c
    BY <1>1, <1>2, <1>16 DEF StartAttempt, AttemptFailed, RestartHttp, GotIp, EndRestore, StopAp,
       dataVars
  <2>2. mgr.pc # "receive" /\ mgr'.msg \in {NoMessage, mgr.msg}
        /\ (mgr'.msg = NoMessage \/ mgr.pc = "stop_ap")
    BY <1>16, ReceiveFacts DEF StartAttempt, AttemptFailed, RestartHttp, GotIp, StopAp, TypeOK
  <2> QED BY <1>11, <2>1, <2>2
<1>17. CASE UserDisconnected \/ ConnectionLost
  <2>1. UNCHANGED <<queue, staIp>> /\ c1 = c /\ mgr'.msg = NoMessage /\ mgr.pc = "disconnected"
    BY <1>1, <1>2, <1>17, ReceiveFacts DEF UserDisconnected, ConnectionLost
  <2>2. p' = p
    BY <1>17 DEF UserDisconnected, ConnectionLost, RestartAp, Post, p, TypeOK, Task
  <2>3. ~b /\ ~b1
    BY <1>3, <1>4, <2>1, CodeFacts DEF PlaceOK, LinkAt
  <2> QED BY <1>9, <2>1, <2>2, <2>3
<1>18. ASSUME NEW t \in Task, Deliver(t)
       PROVE  c1 <=> LinkAt(p', LinkAfter(queue', b1))
  <2>1. c1 = c /\ UNCHANGED <<mgr, staIp>> /\ queue' = Append(queue, posting[t])
    BY <1>1, <1>2, <1>18 DEF Deliver, managerVars, dataVars
  <2>2. posting[t] \in Messages
    BY <1>18 DEF Deliver, Free, TypeOK
  <2>3. LinkAfter(queue', b) <=> LinkAt(posting[t], LinkAfter(queue, b))
    BY <1>7, <2>1, <2>2, LinkFacts DEF LinkAt
  <2>4. CASE t = "events"
    <3>1. posting[t] = p /\ p' = NoMessage
      BY <1>18, <2>4 DEF Deliver, Post, TypeOK, p
    <3> QED BY <1>5, <1>12, <2>1, <2>3, <3>1, CodeFacts DEF LinkAt
  <2>5. CASE t # "events"
    <3>1. posting[t] \in Orders /\ p' = p
      BY <1>18, <2>5 DEF Deliver, Free, Post, PostingOK, TypeOK, Task, p
    <3>2. LinkAfter(queue', b) <=> LinkAfter(queue, b)
      BY <2>3, <3>1, CodeFacts DEF LinkAt
    <3> QED BY <1>5, <1>12, <2>1, <3>1, <3>2 DEF LinkAt
  <2> QED BY <2>4, <2>5
<1>19. CASE HandleEvent
  <2> DEFINE e == Head(events)
  <2>1. UNCHANGED <<queue, mgr, staIp>> /\ p = NoMessage
    BY <1>19 DEF HandleEvent, Free, managerVars, dataVars, p
  <2>2. e \in Event
    BY <1>19 DEF HandleEvent, TypeOK
  <2>3. c1 <=> LinkAt(e, c)
    BY <1>1, <1>2, <1>19 DEF HandleEvent, Clears, Sets, LinkAt
  <2>4. c <=> LinkAfter(queue, b)
    BY <1>5, <2>1, CodeFacts DEF LinkAt
  <2>5. CASE e \in Reports
    <3>1. p' = e
      BY <1>19, <2>5 DEF HandleEvent, Post, TypeOK, Task, p
    <3> QED BY <1>12, <2>1, <2>3, <2>4, <3>1 DEF LinkAt
  <2>6. CASE e \notin Reports
    <3>1. p' = p /\ e.code \in {"AP_START", "AP_STOP"}
      BY <1>19, <2>2, <2>6, CodeFacts DEF HandleEvent, p
    <3> QED BY <1>12, <2>1, <2>3, <2>4, <3>1, CodeFacts DEF LinkAt
  <2> QED BY <2>5, <2>6
<1>20. CASE \/ RunCommand \/ RetryTimerFires \/ ShutdownTimerFires \/ Portal
            \/ AttemptSucceeds \/ AttemptFails \/ LinkLost \/ ScanCompletes \/ UNCHANGED vars
  <2>1. UNCHANGED <<bits, queue, mgr, staIp>>
    BY <1>20 DEF RunCommand, RetryTimerFires, ShutdownTimerFires, Portal, RequestConnect, RequestDisconnect,
       RequestScan, AttemptSucceeds, AttemptFails, LinkLost, Station, ScanCompletes, vars,
       managerVars, dataVars
  <2>2. p' = p
    BY <1>20 DEF RunCommand, RetryTimerFires, ShutdownTimerFires, Portal, RequestConnect, RequestDisconnect,
       RequestScan, AttemptSucceeds, AttemptFails, LinkLost, Station, ScanCompletes, vars,
       Post, TypeOK, Task, p
  <2> QED BY <1>1, <1>2, <1>9, <1>12, <2>1, <2>2
<1>21. CASE PowerCycle
  <2>1. ~c1 /\ queue' = << >> /\ ~staIp' /\ mgr'.msg = NoMessage /\ p' = NoMessage
    BY <1>2, <1>21, ReceiveFacts DEF PowerCycle, BootPosting, Task, p
  <2>2. ~b1
    BY <1>4, <2>1, CodeFacts DEF LinkAt
  <2>3. ~LinkAfter(<< >>, b1)
    BY <2>2 DEF LinkAfter, After
  <2> QED BY <2>1, <2>3, CodeFacts DEF LinkAt
<1> QED
  BY <1>13, <1>14, <1>15, <1>16, <1>17, <1>18, <1>19, <1>20, <1>21 DEF Next, Step, Daemon, Manager

\* At the start the manager posts an order, and handles nothing.
LEMMA PlacesInit == Init => PostingOK /\ PlaceOK
BY MessageFacts, ReceiveFacts DEF Init, PostingOK, PlaceOK, BootPosting, Task

\* The same, message by message and along a sequence.
LEMMA LinkOneOrNone ==
  ASSUME NEW m \in Messages \cup {NoMessage}, NEW b \in BOOLEAN
  PROVE  /\ OneOrNone(m) \in Seq(Event \cup Messages)
         /\ LinkAfter(OneOrNone(m), b) <=> LinkAt(m, b)
<1>1. CASE m = NoMessage
  BY <1>1, CodeFacts, AfterEmpty DEF OneOrNone, LinkAfter, LinkAt
<1>2. CASE m # NoMessage
  <2>1. << >> \in Seq(Messages) /\ m \in Messages /\ OneOrNone(m) = Append(<< >>, m)
    BY <1>2 DEF OneOrNone
  <2>2. \A s \in Seq(Messages), e \in Messages : LinkAfter(Append(s, e), b) <=>
          e.code = "STA_GOT_IP" \/ (LinkAfter(s, b) /\ e.code # "STA_DISCONNECTED")
    BY LinkFacts
  <2>3. LinkAfter(<< >>, b) <=> b
    BY AfterEmpty DEF LinkAfter
  <2>4. OneOrNone(m) \in Seq(Event \cup Messages)
    BY <2>1, <1>2 DEF OneOrNone
  <2> QED BY <2>1, <2>2, <2>3, <2>4 DEF LinkAt
<1> QED BY <1>1, <1>2

\* The link after two sequences of messages is that after the second, from where
\* the first one led.
LEMMA LinkConcat ==
  ASSUME NEW s \in Seq(Event \cup Messages), NEW t \in Seq(Event \cup Messages),
         NEW b \in BOOLEAN, NEW c \in BOOLEAN, c <=> LinkAfter(s, b)
  PROVE  /\ s \o t \in Seq(Event \cup Messages)
         /\ LinkAfter(s \o t, b) <=> LinkAfter(t, c)
BY AfterConcat DEF LinkAfter

\* What the driver did is what the manager will believe.
LEMMA BeliefFollows == TypeOK /\ BeliefFollowsBit /\ BitsFollowDriver => BeliefFollowsDriver
<1> SUFFICES ASSUME TypeOK, BeliefFollowsBit, BitsFollowDriver
             PROVE  BeliefFollowsDriver
  OBVIOUS
<1> DEFINE S == Event \cup Messages
<1> DEFINE p == posting["events"]
<1> DEFINE s1 == OneOrNone(mgr.msg)
<1> DEFINE s2 == s1 \o queue
<1> DEFINE s3 == OneOrNone(p)
<1> DEFINE s4 == s2 \o s3
<1>1. /\ staIp \in BOOLEAN /\ mgr.msg \in Messages \cup {NoMessage}
      /\ p \in Messages \cup {NoMessage}
  BY DEF TypeOK, Task
<1>2. queue \in Seq(S) /\ events \in Seq(S)
  BY DEF TypeOK
<1>3. Pipeline = s4 \o events
  BY DEF Pipeline, Channel
<1>4. PICK b \in BOOLEAN : b <=> LinkAt(mgr.msg, staIp)
  OBVIOUS
<1>5. PICK y \in BOOLEAN : y <=> LinkAfter(queue, b)
  OBVIOUS
<1>6. PICK c \in BOOLEAN : c <=> "CONNECTED" \in bits
  OBVIOUS
<1>7. c <=> LinkAt(p, y)
  BY <1>4, <1>5, <1>6 DEF BeliefFollowsBit, LinkAt, LinkAfter, After
<1> HIDE DEF S, p, s1, s3
<1>8. s1 \in Seq(S) /\ (b <=> LinkAfter(s1, staIp))
  BY <1>1, <1>4, LinkOneOrNone DEF S, s1
<1>c. \A s \in Seq(S), t \in Seq(S), x \in BOOLEAN, z \in BOOLEAN :
        (z <=> LinkAfter(s, x)) =>
          s \o t \in Seq(S) /\ (LinkAfter(s \o t, x) <=> LinkAfter(t, z))
  BY LinkConcat DEF S
<1>9. s2 \in Seq(S) /\ (y <=> LinkAfter(s2, staIp))
  <2>1. (b <=> LinkAfter(s1, staIp)) => s2 \in Seq(S) /\ (LinkAfter(s2, staIp) <=> LinkAfter(queue, b))
    BY <1>1, <1>2, <1>8, <1>c
  <2> QED BY <2>1, <1>5, <1>8
<1> HIDE DEF s2
<1>10. s3 \in Seq(S) /\ (c <=> LinkAfter(s3, y))
  BY <1>1, <1>7, LinkOneOrNone DEF S, s3
<1>11. s4 \in Seq(S) /\ (c <=> LinkAfter(s4, staIp))
  <2>1. (y <=> LinkAfter(s2, staIp)) =>
          /\ s4 \in Seq(S)
          /\ LinkAfter(s4, staIp) <=> LinkAfter(s3, y)
    BY <1>1, <1>9, <1>10, <1>c
  <2> QED BY <2>1, <1>9, <1>10
<1> HIDE DEF s4
<1>12. LinkAfter(Pipeline, staIp) <=> LinkAfter(events, c)
  <2>1. (c <=> LinkAfter(s4, staIp)) =>
          (LinkAfter(s4 \o events, staIp) <=> LinkAfter(events, c))
    BY <1>1, <1>2, <1>11, <1>c
  <2> QED BY <2>1, <1>3, <1>11
<1>13. (sta = "connected") <=> LinkAfter(events, c)
  BY <1>6 DEF BitsFollowDriver, LinkAfter, After
<1> QED BY <1>12, <1>13 DEF BeliefFollowsDriver

\* What the manager believes of the link agrees with the driver, up to the news
\* on its way through the event loop, the queue and the handlers: for every set
\* of portal requests, every length of the queue and every bound on the events.
THEOREM BeliefCorrect == Spec => []BeliefFollowsDriver
<1> DEFINE Inv == PostingOK /\ PlaceOK /\ BeliefFollowsBit
<1>1. Init => Inv
  BY PlacesInit, BeliefBitInit
<1>2. TypeOK /\ Inv /\ [Next]_vars => Inv'
  BY PostingNext, PlaceNext, BeliefBitNext
<1>3. TypeOK /\ Inv /\ BitsFollowDriver => BeliefFollowsDriver
  BY BeliefFollows
<1> HIDE DEF Inv
<1> QED BY <1>1, <1>2, <1>3, TypeCorrect, BitsCorrect, PTL DEF Spec

-----------------------------------------------------------------------------
\* What the manager tells others follows from what it believes.

\* A set of indexes has a last one.
LEMMA LastIndex ==
  ASSUME NEW n \in Nat, NEW I \in SUBSET (1..n), I # {}
  PROVE  \E i \in I : \A j \in I : j <= i
<1> DEFINE T == {i..n : i \in I}
<1> DEFINE R == StrictSubsetOrdering(1..n)
<1> DEFINE F == FiniteSubsetsOf(1..n)
<1>1. IsWellFoundedOn(R, F)
  BY FS_StrictSubsetOrderingWellFounded
<1>2. T \subseteq F
  <2>1. \A i \in I : i..n \in SUBSET (1..n) /\ IsFiniteSet(i..n)
    BY FS_Interval
  <2> QED BY <2>1 DEF FiniteSubsetsOf
<1>3. \A i, j \in I : i < j => <<j..n, i..n>> \in R
  <2> SUFFICES ASSUME NEW i \in I, NEW j \in I, i < j
               PROVE  <<j..n, i..n>> \in R
    OBVIOUS
  <2>1. j..n \in SUBSET (1..n) /\ i..n \in SUBSET (1..n) /\ j..n \subseteq i..n
    OBVIOUS
  <2>2. i \in i..n /\ i \notin j..n
    OBVIOUS
  <2>3. j..n # i..n
    BY <2>2, Zenon
  <2> QED BY <2>1, <2>3 DEF StrictSubsetOrdering
<1>4. T # {}
  OBVIOUS
<1> HIDE DEF R, F
<1>5. \E x \in T : \A y \in T : <<y, x>> \notin R
  <2> HIDE DEF T
  <2> QED BY <1>1, <1>2, <1>4, WFMin
<1>6. PICK i \in I : \A j \in I : <<j..n, i..n>> \notin R
  BY <1>5
<1>7. \A j \in I : ~(i < j)
  BY <1>3, <1>6
<1> QED BY <1>7

\* What was on, or was switched on, and is no longer has been switched off.
LEMMA SwitchedOff ==
  ASSUME NEW S, NEW s \in Seq(S), NEW on, NEW off, NEW b,
         b \/ (\E i \in DOMAIN s : s[i].code = on), ~After(s, on, off, b)
  PROVE  \E i \in DOMAIN s : s[i].code = off
<1> SUFFICES ASSUME \A i \in DOMAIN s : s[i].code # off
             PROVE  FALSE
  OBVIOUS
<1> DEFINE I == {i \in DOMAIN s : s[i].code = on}
<1>1. I # {}
  BY DEF After
<1>2. Len(s) \in Nat /\ DOMAIN s = 1..Len(s)
  OBVIOUS
<1>3. I \in SUBSET (1..Len(s))
  BY <1>2
<1> HIDE DEF I
<1>4. PICK i \in I : \A j \in I : j <= i
  BY <1>1, <1>2, <1>3, LastIndex
<1>5. i \in DOMAIN s /\ s[i].code = on
  BY <1>4 DEF I
<1>6. ASSUME NEW j \in DOMAIN s, j > i
      PROVE  s[j].code \notin {on, off}
  <2>1. j \notin I
    BY <1>2, <1>4, <1>5, <1>6
  <2> QED BY <2>1 DEF I
<1> QED BY <1>5, <1>6 DEF After

\* What is on its way to the handlers is a sequence of messages and events.
LEMMA PipelineType == TypeOK => Pipeline \in Seq(Event \cup Messages)
<1> SUFFICES ASSUME TypeOK
             PROVE  Pipeline \in Seq(Event \cup Messages)
  OBVIOUS
<1>1. \A m \in Messages \cup {NoMessage} : OneOrNone(m) \in Seq(Event \cup Messages)
  BY LinkOneOrNone
<1>2. /\ OneOrNone(mgr.msg) \in Seq(Event \cup Messages)
      /\ OneOrNone(posting["events"]) \in Seq(Event \cup Messages)
  BY <1>1 DEF TypeOK, Task
<1>3. queue \in Seq(Event \cup Messages) /\ events \in Seq(Event \cup Messages)
  BY DEF TypeOK
<1> HIDE DEF OneOrNone
<1> QED BY <1>2, <1>3 DEF Pipeline, Channel

\* An address that is no longer good means that the news of it is on its way.
LEMMA IpLinked ==
  TypeOK /\ BeliefFollowsDriver /\ staIp => sta = "connected" \/ Awaited("STA_DISCONNECTED")
<1> SUFFICES ASSUME TypeOK, BeliefFollowsDriver, staIp, sta # "connected"
             PROVE  Awaited("STA_DISCONNECTED")
  OBVIOUS
<1>1. ~LinkAfter(Pipeline, staIp)
  BY DEF BeliefFollowsDriver
<1> QED BY <1>1, PipelineType, SwitchedOff DEF LinkAfter, Awaited

\* The status says connected only with an address; it is behind while the loss of
\* the link is being handled.
BeliefGuards == status = "CONNECTION_OK" => staIp \/ mgr.pc = "disconnected"

\* Every step keeps what the status says in agreement with the address.
LEMMA GuardsNext == PlaceOK /\ BeliefGuards /\ [Next]_vars => BeliefGuards'
<1> SUFFICES ASSUME PlaceOK, BeliefGuards, [Next]_vars
             PROVE  BeliefGuards'
  OBVIOUS
<1>1. CASE UNCHANGED <<status, staIp, mgr>>
  BY <1>1, Zenon DEF BeliefGuards
<1>2. CASE UNCHANGED <<status, staIp>> /\ mgr.pc # "disconnected"
  BY <1>2, Zenon DEF BeliefGuards
<1>3. CASE mgr'.pc = "disconnected" \/ status' # "CONNECTION_OK"
  BY <1>3, Zenon DEF BeliefGuards
<1>5. CASE staIp'
  BY <1>5, Zenon DEF BeliefGuards
<1>6. CASE ScanDone \/ StartWifiScan \/ LoadAndRestoreSta \/ DisconnectSta
           \/ (\E t \in Task : Deliver(t)) \/ HandleEvent
           \/ RunCommand \/ RetryTimerFires \/ ShutdownTimerFires
           \/ RequestDisconnect \/ RequestScan
           \/ AttemptSucceeds \/ AttemptFails \/ LinkLost \/ ScanCompletes \/ UNCHANGED vars
  BY <1>1, <1>6, Zenon DEF ScanDone, StartWifiScan, LoadAndRestoreSta, DisconnectSta, Deliver,
     HandleEvent, RunCommand, RetryTimerFires, ShutdownTimerFires, RequestDisconnect, RequestScan,
     AttemptSucceeds, AttemptFails, LinkLost, Station, ScanCompletes, vars, managerVars, dataVars
<1>7. CASE \/ MarkRequest \/ StartAttempt \/ StartAp \/ CheckConnected \/ StopAp \/ RestartHttp
  <2>1. mgr.pc # "disconnected"
    BY <1>7 DEF MarkRequest, StartAttempt, StartAp, CheckConnected, StopAp, RestartHttp, Take
  <2>2. UNCHANGED <<status, staIp>>
    BY <1>7, Zenon DEF MarkRequest, StartAttempt, StartAp, CheckConnected, StopAp, RestartHttp,
       dataVars
  <2> QED BY <1>2, <2>1, <2>2
<1>8. CASE ForgetIp
  BY <1>3, <1>8 DEF ForgetIp, At
<1>9. CASE \/ AttemptFailed \/ UserDisconnected \/ ConnectionLost \/ PowerCycle
           \/ \E n \in Network : RequestConnect(n)
  BY <1>3, <1>9 DEF AttemptFailed, UserDisconnected, ConnectionLost, ReportLoss, RequestConnect,
     PowerCycle
<1>10. CASE ReadIp
  BY <1>5, <1>10, Zenon DEF ReadIp
<1>11. CASE GotIp
  <2>1. staIp
    BY <1>11, Zenon DEF GotIp, PlaceOK
  <2> QED BY <1>5, <1>11, <2>1, Zenon DEF GotIp
<1> QED
  BY <1>6, <1>7, <1>8, <1>9, <1>10, <1>11 DEF Next, Step, Daemon, Manager, Portal

\* At the start the status is empty.
LEMMA GuardsInit == Init => BeliefGuards
BY DEF Init, BeliefGuards

\* The status says connected only for a manager that has an address or is just
\* handling the loss of the link.
THEOREM GuardsCorrect == Spec => []BeliefGuards
<1> DEFINE Inv == PostingOK /\ PlaceOK /\ BeliefGuards
<1>1. Init => Inv
  BY PlacesInit, GuardsInit
<1>2. TypeOK /\ Inv /\ [Next]_vars => Inv'
  BY PostingNext, PlaceNext, GuardsNext
<1>3. Inv => BeliefGuards
  OBVIOUS
<1> HIDE DEF Inv
<1> QED BY <1>1, <1>2, <1>3, TypeCorrect, PTL DEF Spec

\* A handler in two steps goes on with the message it began with, and with the
\* address that message left.
THEOREM PlacesCorrect == Spec => []PlaceOK
<1>1. Init => PlaceOK
  BY PlacesInit
<1>2. TypeOK /\ PlaceOK /\ [Next]_vars => PlaceOK'
  BY PlaceNext
<1> QED BY <1>1, <1>2, TypeCorrect, PTL DEF Spec

\* The first message of a sequence stays the first when others come behind it.
LEMMA FirstOfConcat ==
  ASSUME NEW S, NEW s \in Seq(S), NEW t \in Seq(S), s # << >>
  PROVE  /\ s \o t \in Seq(S) /\ s \o t # << >>
         /\ (s \o t)[1] = s[1] /\ 1 \in DOMAIN (s \o t)
OBVIOUS

\* status.json says "connected" only while the station is, or while the news
\* that it no longer is has yet to be handled.
THEOREM StatusCorrect == Spec => []StatusHonest
<1>1. TypeOK /\ PlaceOK /\ mgr.pc = "disconnected" => Awaited("STA_DISCONNECTED")
  <2> SUFFICES ASSUME TypeOK, PlaceOK, mgr.pc = "disconnected"
               PROVE  Awaited("STA_DISCONNECTED")
    OBVIOUS
  <2>1. mgr.msg.code = "STA_DISCONNECTED" /\ mgr.msg # NoMessage /\ mgr.msg \in Messages
    BY CodeFacts DEF PlaceOK, TypeOK
  <2> DEFINE S == Event \cup Messages
  <2> DEFINE s1 == <<mgr.msg>>
  <2> DEFINE s2 == s1 \o queue
  <2> DEFINE s3 == OneOrNone(posting["events"])
  <2> DEFINE s4 == s2 \o s3
  <2>2. Pipeline = s4 \o events
    BY <2>1 DEF Pipeline, Channel, OneOrNone
  <2>3. queue \in Seq(S) /\ events \in Seq(S) /\ s1 \in Seq(S) /\ s1 # << >>
    BY <2>1 DEF TypeOK
  <2>4. s3 \in Seq(S)
    BY LinkOneOrNone DEF TypeOK, Task
  <2> HIDE DEF s3, S
  <2>5. s2 \in Seq(S) /\ s2 # << >> /\ s2[1] = mgr.msg
    BY <2>3
  <2> HIDE DEF s2
  <2>6. s4 \in Seq(S) /\ s4 # << >> /\ s4[1] = mgr.msg
    BY <2>4, <2>5, FirstOfConcat
  <2> HIDE DEF s4
  <2>7. Pipeline[1] = mgr.msg /\ 1 \in DOMAIN Pipeline
    BY <2>2, <2>3, <2>6, FirstOfConcat
  <2> QED BY <2>1, <2>7 DEF Awaited
<1>2. TypeOK /\ PlaceOK /\ BeliefGuards /\ BeliefFollowsDriver => StatusHonest
  BY <1>1, IpLinked DEF BeliefGuards, StatusHonest
<1> QED BY <1>2, TypeCorrect, PlacesCorrect, GuardsCorrect, BeliefCorrect, PTL

-----------------------------------------------------------------------------
\* The captive portal's DNS.

\* The DNS task runs, or is about to be started, only with an access point.
DnsOK ==
  /\ dns => mode = "APSTA"
  /\ mgr.pc = "restart_http" /\ mgr.msg.code = "START_AP" => mode = "APSTA"
  /\ mgr.pc = "stop_ap" => mgr.msg.code = "STOP_AP"

\* At the start the DNS task does not run.
LEMMA DnsInit == Init => DnsOK
<1> SUFFICES ASSUME Init
             PROVE  DnsOK
  OBVIOUS
<1>1. ~dns
  BY Zenon DEF Init
<1>2. mgr.pc = "receive"
  BY ReceiveFacts DEF Init
<1> QED BY <1>1, <1>2 DEF DnsOK

\* Every step keeps the DNS task within the life of the access point.
LEMMA DnsNext == TypeOK /\ DnsOK /\ [Next]_vars => DnsOK'
<1> SUFFICES ASSUME TypeOK, DnsOK, [Next]_vars
             PROVE  DnsOK'
  OBVIOUS
\* Steps that leave the mode, and start nothing.
<1>1. ASSUME dns' => dns, mode' = mode,
             \/ mgr' = mgr
             \/ mgr'.pc \notin {"restart_http", "stop_ap"}
             \/ mgr'.pc = "stop_ap" /\ mgr'.msg.code = "STOP_AP"
      PROVE  DnsOK'
  BY <1>1 DEF DnsOK
<1>2. CASE \/ ScanDone \/ StartWifiScan \/ LoadAndRestoreSta \/ DisconnectSta
           \/ HandleEvent \/ RunCommand \/ RetryTimerFires \/ ShutdownTimerFires \/ Portal
           \/ AttemptSucceeds \/ AttemptFails \/ LinkLost \/ ScanCompletes
           \/ (\E t \in Task : Deliver(t)) \/ UNCHANGED vars
  <2>1. UNCHANGED <<mode, mgr>>
    BY <1>2 DEF ScanDone, StartWifiScan, LoadAndRestoreSta, DisconnectSta, HandleEvent,
       RunCommand, RetryTimerFires, ShutdownTimerFires, Portal, RequestConnect, RequestDisconnect, RequestScan,
       AttemptSucceeds, AttemptFails, LinkLost, Station, ScanCompletes, Deliver, vars,
       managerVars, driverVars
  <2>2. UNCHANGED dns
    BY <1>2, Zenon DEF ScanDone, StartWifiScan, LoadAndRestoreSta, DisconnectSta, HandleEvent,
       RunCommand, RetryTimerFires, ShutdownTimerFires, Portal, RequestConnect, RequestDisconnect, RequestScan,
       AttemptSucceeds, AttemptFails, LinkLost, Station, ScanCompletes, Deliver, vars
  <2> QED BY <1>1, <2>1, <2>2
<1>3. CASE \/ MarkRequest \/ StartAttempt \/ ForgetIp \/ AttemptFailed \/ UserDisconnected
           \/ ConnectionLost \/ ReadIp \/ GotIp
  <2>1. mode' = mode /\ mgr'.pc \in {"receive", "connect", "disconnected", "got_ip"}
    BY <1>3, ReceiveFacts DEF MarkRequest, StartAttempt, ForgetIp, AttemptFailed,
       UserDisconnected, ConnectionLost, ReadIp, GotIp, At, driverVars
  <2>2. dns' => dns
    BY <1>3, Zenon DEF MarkRequest, StartAttempt, ForgetIp, AttemptFailed, UserDisconnected,
       ConnectionLost, ReadIp, GotIp
  <2> QED BY <1>1, <2>1, <2>2
<1>4. CASE CheckConnected
  <2>1. mode' = mode /\ mgr'.pc = "stop_ap" /\ mgr'.msg.code = "STOP_AP"
    BY <1>4 DEF CheckConnected, Take, At, driverVars
  <2>2. UNCHANGED dns
    BY <1>4, Zenon DEF CheckConnected
  <2> QED BY <1>1, <2>1, <2>2
<1>5. CASE StartAp
  BY <1>5 DEF StartAp, EspWifiSetMode, At, DnsOK
<1>6. CASE StopAp
  <2>1. CASE mgr' = Receive /\ UNCHANGED <<mode, dns>>
    BY <1>1, <2>1, ReceiveFacts
  <2>2. CASE /\ dns' = FALSE
             /\ mgr.pc = "stop_ap"
             /\ mgr' = [mgr EXCEPT !.pc = "restart_http", !.seen = {}]
    <3>1. mgr'.pc = "restart_http" /\ mgr'.msg.code = "STOP_AP"
      BY <2>2 DEF DnsOK, TypeOK
    <3> QED BY <2>2, <3>1 DEF DnsOK
  <2> QED BY <1>6, <2>1, <2>2, Zenon DEF StopAp
<1>7. CASE RestartHttp
  <2>1. mode' = mode /\ mgr'.pc = "receive"
    BY <1>7, ReceiveFacts DEF RestartHttp, driverVars
  <2>2. dns' => dns \/ (mgr.pc = "restart_http" /\ mgr.msg.code = "START_AP")
    BY <1>7, Zenon DEF RestartHttp, StartDns
  <2> QED BY <2>1, <2>2 DEF DnsOK
<1>8. CASE PowerCycle
  <2>1. mgr'.pc = "receive"
    BY <1>8, ReceiveFacts DEF PowerCycle
  <2>2. ~dns'
    BY <1>8, Zenon DEF PowerCycle
  <2> QED BY <2>1, <2>2 DEF DnsOK
<1> QED
  BY <1>2, <1>3, <1>4, <1>5, <1>6, <1>7, <1>8 DEF Next, Step, Daemon, Manager

\* The captive portal's DNS answers only while there is an access point.
THEOREM DnsCorrect == Spec => []DnsNeedsAp
<1>1. TypeOK /\ DnsOK /\ [Next]_vars => DnsOK'
  BY DnsNext
<1>2. DnsOK => DnsNeedsAp
  BY DEF DnsOK, DnsNeedsAp
<1> QED BY <1>1, <1>2, DnsInit, TypeCorrect, PTL DEF Spec

-----------------------------------------------------------------------------
\* When the access point is taken down.

\* The loss of the link is among the messages of s.
HasLoss(s) == \E i \in DOMAIN s : s[i].code = "STA_DISCONNECTED"

\* A loss of the link is still among the messages when others are appended, and
\* until it is taken.
LEMMA HasLossFacts ==
  ASSUME NEW S, NEW s \in Seq(S)
  PROVE  /\ \A e \in S : HasLoss(Append(s, e)) <=> HasLoss(s) \/ e.code = "STA_DISCONNECTED"
         /\ s # << >> /\ HasLoss(s) => HasLoss(Tail(s)) \/ Head(s).code = "STA_DISCONNECTED"
<1>1. ASSUME NEW e \in S
      PROVE  HasLoss(Append(s, e)) <=> HasLoss(s) \/ e.code = "STA_DISCONNECTED"
  <2> DEFINE t == Append(s, e)
  <2>1. /\ DOMAIN s = 1..Len(s) /\ Len(s) \in Nat /\ DOMAIN t = 1..(Len(s) + 1)
        /\ t[Len(s) + 1] = e /\ \A i \in DOMAIN s : t[i] = s[i]
    OBVIOUS
  <2> HIDE DEF t
  <2>2. HasLoss(t) <=> HasLoss(s) \/ e.code = "STA_DISCONNECTED"
    BY <2>1 DEF HasLoss
  <2> QED BY <2>2 DEF t
<1>2. ASSUME s # << >>, HasLoss(s)
      PROVE  HasLoss(Tail(s)) \/ Head(s).code = "STA_DISCONNECTED"
  <2> DEFINE t == Tail(s)
  <2>1. \A i \in DOMAIN s : i # 1 => i - 1 \in DOMAIN t /\ t[i - 1] = s[i]
    BY <1>2
  <2>2. s[1] = Head(s)
    BY <1>2
  <2> HIDE DEF t
  <2>3. HasLoss(t) \/ s[1].code = "STA_DISCONNECTED"
    BY <1>2, <2>1 DEF HasLoss
  <2> QED BY <2>2, <2>3 DEF t
<1> QED BY <1>1, <1>2

\* A loss in one of two sequences is in both together.
LEMMA HasLossConcat ==
  ASSUME NEW S, NEW s \in Seq(S), NEW t \in Seq(S), HasLoss(s) \/ HasLoss(t)
  PROVE  HasLoss(s \o t)
<1> DEFINE u == s \o t
<1>1. /\ Len(s) \in Nat /\ DOMAIN u = 1..(Len(s) + Len(t))
      /\ \A i \in DOMAIN s : i \in DOMAIN u /\ u[i] = s[i]
      /\ \A i \in DOMAIN t : Len(s) + i \in DOMAIN u /\ u[Len(s) + i] = t[i]
  OBVIOUS
<1> HIDE DEF u
<1>2. HasLoss(u)
  BY <1>1 DEF HasLoss
<1> QED BY <1>2 DEF u

\* The loss of the link is between the driver and the manager's handler.
LossAhead == HasLoss(queue) \/ posting["events"].code = "STA_DISCONNECTED" \/ HasLoss(events)

\* A loss in the queue, being posted or among the events is awaited.
LEMMA LossAwaited == TypeOK /\ LossAhead => Awaited("STA_DISCONNECTED")
<1> SUFFICES ASSUME TypeOK, LossAhead
             PROVE  HasLoss(Pipeline)
  BY DEF Awaited, HasLoss
<1> DEFINE S == Event \cup Messages
<1> DEFINE p == posting["events"]
<1> DEFINE s1 == OneOrNone(mgr.msg)
<1> DEFINE s2 == s1 \o queue
<1> DEFINE s3 == OneOrNone(p)
<1> DEFINE s4 == s2 \o s3
<1>1. Pipeline = s4 \o events
  BY DEF Pipeline, Channel
<1>2. mgr.msg \in Messages \cup {NoMessage} /\ p \in Messages \cup {NoMessage}
  BY DEF TypeOK, Task
<1>3. queue \in Seq(S) /\ events \in Seq(S)
  BY DEF TypeOK
<1>4. p.code = "STA_DISCONNECTED" => HasLoss(s3)
  BY <1>2, CodeFacts DEF OneOrNone, HasLoss
<1>5. HasLoss(queue) \/ HasLoss(s3) \/ HasLoss(events)
  BY <1>4 DEF LossAhead
<1> HIDE DEF S, p, s1, s3
<1>6. s1 \in Seq(S) /\ s3 \in Seq(S)
  BY <1>2, LinkOneOrNone DEF S, s1, s3
<1>7. s2 \in Seq(S) /\ (HasLoss(queue) => HasLoss(s2))
  BY <1>3, <1>6, HasLossConcat
<1> HIDE DEF s2
<1>8. s4 \in Seq(S) /\ (HasLoss(s2) \/ HasLoss(s3) => HasLoss(s4))
  BY <1>6, <1>7, HasLossConcat
<1> HIDE DEF s4
<1>9. HasLoss(s4) \/ HasLoss(events) => HasLoss(s4 \o events)
  BY <1>3, <1>8, HasLossConcat
<1> QED BY <1>1, <1>5, <1>7, <1>8, <1>9

\* What STOP_AP's handler read of CONNECTED_BIT may be old, but then the loss of
\* the link is in front of the manager.
StopOK == mgr.pc = "stop_ap" /\ "CONNECTED" \in mgr.seen => sta = "connected" \/ LossAhead

\* Every step keeps that old news of the link is contradicted by a loss ahead.
LEMMA StopNext == TypeOK /\ BitsFollowDriver /\ StopOK /\ [Next]_vars => StopOK'
<1> SUFFICES ASSUME TypeOK, BitsFollowDriver, StopOK, [Next]_vars
             PROVE  StopOK'
  OBVIOUS
<1>t. /\ queue \in Seq(Messages) /\ events \in Seq(Event)
      /\ posting \in [Task -> Messages \cup {NoMessage}]
  BY DEF TypeOK
<1>1. CASE mgr'.pc # "stop_ap"
  BY <1>1 DEF StopOK
<1>2. CASE UNCHANGED <<mgr, sta, queue, posting, events>>
  BY <1>2 DEF StopOK, LossAhead
<1>3. CASE CheckConnected
  <2>1. UNCHANGED <<sta, events, bits>> /\ ("CONNECTED" \in mgr'.seen => "CONNECTED" \in bits)
    BY <1>3 DEF CheckConnected, At, driverVars
  <2>2. "CONNECTED" \in bits /\ sta # "connected" => HasLoss(events)
    BY <1>t, SwitchedOff DEF BitsFollowDriver, LinkAfter, HasLoss
  <2> QED BY <2>1, <2>2 DEF StopOK, LossAhead
<1>4. CASE \/ MarkRequest \/ StartAttempt \/ ForgetIp \/ AttemptFailed \/ UserDisconnected
           \/ ConnectionLost \/ StartAp \/ StopAp \/ RestartHttp \/ ReadIp \/ GotIp \/ PowerCycle
  <2>1. mgr \in [pc : Places, msg : Messages \cup {NoMessage}, seen : SUBSET Bits]
    BY DEF TypeOK
  <2>2. mgr'.pc # "stop_ap"
    <3>1. CASE MarkRequest \/ ForgetIp \/ StartAp \/ ReadIp
      BY <3>1 DEF MarkRequest, ForgetIp, StartAp, ReadIp, At
    <3>2. CASE \/ StartAttempt \/ AttemptFailed \/ UserDisconnected \/ ConnectionLost
               \/ RestartHttp \/ GotIp \/ PowerCycle
      BY <3>2, ReceiveFacts DEF StartAttempt, AttemptFailed, UserDisconnected, ConnectionLost,
         RestartHttp, GotIp, PowerCycle
    <3>3. CASE StopAp
      BY <2>1, <3>3, ReceiveFacts DEF StopAp
    <3> QED BY <1>4, <3>1, <3>2, <3>3
  <2> QED BY <1>1, <2>2
<1>5. CASE ScanDone \/ StartWifiScan \/ LoadAndRestoreSta \/ DisconnectSta
  <2>1. mgr.pc = "receive" /\ mgr' = mgr
    BY <1>5 DEF ScanDone, StartWifiScan, LoadAndRestoreSta, DisconnectSta, Take, managerVars
  <2> QED BY <1>1, <2>1
<1>6. ASSUME NEW t \in Task, Deliver(t)
      PROVE  StopOK'
  <2>1. UNCHANGED <<mgr, sta, events>> /\ queue' = Append(queue, posting[t])
        /\ (t # "events" => posting'["events"] = posting["events"])
    BY <1>6, <1>t DEF Deliver, Post, managerVars, driverVars, Task
  <2>2. HasLoss(queue') <=> HasLoss(queue) \/ posting[t].code = "STA_DISCONNECTED"
    BY <1>6, <1>t, <2>1, HasLossFacts DEF Deliver, Free
  <2> QED BY <2>1, <2>2 DEF StopOK, LossAhead
<1>7. CASE HandleEvent
  <2>1. /\ events # << >> /\ events' = Tail(events) /\ UNCHANGED <<mgr, sta, queue>>
        /\ posting["events"] = NoMessage
    BY <1>7 DEF HandleEvent, managerVars, Free
  <2>2. HasLoss(events) => HasLoss(events') \/ Head(events).code = "STA_DISCONNECTED"
    BY <1>t, <2>1, HasLossFacts
  <2>3. Head(events).code = "STA_DISCONNECTED" => posting'["events"] = Head(events)
    BY <1>7, <1>t, <2>1, CodeFacts DEF HandleEvent, Post, Task
  <2> QED BY <2>1, <2>2, <2>3, CodeFacts DEF StopOK, LossAhead
<1>8. CASE RunCommand \/ RetryTimerFires \/ ShutdownTimerFires \/ Portal
  <2>1. UNCHANGED <<mgr, sta, queue, events>> /\ posting'["events"] = posting["events"]
    BY <1>8, <1>t DEF RunCommand, RetryTimerFires, ShutdownTimerFires, Portal, RequestConnect,
       RequestDisconnect, RequestScan, Post, managerVars, driverVars, Task
  <2> QED BY <2>1 DEF StopOK, LossAhead
<1>9. CASE AttemptSucceeds \/ AttemptFails \/ LinkLost \/ ScanCompletes
  <2>1. PICK e \in Event : /\ events' = Append(events, e)
                           /\ sta' = "connected" \/ sta' = sta \/ e.code = "STA_DISCONNECTED"
    BY <1>9, MessageFacts, CodeFacts DEF AttemptSucceeds, AttemptFails, LinkLost, Station,
       ScanCompletes
  <2>2. UNCHANGED <<mgr, queue, posting>>
    BY <1>9 DEF AttemptSucceeds, AttemptFails, LinkLost, Station, ScanCompletes, managerVars
  <2>3. HasLoss(events') <=> HasLoss(events) \/ e.code = "STA_DISCONNECTED"
    BY <1>t, <2>1, HasLossFacts
  <2> QED BY <2>1, <2>2, <2>3 DEF StopOK, LossAhead
<1>10. CASE UNCHANGED vars
  BY <1>2, <1>10 DEF vars, managerVars, driverVars
<1> QED
  BY <1>3, <1>4, <1>5, <1>6, <1>7, <1>8, <1>9, <1>10 DEF Next, Step, Daemon, Manager

\* The access point is taken down only from a device that is online, or whose
\* loss of the link the manager has yet to handle.
THEOREM ApStopCorrect == Spec => ApStopsOnlyOnline
<1> DEFINE Online == sta = "connected" \/ Awaited("STA_DISCONNECTED")
<1>1. Init => StopOK
  BY ReceiveFacts DEF Init, StopOK
<1>2. TypeOK /\ BitsFollowDriver /\ StopOK /\ [Next]_vars => StopOK'
  BY StopNext
<1>3. TypeOK /\ StopOK => (StopAp /\ mode = "APSTA" /\ mode' = "STA" => Online)
  <2> SUFFICES ASSUME TypeOK, StopOK, StopAp, mode = "APSTA", mode' = "STA"
               PROVE  Online
    OBVIOUS
  <2>1. mgr.pc = "stop_ap" /\ "CONNECTED" \in mgr.seen
    BY DEF StopAp, StillConnected
  <2> QED BY <2>1, LossAwaited DEF StopOK
<1>4. TypeOK /\ StopOK /\ [Next]_vars =>
        [StopAp /\ mode = "APSTA" /\ mode' = "STA" => Online]_vars
  BY <1>3
<1> QED
  BY <1>1, <1>2, <1>4, TypeCorrect, BitsCorrect, PTL DEF Spec, ApStopsOnlyOnline

-----------------------------------------------------------------------------
\* The refinement of LinkNews.

\* LinkNewsIn's function, one message at a time.
NewsBody(s, first, n) ==
  IF n = 0 THEN << >>
  ELSE IF IsLinkNews(s[n]) THEN Append(first[n - 1], News(s[n])) ELSE first[n - 1]
NewsFunction == INSTANCE Recursion WITH Body <- NewsBody
\* What the news can be.
Changes == {"up", "down"}

NewsUpTo(s) == NewsFunction!Function(s, Len(s))

\* The news of the first n messages: what the function holds for n.
LEMMA NewsFacts ==
  ASSUME NEW S, NEW s \in Seq(S)
  PROVE  /\ LinkNewsIn(s) = NewsUpTo(s)[Len(s)]
         /\ NewsUpTo(s)[0] = << >>
         /\ \A n \in 1..Len(s) :
              NewsUpTo(s)[n] = IF IsLinkNews(s[n]) THEN Append(NewsUpTo(s)[n - 1], News(s[n]))
                                                   ELSE NewsUpTo(s)[n - 1]
<1>1. Len(s) \in Nat
  OBVIOUS
<1>2. NewsFunction!LooksBack(s, Len(s))
  BY DEF NewsFunction!LooksBack, NewsBody
<1>3. LinkNewsIn(s) = NewsUpTo(s)[Len(s)]
  BY DEF LinkNewsIn, NewsUpTo, NewsFunction!Function, NewsBody
<1>4. NewsUpTo(s) = [n \in 0..Len(s) |-> NewsBody(s, NewsUpTo(s), n)]
  <2> HIDE DEF NewsBody
  <2> QED BY <1>1, <1>2, NewsFunction!Defined DEF NewsUpTo
<1>5. \A n \in 0..Len(s) : NewsUpTo(s)[n] = NewsBody(s, NewsUpTo(s), n)
  BY <1>4
<1> QED BY <1>1, <1>3, <1>5 DEF NewsBody

\* There is none in no message, and it is of one kind or the other.
LEMMA NewsType ==
  ASSUME NEW S, NEW s \in Seq(S)
  PROVE  /\ \A n \in 0..Len(s) : NewsUpTo(s)[n] \in Seq(Changes)
         /\ LinkNewsIn(s) \in Seq(Changes)
<1> DEFINE P == {n \in Nat : n <= Len(s) => NewsUpTo(s)[n] \in Seq(Changes)}
<1>1. 0 \in P
  <2>1. NewsUpTo(s)[0] = << >>
    BY NewsFacts
  <2>2. << >> \in Seq(Changes)
    OBVIOUS
  <2> QED BY <2>1, <2>2
<1>2. ASSUME NEW n \in Nat, n \in P
      PROVE  n + 1 \in P
  <2> SUFFICES ASSUME n + 1 <= Len(s)
               PROVE  NewsUpTo(s)[n + 1] \in Seq(Changes)
    OBVIOUS
  <2>1. n + 1 \in 1..Len(s) /\ (n + 1) - 1 = n
    OBVIOUS
  <2>2. NewsUpTo(s)[n + 1] = IF IsLinkNews(s[n + 1])
                               THEN Append(NewsUpTo(s)[n], News(s[n + 1])) ELSE NewsUpTo(s)[n]
    BY <2>1, NewsFacts
  <2>3. News(s[n + 1]) \in Changes
    BY DEF News, Changes
  <2> QED BY <1>2, <2>2, <2>3
<1>3. Nat \subseteq P
  <2> HIDE DEF P
  <2> QED BY <1>1, <1>2, NewsFunction!Induction
<1>4. \A n \in 0..Len(s) : NewsUpTo(s)[n] \in Seq(Changes)
  BY <1>3
<1> QED BY <1>4, NewsFacts

\* Appending to the second of two sequences behind one another.
LEMMA AppendConcat ==
  \A f, g \in Seq(Changes), e \in Changes : Append(f \o g, e) = f \o Append(g, e)
OBVIOUS

\* The news in messages behind one another are behind one another.
LEMMA NewsConcat ==
  ASSUME NEW S, NEW s \in Seq(S), NEW t \in Seq(S)
  PROVE  LinkNewsIn(s \o t) = LinkNewsIn(s) \o LinkNewsIn(t)
<1> DEFINE u == s \o t
<1> DEFINE f == NewsUpTo(s)
<1> DEFINE g == NewsUpTo(t)
<1> DEFINE h == NewsUpTo(u)
<1>1. /\ u \in Seq(S) /\ Len(s) \in Nat /\ Len(t) \in Nat /\ Len(u) = Len(s) + Len(t)
      /\ \A i \in 1..Len(s) : u[i] = s[i]
      /\ \A i \in 1..Len(t) : u[Len(s) + i] = t[i]
  OBVIOUS
<1>2. /\ LinkNewsIn(s) = f[Len(s)] /\ LinkNewsIn(t) = g[Len(t)] /\ LinkNewsIn(u) = h[Len(u)]
      /\ f[0] = << >> /\ g[0] = << >> /\ h[0] = << >>
      /\ \A n \in 1..Len(s) : f[n] = IF IsLinkNews(s[n]) THEN Append(f[n - 1], News(s[n])) ELSE f[n - 1]
      /\ \A n \in 1..Len(t) : g[n] = IF IsLinkNews(t[n]) THEN Append(g[n - 1], News(t[n])) ELSE g[n - 1]
      /\ \A n \in 1..Len(u) : h[n] = IF IsLinkNews(u[n]) THEN Append(h[n - 1], News(u[n])) ELSE h[n - 1]
  BY <1>1, NewsFacts
<1>3. /\ \A n \in 0..Len(s) : f[n] \in Seq(Changes)
      /\ \A n \in 0..Len(t) : g[n] \in Seq(Changes)
  BY NewsType
<1> SUFFICES h[Len(s) + Len(t)] = f[Len(s)] \o g[Len(t)]
  BY <1>1, <1>2
<1> HIDE DEF u, f, g, h
<1> DEFINE P == {n \in Nat : n <= Len(s) => h[n] = f[n]}
<1>4. 0 \in P
  BY <1>2
<1>5. ASSUME NEW n \in Nat, n \in P
      PROVE  n + 1 \in P
  <2> SUFFICES ASSUME n + 1 <= Len(s)
               PROVE  h[n + 1] = f[n + 1]
    OBVIOUS
  <2>1. n + 1 \in 1..Len(s) /\ n + 1 \in 1..Len(u) /\ (n + 1) - 1 = n
    BY <1>1
  <2> QED BY <1>1, <1>2, <1>5, <2>1
<1>6. Nat \subseteq P
  <2> HIDE DEF P
  <2> QED BY <1>4, <1>5, NewsFunction!Induction
<1> DEFINE Q == {n \in Nat : n <= Len(t) => h[Len(s) + n] = f[Len(s)] \o g[n]}
<1>7. 0 \in Q
  <2>1. h[Len(s)] = f[Len(s)]
    BY <1>1, <1>6
  <2>2. f[Len(s)] \in Seq(Changes) /\ g[0] = << >> /\ Len(s) + 0 = Len(s)
    BY <1>1, <1>2, <1>3
  <2>3. f[Len(s)] \o << >> = f[Len(s)]
    BY <2>2
  <2> QED BY <2>1, <2>2, <2>3
<1>8. ASSUME NEW n \in Nat, n \in Q
      PROVE  n + 1 \in Q
  <2> SUFFICES ASSUME n + 1 <= Len(t)
               PROVE  h[Len(s) + (n + 1)] = f[Len(s)] \o g[n + 1]
    <3>1. n + 1 \in Nat
      OBVIOUS
    <3> QED BY Zenon, <3>1
  <2> DEFINE k == Len(s) + (n + 1)
  <2>1. /\ n + 1 \in 1..Len(t) /\ n \in 0..Len(t) /\ (n + 1) - 1 = n
        /\ k \in 1..Len(u) /\ k - 1 = Len(s) + n
    BY <1>1
  <2>2. h[Len(s) + n] = f[Len(s)] \o g[n] /\ u[k] = t[n + 1]
    <3>1. n <= Len(t) /\ u[k] = t[n + 1]
      BY <1>1, <2>1
    <3> QED BY Zenon, <1>8, <3>1
  <2>3. h[k] = IF IsLinkNews(t[n + 1]) THEN Append(h[Len(s) + n], News(t[n + 1])) ELSE h[Len(s) + n]
    BY <1>2, <2>1, <2>2
  <2>4. g[n + 1] = IF IsLinkNews(t[n + 1]) THEN Append(g[n], News(t[n + 1])) ELSE g[n]
    BY <1>2, <2>1
  <2>5. f[Len(s)] \in Seq(Changes) /\ g[n] \in Seq(Changes)
        /\ News(t[n + 1]) \in Changes
    BY <1>1, <1>3, <2>1 DEF News, Changes
  <2>6. Append(f[Len(s)] \o g[n], News(t[n + 1])) = f[Len(s)] \o Append(g[n], News(t[n + 1]))
    BY Zenon, <2>5, AppendConcat
  <2> QED BY <2>2, <2>3, <2>4, <2>5, <2>6
<1>9. Nat \subseteq Q
  <2> HIDE DEF Q
  <2> QED BY <1>7, <1>8, NewsFunction!Induction
<1>10. Len(t) \in Q
  BY <1>1, <1>9
<1>11. Len(t) <= Len(t)
  BY <1>1
<1> QED BY Zenon, <1>10, <1>11

\* The news of one message, ...
LEMMA NewsOfOne ==
  ASSUME NEW m
  PROVE  LinkNewsIn(<<m>>) = IF IsLinkNews(m) THEN <<News(m)>> ELSE << >>
<1>1. <<m>> \in Seq({m}) /\ Len(<<m>>) = 1 /\ <<m>>[1] = m
  OBVIOUS
<1> DEFINE s == <<m>>
<1>2. s \in Seq({m}) /\ Len(s) = 1 /\ s[1] = m /\ 1 \in 1..Len(s) /\ 1 - 1 = 0
  BY <1>1
<1> HIDE DEF s
<1>3. LinkNewsIn(s) = NewsUpTo(s)[1]
  BY <1>2, NewsFacts
<1>4. NewsUpTo(s)[1] = IF IsLinkNews(m) THEN Append(<< >>, News(m)) ELSE << >>
  <2>1. NewsUpTo(s)[1] = IF IsLinkNews(s[1]) THEN Append(NewsUpTo(s)[1 - 1], News(s[1]))
                                             ELSE NewsUpTo(s)[1 - 1]
    BY <1>2, NewsFacts
  <2>2. NewsUpTo(s)[0] = << >>
    BY <1>2, NewsFacts
  <2> QED BY Zenon, <1>2, <2>1, <2>2
<1>5. Append(<< >>, News(m)) = <<News(m)>>
  OBVIOUS
<1> QED BY <1>3, <1>4, <1>5 DEF s

\* ... of none, ...
LEMMA NewsEmpty == LinkNewsIn(<< >>) = << >>
<1>1. << >> \in Seq({}) /\ Len(<< >>) = 0
  OBVIOUS
<1> QED BY <1>1, NewsFacts

\* ... with one more, ...
LEMMA NewsAppend ==
  ASSUME NEW S, NEW s \in Seq(S), NEW m \in S
  PROVE  LinkNewsIn(Append(s, m)) = IF IsLinkNews(m) THEN Append(LinkNewsIn(s), News(m))
                                                     ELSE LinkNewsIn(s)
<1>1. Append(s, m) = s \o <<m>> /\ <<m>> \in Seq(S)
  OBVIOUS
<1>2. LinkNewsIn(s) \in Seq(Changes) /\ News(m) \in Changes
  BY NewsType DEF News, Changes
<1>3. LinkNewsIn(s \o <<m>>) = LinkNewsIn(s) \o LinkNewsIn(<<m>>)
  BY <1>1, NewsConcat
<1>4. LinkNewsIn(s) \o <<News(m)>> = Append(LinkNewsIn(s), News(m))
  BY <1>2
<1>5. LinkNewsIn(s) \o << >> = LinkNewsIn(s)
  BY <1>2
<1> QED BY <1>1, <1>3, <1>4, <1>5, NewsOfOne

\* ... and with the oldest one handled.
LEMMA NewsTail ==
  ASSUME NEW S, NEW s \in Seq(S), s # << >>
  PROVE  LinkNewsIn(s) = IF IsLinkNews(Head(s)) THEN <<News(Head(s))>> \o LinkNewsIn(Tail(s))
                                                ELSE LinkNewsIn(Tail(s))
<1>1. s = <<Head(s)>> \o Tail(s) /\ <<Head(s)>> \in Seq(S) /\ Tail(s) \in Seq(S)
  OBVIOUS
<1>2. LinkNewsIn(Tail(s)) \in Seq(Changes)
  BY <1>1, NewsType
<1>3. << >> \o LinkNewsIn(Tail(s)) = LinkNewsIn(Tail(s))
  BY <1>2
<1>4. LinkNewsIn(<<Head(s)>> \o Tail(s)) = LinkNewsIn(<<Head(s)>>) \o LinkNewsIn(Tail(s))
  BY <1>1, NewsConcat
<1> QED BY <1>1, <1>3, <1>4, NewsOfOne

-----------------------------------------------------------------------------
\* The news on its way, and that of one message.
Under     == LinkNewsIn((queue \o OneOrNone(posting["events"])) \o events)
NewsOf(m) == IF IsLinkNews(m) THEN <<News(m)>> ELSE << >>
Linked    == sta = "connected"

\* Sequences of news behind one another.
LEMMA ChangesFacts ==
  /\ << >> \in Seq(Changes)
  /\ \A f, g \in Seq(Changes) : f \o g \in Seq(Changes)
  /\ \A f \in Seq(Changes) : f \o << >> = f /\ << >> \o f = f
  /\ \A f, g, h \in Seq(Changes) : (f \o g) \o h = f \o (g \o h)
  /\ \A e \in Changes : <<e>> \in Seq(Changes)
  /\ \A f \in Seq(Changes), e \in Changes :
       /\ <<e>> \o f # << >> /\ Head(<<e>> \o f) = e /\ Tail(<<e>> \o f) = f
       /\ Append(f, e) \in Seq(Changes)
OBVIOUS

\* The news on its way is that of the queue, of the event loop's message and of
\* the events, behind one another.
LEMMA UnderParts ==
  ASSUME NEW s \in Seq(Messages), NEW m \in Messages \cup {NoMessage}, NEW t \in Seq(Event)
  PROVE  /\ LinkNewsIn(s) \in Seq(Changes) /\ NewsOf(m) \in Seq(Changes)
         /\ LinkNewsIn(t) \in Seq(Changes)
         /\ LinkNewsIn((s \o OneOrNone(m)) \o t) = (LinkNewsIn(s) \o NewsOf(m)) \o LinkNewsIn(t)
<1> DEFINE p == OneOrNone(m)
<1> DEFINE S == Messages \cup Event
<1>1. s \in Seq(S) /\ t \in Seq(S)
  OBVIOUS
<1>2. p \in Seq(S)
  <2>1. << >> \in Seq(S) /\ \A x \in S : <<x>> \in Seq(S)
    OBVIOUS
  <2>2. m # NoMessage => m \in S
    OBVIOUS
  <2> HIDE DEF S
  <2> QED BY <2>1, <2>2 DEF OneOrNone
<1>3. s \o p \in Seq(S)
  BY <1>1, <1>2
<1> HIDE DEF S, p
<1>4. LinkNewsIn(s) \in Seq(Changes) /\ LinkNewsIn(p) \in Seq(Changes)
      /\ LinkNewsIn(t) \in Seq(Changes)
  BY <1>1, <1>2, NewsType
<1>5. LinkNewsIn(s \o p) = LinkNewsIn(s) \o LinkNewsIn(p)
  BY <1>1, <1>2, NewsConcat
<1>6. LinkNewsIn((s \o p) \o t) = LinkNewsIn(s \o p) \o LinkNewsIn(t)
  BY <1>1, <1>3, NewsConcat
<1>7. LinkNewsIn(p) = NewsOf(m)
  <2>1. CASE m = NoMessage
    <3>1. ~IsLinkNews(m)
      BY <2>1, CodeFacts DEF IsLinkNews
    <3>2. p = << >> /\ p \in Seq(S) /\ Len(p) = 0
      BY <1>2, <2>1 DEF p, OneOrNone
    <3>3. LinkNewsIn(p) = << >>
      BY <3>2, NewsFacts
    <3> QED BY <3>1, <3>3 DEF NewsOf
  <2>2. CASE m # NoMessage
    BY <2>2, NewsOfOne DEF p, OneOrNone, NewsOf
  <2> QED BY <2>1, <2>2
<1> QED BY <1>4, <1>5, <1>6, <1>7 DEF p

\* Only GOT_IP and DISCONNECTED are news of the link.
LEMMA NewsCodes ==
  /\ \A m \in Orders \cup {NoMessage} : ~IsLinkNews(m)
  /\ \A m \in Event : IsLinkNews(m) => m \in Reports
  /\ ~IsLinkNews(Message("SCAN_DONE")) /\ ~IsLinkNews(Message("AP_START"))
  /\ ~IsLinkNews(Message("AP_STOP"))
  /\ IsLinkNews(Message("STA_GOT_IP")) /\ News(Message("STA_GOT_IP")) = "up"
  /\ \A r \in Reasons : /\ IsLinkNews(StaDisconnected(r))
                        /\ News(StaDisconnected(r)) = "down"
  /\ \A m : News(m) \in Changes
  /\ \A m : m.code = "STA_GOT_IP" => IsLinkNews(m) /\ News(m) = "up"
  /\ \A m : m.code = "STA_DISCONNECTED" => IsLinkNews(m) /\ News(m) = "down"
  /\ \A m : m.code \notin {"STA_GOT_IP", "STA_DISCONNECTED"} => ~IsLinkNews(m)
BY CodeFacts DEF IsLinkNews, News, Changes, Event, Reports, Message, StaDisconnected

\* Steps of LinkNews, in the terms above.
LEMMA LinkSteps ==
         /\ Under' = Under /\ (Linked' <=> Linked) /\ staIp' = staIp => UNCHANGED Link!vars
         /\ Under # << >> /\ Under' = Tail(Under) /\ staIp' = (Head(Under) = "up")
              /\ (Linked' <=> Linked) => Link!Next
         /\ Under' = Append(Under, "up") /\ ~Linked /\ Linked' /\ staIp' = staIp => Link!Next
         /\ Under' = Append(Under, "down") /\ ~Linked' /\ staIp' = staIp => Link!Next
         /\ Under' = << >> /\ ~Linked' /\ staIp' = FALSE => Link!Next
<1>1. Under' = Under /\ (Linked' <=> Linked) /\ staIp' = staIp => UNCHANGED Link!vars
  BY DEF Under, Link!vars, Linked
<1>2. Under # << >> /\ Under' = Tail(Under) /\ staIp' = (Head(Under) = "up")
              /\ (Linked' <=> Linked) => Link!ManagerIsTold
  BY DEF Under, Link!ManagerIsTold, Linked
<1>3. Under' = Append(Under, "up") /\ ~Linked /\ Linked' /\ staIp' = staIp => Link!ComesUp
  BY DEF Under, Link!ComesUp, Linked
<1>4. Under' = Append(Under, "down") /\ ~Linked' /\ staIp' = staIp => Link!GoesDown
  BY DEF Under, Link!GoesDown, Linked
<1>5. Under' = << >> /\ ~Linked' /\ staIp' = FALSE => Link!Reset
  BY DEF Under, Link!Reset, Linked
<1> QED BY Zenon, <1>1, <1>2, <1>3, <1>4, <1>5 DEF Link!Next

\* Every step is one of LinkNews, or changes nothing that LinkNews sees.
LEMMA LinkNext == TypeOK /\ TypeOK' /\ PostingOK /\ [Next]_vars => [Link!Next]_(Link!vars)
<1> SUFFICES ASSUME TypeOK, TypeOK', PostingOK, [Next]_vars
             PROVE  Link!Next \/ UNCHANGED Link!vars
  OBVIOUS
<1> DEFINE q == LinkNewsIn(queue)
<1> DEFINE p == NewsOf(posting["events"])
<1> DEFINE e == LinkNewsIn(events)
<1>1. /\ q \in Seq(Changes) /\ p \in Seq(Changes) /\ e \in Seq(Changes)
      /\ Under = (q \o p) \o e
  BY UnderParts DEF Under, TypeOK, Task
<1>2. /\ q' \in Seq(Changes) /\ p' \in Seq(Changes) /\ e' \in Seq(Changes)
      /\ Under' = (q' \o p') \o e'
  <2>1. /\ queue' \in Seq(Messages) /\ posting'["events"] \in Messages \cup {NoMessage}
        /\ events' \in Seq(Event)
    BY DEF TypeOK, Task
  <2>2. Under' = LinkNewsIn((queue' \o OneOrNone(posting'["events"])) \o events')
    BY DEF Under
  <2> QED BY <2>1, <2>2, UnderParts
<1>3. /\ queue' = queue => q' = q
      /\ posting'["events"] = posting["events"] => p' = p
      /\ events' = events => e' = e
  OBVIOUS
<1> HIDE DEF q, p, e
\* Nothing that matters changes.
<1>4. ASSUME q' = q, p' = p, e' = e, Linked' <=> Linked, staIp' = staIp
      PROVE  Link!Next \/ UNCHANGED Link!vars
  BY <1>1, <1>2, <1>4, LinkSteps
\* The manager takes a message off the queue: news of the link, ...
<1>5. ASSUME NEW k, Take(k), k \in {"STA_GOT_IP", "STA_DISCONNECTED"}, p' = p, e' = e,
             Linked' <=> Linked, staIp' = (k = "STA_GOT_IP")
      PROVE  Link!Next
  <2>1. queue \in Seq(Messages) /\ queue # << >> /\ queue' = Tail(queue) /\ Head(queue).code = k
    BY <1>5 DEF Take, TypeOK
  <2>2. q = <<News(Head(queue))>> \o q' /\ News(Head(queue)) \in Changes
        /\ (News(Head(queue)) = "up" <=> k = "STA_GOT_IP")
    BY <1>5, <2>1, NewsTail, NewsCodes DEF q
  <2>3. PICK n \in Changes : q = <<n>> \o q' /\ (n = "up" <=> k = "STA_GOT_IP")
    BY <2>2
  <2>4. Under = <<n>> \o Under'
    BY <1>1, <1>2, <1>5, <2>3, ChangesFacts
  <2>5. Under' \in Seq(Changes)
    BY <1>2, ChangesFacts
  <2>6. Under # << >> /\ Head(Under) = n /\ Tail(Under) = Under'
    BY <2>4, <2>5, ChangesFacts
  <2>7. staIp' = (Head(Under) = "up")
    BY <1>5, <2>3, <2>6, Zenon
  <2> QED BY <1>5, <2>6, <2>7, LinkSteps
\* ... or another one.
<1>6. ASSUME NEW k, Take(k), k \notin {"STA_GOT_IP", "STA_DISCONNECTED"}
      PROVE  q' = q
  <2>1. queue \in Seq(Messages) /\ queue # << >> /\ queue' = Tail(queue) /\ Head(queue).code = k
    BY <1>6 DEF Take, TypeOK
  <2> QED BY <1>6, <2>1, NewsTail, NewsCodes DEF q
\* The driver has something to say: of the link, ...
<1>7. ASSUME NEW m \in Event, events' = Append(events, m), q' = q, p' = p, staIp' = staIp,
             \/ m = Message("STA_GOT_IP") /\ ~Linked /\ Linked'
             \/ (\E r \in Reasons : m = StaDisconnected(r)) /\ ~Linked'
      PROVE  Link!Next
  <2>1. e' = Append(e, News(m)) /\ News(m) \in Changes
        /\ News(m) = (IF Linked' THEN "up" ELSE "down")
    BY <1>7, NewsAppend, NewsCodes DEF TypeOK, e
  <2>2. Append((q \o p) \o e, News(m)) = (q \o p) \o Append(e, News(m))
    <3>1. q \o p \in Seq(Changes)
      BY <1>1, ChangesFacts
    <3> QED BY <1>1, <2>1, <3>1, AppendConcat, Zenon
  <2>3. Under' = Append(Under, News(m))
    BY <1>1, <1>2, <1>7, <2>1, <2>2
  <2> QED BY <1>7, <2>1, <2>3, LinkSteps
\* ... or of the scan or the access point.
<1>8. ASSUME NEW m \in {Message("SCAN_DONE"), Message("AP_START"), Message("AP_STOP")},
             events' = Append(events, m) \/ events' = events
      PROVE  e' = e
  <2>1. m \in Event /\ ~IsLinkNews(m)
    BY MessageFacts, NewsCodes
  <2> QED BY <1>3, <1>8, <2>1, NewsAppend DEF TypeOK, e
\* Only the event loop's message counts.
<1>9. ASSUME NEW t \in Task, NEW m, Post(t, m) \/ UNCHANGED posting, t # "events"
      PROVE  p' = p
  <2>1. posting'["events"] = posting["events"]
    BY <1>9 DEF Post, TypeOK, Task
  <2> QED BY <1>3, <2>1
<1>10. CASE ScanDone \/ StartWifiScan \/ LoadAndRestoreSta
  <2>1. PICK k \in {"SCAN_DONE", "START_WIFI_SCAN", "LOAD_AND_RESTORE_STA"} : Take(k)
    BY <1>10 DEF ScanDone, StartWifiScan, LoadAndRestoreSta
  <2>2. q' = q
    BY <1>6, <2>1
  <2>3. UNCHANGED posting \/ \E m : Post("manager", m)
    BY <1>10 DEF ScanDone, StartWifiScan, LoadAndRestoreSta
  <2>4. p' = p
    BY <1>9, <2>3 DEF Task
  <2>5. UNCHANGED <<sta, staIp>>
    BY <1>10 DEF ScanDone, StartWifiScan, LoadAndRestoreSta, dataVars, driverVars
  <2>6. events' = Append(events, Message("SCAN_DONE")) \/ events' = events
    BY <1>10 DEF ScanDone, StartWifiScan, EspWifiScanStart, LoadAndRestoreSta, driverVars
  <2>7. e' = e
    BY <1>8, <2>6
  <2> QED BY <1>4, <2>2, <2>4, <2>5, <2>7 DEF Linked
<1>11. CASE MarkRequest \/ StartAp \/ CheckConnected
  <2>1. PICK k \in {"CONNECT_STA", "START_AP", "STOP_AP"} : Take(k)
    BY <1>11 DEF MarkRequest, StartAp, CheckConnected
  <2>2. q' = q
    BY <1>6, <2>1
  <2>3. UNCHANGED <<posting, sta, staIp>>
    BY <1>11 DEF MarkRequest, StartAp, CheckConnected, dataVars, driverVars
  <2>4. p' = p
    BY <1>3, <2>3
  <2>5. events' = Append(events, Message("AP_START")) \/ events' = events
    BY <1>11 DEF MarkRequest, StartAp, EspWifiSetMode, CheckConnected, driverVars
  <2>6. e' = e
    BY <1>8, <2>5
  <2> QED BY <1>4, <2>2, <2>3, <2>4, <2>6 DEF Linked
<1>12. CASE StartAttempt \/ StopAp
  <2>1. UNCHANGED <<queue, posting, staIp>> /\ Linked' = Linked
    BY <1>12 DEF StartAttempt, EspWifiConnect, StopAp, dataVars, Linked
  <2>2. PICK m \in {Message("SCAN_DONE"), Message("AP_STOP")} :
          events' = Append(events, m) \/ events' = events
    BY <1>12 DEF StartAttempt, EspWifiScanStop, StopAp, EspWifiSetMode
  <2>3. e' = e
    BY <1>8, <2>2
  <2> QED BY <1>3, <1>4, <2>1, <2>3
<1>13. CASE ForgetIp
  <2>1. Take("STA_DISCONNECTED") /\ UNCHANGED <<posting, events, sta>> /\ staIp' = FALSE
    BY <1>13 DEF ForgetIp, ClearIp, driverVars
  <2> QED BY <1>3, <1>5, <2>1 DEF Linked
<1>14. CASE ReadIp
  <2>1. Take("STA_GOT_IP") /\ UNCHANGED <<posting, events, sta>> /\ staIp' = TRUE
    BY <1>14 DEF ReadIp, driverVars
  <2> QED BY <1>3, <1>5, <2>1 DEF Linked
<1>15. CASE AttemptFailed \/ UserDisconnected \/ ConnectionLost \/ RestartHttp \/ GotIp
  <2>1. UNCHANGED <<queue, events, sta, staIp>>
    BY <1>15 DEF AttemptFailed, UserDisconnected, ConnectionLost, RestartHttp, GotIp, dataVars,
       driverVars
  <2>2. UNCHANGED posting \/ \E m : Post("manager", m)
    BY <1>15 DEF AttemptFailed, UserDisconnected, RestartAp, ConnectionLost, RestartHttp, GotIp
  <2>3. p' = p
    BY <1>9, <2>2 DEF Task
  <2> QED BY <1>3, <1>4, <2>1, <2>3 DEF Linked
<1>16. CASE DisconnectSta
  <2>1. q' = q
    BY <1>6, <1>16 DEF DisconnectSta
  <2>2. UNCHANGED <<posting, staIp>>
    BY <1>16 DEF DisconnectSta, dataVars
  <2>3. p' = p
    BY <1>3, <2>2
  <2>4. CASE UNCHANGED <<sta, events>>
    BY <1>3, <1>4, <2>1, <2>2, <2>3, <2>4 DEF Linked
  <2>5. CASE sta' = "idle" /\ events' = Append(events, StaDisconnected("ASSOC_LEAVE"))
    <3>1. "ASSOC_LEAVE" \in Reasons /\ StaDisconnected("ASSOC_LEAVE") \in Event
      BY MessageFacts DEF Reasons
    <3> QED BY <1>7, <2>1, <2>2, <2>3, <2>5, <3>1 DEF Linked
  <2> QED BY <1>16, <2>4, <2>5 DEF DisconnectSta, EspWifiDisconnect
<1>17. ASSUME NEW t \in Task, Deliver(t)
       PROVE  Link!Next \/ UNCHANGED Link!vars
  <2>1. /\ UNCHANGED <<sta, staIp, events>> /\ queue' = Append(queue, posting[t])
        /\ queue \in Seq(Messages) /\ posting[t] \in Messages
    BY <1>17 DEF Deliver, Free, TypeOK, dataVars, driverVars
  <2>2. e' = e
    BY <1>3, <2>1
  <2>3. q' = IF IsLinkNews(posting[t]) THEN Append(q, News(posting[t])) ELSE q
    BY <2>1, NewsAppend DEF q
  <2>4. CASE t = "events"
    <3>1. posting'["events"] = NoMessage
      BY <1>17, <2>4 DEF Deliver, Post, TypeOK
    <3>2. p' = << >>
      BY <3>1, NewsCodes DEF p, NewsOf
    <3>3. q' = q \o p
      BY <1>1, <2>3, <2>4, ChangesFacts, NewsCodes DEF p, NewsOf
    <3>4. Under' = Under
      <4>1. q \o p \in Seq(Changes)
        BY <1>1, ChangesFacts
      <4> QED BY <1>1, <1>2, <2>2, <3>2, <3>3, <4>1, ChangesFacts
    <3> QED BY <2>1, <3>4, LinkSteps DEF Linked
  <2>5. CASE t # "events"
    <3>1. ~IsLinkNews(posting[t])
      BY <2>5, NewsCodes DEF PostingOK
    <3>2. p' = p
      BY <1>9, <1>17, <2>5 DEF Deliver
    <3> QED BY <1>4, <2>1, <2>2, <2>3, <3>1, <3>2 DEF Linked
  <2> QED BY <2>4, <2>5
<1>18. CASE HandleEvent
  <2> DEFINE m == Head(events)
  <2>1. /\ UNCHANGED <<queue, sta, staIp>> /\ events \in Seq(Event) /\ events # << >>
        /\ events' = Tail(events) /\ m \in Event /\ posting["events"] = NoMessage
    BY <1>18 DEF HandleEvent, Free, TypeOK, dataVars
  <2>2. q' = q /\ p = << >>
    BY <1>3, <2>1, NewsCodes DEF p, NewsOf
  <2>3. e = IF IsLinkNews(m) THEN <<News(m)>> \o e' ELSE e'
    BY <2>1, NewsTail DEF e
  <2>4. CASE m \in Reports
    <3>1. posting'["events"] = m
      BY <1>18, <2>4 DEF HandleEvent, Post, TypeOK, Task
    <3>2. p' = NewsOf(m)
      BY <3>1 DEF p
    <3>3. p' \o e' = e
      BY <1>2, <2>3, <3>2, ChangesFacts DEF NewsOf
    <3>4. Under' = Under
      <4>1. (q' \o p') \o e' = q' \o (p' \o e')
        BY <1>2, ChangesFacts
      <4>2. q \o p = q
        BY <1>1, <2>2, ChangesFacts
      <4> QED BY <1>1, <1>2, <2>2, <3>3, <4>1, <4>2
    <3> QED BY <2>1, <3>4, LinkSteps DEF Linked
  <2>5. CASE m \notin Reports
    <3>1. ~IsLinkNews(m) /\ UNCHANGED posting
      BY <1>18, <2>1, <2>5, NewsCodes DEF HandleEvent
    <3>2. p' = p
      BY <1>3, <3>1
    <3> QED BY <1>4, <2>1, <2>2, <2>3, <3>1, <3>2 DEF Linked
  <2> QED BY <2>4, <2>5
<1>26. CASE RunCommand
  <2>1. UNCHANGED <<queue, posting, events, sta, staIp>>
    BY <1>26, Zenon DEF RunCommand, dataVars, driverVars
  <2>2. p' = p
    BY <1>3, <2>1
  <2> QED BY <1>3, <1>4, <2>1, <2>2 DEF Linked
<1>19. CASE RetryTimerFires \/ ShutdownTimerFires \/ Portal
  <2>1. UNCHANGED <<queue, events, sta, staIp>>
    BY <1>19 DEF RetryTimerFires, ShutdownTimerFires, Portal, RequestConnect, RequestDisconnect,
       RequestScan, dataVars, driverVars
  <2>2. \E t \in Task : t # "events" /\ \E m : Post(t, m)
    BY <1>19 DEF RetryTimerFires, ShutdownTimerFires, Portal, RequestConnect, RequestDisconnect,
       RequestScan, Task
  <2>3. p' = p
    BY <1>9, <2>2
  <2> QED BY <1>3, <1>4, <2>1, <2>3 DEF Linked
<1>20. CASE AttemptSucceeds \/ AttemptFails \/ LinkLost
  <2>1. UNCHANGED <<queue, posting, staIp>>
    BY <1>20 DEF AttemptSucceeds, AttemptFails, LinkLost, Station, dataVars
  <2>2. q' = q /\ p' = p
    BY <1>3, <2>1
  <2>3. CASE AttemptSucceeds
    <3>1. /\ Message("STA_GOT_IP") \in Event /\ events' = Append(events, Message("STA_GOT_IP"))
          /\ sta = "connecting" /\ sta' = "connected"
      BY <2>3, MessageFacts DEF AttemptSucceeds, Station
    <3> QED BY <1>7, <2>1, <2>2, <3>1 DEF Linked
  <2>4. CASE AttemptFails \/ LinkLost
    <3>1. PICK r \in Reasons : events' = Append(events, StaDisconnected(r)) /\ sta' = "idle"
      BY <2>4 DEF AttemptFails, LinkLost, Station, Reasons
    <3>2. StaDisconnected(r) \in Event
      BY MessageFacts DEF Reasons
    <3> QED BY <1>7, <2>1, <2>2, <3>1, <3>2 DEF Linked
  <2> QED BY <1>20, <2>3, <2>4
<1>21. CASE ScanCompletes
  <2>1. UNCHANGED <<queue, posting, staIp, sta>> /\ events' = Append(events, Message("SCAN_DONE"))
    BY <1>21 DEF ScanCompletes, dataVars
  <2>2. e' = e
    BY <1>8, <2>1
  <2> QED BY <1>3, <1>4, <2>1, <2>2 DEF Linked
<1>22. CASE PowerCycle
  <2>1. /\ queue' = << >> /\ posting'["events"] = NoMessage /\ events' = << >>
        /\ sta' = "idle" /\ staIp' = FALSE
    BY <1>22, Zenon DEF PowerCycle, BootPosting, Task
  <2>2. LinkNewsIn(<< >>) = << >>
    BY NewsEmpty
  <2>3. Under' = << >>
    BY <2>1, <2>2 DEF Under, OneOrNone
  <2> QED BY <2>1, <2>3, LinkSteps DEF Linked
<1>23. CASE UNCHANGED vars
  BY <1>3, <1>4, <1>23 DEF vars, dataVars, driverVars, Linked
<1> QED
  BY <1>10, <1>11, <1>12, <1>13, <1>14, <1>15, <1>16, <1>17, <1>18, <1>19, <1>20, <1>21, <1>22,
     <1>23, <1>26 DEF Next, Step, Daemon, Manager

\* LinkNewsDelivered: through the event loop, the queue and the handlers, the
\* manager is told of every change of the link, once and in order.
THEOREM NewsDelivered == Spec => LinkNewsDelivered
<1>1. Init => Link!Init
  <2> SUFFICES ASSUME Init
               PROVE  Link!Init
    OBVIOUS
  <2>1. /\ queue = << >> /\ posting["events"] = NoMessage /\ events = << >>
        /\ sta = "idle" /\ staIp = FALSE
    BY Zenon DEF Init, BootPosting, Task
  <2>2. Under = << >>
    BY <2>1, NewsEmpty DEF Under, OneOrNone
  <2> QED BY <2>1, <2>2 DEF Link!Init, Under
<1>2. TypeOK /\ TypeOK' /\ PostingOK /\ [Next]_vars => [Link!Next]_(Link!vars)
  BY LinkNext
<1> QED BY <1>1, <1>2, TypeCorrect, PostingNext, PlacesInit, PTL DEF Spec, LinkNewsDelivered, Link!Spec
=============================================================================
