--------------------------- MODULE WayBackProofs ---------------------------
(***************************************************************************)
(* Two invariants of the whole device, each by a long argument; the second *)
(* one (RestoreBitTracksAttempt) begins in the middle of the module.       *)
(*                                                                         *)
(* A device that nobody orders to connect always has a way back online, or *)
(* to its user: AlwaysAWayBack, for portals without connect requests.      *)
(*                                                                         *)
(* The argument: the next thing that is to happen to the link is one thing *)
(* in one place.  It is handed on from the order to load the configuration *)
(* to the order to connect, to the station, to the news that its link is   *)
(* lost, to the retry timer, and to the order again; never is it in two    *)
(* places, and it ends only where an access point begins.                  *)
(***************************************************************************)
EXTENDS WifiManagerProofs

\* Codes of the messages that hold the turn.
TurnCodes == {"LOAD_AND_RESTORE_STA", "CONNECT_STA", "STA_DISCONNECTED"}

\* A message with a code of C is in s, at one place at most.
Among(s, C) == \E i \in DOMAIN s : s[i].code \in C
Once(s, C)  == \A i, j \in DOMAIN s : s[i].code \in C /\ s[j].code \in C => i = j

\* The places where the turn may be.
InQueue   == Among(queue, TurnCodes)
InEvents  == Among(events, TurnCodes)
InLoop    == posting["events"].code \in TurnCodes
InManager == posting["manager"].code \in TurnCodes
InDaemon  == posting["timers"].code \in TurnCodes
InHandler == mgr.pc \in {"connect", "disconnected"}
InTimer   == retryTimer = TRUE \/ Among(commands, {"START_RETRY"})
InStation == sta # "idle"

Count(b) == IF b THEN 1 ELSE 0
Turns == Count(InQueue) + Count(InEvents) + Count(InLoop) + Count(InManager)
           + Count(InDaemon) + Count(InHandler) + Count(InTimer) + Count(InStation)

\* The turn is in one place at most, and a handler that has it to make an attempt
\* will make it.
TurnOK == /\ Once(queue, TurnCodes) /\ Once(events, TurnCodes) /\ Turns <= 1
          /\ mgr.pc = "connect" => "CONNECTED" \notin mgr.seen

\* Nobody asks for a connection.
NoUser == /\ queue \in Seq(Messages \ {ConnectSta("user")})
          /\ \A t \in Task : posting[t] # ConnectSta("user")
          /\ posting["http"].code \notin TurnCodes
          /\ "REQUEST_STA_CONNECT" \notin bits
          /\ mgr.pc = "disconnected" => "REQUEST_STA_CONNECT" \notin mgr.seen

\* The access point is up, or will be.
ApAhead == \/ posting["manager"].code = "START_AP"
           \/ Among(queue, {"START_AP"})
           \/ mode = "APSTA"

\* Without a turn there is an access point; with one, there is a network to try.
LoadAhead == \/ posting["manager"].code = "LOAD_AND_RESTORE_STA"
             \/ Among(queue, {"LOAD_AND_RESTORE_STA"})
WayBackOK == /\ Turns = 0 => ApAhead
             /\ Turns # 0 => config # NoNetwork \/ LoadAhead

\* The news that the link is up is in one place at most, on its way from the driver
\* to the end of its handler.
GotCode      == {"STA_GOT_IP"}
GotInQueue   == Among(queue, GotCode)
GotInEvents  == Among(events, GotCode)
GotInLoop    == posting["events"].code \in GotCode
GotInHandler == mgr.pc = "got_ip"
GotAhead     == GotInQueue \/ GotInEvents \/ GotInLoop \/ GotInHandler
GotOK == /\ Once(queue, GotCode) /\ Once(events, GotCode)
         /\ GotInQueue => ~GotInEvents /\ ~GotInLoop /\ ~GotInHandler
         /\ GotInEvents => ~GotInLoop /\ ~GotInHandler
         /\ GotInLoop => ~GotInHandler

\* How far the turn has come since the retry timer had it: to an attempt, to a
\* link or the news of its loss, to the handler of that news.
EarlyCodes == {"LOAD_AND_RESTORE_STA", "CONNECT_STA"}
LossCode   == {"STA_DISCONNECTED"}
Early   == \/ InManager \/ InDaemon \/ Among(queue, EarlyCodes)
           \/ mgr.pc = "connect" \/ sta = "connecting"
Late    == \/ sta = "connected" \/ Among(queue, LossCode)
           \/ posting["events"].code \in LossCode \/ Among(events, LossCode)
Forgets == mgr.pc = "disconnected"

\* The commands that the daemon has in its queue, and those that a running timer
\* and the news of the link will bring, are few, and the fewer the less the turn
\* has come on: what the daemon carries out for the retry timer it carries out
\* after all the others.
Debt == Len(commands) + Count(shutdownTimer) + Count(GotAhead)
Allowance == IF retryTimer THEN 2 ELSE IF Early THEN 3 ELSE IF Late THEN 4
             ELSE IF Forgets THEN 5 ELSE 6

\* No command is left for a retry timer that runs; behind the command that starts
\* it are only stops of the shutdown timer, and there are two at most; the
\* shutdown timer is not about to be started twice, nor at the start of a turn.
ToStartRetry    == {"START_RETRY"}
ToStartShutdown == {"START_SHUTDOWN"}
StartsShutdown  == Among(commands, ToStartShutdown)
RetryAlone == retryTimer => ~Among(commands, {"START_RETRY", "STOP_RETRY"})
RetryLast  == \A i, j \in DOMAIN commands :
                 commands[i].code = "START_RETRY" /\ i < j => commands[j].code = "STOP_SHUTDOWN"
RetryNear  == \A i \in DOMAIN commands :
                 commands[i].code = "START_RETRY" =>
                   (Len(commands) - i) + Count(shutdownTimer) + Count(StartsShutdown) <= 2
CommandsAhead == /\ Debt <= Allowance
                 /\ RetryAlone /\ RetryLast /\ RetryNear
                 /\ Once(commands, ToStartShutdown)
                 /\ StartsShutdown => ~GotAhead /\ ~retryTimer /\ ~Early

-----------------------------------------------------------------------------
\* Sequences of messages.

\* A message appended, and the oldest one taken.
LEMMA AmongFacts ==
  ASSUME NEW S, NEW s \in Seq(S), NEW C
  PROVE  /\ \A e \in S : Among(Append(s, e), C) <=> Among(s, C) \/ e.code \in C
         /\ \A e \in S : Once(s, C) /\ ~(Among(s, C) /\ e.code \in C) => Once(Append(s, e), C)
         /\ s # << >> => (Among(s, C) <=> Head(s).code \in C \/ Among(Tail(s), C))
         /\ s # << >> /\ Once(s, C) =>
              Once(Tail(s), C) /\ ~(Head(s).code \in C /\ Among(Tail(s), C))
<1>1. ASSUME NEW e \in S
      PROVE  /\ Among(Append(s, e), C) <=> Among(s, C) \/ e.code \in C
             /\ Once(s, C) /\ ~(Among(s, C) /\ e.code \in C) => Once(Append(s, e), C)
  <2> DEFINE t == Append(s, e)
  <2>1. /\ DOMAIN s = 1..Len(s) /\ Len(s) \in Nat /\ DOMAIN t = 1..(Len(s) + 1)
        /\ t[Len(s) + 1] = e /\ \A i \in DOMAIN s : t[i] = s[i]
    OBVIOUS
  <2> HIDE DEF t
  <2>2. Among(t, C) <=> Among(s, C) \/ e.code \in C
    BY <2>1 DEF Among
  <2>3. ASSUME Once(s, C), ~(Among(s, C) /\ e.code \in C)
        PROVE  Once(t, C)
    BY <2>1, <2>3 DEF Among, Once
  <2> QED BY <2>2, <2>3 DEF t
<1>2. ASSUME s # << >>
      PROVE  /\ Among(s, C) <=> Head(s).code \in C \/ Among(Tail(s), C)
             /\ Once(s, C) => Once(Tail(s), C) /\ ~(Head(s).code \in C /\ Among(Tail(s), C))
  <2> DEFINE t == Tail(s)
  <2>1. /\ Len(s) \in Nat \ {0} /\ DOMAIN s = 1..Len(s) /\ DOMAIN t = 1..(Len(s) - 1)
        /\ s[1] = Head(s) /\ \A i \in DOMAIN t : t[i] = s[i + 1]
    BY <1>2
  <2>2. /\ \A i \in DOMAIN s : i # 1 => i - 1 \in DOMAIN t /\ t[i - 1] = s[i]
        /\ \A i \in DOMAIN t : i + 1 \in DOMAIN s /\ i + 1 # 1
        /\ 1 \in DOMAIN s
    BY <2>1
  <2> HIDE DEF t
  <2>3. Among(s, C) <=> s[1].code \in C \/ Among(t, C)
    BY <2>1, <2>2 DEF Among
  <2>4. ASSUME Once(s, C)
        PROVE  Once(t, C) /\ ~(s[1].code \in C /\ Among(t, C))
    <3>1. ASSUME NEW i \in DOMAIN t, NEW j \in DOMAIN t, t[i].code \in C, t[j].code \in C
          PROVE  i = j
      <4>1. i + 1 = j + 1
        BY <2>1, <2>2, <2>4, <3>1 DEF Once
      <4> QED BY <2>1, <4>1
    <3>2. ~(s[1].code \in C /\ Among(t, C))
      BY <2>1, <2>2, <2>4 DEF Once, Among
    <3> QED BY <3>1, <3>2 DEF Once
  <2> QED BY <2>1, <2>3, <2>4 DEF t
<1> QED BY <1>1, <1>2

-----------------------------------------------------------------------------
\* A portal without connect requests.

\* Then nobody asks for a connection.
LEMMA NoUserNext ==
  ASSUME "connect" \notin PortalRequests, TypeOK, NoUser, [Next]_vars
  PROVE  NoUser'
<1> DEFINE M == Messages \ {ConnectSta("user")}
<1>1. /\ queue \in Seq(M) /\ posting \in [Task -> Messages \cup {NoMessage}]
      /\ \A t \in Task : posting[t] # ConnectSta("user")
  BY DEF NoUser, TypeOK
<1>2. /\ \A m \in M : m.code = "CONNECT_STA" => m.param # "user"
      /\ ConnectSta("user").code = "CONNECT_STA"
      /\ NoMessage # ConnectSta("user") /\ NoMessage.code \notin TurnCodes
      /\ \A c : c # "CONNECT_STA" => Message(c) # ConnectSta("user")
      /\ ConnectSta("auto") # ConnectSta("user") /\ ConnectSta("restore") # ConnectSta("user")
  <2>1. ASSUME NEW m \in M, m.code = "CONNECT_STA" PROVE m.param # "user"
    BY <2>1 DEF Messages, Orders, Reports, Message, ConnectSta, StaDisconnected, Requests,
       Reasons
  <2> QED BY <2>1 DEF NoMessage, Message, ConnectSta, TurnCodes
<1>3. \A e \in Event : e # ConnectSta("user")
  BY <1>2, MessageFacts, CodeFacts DEF Event
<1>q. \/ UNCHANGED queue \/ queue' = << >> \/ (queue # << >> /\ queue' = Tail(queue))
      \/ \E t \in Task : posting[t] # NoMessage /\ queue' = Append(queue, posting[t])
  BY DEF Next, Step, Daemon, Manager, ScanDone, StartWifiScan, LoadAndRestoreSta, MarkRequest, StartAttempt,
     ForgetIp, AttemptFailed, UserDisconnected, ConnectionLost, StartAp, CheckConnected,
     StopAp, RestartHttp, ReadIp, GotIp, DisconnectSta, Take, Deliver, Free, HandleEvent,
     RunCommand, RetryTimerFires, ShutdownTimerFires, Portal, RequestConnect, RequestDisconnect,
     RequestScan, AttemptSucceeds, AttemptFails, LinkLost, Station, ScanCompletes, PowerCycle,
     vars
<1>4. queue' \in Seq(M)
  <2>1. ASSUME NEW t \in Task, posting[t] # NoMessage, queue' = Append(queue, posting[t])
        PROVE  queue' \in Seq(M)
    BY <1>1, <2>1
  <2> HIDE DEF M
  <2>2. CASE queue # << >> /\ queue' = Tail(queue)
    BY <1>1, <2>2
  <2>3. CASE queue' = << >>
    BY <2>3
  <2>4. CASE UNCHANGED queue
    BY <1>1, <2>4
  <2> QED BY <1>q, <2>1, <2>2, <2>3, <2>4
<1>5. /\ \A t \in Task : posting'[t] # ConnectSta("user")
      /\ posting'["http"].code \notin TurnCodes
  <2> USE <1>1, <1>2 DEF NoUser, Task
  <2>1. CASE UNCHANGED posting
    BY <2>1
  <2>2. ASSUME NEW t \in Task, NEW m, Post(t, m), m # ConnectSta("user"),
               t = "http" => m.code \notin TurnCodes
        PROVE  /\ \A x \in Task : posting'[x] # ConnectSta("user")
               /\ posting'["http"].code \notin TurnCodes
    BY <2>2 DEF Post
  <2>3. CASE Manager
    <3>1. \/ UNCHANGED posting
          \/ Post("manager", FirstOrder)
          \/ Post("manager", Message("START_AP"))
      BY <2>3 DEF Manager, ScanDone, StartWifiScan, LoadAndRestoreSta, MarkRequest,
         StartAttempt, ForgetIp, AttemptFailed, UserDisconnected, RestartAp, ConnectionLost,
         StartAp, CheckConnected, StopAp, RestartHttp, ReadIp, GotIp, DisconnectSta
    <3>2. FirstOrder # ConnectSta("user")
      BY DEF FirstOrder
    <3> QED BY <2>1, <2>2, <3>1, <3>2
  <2>4. CASE \E t \in Task : Deliver(t)
    BY <2>2, <2>4 DEF Deliver
  <2>5. CASE HandleEvent
    <3>1. Head(events) # ConnectSta("user")
      BY <1>3, <2>5 DEF HandleEvent, TypeOK
    <3> QED BY <2>1, <2>2, <2>5, <3>1 DEF HandleEvent
  <2>6. CASE RunCommand \/ RetryTimerFires \/ ShutdownTimerFires
    BY <2>2, <2>6 DEF RunCommand, RetryTimerFires, ShutdownTimerFires
  <2>7. CASE Portal
    <3>1. \/ Post("http", Message("DISCONNECT_STA"))
          \/ Post("http", Message("START_WIFI_SCAN"))
      BY <2>7 DEF Portal, RequestConnect, RequestDisconnect, RequestScan
    <3>2. /\ Message("DISCONNECT_STA").code \notin TurnCodes
          /\ Message("START_WIFI_SCAN").code \notin TurnCodes
      BY DEF Message, TurnCodes
    <3> QED BY <2>2, <3>1, <3>2
  <2>8. CASE AttemptSucceeds \/ AttemptFails \/ LinkLost \/ ScanCompletes \/ UNCHANGED vars
    BY <2>1, <2>8 DEF AttemptSucceeds, AttemptFails, LinkLost, Station, ScanCompletes, vars
  <2>9. CASE PowerCycle
    BY <2>9 DEF PowerCycle, BootPosting
  <2> QED BY <2>3, <2>4, <2>5, <2>6, <2>7, <2>8, <2>9 DEF Next, Step, Daemon
<1>6. /\ "REQUEST_STA_CONNECT" \notin bits'
      /\ mgr'.pc = "disconnected" => "REQUEST_STA_CONNECT" \notin mgr'.seen
  <2> USE DEF NoUser
  <2>1. CASE MarkRequest
    <3>1. Head(queue).param # "user"
      BY <1>1, <1>2, <2>1 DEF MarkRequest, Take
    <3>2. "REQUEST_STA_CONNECT" \notin bits'
      BY <2>1, <3>1 DEF MarkRequest
    <3>3. mgr'.pc = "connect"
      BY <2>1 DEF MarkRequest, At
    <3> QED BY <3>2, <3>3
  <2>2. CASE ForgetIp
    BY <2>2 DEF ForgetIp, At
  <2>3. CASE StartAp \/ CheckConnected
    BY <2>3 DEF StartAp, CheckConnected, At
  <2>4. CASE ReadIp
    BY <2>4 DEF ReadIp
  <2>5. CASE StopAp
    BY <2>5, ReceiveFacts DEF StopAp, TypeOK
  <2>6. CASE HandleEvent
    BY <2>6 DEF HandleEvent, Sets, managerVars
  <2>7. CASE \/ ScanDone \/ StartWifiScan \/ LoadAndRestoreSta \/ DisconnectSta
             \/ RunCommand \/ RetryTimerFires \/ ShutdownTimerFires \/ Portal
             \/ AttemptSucceeds \/ AttemptFails \/ LinkLost \/ ScanCompletes
             \/ (\E t \in Task : Deliver(t)) \/ UNCHANGED vars
    BY <2>7 DEF ScanDone, StartWifiScan, LoadAndRestoreSta, DisconnectSta,
       RunCommand, RetryTimerFires, ShutdownTimerFires, Portal, RequestConnect, RequestDisconnect,
       RequestScan, AttemptSucceeds, AttemptFails, LinkLost, Station, ScanCompletes, Deliver,
       vars, managerVars
  <2>8. CASE \/ StartAttempt \/ AttemptFailed \/ UserDisconnected \/ ConnectionLost
             \/ RestartHttp \/ GotIp \/ PowerCycle
    <3>1. mgr' = Receive /\ bits' \subseteq bits
      BY <2>8 DEF StartAttempt, AttemptFailed, UserDisconnected, ConnectionLost, RestartHttp,
         GotIp, EndRestore, PowerCycle
    <3> QED BY <3>1, ReceiveFacts
  <2> QED BY <2>1, <2>2, <2>3, <2>4, <2>5, <2>6, <2>7, <2>8 DEF Next, Step, Daemon, Manager
<1> QED BY <1>4, <1>5, <1>6 DEF NoUser

-----------------------------------------------------------------------------
\* The turn is handed on.

\* What holds of a running device: its type, its bits and its belief, who posts
\* what, where the manager is, what the timer daemon has to do, and where the turn
\* is.
WayBackInv == /\ TypeOK /\ BitsFollowDriver /\ BeliefFollowsDriver /\ PostingOK /\ PlaceOK
              /\ StopOK /\ NoUser /\ GotOK /\ CommandsAhead /\ TurnOK /\ WayBackOK

\* A step gives the daemon no order, or one that is not about the next attempt.
OtherOrder == \/ UNCHANGED commands
              \/ \E c \in {"STOP_RETRY", "START_SHUTDOWN", "STOP_SHUTDOWN"} : Order(c)

\* A timer that is neither started nor stopped keeps the turn, or does without.
LEMMA TimerKeeps ==
  ASSUME TypeOK, UNCHANGED retryTimer, OtherOrder
  PROVE  InTimer' <=> InTimer
<1>1. CASE UNCHANGED commands
  BY <1>1 DEF InTimer
<1>2. ASSUME NEW c \in {"STOP_RETRY", "START_SHUTDOWN", "STOP_SHUTDOWN"}, Order(c)
      PROVE  InTimer' <=> InTimer
  <2>1. CASE UNCHANGED commands
    BY <1>1, <2>1
  <2>2. CASE commands' = Append(commands, Message(c))
    <3>1. commands \in Seq(Command) /\ Message(c) \in Command /\ Message(c).code = c
      BY DEF TypeOK, Command, Message
    <3>2. Among(commands', {"START_RETRY"}) <=> Among(commands, {"START_RETRY"})
      BY <2>2, <3>1, AmongFacts
    <3> QED BY <3>2 DEF InTimer
  <2> QED BY <1>2, <2>1, <2>2 DEF Order
<1> QED BY <1>1, <1>2 DEF OtherOrder

\* A message without the turn changes nothing when it is taken, appended, posted.
LEMMA QueueFacts ==
  ASSUME TypeOK, TurnOK, queue # << >>, queue' = Tail(queue)
  PROVE  /\ Once(queue, TurnCodes)'
         /\ InQueue <=> Head(queue).code \in TurnCodes \/ InQueue'
         /\ ~(Head(queue).code \in TurnCodes /\ InQueue')
         /\ Among(queue, {"START_AP"}) <=>
              Head(queue).code = "START_AP" \/ Among(queue', {"START_AP"})
         /\ Among(queue, {"LOAD_AND_RESTORE_STA"}) <=>
              \/ Head(queue).code = "LOAD_AND_RESTORE_STA"
              \/ Among(queue', {"LOAD_AND_RESTORE_STA"})
<1>1. queue \in Seq(Messages) /\ Once(queue, TurnCodes)
  BY DEF TypeOK, TurnOK
<1>2. /\ Once(Tail(queue), TurnCodes)
      /\ Among(queue, TurnCodes) <=> Head(queue).code \in TurnCodes \/ Among(Tail(queue), TurnCodes)
      /\ ~(Head(queue).code \in TurnCodes /\ Among(Tail(queue), TurnCodes))
  BY <1>1, AmongFacts
<1>3. /\ Among(queue, {"START_AP"}) <=>
           Head(queue).code \in {"START_AP"} \/ Among(Tail(queue), {"START_AP"})
      /\ Among(queue, {"LOAD_AND_RESTORE_STA"}) <=>
           \/ Head(queue).code \in {"LOAD_AND_RESTORE_STA"}
           \/ Among(Tail(queue), {"LOAD_AND_RESTORE_STA"})
  BY <1>1, AmongFacts
<1> QED BY <1>2, <1>3 DEF InQueue

\* An event without the turn changes nothing when it comes, and one with it only
\* if there was none.
LEMMA EventFacts ==
  ASSUME TypeOK, TurnOK, NEW e \in Event, events' = Append(events, e),
         ~(InEvents /\ e.code \in TurnCodes)
  PROVE  /\ Once(events, TurnCodes)'
         /\ InEvents' <=> InEvents \/ e.code \in TurnCodes
<1>1. events \in Seq(Event) /\ Once(events, TurnCodes)
  BY DEF TypeOK, TurnOK
<1>2. /\ Once(Append(events, e), TurnCodes)
      /\ Among(Append(events, e), TurnCodes) <=> Among(events, TurnCodes) \/ e.code \in TurnCodes
  BY <1>1, AmongFacts DEF InEvents
<1> QED BY <1>2 DEF InEvents

\* Of two places, one at most has the turn.
LEMMA Turned ==
  ASSUME Turns <= 1
  PROVE  /\ InHandler => /\ ~InQueue /\ ~InEvents /\ ~InLoop /\ ~InManager /\ ~InDaemon
                         /\ ~InTimer /\ ~InStation
         /\ InQueue => /\ ~InEvents /\ ~InLoop /\ ~InManager /\ ~InDaemon /\ ~InHandler
                       /\ ~InTimer /\ ~InStation
         /\ InStation => /\ ~InQueue /\ ~InEvents /\ ~InLoop /\ ~InManager /\ ~InDaemon
                         /\ ~InHandler /\ ~InTimer
         /\ InTimer => /\ ~InQueue /\ ~InEvents /\ ~InLoop /\ ~InManager /\ ~InDaemon
                       /\ ~InHandler /\ ~InStation
         /\ InEvents => /\ ~InQueue /\ ~InLoop /\ ~InManager /\ ~InDaemon /\ ~InHandler
                        /\ ~InTimer /\ ~InStation
         /\ InLoop => /\ ~InQueue /\ ~InEvents /\ ~InManager /\ ~InDaemon /\ ~InHandler
                      /\ ~InTimer /\ ~InStation
         /\ InManager => /\ ~InQueue /\ ~InEvents /\ ~InLoop /\ ~InDaemon /\ ~InHandler
                         /\ ~InTimer /\ ~InStation
         /\ InDaemon => /\ ~InQueue /\ ~InEvents /\ ~InLoop /\ ~InManager /\ ~InHandler
                        /\ ~InTimer /\ ~InStation
         /\ Turns = 0 <=> /\ ~InQueue /\ ~InEvents /\ ~InLoop /\ ~InManager /\ ~InDaemon
                          /\ ~InHandler /\ ~InTimer /\ ~InStation
BY DEF Turns, Count

\* A step may leave the turn where it is.
StaysPut == /\ InQueue' <=> InQueue
            /\ InEvents' <=> InEvents
            /\ InLoop' <=> InLoop
            /\ InManager' <=> InManager
            /\ InDaemon' <=> InDaemon
            /\ InHandler' <=> InHandler
            /\ InTimer' <=> InTimer
            /\ InStation' <=> InStation

\* Such a step has to keep the access point, or the network to try.
LEMMA KeepsTurn ==
  ASSUME TurnOK, WayBackOK, Once(queue, TurnCodes)', Once(events, TurnCodes)', StaysPut,
         mgr'.pc = "connect" => "CONNECTED" \notin mgr'.seen,
         Turns = 0 /\ ApAhead => ApAhead',
         config # NoNetwork \/ LoadAhead => config' # NoNetwork \/ LoadAhead'
  PROVE  TurnOK' /\ WayBackOK'
<1>1. Turns' = Turns
  BY DEF Turns, Count, StaysPut
<1>2. TurnOK'
  BY <1>1 DEF TurnOK
<1>3. WayBackOK'
  BY <1>1 DEF WayBackOK
<1> QED BY <1>2, <1>3

\* A step may hand the turn on, while there is a network to try.
LEMMA HandsOn ==
  ASSUME Once(queue, TurnCodes)', Once(events, TurnCodes)', Turns' = 1,
         mgr'.pc = "connect" => "CONNECTED" \notin mgr'.seen,
         config' # NoNetwork \/ LoadAhead'
  PROVE  TurnOK' /\ WayBackOK'
BY DEF TurnOK, WayBackOK

\* A step may end the turn with an access point.
LEMMA EndsTurn ==
  ASSUME Once(queue, TurnCodes)', Once(events, TurnCodes)', Turns' = 0, ApAhead',
         mgr'.pc = "connect" => "CONNECTED" \notin mgr'.seen
  PROVE  TurnOK' /\ WayBackOK'
BY DEF TurnOK, WayBackOK

-----------------------------------------------------------------------------
\* What the timer daemon has to do.

\* A message in one of two sequences is in both together.
LEMMA AmongConcat ==
  ASSUME NEW S, NEW s \in Seq(S), NEW t \in Seq(S), NEW C
  PROVE  Among(s \o t, C) <=> Among(s, C) \/ Among(t, C)
<1> DEFINE u == s \o t
<1>1. /\ Len(s) \in Nat /\ Len(t) \in Nat /\ DOMAIN u = 1..(Len(s) + Len(t))
      /\ DOMAIN s = 1..Len(s) /\ DOMAIN t = 1..Len(t)
      /\ \A i \in DOMAIN s : u[i] = s[i]
      /\ \A i \in DOMAIN t : u[Len(s) + i] = t[i]
  OBVIOUS
<1>2. /\ \A i \in DOMAIN s : i \in DOMAIN u /\ u[i] = s[i]
      /\ \A i \in DOMAIN t : Len(s) + i \in DOMAIN u /\ u[Len(s) + i] = t[i]
      /\ \A i \in DOMAIN u : \/ i \in DOMAIN s /\ u[i] = s[i]
                             \/ i - Len(s) \in DOMAIN t /\ u[i] = t[i - Len(s)]
  BY <1>1
<1> HIDE DEF u
<1>3. Among(u, C) <=> Among(s, C) \/ Among(t, C)
  BY <1>2 DEF Among
<1> QED BY <1>3 DEF u

\* What is awaited is being handled, in the queue, being posted or an event.
LEMMA AwaitedPlaces ==
  ASSUME TypeOK, NEW c, c # "NONE"
  PROVE  Awaited(c) <=> \/ mgr.msg.code = c \/ Among(queue, {c})
                        \/ posting["events"].code = c \/ Among(events, {c})
<1> DEFINE S == Event \cup Messages
           p == posting["events"]
           s1 == OneOrNone(mgr.msg)
           s2 == s1 \o queue
           s3 == OneOrNone(p)
           s4 == s2 \o s3
<1>1. Pipeline = s4 \o events
  BY DEF Pipeline, Channel
<1>2. mgr.msg \in Messages \cup {NoMessage} /\ p \in Messages \cup {NoMessage}
  BY DEF TypeOK, Task
<1>3. queue \in Seq(S) /\ events \in Seq(S)
  BY DEF TypeOK
<1>4. \A m \in Messages \cup {NoMessage} : Among(OneOrNone(m), {c}) <=> m.code = c
  BY CodeFacts DEF OneOrNone, Among
<1>5. (Among(s1, {c}) <=> mgr.msg.code = c) /\ (Among(s3, {c}) <=> p.code = c)
  BY <1>2, <1>4
<1>6. Awaited(c) <=> Among(Pipeline, {c})
  BY DEF Awaited, Among
<1> HIDE DEF S, p, s1, s3
<1>7. s1 \in Seq(S) /\ s3 \in Seq(S)
  BY <1>2, LinkOneOrNone DEF S, s1, s3
<1>8. s2 \in Seq(S) /\ (Among(s2, {c}) <=> Among(s1, {c}) \/ Among(queue, {c}))
  BY <1>3, <1>7, AmongConcat
<1> HIDE DEF s2
<1>9. s4 \in Seq(S) /\ (Among(s4, {c}) <=> Among(s2, {c}) \/ Among(s3, {c}))
  BY <1>7, <1>8, AmongConcat
<1> HIDE DEF s4
<1>10. Among(s4 \o events, {c}) <=> Among(s4, {c}) \/ Among(events, {c})
  BY <1>3, <1>9, AmongConcat
<1> QED BY <1>1, <1>5, <1>6, <1>8, <1>9, <1>10 DEF p

\* The news that the link is up is ahead only of a link that is up, or of the news
\* that it no longer is.
LEMMA GotLate ==
  ASSUME WayBackInv, GotAhead
  PROVE  Late \/ Forgets
<1> SUFFICES ASSUME ~Late, ~Forgets
             PROVE  FALSE
  OBVIOUS
<1> USE DEF WayBackInv
<1>1. Awaited("STA_GOT_IP")
  BY AwaitedPlaces DEF GotAhead, GotInQueue, GotInEvents, GotInLoop, GotInHandler, GotCode, PlaceOK
<1>2. ~Awaited("STA_DISCONNECTED")
  <2>1. mgr.msg.code # "STA_DISCONNECTED"
    BY CodeFacts DEF PlaceOK, TypeOK, Places, Forgets
  <2> QED BY <2>1, AwaitedPlaces DEF Late, LossCode
<1>3. sta # "connected"
  BY DEF Late
<1>4. ~LinkAfter(Pipeline, staIp)
  BY <1>3 DEF BeliefFollowsDriver
<1> QED BY <1>1, <1>2, <1>4, PipelineType, SwitchedOff DEF LinkAfter, Awaited

\* The turn has come to one of these places at most.
LEMMA Stages ==
  ASSUME TypeOK, TurnOK
  PROVE  /\ InTimer => ~Early /\ ~Late /\ ~Forgets
         /\ Early => ~InTimer /\ ~Late /\ ~Forgets
         /\ Late => ~InTimer /\ ~Early /\ ~Forgets
         /\ Forgets => ~InTimer /\ ~Early /\ ~Late
<1>1. /\ Among(queue, EarlyCodes) => InQueue
      /\ Among(queue, LossCode) => InQueue
      /\ Among(events, LossCode) => InEvents
      /\ posting["events"].code \in LossCode => InLoop
  BY DEF Among, EarlyCodes, LossCode, TurnCodes, InQueue, InEvents, InLoop
<1>2. ~(Among(queue, EarlyCodes) /\ Among(queue, LossCode))
  BY DEF TurnOK, Once, Among, EarlyCodes, LossCode, TurnCodes
<1>3. Turns <= 1
  BY DEF TurnOK
<1>4. /\ mgr.pc = "connect" => InHandler
      /\ mgr.pc = "disconnected" => InHandler
      /\ sta = "connecting" => InStation
      /\ sta = "connected" => InStation
  BY DEF InHandler, InStation
<1> QED BY <1>1, <1>2, <1>3, <1>4, Turned DEF Early, Late, Forgets

\* What it is allowed at each of them.
LEMMA Allowances ==
  ASSUME TypeOK, TurnOK
  PROVE  /\ retryTimer => Allowance = 2
         /\ Early => Allowance = 3
         /\ Late => Allowance = 4
         /\ Forgets => Allowance = 5
         /\ ~retryTimer /\ ~Early /\ ~Late /\ ~Forgets => Allowance = 6
<1>1. retryTimer => InTimer
  BY DEF InTimer, TypeOK
<1> QED BY <1>1, Stages DEF Allowance

StagesOK == /\ InTimer => ~Early /\ ~Late /\ ~Forgets
            /\ Late => Allowance = 4
            /\ Forgets => Allowance = 5

LEMMA StagesAllow == TypeOK /\ TurnOK => StagesOK
BY Stages, Allowances DEF StagesOK

\* The same of the next state.
LEMMA StagesNext == TypeOK' /\ TurnOK' => StagesOK'
BY StagesAllow, PTL

\* The debt in numbers: of the commands and of two conditions.
LEMMA DebtFacts ==
  ASSUME commands \in Seq(Command)
  PROVE  /\ Len(commands) \in Nat /\ Debt \in Nat /\ Len(commands) <= Debt
         /\ Debt = Len(commands) + Count(shutdownTimer) + Count(GotAhead)
         /\ Count(shutdownTimer) \in {0, 1} /\ Count(GotAhead) \in {0, 1}
         /\ Count(StartsShutdown) \in {0, 1}
<1>1. /\ Count(shutdownTimer) \in {0, 1} /\ Count(GotAhead) \in {0, 1}
      /\ Count(StartsShutdown) \in {0, 1}
  BY DEF Count
<1>2. Len(commands) \in Nat
  OBVIOUS
<1> QED BY <1>1, <1>2 DEF Debt

LEMMA DebtFactsNext ==
  ASSUME commands' \in Seq(Command)
  PROVE  /\ Len(commands') \in Nat /\ Debt' \in Nat
         /\ Debt' = Len(commands') + Count(shutdownTimer') + Count(GotAhead')
         /\ Count(shutdownTimer') \in {0, 1} /\ Count(GotAhead') \in {0, 1}
         /\ Count(StartsShutdown') \in {0, 1}
<1>1. /\ Count(shutdownTimer') \in {0, 1} /\ Count(GotAhead') \in {0, 1}
      /\ Count(StartsShutdown') \in {0, 1}
  BY DEF Count
<1>2. Len(commands') \in Nat
  OBVIOUS
<1> QED BY <1>1, <1>2 DEF Debt

\* It grows with the daemon's queue, unless a timer or the news makes up for that.
LEMMA DebtSteps ==
  ASSUME commands \in Seq(Command), commands' \in Seq(Command), GotAhead' => GotAhead,
         UNCHANGED shutdownTimer \/ shutdownTimer' = FALSE
  PROVE  /\ Len(commands') <= Len(commands) => Debt' <= Debt
         /\ Len(commands') <= Len(commands) + 1 => Debt' <= Debt + 1
         /\ Len(commands') <= Len(commands) + 1 /\ shutdownTimer = TRUE /\ shutdownTimer' = FALSE
              => Debt' <= Debt
         /\ Len(commands') <= Len(commands) + 1 /\ GotAhead /\ ~GotAhead' => Debt' <= Debt
<1>1. /\ Count(shutdownTimer) \in {0, 1} /\ Count(GotAhead) \in {0, 1}
      /\ Count(shutdownTimer') \in {0, 1} /\ Count(GotAhead') \in {0, 1}
      /\ Count(GotAhead') <= Count(GotAhead) /\ Count(shutdownTimer') <= Count(shutdownTimer)
      /\ shutdownTimer = TRUE /\ shutdownTimer' = FALSE =>
           Count(shutdownTimer) = 1 /\ Count(shutdownTimer') = 0
      /\ GotAhead /\ ~GotAhead' => Count(GotAhead) = 1 /\ Count(GotAhead') = 0
  BY DEF Count
<1>2. Len(commands) \in Nat /\ Len(commands') \in Nat
  OBVIOUS
<1>3. /\ Debt = Len(commands) + Count(shutdownTimer) + Count(GotAhead)
      /\ Debt' = Len(commands') + Count(shutdownTimer') + Count(GotAhead')
  BY DEF Debt
<1> QED BY <1>1, <1>2, <1>3

\* The loss of a link finds room for the command that starts the retry timer.
LEMMA LossHasRoom ==
  ASSUME TimerQueueLength >= 6, WayBackInv, mgr.pc = "disconnected"
  PROVE  Len(commands) < TimerQueueLength
<1>1. Allowance = 5
  BY Allowances DEF WayBackInv, Forgets
<1>2. Len(commands) \in Nat /\ Debt \in Nat /\ Len(commands) <= Debt
  BY DebtFacts DEF WayBackInv, TypeOK
<1>3. Debt <= 5
  BY <1>1 DEF WayBackInv, CommandsAhead
<1> QED BY <1>2, <1>3, TimerAssumption

\* The command that starts the retry timer has the turn until the timer has it.
LEMMA RunKeepsTimer ==
  ASSUME WayBackInv, RunCommand
  PROVE  InTimer' <=> InTimer
<1>1. /\ commands \in Seq(Command) /\ commands # << >> /\ commands' = Tail(commands)
      /\ RetryAlone /\ RetryLast
  BY DEF WayBackInv, TypeOK, RunCommand, CommandsAhead
<1>2. Among(commands, {"START_RETRY"}) <=>
        Head(commands).code = "START_RETRY" \/ Among(commands', {"START_RETRY"})
  BY <1>1, AmongFacts
<1>3. CASE Head(commands).code = "START_RETRY"
  BY <1>2, <1>3 DEF RunCommand, InTimer
<1>4. CASE Head(commands).code = "STOP_RETRY"
  <2>1. Among(commands, {"START_RETRY", "STOP_RETRY"})
    BY <1>1, <1>4, AmongFacts
  <2>2. retryTimer # TRUE
    BY <1>1, <2>1 DEF RetryAlone
  <2>3. retryTimer' = FALSE
    BY <1>4 DEF RunCommand
  <2> QED BY <1>2, <1>4, <2>2, <2>3 DEF InTimer
<1>5. CASE Head(commands).code \notin {"START_RETRY", "STOP_RETRY"}
  <2>1. UNCHANGED retryTimer
    BY <1>5 DEF RunCommand
  <2> QED BY <1>2, <1>5, <2>1 DEF InTimer
<1> QED BY <1>3, <1>4, <1>5

\* A device that has started has nothing for the daemon to do ...
Started == /\ queue = << >> /\ events = << >> /\ posting = BootPosting /\ mgr = Receive
           /\ retryTimer = FALSE /\ shutdownTimer = FALSE /\ commands = << >>

LEMMA StartsWithout == Started => GotOK /\ CommandsAhead
<1> SUFFICES ASSUME Started
             PROVE  GotOK /\ CommandsAhead
  OBVIOUS
<1> USE DEF Started
<1>1. /\ ~GotInQueue /\ ~GotInEvents /\ Once(queue, GotCode) /\ Once(events, GotCode)
      /\ ~StartsShutdown /\ Once(commands, ToStartShutdown) /\ RetryAlone /\ RetryLast /\ RetryNear
  BY DEF GotInQueue, GotInEvents, Among, Once, StartsShutdown, RetryAlone, RetryLast, RetryNear
<1>2. ~GotInHandler /\ ~GotInLoop
  BY ReceiveFacts DEF GotInHandler, GotInLoop, GotCode, BootPosting, NoMessage, Message, Task
<1>3. Debt = 0 /\ Allowance >= 2
  <2>1. ~GotAhead
    BY <1>1, <1>2 DEF GotAhead
  <2>2. Len(commands) = 0 /\ Count(shutdownTimer) = 0 /\ Count(GotAhead) = 0
    BY <2>1 DEF Count
  <2>3. Allowance >= 2
    BY DEF Allowance
  <2> QED BY <2>2, <2>3 DEF Debt
<1>4. Debt <= Allowance
  BY <1>3 DEF Allowance
<1> QED BY <1>1, <1>2, <1>4 DEF GotOK, CommandsAhead

\* ... and neither has one that was reset.
LEMMA ResetWithout == PowerCycle => GotOK' /\ CommandsAhead'
<1>1. PowerCycle => Started'
  BY DEF PowerCycle, Started
<1> QED BY <1>1, StartsWithout, PTL

-----------------------------------------------------------------------------
\* The manager's handlers hand the turn on.
LEMMA ManagerTurn ==
  ASSUME TimerQueueLength >= 6, WayBackInv, Manager
  PROVE  TurnOK' /\ WayBackOK'
<1> USE DEF WayBackInv
<1>t. /\ queue \in Seq(Messages) /\ events \in Seq(Event)
      /\ posting \in [Task -> Messages \cup {NoMessage}]
      /\ mgr \in [pc : Places, msg : Messages \cup {NoMessage}, seen : SUBSET Bits]
      /\ Once(queue, TurnCodes) /\ Once(events, TurnCodes) /\ Turns <= 1
  BY DEF TypeOK, TurnOK
<1>m. /\ Message("SCAN_DONE") \in Event /\ Message("SCAN_DONE").code \notin TurnCodes
      /\ Message("AP_START") \in Event /\ Message("AP_START").code \notin TurnCodes
      /\ Message("AP_STOP") \in Event /\ Message("AP_STOP").code \notin TurnCodes
      /\ StaDisconnected("ASSOC_LEAVE") \in Event
      /\ StaDisconnected("ASSOC_LEAVE").code \in TurnCodes
      /\ NoMessage.code \notin TurnCodes
  BY MessageFacts, CodeFacts DEF TurnCodes
\* Events that are not about the link.
<1>e. ASSUME events' = events \/ \E c \in {"SCAN_DONE", "AP_START", "AP_STOP"} :
                                    events' = Append(events, Message(c))
      PROVE  Once(events, TurnCodes)' /\ (InEvents' <=> InEvents)
  <2>1. CASE events' = events
    BY <1>t, <2>1 DEF InEvents
  <2>2. ASSUME NEW c \in {"SCAN_DONE", "AP_START", "AP_STOP"}, events' = Append(events, Message(c))
        PROVE  Once(events, TurnCodes)' /\ (InEvents' <=> InEvents)
    BY <1>m, <2>2, EventFacts
  <2> QED BY <1>e, <2>1, <2>2
\* What depends on one variable.
<1>u. /\ UNCHANGED queue => /\ Once(queue, TurnCodes)' /\ (InQueue' <=> InQueue)
                            /\ Among(queue', {"START_AP"}) <=> Among(queue, {"START_AP"})
                            /\ Among(queue', {"LOAD_AND_RESTORE_STA"})
                                 <=> Among(queue, {"LOAD_AND_RESTORE_STA"})
      /\ UNCHANGED posting => (InLoop' <=> InLoop) /\ (InManager' <=> InManager)
                              /\ (InDaemon' <=> InDaemon)
      /\ UNCHANGED mgr => (InHandler' <=> InHandler)
      /\ UNCHANGED retryTimer /\ OtherOrder => (InTimer' <=> InTimer)
      /\ UNCHANGED sta => (InStation' <=> InStation)
  BY <1>t, TimerKeeps DEF InQueue, InLoop, InManager, InDaemon, InHandler, InStation
\* A message that is not about the link is taken, and its handler keeps the turn.
<1>1. ASSUME queue # << >>, queue' = Tail(queue), Head(queue).code \notin TurnCodes,
             Head(queue).code # "START_AP" \/ mode' = "APSTA",
             Once(events, TurnCodes)', InEvents' <=> InEvents, mode' = mode \/ mode' = "APSTA",
             mgr.pc = "receive", mgr'.pc \notin {"connect", "disconnected"},
             UNCHANGED <<posting, retryTimer, sta, config>>, OtherOrder
      PROVE  TurnOK' /\ WayBackOK'
  <2>1. /\ Once(queue, TurnCodes)'
        /\ InQueue' <=> InQueue
        /\ Among(queue, {"START_AP"}) => Head(queue).code = "START_AP"
                                         \/ Among(queue', {"START_AP"})
        /\ Among(queue, {"LOAD_AND_RESTORE_STA"}) <=> Among(queue', {"LOAD_AND_RESTORE_STA"})
    BY <1>1, QueueFacts DEF TurnCodes
  <2>2. InHandler' <=> InHandler
    BY <1>1 DEF InHandler
  <2>3. StaysPut
    BY <1>1, <1>u, <2>1, <2>2 DEF StaysPut
  <2>4. (ApAhead => ApAhead') /\ (LoadAhead => LoadAhead')
    BY <1>1, <2>1 DEF ApAhead, LoadAhead
  <2> QED BY <1>1, <2>1, <2>3, <2>4, KeepsTurn
<1>2. CASE ScanDone
  BY <1>1, <1>2, <1>e, <1>m DEF ScanDone, Take, TurnCodes, managerVars, timerVars, dataVars,
     driverVars, OtherOrder
<1>3. CASE StartWifiScan
  <2>1. events' = events \/ events' = Append(events, Message("SCAN_DONE"))
    BY <1>3 DEF StartWifiScan, EspWifiScanStart
  <2> QED BY <1>1, <1>3, <1>e, <2>1 DEF StartWifiScan, Take, TurnCodes, managerVars, timerVars,
             dataVars, OtherOrder
\* A message about the link is taken: the turn was in the queue.
<1>4. ASSUME queue # << >>, queue' = Tail(queue), Head(queue).code \in TurnCodes
      PROVE  /\ Once(queue, TurnCodes)' /\ InQueue /\ ~InQueue' /\ ~InEvents /\ ~InLoop
             /\ ~InManager /\ ~InDaemon /\ ~InHandler /\ ~InTimer /\ ~InStation /\ Turns = 1
             /\ Head(queue).code # "LOAD_AND_RESTORE_STA" => config # NoNetwork
  <2>1. Once(queue, TurnCodes)' /\ InQueue /\ ~InQueue'
    BY <1>4, QueueFacts
  <2>2. /\ ~InEvents /\ ~InLoop /\ ~InManager /\ ~InDaemon /\ ~InHandler /\ ~InTimer
        /\ ~InStation
    BY <1>t, <2>1, Turned
  <2>3. Turns = 1
    BY <2>1, <2>2 DEF Turns, Count
  <2>4. ASSUME Head(queue).code # "LOAD_AND_RESTORE_STA"
        PROVE  config # NoNetwork
    <3>1. ~Among(queue', {"LOAD_AND_RESTORE_STA"})
      BY <2>1 DEF InQueue, Among, TurnCodes
    <3>2. ~Among(queue, {"LOAD_AND_RESTORE_STA"})
      BY <1>4, <2>4, <3>1, QueueFacts
    <3>3. posting["manager"].code # "LOAD_AND_RESTORE_STA"
      BY <2>2 DEF InManager, TurnCodes
    <3> QED BY <2>3, <3>2, <3>3 DEF WayBackOK, LoadAhead
  <2> QED BY <2>1, <2>2, <2>3, <2>4
<1>5. CASE LoadAndRestoreSta
  <2>1. /\ queue # << >> /\ queue' = Tail(queue) /\ Head(queue).code \in TurnCodes
        /\ mgr.pc = "receive" /\ posting' = [posting EXCEPT !["manager"] = FirstOrder]
        /\ config' = nvs /\ UNCHANGED <<mgr, retryTimer, events, sta>> /\ OtherOrder
    BY <1>5 DEF LoadAndRestoreSta, Take, Post, TurnCodes, managerVars, timerVars, driverVars,
       OtherOrder
  <2>2. /\ Once(queue, TurnCodes)' /\ ~InQueue' /\ ~InEvents /\ ~InLoop /\ ~InDaemon
        /\ ~InHandler /\ ~InTimer /\ ~InStation
    BY <1>4, <2>1
  <2>3. /\ Once(events, TurnCodes)' /\ ~InEvents' /\ ~InHandler' /\ ~InTimer' /\ ~InStation'
    BY <1>e, <1>u, <2>1, <2>2
  <2>4. /\ posting'["events"] = posting["events"] /\ posting'["timers"] = posting["timers"]
        /\ posting'["manager"] = FirstOrder
    BY <1>t, <2>1 DEF Task
  <2>5. ~InLoop' /\ ~InDaemon'
    BY <2>2, <2>4 DEF InLoop, InDaemon
  <2>6. mgr'.pc # "connect"
    BY <2>1
  <2>7. CASE nvs # NoNetwork
    <3>1. InManager'
      BY <2>4, <2>7 DEF InManager, FirstOrder, ConnectSta, TurnCodes
    <3>2. Turns' = 1
      BY <2>2, <2>3, <2>5, <3>1 DEF Turns, Count
    <3> QED BY <2>1, <2>2, <2>3, <2>6, <2>7, <3>2, HandsOn
  <2>8. CASE nvs = NoNetwork
    <3>1. posting'["manager"].code = "START_AP"
      BY <2>4, <2>8 DEF FirstOrder, Message
    <3>2. ~InManager'
      BY <3>1 DEF InManager, TurnCodes
    <3>3. Turns' = 0 /\ ApAhead'
      BY <2>2, <2>3, <2>5, <3>1, <3>2 DEF Turns, Count, ApAhead
    <3> QED BY <2>2, <2>3, <2>6, <3>3, EndsTurn
  <2> QED BY <2>7, <2>8
<1>6. CASE MarkRequest \/ ForgetIp
  <2>1. /\ queue # << >> /\ queue' = Tail(queue)
        /\ Head(queue).code \in {"CONNECT_STA", "STA_DISCONNECTED"}
        /\ UNCHANGED <<posting, retryTimer, events, sta, config>> /\ OtherOrder
    BY <1>6 DEF MarkRequest, ForgetIp, CancelShutdown, Take, timerVars, dataVars, driverVars,
       OtherOrder
  <2>2. Head(queue).code \in TurnCodes /\ Head(queue).code # "LOAD_AND_RESTORE_STA"
    BY <2>1 DEF TurnCodes
  <2>3. /\ Once(queue, TurnCodes)' /\ ~InQueue' /\ ~InEvents /\ ~InLoop /\ ~InManager
        /\ ~InDaemon /\ ~InTimer /\ ~InStation /\ config # NoNetwork
    BY <1>4, <2>1, <2>2
  <2>4. /\ Once(events, TurnCodes)' /\ ~InEvents' /\ ~InLoop' /\ ~InManager' /\ ~InDaemon'
        /\ ~InTimer' /\ ~InStation'
    BY <1>e, <1>u, <2>1, <2>3
  <2>5. InHandler' /\ (mgr'.pc = "connect" => "CONNECTED" \notin mgr'.seen)
    <3>1. CASE ForgetIp
      BY <3>1 DEF ForgetIp, At, InHandler
    <3>2. CASE MarkRequest
      <4>1. mgr'.pc = "connect" /\ mgr'.seen \subseteq bits'
        BY <3>2 DEF MarkRequest, At
      <4>2. "CONNECTED" \in bits' => "CONNECTED" \in bits
        BY <3>2 DEF MarkRequest
      <4>3. "CONNECTED" \notin bits
        <5>1. sta # "connected" /\ ~HasLoss(events)
          BY <2>3 DEF InStation, InEvents, Among, HasLoss, TurnCodes
        <5> QED BY <1>t, <5>1, SwitchedOff DEF BitsFollowDriver, LinkAfter, HasLoss
      <4> QED BY <4>1, <4>2, <4>3 DEF InHandler
    <3> QED BY <1>6, <3>1, <3>2
  <2>6. Turns' = 1
    BY <2>3, <2>4, <2>5 DEF Turns, Count
  <2> QED BY <2>1, <2>3, <2>4, <2>5, <2>6, HandsOn
\* A handler of such a message has the turn.
<1>7. ASSUME InHandler
      PROVE  /\ ~InQueue /\ ~InEvents /\ ~InLoop /\ ~InManager /\ ~InDaemon /\ ~InTimer
             /\ ~InStation /\ config # NoNetwork
  <2>1. /\ ~InQueue /\ ~InEvents /\ ~InLoop /\ ~InManager /\ ~InDaemon /\ ~InTimer
        /\ ~InStation
    BY <1>7, <1>t, Turned
  <2>2. Turns = 1
    BY <1>7, <2>1 DEF Turns, Count
  <2>3. ~LoadAhead
    BY <2>1 DEF LoadAhead, InQueue, InManager, Among, TurnCodes
  <2> QED BY <2>1, <2>2, <2>3 DEF WayBackOK
<1>8. CASE StartAttempt
  <2>1. /\ InHandler /\ mgr.pc = "connect" /\ "CONNECTED" \notin mgr.seen
    BY <1>8 DEF StartAttempt, InHandler, TurnOK
  <2>2. sta = "idle" /\ config # NoNetwork
    BY <1>7, <2>1 DEF InStation
  <2>3. /\ sta' = "connecting" /\ mgr' = Receive
        /\ events' = events \/ events' = Append(events, Message("SCAN_DONE"))
        /\ UNCHANGED <<queue, posting, retryTimer, config>> /\ OtherOrder
    BY <1>8, <2>1, <2>2 DEF StartAttempt, EspWifiConnect, EspWifiScanStop, timerVars, dataVars,
       OtherOrder
  <2>4. /\ Once(queue, TurnCodes)' /\ Once(events, TurnCodes)' /\ ~InQueue' /\ ~InEvents'
        /\ ~InLoop' /\ ~InManager' /\ ~InDaemon' /\ ~InTimer'
    BY <1>e, <1>u, <1>7, <2>1, <2>3
  <2>5. InStation' /\ ~InHandler' /\ mgr'.pc # "connect"
    BY <2>3, ReceiveFacts DEF InStation, InHandler
  <2>6. Turns' = 1
    BY <2>4, <2>5 DEF Turns, Count
  <2> QED BY <2>2, <2>3, <2>4, <2>5, <2>6, HandsOn
<1>9. CASE AttemptFailed
  BY <1>9 DEF AttemptFailed, NoUser
<1>10. CASE UserDisconnected \/ ConnectionLost
  <2>1. InHandler
    BY <1>10 DEF UserDisconnected, ConnectionLost, InHandler
  <2>2. /\ mgr' = Receive /\ UNCHANGED <<queue, events, sta>>
        /\ \/ posting' = posting
           \/ posting' = [posting EXCEPT !["manager"] = Message("START_AP")]
    BY <1>10 DEF UserDisconnected, ConnectionLost, RestartAp, Post, driverVars
  <2>3. /\ Once(queue, TurnCodes)' /\ Once(events, TurnCodes)' /\ ~InQueue' /\ ~InEvents'
        /\ ~InStation'
    BY <1>e, <1>u, <1>7, <2>1, <2>2
  <2>4. /\ posting'["events"] = posting["events"] /\ posting'["timers"] = posting["timers"]
        /\ posting'["manager"] = posting["manager"] \/ posting'["manager"] = Message("START_AP")
    BY <1>t, <2>2 DEF Task
  <2>5. ~InLoop' /\ ~InDaemon' /\ ~InManager'
    BY <1>7, <2>1, <2>4 DEF InLoop, InDaemon, InManager, TurnCodes, Message
  <2>6. ~InHandler' /\ mgr'.pc # "connect"
    BY <2>2, ReceiveFacts DEF InHandler
  <2>7. CASE ConnectionLost
    <3>1. InTimer' /\ config' = config
      <4>1. Order("START_RETRY") /\ config' = config
        BY <2>7, Zenon DEF ConnectionLost, ScheduleRetry
      <4>2. commands' = Append(commands, Message("START_RETRY"))
        BY <2>7, <4>1, LossHasRoom DEF Order, ConnectionLost
      <4>3. /\ commands \in Seq(Command) /\ Message("START_RETRY") \in Command
            /\ Message("START_RETRY").code = "START_RETRY"
        BY DEF TypeOK, Command, Message
      <4>4. Among(commands', {"START_RETRY"})
        BY <4>2, <4>3, AmongFacts
      <4> QED BY <4>1, <4>4 DEF InTimer
    <3>2. Turns' = 1
      BY <2>3, <2>5, <2>6, <3>1 DEF Turns, Count
    <3> QED BY <1>7, <2>1, <2>3, <2>6, <3>1, <3>2, HandsOn
  <2>8. CASE UserDisconnected
    <3>1. ~InTimer'
      <4>1. UNCHANGED retryTimer /\ OtherOrder
        BY <2>8 DEF UserDisconnected, timerVars, OtherOrder
      <4> QED BY <1>7, <1>u, <2>1, <4>1
    <3>2. ApAhead'
      BY <1>t, <2>8 DEF UserDisconnected, RestartAp, Post, ApAhead, Message, Task
    <3>3. Turns' = 0
      BY <2>3, <2>5, <2>6, <3>1 DEF Turns, Count
    <3> QED BY <2>3, <2>6, <3>2, <3>3, EndsTurn
  <2> QED BY <1>10, <2>7, <2>8
<1>11. CASE StartAp
  <2>1. /\ queue # << >> /\ queue' = Tail(queue) /\ Head(queue).code \notin TurnCodes
        /\ mode' = "APSTA" /\ mgr.pc = "receive" /\ mgr'.pc = "restart_http"
        /\ events' = events \/ events' = Append(events, Message("AP_START"))
        /\ UNCHANGED <<posting, retryTimer, sta, config>> /\ OtherOrder
    BY <1>11 DEF StartAp, Take, EspWifiSetMode, At, TurnCodes, timerVars, dataVars, OtherOrder
  <2> QED BY <1>1, <1>e, <2>1
<1>12. CASE CheckConnected
  <2>1. /\ queue # << >> /\ queue' = Tail(queue) /\ Head(queue).code = "STOP_AP"
        /\ mgr.pc = "receive" /\ mgr'.pc = "stop_ap"
        /\ UNCHANGED <<posting, retryTimer, sta, config, events, mode>> /\ OtherOrder
    BY <1>12 DEF CheckConnected, Take, At, timerVars, dataVars, driverVars, OtherOrder
  <2> QED BY <1>1, <1>e, <2>1 DEF TurnCodes
<1>13. CASE ReadIp
  <2>1. /\ queue # << >> /\ queue' = Tail(queue) /\ Head(queue).code = "STA_GOT_IP"
        /\ mgr.pc = "receive" /\ mgr'.pc = "got_ip"
        /\ UNCHANGED <<posting, retryTimer, sta, config, events, mode>> /\ OtherOrder
    BY <1>13 DEF ReadIp, Take, timerVars, driverVars, OtherOrder
  <2> QED BY <1>1, <1>e, <2>1 DEF TurnCodes
\* A handler that is not about the link goes on.
<1>14. ASSUME mgr.pc \notin {"connect", "disconnected"}, mgr'.pc \notin {"connect", "disconnected"},
              UNCHANGED <<queue, posting, retryTimer, sta, config>>, OtherOrder,
              Once(events, TurnCodes)', InEvents' <=> InEvents, Turns = 0 => mode' = mode
       PROVE  TurnOK' /\ WayBackOK'
  <2>1. StaysPut
    BY <1>14, <1>u DEF StaysPut, InHandler
  <2>2. (Turns = 0 /\ ApAhead => ApAhead') /\ (LoadAhead => LoadAhead')
    BY <1>14 DEF ApAhead, LoadAhead
  <2> QED BY <1>14, <1>u, <2>1, <2>2, KeepsTurn
<1>15. CASE RestartHttp \/ GotIp
  <2>1. /\ mgr.pc \notin {"connect", "disconnected"} /\ mgr' = Receive
        /\ UNCHANGED <<queue, posting, retryTimer, sta, config, events, mode>> /\ OtherOrder
    BY <1>15 DEF RestartHttp, GotIp, ScheduleShutdown, timerVars, dataVars, driverVars,
       OtherOrder
  <2> QED BY <1>14, <1>e, <2>1, ReceiveFacts
<1>16. CASE StopAp
  <2>1. /\ mgr.pc = "stop_ap" /\ mgr'.pc \in {"restart_http", "receive"}
        /\ UNCHANGED <<queue, posting, retryTimer, sta, config>> /\ OtherOrder
        /\ events' = events \/ events' = Append(events, Message("AP_STOP"))
    BY <1>16, <1>t, ReceiveFacts DEF StopAp, EspWifiSetMode, timerVars, dataVars, OtherOrder
  <2>2. ASSUME Turns = 0
        PROVE  mode' = mode
    <3>1. ~InStation /\ ~InQueue /\ ~InLoop /\ ~InEvents
      BY <1>t, <2>2, Turned
    <3>2. sta # "connected" /\ ~LossAhead
      BY <3>1 DEF InStation, InQueue, InLoop, InEvents, LossAhead, HasLoss, Among, TurnCodes
    <3>3. "CONNECTED" \notin mgr.seen
      BY <2>1, <3>2 DEF StopOK
    <3> QED BY <1>16, <3>3 DEF StopAp, StillConnected
  <2> QED BY <1>14, <1>e, <2>1, <2>2
<1>17. CASE DisconnectSta
  <2>1. /\ queue # << >> /\ queue' = Tail(queue) /\ Head(queue).code = "DISCONNECT_STA"
        /\ mgr.pc = "receive" /\ UNCHANGED <<posting, mgr, retryTimer, config, mode>>
        /\ EspWifiDisconnect /\ OtherOrder
    BY <1>17 DEF DisconnectSta, Take, managerVars, timerVars, dataVars, OtherOrder
  <2>2. CASE sta = "idle"
    BY <1>1, <1>e, <2>1, <2>2 DEF EspWifiDisconnect, TurnCodes
  <2>3. CASE sta # "idle"
    <3>1. sta' = "idle" /\ events' = Append(events, StaDisconnected("ASSOC_LEAVE"))
      BY <2>1, <2>3 DEF EspWifiDisconnect
    <3>2. /\ ~InQueue /\ ~InEvents /\ ~InLoop /\ ~InManager /\ ~InDaemon /\ ~InHandler
          /\ ~InTimer
      BY <1>t, <2>3, Turned DEF InStation
    <3>3. Once(events, TurnCodes)' /\ InEvents'
      BY <1>m, <3>1, <3>2, EventFacts
    <3>4. Once(queue, TurnCodes)' /\ ~InQueue'
      BY <2>1, <3>2, QueueFacts
    <3>5. ~InLoop' /\ ~InManager' /\ ~InDaemon' /\ ~InHandler' /\ ~InTimer'
      BY <1>u, <2>1, <3>2
    <3>6. ~InStation'
      BY <3>1 DEF InStation
    <3>7. Turns' = 1
      BY <3>3, <3>4, <3>5, <3>6 DEF Turns, Count
    <3>8. config # NoNetwork
      <4>1. Turns # 0
        BY <1>t, <2>3, Turned DEF InStation
      <4>2. ~LoadAhead
        BY <3>2 DEF LoadAhead, InQueue, InManager, Among, TurnCodes
      <4> QED BY <4>1, <4>2 DEF WayBackOK
    <3> QED BY <2>1, <3>3, <3>4, <3>7, <3>8, HandsOn
  <2> QED BY <2>2, <2>3
<1> QED BY <1>2, <1>3, <1>5, <1>6, <1>8, <1>9, <1>10, <1>11, <1>12, <1>13, <1>15, <1>16, <1>17
        DEF Manager

-----------------------------------------------------------------------------
\* A message delivered takes the turn that its sender had into the queue.
LEMMA DeliverTurn ==
  ASSUME WayBackInv, NEW t \in Task, Deliver(t)
  PROVE  TurnOK' /\ WayBackOK'
<1> USE DEF WayBackInv
<1>1. /\ queue \in Seq(Messages) /\ posting \in [Task -> Messages \cup {NoMessage}]
      /\ posting[t] \in Messages /\ queue' = Append(queue, posting[t])
      /\ Once(queue, TurnCodes) /\ Once(events, TurnCodes) /\ Turns <= 1
      /\ UNCHANGED <<events, mgr, retryTimer, commands, sta, config, mode>>
  BY DEF TypeOK, TurnOK, Deliver, Free, managerVars, timerVars, dataVars, driverVars
<1>2. /\ InQueue' <=> InQueue \/ posting[t].code \in TurnCodes
      /\ ~(InQueue /\ posting[t].code \in TurnCodes) => Once(queue, TurnCodes)'
      /\ Among(queue, {"START_AP"}) => Among(queue, {"START_AP"})'
      /\ posting[t].code = "START_AP" => Among(queue, {"START_AP"})'
      /\ Among(queue, {"LOAD_AND_RESTORE_STA"}) => Among(queue, {"LOAD_AND_RESTORE_STA"})'
      /\ posting[t].code = "LOAD_AND_RESTORE_STA" => Among(queue, {"LOAD_AND_RESTORE_STA"})'
  BY <1>1, AmongFacts DEF InQueue
<1>3. /\ posting'[t].code \notin TurnCodes
      /\ \A x \in Task \ {t} : posting'[x] = posting[x]
  BY <1>1 DEF Deliver, Post, NoMessage, Message, TurnCodes
<1>4. (ApAhead => ApAhead') /\ (LoadAhead => LoadAhead')
  BY <1>1, <1>2, <1>3 DEF ApAhead, LoadAhead, Task
<1>5. /\ Once(events, TurnCodes)' /\ (InEvents' <=> InEvents) /\ (InHandler' <=> InHandler)
      /\ (InTimer' <=> InTimer) /\ (InStation' <=> InStation)
      /\ mgr'.pc = "connect" => "CONNECTED" \notin mgr'.seen
  BY <1>1 DEF InEvents, InHandler, InTimer, InStation, TurnOK
<1>6. CASE posting[t].code \in TurnCodes
  <2>1. t # "http" /\ (InLoop \/ InManager \/ InDaemon)
    BY <1>6 DEF NoUser, InLoop, InManager, InDaemon, Task
  <2>2. ~InQueue /\ ~InEvents /\ ~InHandler /\ ~InTimer /\ ~InStation /\ Turns # 0
    BY <1>1, <2>1, Turned
  <2>3. ~InLoop' /\ ~InManager' /\ ~InDaemon'
    <3>1. CASE t = "events"
      BY <1>1, <1>3, <1>6, <3>1, Turned DEF InLoop, InManager, InDaemon, Task
    <3>2. CASE t = "manager"
      BY <1>1, <1>3, <1>6, <3>2, Turned DEF InLoop, InManager, InDaemon, Task
    <3>3. CASE t = "timers"
      BY <1>1, <1>3, <1>6, <3>3, Turned DEF InLoop, InManager, InDaemon, Task
    <3> QED BY <2>1, <3>1, <3>2, <3>3 DEF Task
  <2>4. InQueue' /\ Once(queue, TurnCodes)'
    BY <1>2, <1>6, <2>2
  <2>5. Turns' = 1
    BY <1>5, <2>2, <2>3, <2>4 DEF Turns, Count
  <2>6. config' # NoNetwork \/ LoadAhead'
    BY <1>1, <1>4, <2>2 DEF WayBackOK
  <2> QED BY <1>5, <2>4, <2>5, <2>6, HandsOn
<1>7. CASE posting[t].code \notin TurnCodes
  <2>1. (InLoop' <=> InLoop) /\ (InManager' <=> InManager) /\ (InDaemon' <=> InDaemon)
    BY <1>3, <1>7 DEF InLoop, InManager, InDaemon, Task
  <2>2. StaysPut
    BY <1>2, <1>5, <1>7, <2>1 DEF StaysPut
  <2> QED BY <1>1, <1>2, <1>4, <1>5, <1>7, <2>2, KeepsTurn
<1> QED BY <1>6, <1>7

\* The news that the link is lost takes the turn from the events to the event loop.
LEMMA EventTurn ==
  ASSUME WayBackInv, HandleEvent
  PROVE  TurnOK' /\ WayBackOK'
<1> USE DEF WayBackInv
<1>1. /\ events \in Seq(Event) /\ events # << >> /\ events' = Tail(events)
      /\ posting \in [Task -> Messages \cup {NoMessage}] /\ posting["events"] = NoMessage
      /\ Once(queue, TurnCodes) /\ Once(events, TurnCodes) /\ Turns <= 1
      /\ UNCHANGED <<queue, mgr, retryTimer, commands, sta, config, mode>>
  BY DEF TypeOK, TurnOK, HandleEvent, Free, managerVars, timerVars, dataVars
<1>2. /\ Once(events, TurnCodes)'
      /\ InEvents <=> Head(events).code \in TurnCodes \/ InEvents'
      /\ ~(Head(events).code \in TurnCodes /\ InEvents')
  BY <1>1, AmongFacts DEF InEvents
<1>3. \A x \in Task \ {"events"} : posting'[x] = posting[x]
  BY <1>1 DEF HandleEvent, Post
<1>4. /\ Once(queue, TurnCodes)' /\ (InQueue' <=> InQueue) /\ (InManager' <=> InManager)
      /\ (InDaemon' <=> InDaemon) /\ (InHandler' <=> InHandler) /\ (InTimer' <=> InTimer)
      /\ (InStation' <=> InStation)
      /\ mgr'.pc = "connect" => "CONNECTED" \notin mgr'.seen
  BY <1>1, <1>3 DEF InQueue, InManager, InDaemon, InHandler, InTimer, InStation, Task, TurnOK
<1>5. (ApAhead => ApAhead') /\ (LoadAhead => LoadAhead')
  BY <1>1, <1>3 DEF ApAhead, LoadAhead, Task
<1>6. ~InLoop
  BY <1>1 DEF InLoop, NoMessage, Message, TurnCodes
<1>7. CASE Head(events).code \in TurnCodes
  <2>1. Head(events) \in Reports
    BY <1>1, <1>7, CodeFacts DEF TurnCodes
  <2>2. InLoop'
    BY <1>1, <1>7, <2>1 DEF HandleEvent, Post, InLoop, Task
  <2>3. InEvents /\ ~InEvents'
    BY <1>2, <1>7
  <2>4. ~InQueue /\ ~InManager /\ ~InDaemon /\ ~InHandler /\ ~InTimer /\ ~InStation /\ Turns # 0
    BY <1>1, <2>3, Turned
  <2>5. Turns' = 1
    BY <1>4, <2>2, <2>3, <2>4 DEF Turns, Count
  <2>6. config' # NoNetwork \/ LoadAhead'
    BY <1>1, <1>5, <2>4 DEF WayBackOK
  <2> QED BY <1>2, <1>4, <2>5, <2>6, HandsOn
<1>8. CASE Head(events).code \notin TurnCodes
  <2>1. ~InLoop'
    BY <1>1, <1>6, <1>8 DEF HandleEvent, Post, InLoop, Task
  <2>2. StaysPut
    BY <1>2, <1>4, <1>6, <1>8, <2>1 DEF StaysPut
  <2> QED BY <1>1, <1>2, <1>4, <1>5, <2>2, KeepsTurn
<1> QED BY <1>7, <1>8

\* The retry timer gives the turn to the daemon; nothing else a timer or the
\* portal's user does has it.
LEMMA TimerTurn ==
  ASSUME WayBackInv, "connect" \notin PortalRequests,
         Daemon \/ Portal
  PROVE  TurnOK' /\ WayBackOK'
<1> USE DEF WayBackInv
<1>1. /\ posting \in [Task -> Messages \cup {NoMessage}]
      /\ Once(queue, TurnCodes) /\ Once(events, TurnCodes) /\ Turns <= 1
      /\ UNCHANGED <<queue, events, mgr, sta, config, mode>>
  BY DEF TypeOK, TurnOK, Daemon, RunCommand, RetryTimerFires, ShutdownTimerFires, Portal,
     RequestConnect, RequestDisconnect, RequestScan, managerVars, dataVars, driverVars
<1>2. /\ Once(queue, TurnCodes)' /\ Once(events, TurnCodes)' /\ (InQueue' <=> InQueue)
      /\ (InEvents' <=> InEvents) /\ (InHandler' <=> InHandler) /\ (InStation' <=> InStation)
      /\ mgr'.pc = "connect" => "CONNECTED" \notin mgr'.seen
  BY <1>1 DEF InQueue, InEvents, InHandler, InStation, TurnOK
<1>3. posting'["manager"] = posting["manager"] /\ posting'["events"] = posting["events"]
  BY <1>1 DEF Daemon, RunCommand, RetryTimerFires, ShutdownTimerFires, Portal, RequestConnect,
     RequestDisconnect, RequestScan, Post, Task
<1>4. /\ (ApAhead => ApAhead') /\ (LoadAhead => LoadAhead') /\ (InLoop' <=> InLoop)
      /\ (InManager' <=> InManager)
  BY <1>1, <1>3 DEF ApAhead, LoadAhead, InLoop, InManager
<1>5. CASE RetryTimerFires
  <2>1. InTimer /\ ~InTimer' /\ posting'["timers"] = ConnectSta("auto")
    <3>1. /\ retryTimer /\ retryTimer' = FALSE /\ posting'["timers"] = ConnectSta("auto")
          /\ commands' = commands \/ commands' = Append(commands, Message("STOP_RETRY"))
      BY <1>1, <1>5 DEF RetryTimerFires, Post, Order, Task
    <3>2. /\ commands \in Seq(Command) /\ Message("STOP_RETRY") \in Command
          /\ Message("STOP_RETRY").code = "STOP_RETRY"
      BY DEF TypeOK, Command, Message
    <3>3. ~Among(commands, {"START_RETRY"})
      BY <3>1 DEF CommandsAhead, RetryAlone, Among
    <3>4. Among(Append(commands, Message("STOP_RETRY")), {"START_RETRY"})
            <=> Among(commands, {"START_RETRY"}) \/ "STOP_RETRY" \in {"START_RETRY"}
      BY <3>2, AmongFacts
    <3>5. ~Among(commands', {"START_RETRY"})
      BY <3>1, <3>3, <3>4
    <3> QED BY <3>1, <3>5 DEF InTimer
  <2>2. InDaemon'
    BY <2>1 DEF InDaemon, ConnectSta, TurnCodes
  <2>3. /\ ~InQueue /\ ~InEvents /\ ~InLoop /\ ~InManager /\ ~InHandler /\ ~InStation
        /\ Turns # 0
    BY <1>1, <2>1, Turned
  <2>4. Turns' = 1
    BY <1>2, <1>4, <2>1, <2>2, <2>3 DEF Turns, Count
  <2>5. config' # NoNetwork \/ LoadAhead'
    BY <1>1, <1>4, <2>3 DEF WayBackOK
  <2> QED BY <1>2, <2>4, <2>5, HandsOn
<1>6. CASE ShutdownTimerFires \/ Portal
  <2>1. /\ UNCHANGED retryTimer /\ OtherOrder
        /\ \/ posting'["timers"] = posting["timers"]
           \/ posting["timers"] = NoMessage /\ posting'["timers"] = Message("STOP_AP")
    BY <1>1, <1>6 DEF ShutdownTimerFires, Portal, RequestConnect, RequestDisconnect,
       RequestScan, Post, Free, timerVars, OtherOrder, Task
  <2>2. (InTimer' <=> InTimer) /\ (InDaemon' <=> InDaemon)
    BY <2>1, TimerKeeps DEF InDaemon, NoMessage, Message, TurnCodes
  <2>3. StaysPut
    BY <1>2, <1>4, <2>2 DEF StaysPut
  <2> QED BY <1>1, <1>2, <1>4, <2>3, KeepsTurn
<1>7. CASE RunCommand
  <2>1. posting'["timers"] = posting["timers"]
    BY <1>7 DEF RunCommand
  <2>2. InTimer' <=> InTimer
    BY <1>7, RunKeepsTimer
  <2>3. StaysPut
    BY <1>2, <1>4, <2>1, <2>2 DEF StaysPut, InDaemon
  <2> QED BY <1>1, <1>2, <1>4, <2>3, KeepsTurn
<1> QED BY <1>5, <1>6, <1>7 DEF Daemon

\* The driver keeps the turn until the station is offline again, and a reset
\* gives it to the order to load the configuration.
LEMMA DriverTurn ==
  ASSUME WayBackInv,
         AttemptSucceeds \/ AttemptFails \/ LinkLost \/ ScanCompletes \/ PowerCycle
  PROVE  TurnOK' /\ WayBackOK'
<1> USE DEF WayBackInv
<1>t. Once(queue, TurnCodes) /\ Once(events, TurnCodes) /\ Turns <= 1
  BY DEF TurnOK
\* What an event of the driver leaves alone.
<1>1. ASSUME UNCHANGED <<queue, posting, mgr, retryTimer, commands, config, mode>>
      PROVE  /\ Once(queue, TurnCodes)' /\ (InQueue' <=> InQueue) /\ (InLoop' <=> InLoop)
             /\ (InManager' <=> InManager) /\ (InDaemon' <=> InDaemon)
             /\ (InHandler' <=> InHandler) /\ (InTimer' <=> InTimer)
             /\ (ApAhead' <=> ApAhead) /\ (LoadAhead' <=> LoadAhead)
             /\ mgr'.pc = "connect" => "CONNECTED" \notin mgr'.seen
  BY <1>t, <1>1 DEF InQueue, InLoop, InManager, InDaemon, InHandler, InTimer, ApAhead,
     LoadAhead, TurnOK
<1>2. CASE AttemptSucceeds \/ ScanCompletes
  <2>1. /\ UNCHANGED <<queue, posting, mgr, retryTimer, commands, config, mode>>
        /\ (InStation' <=> InStation)
        /\ \E c \in {"STA_GOT_IP", "SCAN_DONE"} : events' = Append(events, Message(c))
    BY <1>2 DEF AttemptSucceeds, ScanCompletes, Station, InStation, managerVars, timerVars,
       dataVars
  <2>2. PICK c \in {"STA_GOT_IP", "SCAN_DONE"} : events' = Append(events, Message(c))
    BY <2>1
  <2>3. Message(c) \in Event /\ Message(c).code \notin TurnCodes
    BY MessageFacts, CodeFacts DEF TurnCodes
  <2>4. Once(events, TurnCodes)' /\ (InEvents' <=> InEvents)
    BY <2>2, <2>3, EventFacts
  <2>5. StaysPut
    BY <1>1, <2>1, <2>4 DEF StaysPut
  <2> QED BY <1>1, <2>1, <2>4, <2>5, KeepsTurn
<1>3. CASE AttemptFails \/ LinkLost
  <2>1. /\ UNCHANGED <<queue, posting, mgr, retryTimer, commands, config, mode>>
        /\ InStation /\ ~InStation'
        /\ \E r \in Reasons : events' = Append(events, StaDisconnected(r))
    BY <1>3 DEF AttemptFails, LinkLost, Station, InStation, managerVars, timerVars, dataVars,
       Reasons
  <2>2. PICK r \in Reasons : events' = Append(events, StaDisconnected(r))
    BY <2>1
  <2>3. StaDisconnected(r) \in Event /\ StaDisconnected(r).code \in TurnCodes
    BY MessageFacts, CodeFacts DEF TurnCodes, Reasons
  <2>4. /\ ~InQueue /\ ~InEvents /\ ~InLoop /\ ~InManager /\ ~InDaemon /\ ~InHandler
        /\ ~InTimer /\ Turns # 0
    BY <1>t, <2>1, Turned
  <2>5. Once(events, TurnCodes)' /\ InEvents'
    BY <2>2, <2>3, <2>4, EventFacts
  <2>6. Turns' = 1
    BY <1>1, <2>1, <2>4, <2>5 DEF Turns, Count
  <2>7. config' # NoNetwork \/ LoadAhead'
    BY <1>1, <2>1, <2>4 DEF WayBackOK
  <2> QED BY <1>1, <2>1, <2>5, <2>6, <2>7, HandsOn
<1>4. CASE PowerCycle
  <2>1. /\ queue' = << >> /\ events' = << >> /\ posting' = BootPosting /\ mgr' = Receive
        /\ retryTimer' = FALSE /\ commands' = << >> /\ sta' = "idle"
    BY <1>4 DEF PowerCycle
  <2>2. /\ Once(queue, TurnCodes)' /\ Once(events, TurnCodes)' /\ ~InQueue' /\ ~InEvents'
        /\ ~InTimer' /\ ~InStation'
    BY <2>1 DEF Once, Among, InQueue, InEvents, InTimer, InStation
  <2>3. ~InHandler' /\ mgr'.pc # "connect"
    BY <2>1, ReceiveFacts DEF InHandler
  <2>4. ~InLoop' /\ ~InDaemon' /\ InManager' /\ LoadAhead'
    BY <2>1 DEF BootPosting, NoMessage, Message, InLoop, InDaemon, InManager, LoadAhead,
       TurnCodes, Task
  <2>5. Turns' = 1
    BY <2>2, <2>3, <2>4 DEF Turns, Count
  <2> QED BY <2>2, <2>3, <2>4, <2>5, HandsOn
<1> QED BY <1>2, <1>3, <1>4

\* Every step.
LEMMA TurnNext ==
  ASSUME "connect" \notin PortalRequests, TimerQueueLength >= 6, WayBackInv, [Next]_vars
  PROVE  TurnOK' /\ WayBackOK'
<1>1. CASE UNCHANGED vars
  <2>1. UNCHANGED <<queue, events, posting, mgr, retryTimer, commands, sta, config, mode>>
    BY <1>1 DEF vars, managerVars, timerVars, dataVars, driverVars
  <2>2. StaysPut
    BY <2>1 DEF StaysPut, InQueue, InEvents, InLoop, InManager, InDaemon, InHandler, InTimer,
       InStation
  <2>3. (ApAhead => ApAhead') /\ (LoadAhead => LoadAhead')
    BY <2>1 DEF ApAhead, LoadAhead
  <2>4. /\ Once(queue, TurnCodes)' /\ Once(events, TurnCodes)'
        /\ mgr'.pc = "connect" => "CONNECTED" \notin mgr'.seen
    BY <2>1 DEF WayBackInv, TurnOK
  <2> QED BY <2>1, <2>2, <2>3, <2>4, KeepsTurn DEF WayBackInv
<1> QED BY <1>1, ManagerTurn, DeliverTurn, EventTurn, TimerTurn, DriverTurn DEF Next, Step

-----------------------------------------------------------------------------
\* The news that the link is up is handed on, too.

\* A step that leaves that news where it is.
LEMMA GotStays ==
  ASSUME TypeOK, GotOK,
         UNCHANGED queue \/ (queue # << >> /\ queue' = Tail(queue)
                             /\ Head(queue).code # "STA_GOT_IP"),
         posting'["events"] = posting["events"],
         mgr'.pc = "got_ip" <=> mgr.pc = "got_ip",
         UNCHANGED events \/ \E e \in Event : e.code # "STA_GOT_IP" /\ events' = Append(events, e)
  PROVE  GotOK' /\ (GotAhead' <=> GotAhead)
<1>1. /\ queue \in Seq(Messages) /\ events \in Seq(Event)
      /\ Once(queue, GotCode) /\ Once(events, GotCode)
  BY DEF TypeOK, GotOK
<1>2. Once(queue, GotCode)' /\ (GotInQueue' <=> GotInQueue)
  <2>1. CASE UNCHANGED queue
    BY <1>1, <2>1 DEF GotInQueue
  <2>2. CASE /\ queue # << >> /\ queue' = Tail(queue)
             /\ Head(queue).code # "STA_GOT_IP"
    BY <1>1, <2>2, AmongFacts DEF GotInQueue, GotCode
  <2> QED BY <2>1, <2>2
<1>3. Once(events, GotCode)' /\ (GotInEvents' <=> GotInEvents)
  <2>1. CASE UNCHANGED events
    BY <1>1, <2>1 DEF GotInEvents
  <2>2. ASSUME NEW e \in Event, e.code # "STA_GOT_IP", events' = Append(events, e)
        PROVE  Once(events, GotCode)' /\ (GotInEvents' <=> GotInEvents)
    BY <1>1, <2>2, AmongFacts DEF GotInEvents, GotCode
  <2> QED BY <2>1, <2>2
<1>4. (GotInLoop' <=> GotInLoop) /\ (GotInHandler' <=> GotInHandler)
  BY DEF GotInLoop, GotInHandler
<1> QED BY <1>2, <1>3, <1>4 DEF GotOK, GotAhead

\* The manager takes that news from the queue, and is done with it when it has
\* handled it.
LEMMA GotManager ==
  ASSUME TypeOK, PostingOK, GotOK, Manager
  PROVE  GotOK' /\ (GotAhead' => GotAhead) /\ (GotIp => GotAhead /\ ~GotAhead')
<1>1. /\ queue \in Seq(Messages) /\ events \in Seq(Event)
      /\ posting \in [Task -> Messages \cup {NoMessage}]
      /\ Once(queue, GotCode) /\ Once(events, GotCode)
  BY DEF TypeOK, GotOK
<1>2. CASE ReadIp
  <2>1. /\ queue # << >> /\ queue' = Tail(queue) /\ Head(queue).code = "STA_GOT_IP"
        /\ mgr.pc = "receive" /\ mgr'.pc = "got_ip" /\ UNCHANGED <<posting, events>>
    BY <1>2 DEF ReadIp, Take, driverVars
  <2>2. Once(queue, GotCode)' /\ GotInQueue /\ ~GotInQueue'
    BY <1>1, <2>1, AmongFacts DEF GotInQueue, GotCode
  <2>3. /\ Once(events, GotCode)' /\ (GotInEvents' <=> GotInEvents)
        /\ (GotInLoop' <=> GotInLoop) /\ ~GotInHandler /\ GotInHandler'
    BY <1>1, <2>1 DEF GotInEvents, GotInLoop, GotInHandler
  <2>4. ~GotIp
    BY <2>1 DEF GotIp
  <2> QED BY <2>2, <2>3, <2>4 DEF GotOK, GotAhead
<1>3. CASE GotIp
  <2>1. mgr.pc = "got_ip" /\ mgr'.pc = "receive" /\ UNCHANGED <<queue, posting, events>>
    BY <1>3, ReceiveFacts DEF GotIp, driverVars
  <2>2. /\ Once(queue, GotCode)' /\ Once(events, GotCode)'
        /\ (GotInQueue' <=> GotInQueue) /\ (GotInEvents' <=> GotInEvents)
        /\ (GotInLoop' <=> GotInLoop) /\ GotInHandler /\ ~GotInHandler'
    BY <1>1, <2>1 DEF GotInQueue, GotInEvents, GotInLoop, GotInHandler
  <2> QED BY <2>2 DEF GotOK, GotAhead
<1>4. CASE ~ReadIp /\ ~GotIp
  <2>1. UNCHANGED queue \/ (queue # << >> /\ queue' = Tail(queue)
                            /\ Head(queue).code # "STA_GOT_IP")
    BY <1>4 DEF Manager, ScanDone, StartWifiScan, LoadAndRestoreSta, MarkRequest, StartAttempt,
       ForgetIp, AttemptFailed, UserDisconnected, ConnectionLost, StartAp, CheckConnected, StopAp,
       RestartHttp, DisconnectSta, Take
  <2>2. posting'["events"] = posting["events"]
    <3>1. UNCHANGED posting \/ \E x : Post("manager", x)
      BY <1>4 DEF Manager, ScanDone, StartWifiScan, LoadAndRestoreSta, MarkRequest,
         StartAttempt, ForgetIp, AttemptFailed, UserDisconnected, RestartAp, ConnectionLost,
         StartAp, CheckConnected, StopAp, RestartHttp, DisconnectSta
    <3> QED BY <1>1, <3>1 DEF Post, Task
  <2>3. mgr'.pc = "got_ip" <=> mgr.pc = "got_ip"
    <3>1. CASE ScanDone \/ StartWifiScan \/ LoadAndRestoreSta \/ DisconnectSta
      BY <3>1 DEF ScanDone, StartWifiScan, LoadAndRestoreSta, DisconnectSta, managerVars
    <3>2. CASE MarkRequest \/ ForgetIp \/ StartAp \/ CheckConnected
      BY <3>2 DEF MarkRequest, ForgetIp, StartAp, CheckConnected, Take, At
    <3>3. CASE StartAttempt \/ AttemptFailed \/ UserDisconnected \/ ConnectionLost \/ RestartHttp
      BY <3>3, ReceiveFacts DEF StartAttempt, AttemptFailed, UserDisconnected, ConnectionLost,
         RestartHttp
    <3>4. CASE StopAp
      BY <3>4, ReceiveFacts DEF StopAp, TypeOK
    <3> QED BY <1>4, <3>1, <3>2, <3>3, <3>4 DEF Manager
  <2>4. UNCHANGED events \/ \E e \in Event : e.code # "STA_GOT_IP" /\ events' = Append(events, e)
    <3>1. \/ UNCHANGED events
          \/ events' = Append(events, Message("SCAN_DONE"))
          \/ events' = Append(events, Message("AP_START"))
          \/ events' = Append(events, Message("AP_STOP"))
          \/ events' = Append(events, StaDisconnected("ASSOC_LEAVE"))
      BY <1>4 DEF Manager, ScanDone, StartWifiScan, EspWifiScanStart, LoadAndRestoreSta,
         MarkRequest, StartAttempt, EspWifiScanStop, ForgetIp, AttemptFailed, UserDisconnected,
         ConnectionLost, StartAp, EspWifiSetMode, CheckConnected, StopAp, RestartHttp,
         DisconnectSta, EspWifiDisconnect, driverVars
    <3> QED BY <3>1, MessageFacts, CodeFacts
  <2> QED BY <1>4, <2>1, <2>2, <2>3, <2>4, GotStays
<1> QED BY <1>2, <1>3, <1>4

\* Every step; only a link that comes up brings new news of it.
LEMMA GotNext ==
  ASSUME WayBackInv, [Next]_vars
  PROVE  /\ GotOK'
         /\ AttemptSucceeds \/ (GotAhead' => GotAhead)
         /\ GotIp => GotAhead /\ ~GotAhead'
<1> USE DEF WayBackInv
<1>1. /\ queue \in Seq(Messages) /\ events \in Seq(Event)
      /\ posting \in [Task -> Messages \cup {NoMessage}]
      /\ Once(queue, GotCode) /\ Once(events, GotCode)
  BY DEF TypeOK, GotOK
<1>2. CASE Manager
  BY <1>2, GotManager
<1>g. GotIp => GotAhead /\ ~GotAhead'
  BY GotManager DEF Manager
<1>3. ASSUME NEW t \in Task, Deliver(t)
      PROVE  GotOK' /\ (GotAhead' => GotAhead)
  <2>1. /\ posting[t] \in Messages /\ queue' = Append(queue, posting[t])
        /\ UNCHANGED <<events, mgr>> /\ posting' = [posting EXCEPT ![t] = NoMessage]
    BY <1>1, <1>3 DEF Deliver, Free, Post, managerVars, driverVars
  <2>2. /\ Once(events, GotCode)' /\ (GotInEvents' <=> GotInEvents)
        /\ (GotInHandler' <=> GotInHandler)
    BY <1>1, <2>1 DEF GotInEvents, GotInHandler
  <2>3. /\ GotInQueue' <=> GotInQueue \/ posting[t].code \in GotCode
        /\ ~(GotInQueue /\ posting[t].code \in GotCode) => Once(queue, GotCode)'
    BY <1>1, <2>1, AmongFacts DEF GotInQueue
  <2>4. CASE t = "events"
    <3>1. ~GotInLoop'
      BY <1>1, <2>1, <2>4 DEF GotInLoop, GotCode, NoMessage, Message, Task
    <3>2. GotInLoop <=> posting[t].code \in GotCode
      BY <2>4 DEF GotInLoop
    <3> QED BY <2>2, <2>3, <3>1, <3>2 DEF GotOK, GotAhead
  <2>5. CASE t # "events"
    <3>1. posting[t].code \notin GotCode
      BY <2>5, CodeFacts DEF PostingOK, GotCode
    <3>2. GotInLoop' <=> GotInLoop
      BY <1>1, <2>1, <2>5 DEF GotInLoop, Task
    <3> QED BY <2>2, <2>3, <3>1, <3>2 DEF GotOK, GotAhead
  <2> QED BY <2>4, <2>5
<1>4. CASE HandleEvent
  <2>1. /\ events # << >> /\ events' = Tail(events) /\ posting["events"] = NoMessage
        /\ UNCHANGED <<queue, mgr>>
    BY <1>4 DEF HandleEvent, Free, managerVars
  <2>2. /\ Once(queue, GotCode)' /\ (GotInQueue' <=> GotInQueue)
        /\ (GotInHandler' <=> GotInHandler)
    BY <1>1, <2>1 DEF GotInQueue, GotInHandler
  <2>3. /\ Once(events, GotCode)'
        /\ GotInEvents <=> Head(events).code \in GotCode \/ GotInEvents'
        /\ ~(Head(events).code \in GotCode /\ GotInEvents')
    BY <1>1, <2>1, AmongFacts DEF GotInEvents
  <2>4. ~GotInLoop /\ (GotInLoop' => Head(events).code \in GotCode)
    BY <1>1, <1>4, <2>1 DEF GotInLoop, GotCode, NoMessage, Message, HandleEvent, Post, Task
  <2> QED BY <1>g, <2>2, <2>3, <2>4 DEF GotOK, GotAhead
<1>5. CASE AttemptSucceeds
  <2>1. /\ sta = "connecting" /\ events' = Append(events, Message("STA_GOT_IP"))
        /\ UNCHANGED <<queue, posting, mgr>>
    BY <1>5 DEF AttemptSucceeds, Station, managerVars
  <2>2. ~GotAhead
    BY <2>1, GotLate, Stages DEF Early
  <2>3. Message("STA_GOT_IP") \in Event /\ Message("STA_GOT_IP").code \in GotCode
    BY MessageFacts, CodeFacts DEF GotCode
  <2>4. Once(events, GotCode)' /\ GotInEvents'
    BY <1>1, <2>1, <2>2, <2>3, AmongFacts DEF GotInEvents, GotAhead
  <2>5. /\ Once(queue, GotCode)' /\ (GotInQueue' <=> GotInQueue)
        /\ (GotInLoop' <=> GotInLoop) /\ (GotInHandler' <=> GotInHandler)
    BY <1>1, <2>1 DEF GotInQueue, GotInLoop, GotInHandler
  <2> QED BY <1>g, <1>5, <2>2, <2>4, <2>5 DEF GotOK, GotAhead
<1>6. CASE AttemptFails \/ LinkLost \/ ScanCompletes
  <2>1. UNCHANGED <<queue, posting, mgr>>
    BY <1>6 DEF AttemptFails, LinkLost, ScanCompletes, Station, managerVars
  <2>2. \E e \in Event : e.code # "STA_GOT_IP" /\ events' = Append(events, e)
    BY <1>6, MessageFacts, CodeFacts DEF AttemptFails, LinkLost, ScanCompletes, Station
  <2> QED BY <1>g, <2>1, <2>2, GotStays
<1>7. CASE Daemon \/ Portal
  <2>1. UNCHANGED <<queue, events, mgr>>
    BY <1>7 DEF Daemon, RunCommand, RetryTimerFires, ShutdownTimerFires, Portal, RequestConnect,
       RequestDisconnect, RequestScan, managerVars, driverVars
  <2>2. UNCHANGED posting \/ \E t \in Task : t # "events" /\ \E x : Post(t, x)
    BY <1>7 DEF Daemon, RunCommand, RetryTimerFires, ShutdownTimerFires, Portal, RequestConnect,
       RequestDisconnect, RequestScan, Task
  <2>3. posting'["events"] = posting["events"]
    BY <1>1, <2>2 DEF Post, Task
  <2> QED BY <1>g, <2>1, <2>3, GotStays
<1>8. CASE UNCHANGED vars
  <2>1. UNCHANGED <<queue, posting, mgr, events>>
    BY <1>8 DEF vars, managerVars, driverVars
  <2> QED BY <1>g, <2>1, GotStays
<1>9. CASE PowerCycle
  <2>1. GotOK'
    BY <1>9, ResetWithout
  <2>2. ~GotAhead'
    BY <1>9, ReceiveFacts DEF PowerCycle, GotAhead, GotInQueue, GotInEvents, GotInLoop,
       GotInHandler, Among, GotCode, BootPosting, NoMessage, Message, Task
  <2> QED BY <1>g, <2>1, <2>2
<1> QED BY <1>g, <1>2, <1>3, <1>4, <1>5, <1>6, <1>7, <1>8, <1>9 DEF Next, Step

-----------------------------------------------------------------------------
\* The turn comes on, and does not go back but to the retry timer.

Ages == /\ retryTimer' => retryTimer
        /\ Early' => Early \/ retryTimer
        /\ Late' => Late \/ Early \/ retryTimer
        /\ Forgets' => Forgets \/ Late \/ Early \/ retryTimer

\* A step that leaves it where it is.
LEMMA AgesStays ==
  ASSUME TypeOK, UNCHANGED retryTimer,
         UNCHANGED queue \/ (queue # << >> /\ queue' = Tail(queue)),
         InManager' => InManager, UNCHANGED <<posting["events"], posting["timers"], sta>>,
         mgr'.pc \in {"connect", "disconnected"} => mgr'.pc = mgr.pc,
         UNCHANGED events \/ \E e \in Event : e.code # "STA_DISCONNECTED"
                                              /\ events' = Append(events, e)
  PROVE  Ages
<1>1. queue \in Seq(Messages) /\ events \in Seq(Event)
  BY DEF TypeOK
<1>2. ASSUME NEW C
      PROVE  Among(queue', C) => Among(queue, C)
  <2>1. CASE UNCHANGED queue
    BY <2>1
  <2>2. CASE queue # << >> /\ queue' = Tail(queue)
    BY <1>1, <2>2, AmongFacts
  <2> QED BY <2>1, <2>2
<1>3. Among(events', LossCode) => Among(events, LossCode)
  <2>1. CASE UNCHANGED events
    BY <2>1
  <2>2. ASSUME NEW e \in Event, e.code # "STA_DISCONNECTED", events' = Append(events, e)
        PROVE  Among(events', LossCode) => Among(events, LossCode)
    BY <1>1, <2>2, AmongFacts DEF LossCode
  <2> QED BY <2>1, <2>2
<1>4. (Among(queue', EarlyCodes) => Among(queue, EarlyCodes))
      /\ (Among(queue', LossCode) => Among(queue, LossCode))
  BY <1>2
<1>5. InDaemon' => InDaemon
  BY DEF InDaemon
<1>6. Early' => Early
  BY <1>4, <1>5 DEF Early
<1>7. Late' => Late
  BY <1>3, <1>4 DEF Late
<1>8. Forgets' => Forgets
  BY DEF Forgets
<1> QED BY <1>6, <1>7, <1>8 DEF Ages

\* The manager hands it on from the queue to a handler, to the station, or back to
\* its own queue.
LEMMA AgesManager ==
  ASSUME WayBackInv, Manager
  PROVE  Ages
<1> USE DEF WayBackInv
<1>1. /\ queue \in Seq(Messages) /\ events \in Seq(Event)
      /\ posting \in [Task -> Messages \cup {NoMessage}]
      /\ \A C : /\ UNCHANGED queue => (Among(queue', C) <=> Among(queue, C))
                /\ UNCHANGED events => (Among(events', C) <=> Among(events, C))
                /\ queue # << >> /\ queue' = Tail(queue) =>
                     (Among(queue, C) <=> Head(queue).code \in C \/ Among(queue', C))
  <2>1. queue \in Seq(Messages)
    BY DEF TypeOK
  <2>2. ASSUME NEW C, queue # << >>, queue' = Tail(queue)
        PROVE  Among(queue, C) <=> Head(queue).code \in C \/ Among(queue', C)
    BY <2>1, <2>2, AmongFacts
  <2> QED BY <2>2 DEF TypeOK
<1>r. UNCHANGED retryTimer
  BY DEF Manager, ScanDone, StartWifiScan, LoadAndRestoreSta, MarkRequest, StartAttempt, ForgetIp,
     AttemptFailed, UserDisconnected, ConnectionLost, StartAp, CheckConnected, StopAp, RestartHttp,
     ReadIp, GotIp, DisconnectSta, timerVars
<1>2. CASE LoadAndRestoreSta
  <2>1. /\ queue # << >> /\ queue' = Tail(queue) /\ Head(queue).code \in EarlyCodes
        /\ UNCHANGED <<mgr, sta, events, posting["events"], posting["timers"]>>
    BY <1>1, <1>2 DEF LoadAndRestoreSta, Take, Post, EarlyCodes, managerVars, driverVars, Task
  <2>2. Early
    BY <1>1, <2>1 DEF Early
  <2>3. Late' => Late
    BY <1>1, <2>1 DEF Late
  <2>4. Forgets' => Forgets
    BY <2>1 DEF Forgets
  <2> QED BY <1>r, <2>2, <2>3, <2>4 DEF Ages
<1>3. CASE MarkRequest
  <2>1. /\ queue # << >> /\ queue' = Tail(queue) /\ Head(queue).code \in EarlyCodes
        /\ mgr'.pc = "connect" /\ UNCHANGED <<posting, sta, events>>
    BY <1>3 DEF MarkRequest, Take, At, EarlyCodes, driverVars
  <2>2. Early
    BY <1>1, <2>1 DEF Early
  <2>3. Late' => Late
    BY <1>1, <2>1 DEF Late
  <2> QED BY <1>r, <2>1, <2>2, <2>3 DEF Ages, Forgets
<1>4. CASE StartAttempt
  <2>1. /\ mgr.pc = "connect" /\ mgr'.pc = "receive" /\ UNCHANGED <<queue, posting>>
        /\ UNCHANGED sta \/ sta' = "connecting"
        /\ UNCHANGED events \/ events' = Append(events, Message("SCAN_DONE"))
    BY <1>4, ReceiveFacts DEF StartAttempt, EspWifiConnect, EspWifiScanStop
  <2>2. Early
    BY <2>1 DEF Early
  <2>3. Among(events', LossCode) => Among(events, LossCode)
    <3>1. CASE UNCHANGED events
      BY <3>1
    <3>2. CASE events' = Append(events, Message("SCAN_DONE"))
      BY <1>1, <3>2, MessageFacts, CodeFacts, AmongFacts DEF LossCode
    <3> QED BY <2>1, <3>1, <3>2
  <2>4. Late' => Late
    BY <1>1, <2>1, <2>3 DEF Late
  <2> QED BY <1>r, <2>1, <2>2, <2>4 DEF Ages, Forgets
<1>5. CASE ForgetIp
  <2>1. /\ queue # << >> /\ queue' = Tail(queue) /\ Head(queue).code \in LossCode
        /\ mgr'.pc = "disconnected" /\ UNCHANGED <<posting, sta, events>>
    BY <1>5 DEF ForgetIp, Take, At, LossCode, driverVars
  <2>2. Late
    BY <1>1, <2>1 DEF Late
  <2>3. Early' => Early
    BY <1>1, <2>1 DEF Early, InManager, InDaemon
  <2> QED BY <1>r, <2>2, <2>3 DEF Ages
<1>6. CASE DisconnectSta
  <2>1. /\ queue # << >> /\ queue' = Tail(queue) /\ UNCHANGED <<posting, mgr>>
        /\ UNCHANGED <<sta, events>> \/ (sta # "idle" /\ sta' = "idle")
    BY <1>6 DEF DisconnectSta, Take, EspWifiDisconnect, managerVars
  <2>2. CASE UNCHANGED <<sta, events>>
    <3>1. /\ InManager' => InManager
          /\ UNCHANGED <<posting["events"], posting["timers"], sta, events>>
          /\ mgr'.pc \in {"connect", "disconnected"} => mgr'.pc = mgr.pc
      BY <2>1, <2>2 DEF InManager
    <3> QED BY <1>r, <2>1, <3>1, AgesStays
  <2>3. CASE sta # "idle" /\ sta' = "idle"
    <3>1. Late \/ Early
      BY <2>3 DEF Late, Early, TypeOK
    <3>2. Early' => Early
      BY <1>1, <2>1, <2>3 DEF Early, InManager, InDaemon
    <3>3. Forgets' => Forgets
      BY <2>1 DEF Forgets
    <3> QED BY <1>r, <3>1, <3>2, <3>3 DEF Ages
  <2> QED BY <2>1, <2>2, <2>3
<1>7. CASE /\ ~LoadAndRestoreSta /\ ~MarkRequest /\ ~StartAttempt /\ ~ForgetIp /\ ~DisconnectSta
  <2>1. /\ UNCHANGED queue \/ (queue # << >> /\ queue' = Tail(queue))
        /\ UNCHANGED sta
    BY <1>7 DEF Manager, ScanDone, StartWifiScan, AttemptFailed, UserDisconnected, ConnectionLost,
       StartAp, CheckConnected, StopAp, RestartHttp, ReadIp, GotIp, Take, driverVars
  <2>2. UNCHANGED posting \/ Post("manager", Message("START_AP"))
    BY <1>7 DEF Manager, ScanDone, StartWifiScan, AttemptFailed, UserDisconnected, RestartAp,
       ConnectionLost, StartAp, CheckConnected, StopAp, RestartHttp, ReadIp, GotIp
  <2>3. (InManager' => InManager) /\ UNCHANGED <<posting["events"], posting["timers"]>>
    BY <1>1, <2>2 DEF Post, InManager, Message, TurnCodes, Task
  <2>4. mgr'.pc \in {"connect", "disconnected"} => mgr'.pc = mgr.pc
    <3>1. CASE ScanDone \/ StartWifiScan
      BY <3>1 DEF ScanDone, StartWifiScan, managerVars
    <3>2. CASE StartAp \/ CheckConnected \/ ReadIp
      BY <3>2 DEF StartAp, CheckConnected, ReadIp, At
    <3>3. CASE AttemptFailed \/ UserDisconnected \/ ConnectionLost \/ RestartHttp \/ GotIp
      BY <3>3, ReceiveFacts DEF AttemptFailed, UserDisconnected, ConnectionLost, RestartHttp, GotIp
    <3>4. CASE StopAp
      BY <3>4, ReceiveFacts DEF StopAp, TypeOK
    <3> QED BY <1>7, <3>1, <3>2, <3>3, <3>4 DEF Manager
  <2>5. UNCHANGED events \/ \E e \in Event : e.code # "STA_DISCONNECTED"
                                             /\ events' = Append(events, e)
    <3>1. \/ UNCHANGED events
          \/ events' = Append(events, Message("SCAN_DONE"))
          \/ events' = Append(events, Message("AP_START"))
          \/ events' = Append(events, Message("AP_STOP"))
      BY <1>7 DEF Manager, ScanDone, StartWifiScan, EspWifiScanStart, AttemptFailed,
         UserDisconnected, ConnectionLost, StartAp, EspWifiSetMode, CheckConnected, StopAp,
         RestartHttp, ReadIp, GotIp, driverVars
    <3> QED BY <3>1, MessageFacts, CodeFacts
  <2> QED BY <1>r, <2>1, <2>3, <2>4, <2>5, AgesStays
<1> QED BY <1>2, <1>3, <1>4, <1>5, <1>6, <1>7

\* So do the tasks that bring it to the queue, the timers, the portal and the driver.
LEMMA AgesOthers ==
  ASSUME WayBackInv, "connect" \notin PortalRequests,
         \/ \E t \in Task : Deliver(t)
         \/ HandleEvent \/ RetryTimerFires \/ ShutdownTimerFires \/ Portal
         \/ AttemptSucceeds \/ AttemptFails \/ LinkLost \/ ScanCompletes \/ UNCHANGED vars
  PROVE  Ages
<1> USE DEF WayBackInv
<1>1. /\ queue \in Seq(Messages) /\ events \in Seq(Event)
      /\ posting \in [Task -> Messages \cup {NoMessage}]
  BY DEF TypeOK
<1>2. ASSUME NEW t \in Task, Deliver(t)
      PROVE  Ages
  <2>1. /\ posting[t] \in Messages /\ queue' = Append(queue, posting[t])
        /\ posting' = [posting EXCEPT ![t] = NoMessage]
        /\ UNCHANGED <<retryTimer, mgr, sta, events>>
    BY <1>1, <1>2 DEF Deliver, Free, Post, managerVars, timerVars, driverVars
  <2>2. \A C : Among(queue', C) <=> Among(queue, C) \/ posting[t].code \in C
    BY <1>1, <2>1, AmongFacts
  <2>3. NoMessage.code \notin TurnCodes /\ NoMessage.code \notin LossCode
    BY CodeFacts DEF TurnCodes, LossCode
  <2>4. (InManager' => InManager) /\ (InDaemon' => InDaemon)
        /\ (posting'["events"].code \in LossCode => posting["events"].code \in LossCode)
    BY <1>1, <2>1, <2>3 DEF InManager, InDaemon, Task
  <2>5. posting[t].code \in EarlyCodes => InManager \/ InDaemon
    <3>1. CASE t = "events"
      BY <3>1, CodeFacts DEF PostingOK, EarlyCodes, Task
    <3>2. CASE t = "http"
      BY <3>2 DEF NoUser, EarlyCodes, TurnCodes
    <3>3. CASE t \in {"manager", "timers"}
      BY <3>3 DEF InManager, InDaemon, EarlyCodes, TurnCodes
    <3> QED BY <3>1, <3>2, <3>3 DEF Task
  <2>6. posting[t].code \in LossCode => t = "events"
    BY CodeFacts DEF PostingOK, LossCode
  <2>7. Early' => Early
    BY <2>1, <2>2, <2>4, <2>5 DEF Early
  <2>8. Late' => Late
    BY <2>1, <2>2, <2>4, <2>6 DEF Late
  <2> QED BY <2>1, <2>7, <2>8 DEF Ages, Forgets
<1>3. CASE HandleEvent
  <2>1. /\ events # << >> /\ events' = Tail(events)
        /\ UNCHANGED <<queue, mgr, retryTimer, sta, posting["manager"], posting["timers"]>>
        /\ \/ posting'["events"] = posting["events"]
           \/ posting'["events"] = Head(events)
    BY <1>1, <1>3 DEF HandleEvent, Post, managerVars, timerVars, Task
  <2>2. Among(events, LossCode) <=> Head(events).code \in LossCode \/ Among(events', LossCode)
    BY <1>1, <2>1, AmongFacts
  <2>3. Late' => Late
    BY <2>1, <2>2 DEF Late
  <2>4. Early' => Early
    BY <2>1 DEF Early, InManager, InDaemon
  <2> QED BY <2>1, <2>3, <2>4 DEF Ages, Forgets
<1>4. CASE RetryTimerFires
  <2>1. /\ retryTimer /\ retryTimer' = FALSE
        /\ UNCHANGED <<queue, mgr, sta, events, posting["events"]>>
    BY <1>1, <1>4 DEF RetryTimerFires, Post, managerVars, driverVars, Task
  <2> QED BY <2>1 DEF Ages, Late, Forgets
<1>5. CASE ShutdownTimerFires \/ Portal
  <2>1. UNCHANGED <<queue, mgr, retryTimer, sta, events>>
    BY <1>5 DEF ShutdownTimerFires, Portal, RequestConnect, RequestDisconnect, RequestScan,
       managerVars, timerVars, driverVars
  <2>2. UNCHANGED <<posting["events"], posting["manager"]>>
    BY <1>1, <1>5 DEF ShutdownTimerFires, Portal, RequestConnect, RequestDisconnect, RequestScan,
       Post, Task
  <2>3. InDaemon' => InDaemon
    BY <1>1, <1>5 DEF ShutdownTimerFires, Portal, RequestConnect, RequestDisconnect, RequestScan,
       Post, InDaemon, Message, TurnCodes, Task
  <2>4. Early' => Early
    BY <2>1, <2>2, <2>3 DEF Early, InManager
  <2> QED BY <2>1, <2>2, <2>4 DEF Ages, Late, Forgets
<1>6. CASE AttemptSucceeds \/ AttemptFails \/ LinkLost
  <2>1. /\ UNCHANGED <<queue, mgr, retryTimer, posting>>
        /\ (Early \/ Late) /\ sta' # "connecting"
    BY <1>6 DEF AttemptSucceeds, AttemptFails, LinkLost, Station, managerVars, timerVars, Early, Late
  <2>2. Early' => Early
    BY <2>1 DEF Early, InManager, InDaemon
  <2> QED BY <2>1, <2>2 DEF Ages, Forgets
<1>7. CASE ScanCompletes
  <2>1. /\ UNCHANGED <<queue, posting, mgr, retryTimer, sta>>
        /\ events' = Append(events, Message("SCAN_DONE"))
    BY <1>7 DEF ScanCompletes, managerVars, timerVars
  <2>2. Message("SCAN_DONE") \in Event /\ Message("SCAN_DONE").code # "STA_DISCONNECTED"
    BY MessageFacts, CodeFacts
  <2>3. InManager' => InManager
    BY <2>1 DEF InManager
  <2> QED BY <2>1, <2>2, <2>3, AgesStays
<1>8. CASE UNCHANGED vars
  <2>1. UNCHANGED <<queue, posting, mgr, retryTimer, sta, events>>
    BY <1>8 DEF vars, managerVars, timerVars, driverVars
  <2> QED BY <2>1, AgesStays DEF InManager
<1> QED BY <1>2, <1>3, <1>4, <1>5, <1>6, <1>7, <1>8

-----------------------------------------------------------------------------
\* What the daemon has to do stays within the allowance.

LEMMA AgesAllow == Ages => Allowance <= Allowance'
BY DEF Ages, Allowance

\* A step that gives the daemon no order.
LEMMA NoOrder ==
  ASSUME TypeOK, CommandsAhead, UNCHANGED <<commands, retryTimer, shutdownTimer>>,
         GotAhead' => GotAhead, Ages
  PROVE  CommandsAhead'
<1>a. /\ Allowance <= Allowance' /\ Allowance \in Nat /\ Allowance' \in Nat
  BY AgesAllow DEF Allowance
<1>d. /\ commands \in Seq(Command) /\ commands' \in Seq(Command)
      /\ Len(commands') <= Len(commands)
  BY DEF TypeOK
<1>1. Debt' <= Debt /\ Debt \in Nat /\ Debt' \in Nat
  BY <1>d, DebtFacts, DebtFactsNext, DebtSteps
<1>2. (StartsShutdown' <=> StartsShutdown)
  BY DEF StartsShutdown
<1>3. RetryAlone' /\ RetryLast' /\ RetryNear' /\ Once(commands, ToStartShutdown)'
  BY <1>2 DEF CommandsAhead, RetryAlone, RetryLast, RetryNear, Count
<1>4. StartsShutdown' => ~GotAhead' /\ ~retryTimer' /\ ~Early'
  BY <1>2 DEF CommandsAhead, Ages
<1>5. Debt' <= Allowance'
  BY <1>1, <1>a DEF CommandsAhead
<1> QED BY <1>3, <1>4, <1>5 DEF CommandsAhead

\* An order that the daemon's queue takes is behind all the others.
LEMMA OrderFacts ==
  ASSUME TypeOK, NEW c, Message(c) \in Command, commands' = Append(commands, Message(c))
  PROVE  /\ Len(commands') = Len(commands) + 1 /\ Len(commands) \in Nat
         /\ DOMAIN commands = 1..Len(commands) /\ DOMAIN commands' = 1..(Len(commands) + 1)
         /\ \A i \in DOMAIN commands : commands'[i] = commands[i]
         /\ commands'[Len(commands) + 1].code = c
         /\ \A C : Among(commands', C) <=> Among(commands, C) \/ c \in C
<1>1. commands \in Seq(Command) /\ Message(c).code = c
  BY DEF TypeOK, Message
<1>2. \A C : Among(Append(commands, Message(c)), C) <=> Among(commands, C) \/ c \in C
  BY <1>1, AmongFacts
<1> QED BY <1>1, <1>2

\* An order to stop the shutdown timer.
LEMMA StopOrder ==
  ASSUME TypeOK, CommandsAhead, Order("STOP_SHUTDOWN"), UNCHANGED retryTimer,
         Debt' <= Allowance', Count(shutdownTimer') + 1 <= Count(shutdownTimer) \/ ~InTimer,
         UNCHANGED shutdownTimer \/ shutdownTimer' = FALSE,
         GotAhead' => GotAhead, Ages
  PROVE  CommandsAhead'
<1>1. CASE commands' = commands
  <2>1. (StartsShutdown' <=> StartsShutdown)
    BY <1>1 DEF StartsShutdown
  <2>2. Count(shutdownTimer') <= Count(shutdownTimer)
    BY DEF Count
  <2>3. RetryNear'
    BY <1>1, <2>1, <2>2 DEF CommandsAhead, RetryNear, Count, TypeOK
  <2> QED BY <1>1, <2>1, <2>3 DEF CommandsAhead, RetryAlone, RetryLast, Ages
<1>2. CASE commands' = Append(commands, Message("STOP_SHUTDOWN"))
  <2>1. Message("STOP_SHUTDOWN") \in Command
    BY DEF Command
  <2> DEFINE c == "STOP_SHUTDOWN"
  <2>2. /\ Len(commands') = Len(commands) + 1 /\ Len(commands) \in Nat
        /\ DOMAIN commands = 1..Len(commands) /\ DOMAIN commands' = 1..(Len(commands) + 1)
        /\ \A i \in DOMAIN commands : commands'[i] = commands[i]
        /\ commands'[Len(commands) + 1].code = c
        /\ \A C : Among(commands', C) <=> Among(commands, C) \/ c \in C
    BY <1>2, <2>1, OrderFacts
  <2>3. /\ StartsShutdown' <=> StartsShutdown
        /\ Among(commands', {"START_RETRY", "STOP_RETRY"})
             <=> Among(commands, {"START_RETRY", "STOP_RETRY"})
    BY <2>2 DEF StartsShutdown, ToStartShutdown
  <2>4. RetryAlone'
    BY <2>3 DEF CommandsAhead, RetryAlone
  <2>5. RetryLast'
    BY <2>2 DEF CommandsAhead, RetryLast
  <2>6. Once(commands, ToStartShutdown)'
    BY <2>2 DEF CommandsAhead, Once, ToStartShutdown
  <2>7. RetryNear'
    <3>1. ASSUME NEW i \in DOMAIN commands', commands'[i].code = "START_RETRY"
          PROVE  (Len(commands') - i) + Count(shutdownTimer') + Count(StartsShutdown') <= 2
      <4>1. i \in DOMAIN commands /\ commands[i].code = "START_RETRY" /\ i \in Int
        BY <2>2, <3>1
      <4>2. InTimer
        BY <4>1 DEF InTimer, Among
      <4>3. (Len(commands) - i) + Count(shutdownTimer) + Count(StartsShutdown) <= 2
        BY <4>1 DEF CommandsAhead, RetryNear
      <4>4. Count(StartsShutdown') = Count(StartsShutdown)
        BY <2>3 DEF Count
      <4> QED BY <2>2, <4>1, <4>2, <4>3, <4>4 DEF Count
    <3> QED BY <3>1 DEF RetryNear
  <2>8. StartsShutdown' => ~GotAhead' /\ ~retryTimer' /\ ~Early'
    BY <2>3 DEF CommandsAhead, Ages
  <2> QED BY <2>4, <2>5, <2>6, <2>7, <2>8 DEF CommandsAhead
<1> QED BY <1>1, <1>2 DEF Order

\* An order makes the daemon's queue longer by one command at most.
LEMMA OrderLength ==
  ASSUME commands \in Seq(Command), NEW c, Order(c)
  PROVE  Len(commands') <= Len(commands) + 1 /\ Len(commands') \in Nat
BY DEF Order

\* A link that comes up brings the news of it, and the turn is late from then on.
LEMMA LinkUp ==
  ASSUME "connect" \notin PortalRequests, WayBackInv, TypeOK', TurnOK', AttemptSucceeds
  PROVE  CommandsAhead'
<1> USE DEF WayBackInv
<1>1. /\ sta = "connecting" /\ sta' = "connected"
      /\ UNCHANGED <<commands, retryTimer, shutdownTimer>>
  BY DEF AttemptSucceeds, Station, timerVars
<1>2. Early /\ Late'
  BY <1>1 DEF Early, Late
<1>3. Allowance = 3 /\ Allowance' = 4 /\ ~StartsShutdown /\ ~retryTimer
  BY <1>2, Allowances, Stages, StagesNext DEF StagesOK, CommandsAhead, InTimer
<1>4. Debt' <= Debt + 1 /\ Debt \in Nat /\ Debt' \in Nat
  BY <1>1, DebtFacts, DebtFactsNext DEF TypeOK
<1>5. Debt' <= Allowance'
  BY <1>3, <1>4 DEF CommandsAhead
<1>6. ~StartsShutdown' /\ (StartsShutdown' <=> StartsShutdown)
  BY <1>1, <1>3 DEF StartsShutdown
<1>7. RetryAlone' /\ RetryLast' /\ RetryNear' /\ Once(commands, ToStartShutdown)'
  BY <1>1, <1>6 DEF CommandsAhead, RetryAlone, RetryLast, RetryNear, Count
<1> QED BY <1>5, <1>6, <1>7 DEF CommandsAhead

\* The daemon carries out its oldest command; when that starts the retry timer, all
\* the others have been carried out but the stops behind it.
LEMMA CommandRun ==
  ASSUME WayBackInv, TypeOK', TurnOK', RunCommand
  PROVE  CommandsAhead'
<1> USE DEF WayBackInv
<1>1. /\ commands \in Seq(Command) /\ commands # << >> /\ commands' = Tail(commands)
      /\ retryTimer \in BOOLEAN /\ shutdownTimer \in BOOLEAN /\ shutdownTimer' \in BOOLEAN
      /\ UNCHANGED <<queue, posting, events, mgr, sta>>
  BY DEF TypeOK, RunCommand, managerVars, driverVars
<1>2. /\ Len(commands) \in Nat \ {0} /\ Len(commands') = Len(commands) - 1
      /\ DOMAIN commands = 1..Len(commands) /\ DOMAIN commands' = 1..(Len(commands) - 1)
      /\ commands[1] = Head(commands) /\ 1 \in DOMAIN commands
      /\ \A i \in DOMAIN commands' : i \in Nat /\ i + 1 \in DOMAIN commands
                                     /\ commands'[i] = commands[i + 1]
  BY <1>1
<1>3. \A C : Among(commands, C) <=> Head(commands).code \in C \/ Among(commands', C)
  BY <1>1, AmongFacts
<1>4. (GotAhead' <=> GotAhead) /\ (Early' <=> Early) /\ (Late' <=> Late) /\ (Forgets' <=> Forgets)
  BY <1>1 DEF GotAhead, GotInQueue, GotInEvents, GotInLoop, GotInHandler, Early, Late, Forgets,
     InManager, InDaemon
<1>n. /\ Debt = Len(commands) + Count(shutdownTimer) + Count(GotAhead) /\ Debt \in Nat
      /\ Debt' = Len(commands') + Count(shutdownTimer') + Count(GotAhead') /\ Debt' \in Nat
      /\ Count(shutdownTimer) \in {0, 1} /\ Count(GotAhead) \in {0, 1}
      /\ Count(shutdownTimer') \in {0, 1} /\ Count(GotAhead') \in {0, 1}
      /\ Count(StartsShutdown) \in {0, 1} /\ Count(StartsShutdown') \in {0, 1}
      /\ Count(GotAhead') = Count(GotAhead)
  <2>1. Count(GotAhead') = Count(GotAhead)
    BY <1>4 DEF Count
  <2> QED BY <2>1, DebtFacts, DebtFactsNext DEF TypeOK
<1>5. RetryLast'
  <2>1. ASSUME NEW i \in DOMAIN commands', NEW j \in DOMAIN commands',
               commands'[i].code = "START_RETRY", i < j
        PROVE  commands'[j].code = "STOP_SHUTDOWN"
    <3>1. /\ i + 1 \in DOMAIN commands /\ j + 1 \in DOMAIN commands /\ i + 1 < j + 1
          /\ commands[i + 1].code = "START_RETRY" /\ commands'[j] = commands[j + 1]
      BY <1>2, <2>1
    <3>2. commands[j + 1].code = "STOP_SHUTDOWN"
      BY <3>1 DEF CommandsAhead, RetryLast
    <3> QED BY <3>1, <3>2
  <2> QED BY <2>1 DEF RetryLast
<1>6. Once(commands, ToStartShutdown)'
  BY <1>1, AmongFacts DEF CommandsAhead
<1>7. StartsShutdown => Head(commands).code = "START_SHUTDOWN" \/ StartsShutdown'
  BY <1>3 DEF StartsShutdown, ToStartShutdown
<1>8. /\ StartsShutdown' => StartsShutdown
      /\ Head(commands).code = "START_SHUTDOWN" => StartsShutdown /\ ~StartsShutdown'
  BY <1>1, <1>3, AmongFacts DEF StartsShutdown, ToStartShutdown, CommandsAhead
<1>9. Count(shutdownTimer') + Count(StartsShutdown') <= Count(shutdownTimer) + Count(StartsShutdown)
  <2>1. CASE Head(commands).code = "START_SHUTDOWN"
    BY <1>1, <1>8, <2>1 DEF Count
  <2>2. CASE Head(commands).code # "START_SHUTDOWN"
    <3>1. shutdownTimer' = shutdownTimer \/ shutdownTimer' = FALSE
      BY <2>2 DEF RunCommand
    <3> QED BY <1>1, <1>8, <3>1 DEF Count
  <2> QED BY <2>1, <2>2
<1>10. RetryNear'
  <2>1. ASSUME NEW i \in DOMAIN commands', commands'[i].code = "START_RETRY"
        PROVE  (Len(commands') - i) + Count(shutdownTimer') + Count(StartsShutdown') <= 2
    <3>1. i + 1 \in DOMAIN commands /\ commands[i + 1].code = "START_RETRY" /\ i \in Nat
      BY <1>2, <2>1
    <3>2. (Len(commands) - (i + 1)) + Count(shutdownTimer) + Count(StartsShutdown) <= 2
      BY <3>1 DEF CommandsAhead, RetryNear
    <3>3. Len(commands') - i = Len(commands) - (i + 1) /\ Len(commands) - (i + 1) \in Int
      BY <1>2, <1>n, <3>1
    <3> QED BY <1>9, <1>n, <3>2, <3>3
  <2> QED BY <2>1 DEF RetryNear
<1>11. Debt' <= Debt
  BY <1>2, <1>n
<1>12. CASE Head(commands).code = "START_RETRY"
  <2>1. retryTimer' = TRUE
    BY <1>12 DEF RunCommand
  <2>2. \A j \in DOMAIN commands' : commands'[j].code = "STOP_SHUTDOWN"
    <3>1. ASSUME NEW j \in DOMAIN commands'
          PROVE  commands'[j].code = "STOP_SHUTDOWN"
      <4>1. 1 < j + 1 /\ j + 1 \in DOMAIN commands /\ commands'[j] = commands[j + 1]
        BY <1>2
      <4>2. commands[j + 1].code = "STOP_SHUTDOWN"
        BY <1>2, <1>12, <4>1 DEF CommandsAhead, RetryLast
      <4> QED BY <4>1, <4>2
    <3> QED BY <3>1
  <2>3. RetryAlone' /\ ~StartsShutdown'
    BY <2>2 DEF RetryAlone, StartsShutdown, ToStartShutdown, Among
  <2>4. InTimer
    BY <1>3, <1>12 DEF InTimer
  <2>5. ~GotAhead'
    BY <1>4, <2>4, GotLate, Stages
  <2>6. (Len(commands) - 1) + Count(shutdownTimer) + Count(StartsShutdown) <= 2
    BY <1>2, <1>12 DEF CommandsAhead, RetryNear
  <2>7. shutdownTimer' = shutdownTimer
    BY <1>12 DEF RunCommand
  <2>8. Debt' <= 2
    <3>1. Count(GotAhead') = 0
      BY <2>5 DEF Count
    <3> QED BY <1>2, <1>n, <2>6, <2>7, <3>1
  <2>9. Allowance' = 2
    BY <2>1 DEF Allowance
  <2> QED BY <1>5, <1>6, <1>10, <2>3, <2>8, <2>9 DEF CommandsAhead
<1>13. CASE Head(commands).code # "START_RETRY"
  <2>1. retryTimer' => retryTimer
    BY <1>1, <1>13 DEF RunCommand
  <2>2. Ages
    BY <1>4, <2>1 DEF Ages
  <2>3. Allowance <= Allowance' /\ Allowance \in Nat /\ Allowance' \in Nat
    BY <2>2, AgesAllow DEF Allowance
  <2>4. Debt' <= Allowance'
    BY <1>n, <1>11, <2>3 DEF CommandsAhead
  <2>5. RetryAlone'
    BY <1>3, <2>1 DEF CommandsAhead, RetryAlone
  <2>6. StartsShutdown' => ~GotAhead' /\ ~retryTimer' /\ ~Early'
    BY <1>4, <1>8, <2>1 DEF CommandsAhead
  <2> QED BY <1>5, <1>6, <1>10, <2>4, <2>5, <2>6 DEF CommandsAhead
<1> QED BY <1>12, <1>13

\* Every step.
LEMMA AheadNext ==
  ASSUME "connect" \notin PortalRequests, TimerQueueLength >= 6, WayBackInv,
         TypeOK', TurnOK', [Next]_vars
  PROVE  CommandsAhead'
<1> USE DEF WayBackInv
<1>1. /\ commands \in Seq(Command) /\ Len(commands) \in Nat /\ Debt \in Nat
      /\ commands' \in Seq(Command) /\ Len(commands') \in Nat /\ Debt' \in Nat
      /\ retryTimer \in BOOLEAN /\ shutdownTimer \in BOOLEAN /\ shutdownTimer' \in BOOLEAN
  BY DebtFacts, DebtFactsNext DEF TypeOK
<1>2. Debt <= Allowance
  BY DEF CommandsAhead
<1>g. /\ AttemptSucceeds \/ (GotAhead' => GotAhead)
      /\ GotIp => GotAhead /\ ~GotAhead'
  BY GotNext
\* The handlers, ...
<1>3. CASE Manager
  <2>1. Ages /\ (GotAhead' => GotAhead) /\ UNCHANGED <<retryTimer, shutdownTimer>>
    <3>1. UNCHANGED <<retryTimer, shutdownTimer>>
      BY <1>3 DEF Manager, ScanDone, StartWifiScan, LoadAndRestoreSta, MarkRequest, StartAttempt,
         ForgetIp, AttemptFailed, UserDisconnected, ConnectionLost, StartAp, CheckConnected, StopAp,
         RestartHttp, ReadIp, GotIp, DisconnectSta, timerVars
    <3>2. (GotAhead' => GotAhead)
      BY <1>3, GotManager
    <3> QED BY <1>3, <3>1, <3>2, AgesManager
  <2>2. CASE UNCHANGED commands
    BY <2>1, <2>2, NoOrder
  <2>3. CASE ForgetIp
    <3>1. UNCHANGED commands \/ Order("STOP_SHUTDOWN")
      BY <2>3 DEF ForgetIp, CancelShutdown
    <3>2. ASSUME Order("STOP_SHUTDOWN")
          PROVE  CommandsAhead'
      <4>1. Late
        <5>1. queue # << >> /\ Head(queue).code \in LossCode /\ queue \in Seq(Messages)
          BY <2>3 DEF ForgetIp, Take, LossCode, TypeOK
        <5> QED BY <5>1, AmongFacts DEF Late
      <4>2. Forgets'
        BY <2>3 DEF ForgetIp, At, Forgets
      <4>3. Allowance = 4 /\ ~InTimer
        BY <4>1, Allowances, Stages
      <4>4. Allowance' = 5
        BY <4>2, StagesNext DEF StagesOK
      <4>5. Len(commands') <= Len(commands) + 1
        BY <1>1, <3>2, OrderLength
      <4>6. Debt' <= Debt + 1
        BY <1>1, <2>1, <4>5, DebtSteps
      <4>7. Debt' <= Allowance'
        BY <1>1, <1>2, <4>3, <4>4, <4>6
      <4> QED BY <2>1, <3>2, <4>3, <4>7, StopOrder
    <3> QED BY <2>2, <3>1, <3>2
  <2>4. CASE ConnectionLost
    <3>1. Order("START_RETRY") /\ mgr.pc = "disconnected"
      BY <2>4, Zenon DEF ConnectionLost, ScheduleRetry
    <3>2. commands' = Append(commands, Message("START_RETRY"))
      BY <3>1, LossHasRoom DEF Order
    <3> DEFINE c == "START_RETRY"
    <3>3. /\ Len(commands') = Len(commands) + 1
          /\ DOMAIN commands = 1..Len(commands) /\ DOMAIN commands' = 1..(Len(commands) + 1)
          /\ \A i \in DOMAIN commands : commands'[i] = commands[i]
          /\ commands'[Len(commands) + 1].code = c
          /\ \A C : Among(commands', C) <=> Among(commands, C) \/ c \in C
      BY <3>2, OrderFacts DEF Command
    <3>4. Allowance = 5 /\ ~InTimer /\ ~retryTimer
      BY <3>1, Allowances, Stages DEF Forgets, InTimer
    <3>5. InTimer'
      BY <3>3 DEF InTimer
    <3>6. ~retryTimer' /\ ~Early' /\ ~Late' /\ ~Forgets'
      BY <2>1, <3>4, <3>5, StagesNext DEF StagesOK
    <3>7. Allowance' = 6
      BY <3>6 DEF Allowance
    <3>8. Debt' <= Debt + 1
      <4>1. Len(commands') <= Len(commands) + 1
        BY <1>1, <3>3
      <4> QED BY <1>1, <2>1, <4>1, DebtSteps
    <3>9. Debt' <= Allowance'
      BY <1>1, <1>2, <3>4, <3>7, <3>8
    <3>10. StartsShutdown' <=> StartsShutdown
      BY <3>3 DEF StartsShutdown, ToStartShutdown
    <3>11. Once(commands, ToStartShutdown)'
      BY <3>3 DEF CommandsAhead, Once, ToStartShutdown
    <3>12. \A i \in DOMAIN commands : commands[i].code # "START_RETRY"
      BY <3>4 DEF InTimer, Among
    <3>13. RetryLast' /\ RetryNear'
      <4>1. \A i \in DOMAIN commands' : commands'[i].code = "START_RETRY" => i = Len(commands')
        BY <1>1, <3>3, <3>12
      <4>2. RetryLast'
        BY <1>1, <3>3, <4>1 DEF RetryLast
      <4> QED BY <1>1, <3>3, <4>1, <4>2 DEF RetryNear, Count
    <3> QED BY <2>1, <3>6, <3>9, <3>10, <3>11, <3>13 DEF CommandsAhead, RetryAlone
  <2>5. CASE GotIp
    <3>1. UNCHANGED commands \/ commands' = Append(commands, Message("START_SHUTDOWN"))
      BY <2>5 DEF GotIp, ScheduleShutdown, Order
    <3>2. ASSUME commands' = Append(commands, Message("START_SHUTDOWN"))
          PROVE  CommandsAhead'
      <4> DEFINE c == "START_SHUTDOWN"
      <4>1. /\ Len(commands') = Len(commands) + 1
            /\ DOMAIN commands = 1..Len(commands) /\ DOMAIN commands' = 1..(Len(commands) + 1)
            /\ \A i \in DOMAIN commands : commands'[i] = commands[i]
            /\ commands'[Len(commands) + 1].code = c
            /\ \A C : Among(commands', C) <=> Among(commands, C) \/ c \in C
        BY <3>2, OrderFacts DEF Command
      <4>2. GotAhead /\ ~GotAhead'
        BY <1>g, <2>5
      <4>3. ~InTimer /\ ~Early /\ ~retryTimer
        BY <4>2, GotLate, Stages DEF InTimer
      <4>4. ~StartsShutdown
        BY <4>2 DEF CommandsAhead
      <4>5. Debt' <= Debt
        BY <1>1, <2>1, <4>1, <4>2, DebtSteps
      <4>6. Allowance <= Allowance' /\ Allowance \in Nat /\ Allowance' \in Nat
        BY <2>1, AgesAllow DEF Allowance
      <4>7. Debt' <= Allowance'
        BY <1>1, <1>2, <4>5, <4>6
      <4>8. \A i \in DOMAIN commands : commands[i].code \notin {"START_RETRY", "START_SHUTDOWN"}
        BY <4>3, <4>4 DEF InTimer, StartsShutdown, ToStartShutdown, Among
      <4>9. /\ \A i \in DOMAIN commands' : commands'[i].code # "START_RETRY"
            /\ \A i \in DOMAIN commands' : commands'[i].code = "START_SHUTDOWN"
                                             => i = Len(commands) + 1
        BY <1>1, <4>1, <4>8
      <4>10. RetryLast' /\ RetryNear' /\ Once(commands, ToStartShutdown)'
        BY <4>9 DEF RetryLast, RetryNear, Once, ToStartShutdown
      <4>11. ~retryTimer' /\ ~Early'
        BY <2>1, <4>3 DEF Ages
      <4> QED BY <4>2, <4>7, <4>10, <4>11 DEF CommandsAhead, RetryAlone
    <3> QED BY <2>2, <3>1, <3>2
  <2>6. UNCHANGED commands \/ ForgetIp \/ ConnectionLost \/ GotIp
    BY <1>3 DEF Manager, ScanDone, StartWifiScan, LoadAndRestoreSta, MarkRequest, StartAttempt,
       AttemptFailed, UserDisconnected, StartAp, CheckConnected, StopAp, RestartHttp, ReadIp,
       DisconnectSta, timerVars
  <2> QED BY <2>2, <2>3, <2>4, <2>5, <2>6
\* ... the steps that give the daemon no order, ...
<1>4. CASE \/ \E t \in Task : Deliver(t)
           \/ HandleEvent \/ Portal \/ AttemptFails \/ LinkLost \/ ScanCompletes \/ UNCHANGED vars
  <2>1. UNCHANGED <<commands, retryTimer, shutdownTimer>>
    BY <1>4 DEF Deliver, HandleEvent, Portal, RequestConnect, RequestDisconnect, RequestScan,
       AttemptFails, LinkLost, Station, ScanCompletes, vars, timerVars
  <2>2. Ages
    BY <1>4, AgesOthers
  <2>3. CASE ~AttemptSucceeds
    BY <1>g, <2>1, <2>2, <2>3, NoOrder
  <2>4. CASE AttemptSucceeds
    BY <1>4, <2>4, LinkUp
  <2> QED BY <2>3, <2>4
<1>5. CASE AttemptSucceeds
  BY <1>5, LinkUp
\* ... and the daemon.
<1>6. CASE ShutdownTimerFires
  <2>1. /\ shutdownTimer /\ shutdownTimer' = FALSE /\ Order("STOP_SHUTDOWN") /\ UNCHANGED retryTimer
        /\ UNCHANGED <<sta, queue, events>>
    BY <1>6 DEF ShutdownTimerFires, driverVars
  <2>2. Ages
    BY <1>6, AgesOthers
  <2>3. (GotAhead' => GotAhead)
    BY <1>g, <2>1 DEF AttemptSucceeds, Station
  <2>4. Len(commands') <= Len(commands) + 1
    BY <1>1, <2>1, OrderLength
  <2>5. Debt' <= Debt /\ Count(shutdownTimer') + 1 <= Count(shutdownTimer)
    <3>1. Debt' <= Debt
      BY <1>1, <2>1, <2>3, <2>4, DebtSteps
    <3> QED BY <2>1, <3>1 DEF Count
  <2>6. Allowance <= Allowance' /\ Allowance \in Nat /\ Allowance' \in Nat
    BY <2>2, AgesAllow DEF Allowance
  <2>7. Debt' <= Allowance'
    BY <1>1, <1>2, <2>5, <2>6
  <2> QED BY <2>1, <2>2, <2>3, <2>5, <2>7, StopOrder
<1>7. CASE RetryTimerFires
  <2>1. /\ retryTimer /\ retryTimer' = FALSE /\ Order("STOP_RETRY") /\ UNCHANGED shutdownTimer
        /\ UNCHANGED sta
    BY <1>7 DEF RetryTimerFires, driverVars
  <2>2. (GotAhead' => GotAhead)
    BY <1>g, <2>1 DEF AttemptSucceeds, Station
  <2>3. Len(commands') <= Len(commands) + 1
    BY <1>1, <2>1, OrderLength
  <2>4. Allowance = 2 /\ Allowance' >= 3
    BY <2>1 DEF Allowance
  <2>5. Debt' <= Debt + 1
    BY <1>1, <2>1, <2>2, <2>3, DebtSteps
  <2>6. Debt' <= Allowance'
    <3>1. Allowance' \in Nat
      BY DEF Allowance
    <3> QED BY <1>1, <1>2, <2>4, <2>5, <3>1
  <2>7. ~Among(commands, {"START_RETRY", "STOP_RETRY"}) /\ ~StartsShutdown
    BY <2>1 DEF CommandsAhead, RetryAlone
  <2>8. \A i \in DOMAIN commands : commands[i].code \notin {"START_RETRY", "START_SHUTDOWN"}
    BY <2>7 DEF Among, StartsShutdown, ToStartShutdown
  <2>9. \A i \in DOMAIN commands' : commands'[i].code \notin {"START_RETRY", "START_SHUTDOWN"}
    <3>1. CASE commands' = commands
      BY <2>8, <3>1
    <3>2. CASE commands' = Append(commands, Message("STOP_RETRY"))
      <4> DEFINE c == "STOP_RETRY"
      <4>1. /\ DOMAIN commands = 1..Len(commands) /\ DOMAIN commands' = 1..(Len(commands) + 1)
            /\ \A i \in DOMAIN commands : commands'[i] = commands[i]
            /\ commands'[Len(commands) + 1].code = c
        BY <3>2, OrderFacts DEF Command
      <4> QED BY <1>1, <2>8, <4>1
    <3> QED BY <2>1, <3>1, <3>2 DEF Order
  <2>10. /\ RetryLast' /\ RetryNear' /\ Once(commands, ToStartShutdown)' /\ ~StartsShutdown'
    BY <2>9 DEF RetryLast, RetryNear, Once, ToStartShutdown, StartsShutdown, Among
  <2> QED BY <2>1, <2>6, <2>10 DEF CommandsAhead, RetryAlone
<1>8. CASE RunCommand
  BY <1>8, CommandRun
<1>9. CASE PowerCycle
  BY <1>9, ResetWithout
<1> QED BY <1>3, <1>4, <1>5, <1>6, <1>7, <1>8, <1>9 DEF Next, Step, Daemon

\* A device that has started has the turn with the order to load.
LEMMA TurnInit == Init => NoUser /\ GotOK /\ CommandsAhead /\ TurnOK /\ WayBackOK /\ StopOK
<1> SUFFICES ASSUME Init
             PROVE  NoUser /\ GotOK /\ CommandsAhead /\ TurnOK /\ WayBackOK /\ StopOK
  OBVIOUS
<1>1. /\ queue = << >> /\ events = << >> /\ posting = BootPosting /\ mgr = Receive
      /\ retryTimer = FALSE /\ shutdownTimer = FALSE /\ commands = << >>
      /\ sta = "idle" /\ bits = {}
  BY DEF Init
<1>2. /\ Once(queue, TurnCodes) /\ Once(events, TurnCodes) /\ ~InQueue /\ ~InEvents
      /\ ~InTimer /\ ~InStation
  BY <1>1 DEF Once, Among, InQueue, InEvents, InTimer, InStation
<1>3. mgr.pc = "receive" /\ ~InHandler
  BY <1>1, ReceiveFacts DEF InHandler
<1>4. ~InLoop /\ ~InDaemon /\ InManager /\ LoadAhead
  BY <1>1 DEF BootPosting, NoMessage, Message, InLoop, InDaemon, InManager, LoadAhead,
     TurnCodes, Task
<1>5. Turns = 1
  BY <1>2, <1>3, <1>4 DEF Turns, Count
<1>6. NoUser
  BY <1>1, <1>3 DEF NoUser, BootPosting, Message, NoMessage, ConnectSta, TurnCodes, Task
<1>7. GotOK /\ CommandsAhead
  BY <1>1, StartsWithout DEF Started
<1> QED BY <1>2, <1>3, <1>4, <1>5, <1>6, <1>7 DEF TurnOK, WayBackOK, StopOK

\* When nothing is on its way the turn is with the retry timer or the station,
\* and without it there is an access point.
LEMMA QuietWayBack ==
  ASSUME TypeOK, TurnOK, WayBackOK
  PROVE  AlwaysAWayBack
<1> SUFFICES ASSUME Quiet, sta = "idle", ~retryTimer
             PROVE  mode = "APSTA"
  BY DEF AlwaysAWayBack
<1>1. \A t \in Task : posting[t].code = "NONE"
  BY DEF Quiet, Free, NoMessage, Message
<1>2. \A m \in Messages \cup {NoMessage} : OneOrNone(m) \in Seq(Event \cup Messages)
  BY LinkOneOrNone
<1>3. queue = << >> /\ events = << >>
  <2> DEFINE a == OneOrNone(mgr.msg)
             b == OneOrNone(posting["events"])
  <2>1. /\ queue \in Seq(Event \cup Messages) /\ events \in Seq(Event \cup Messages)
        /\ a \in Seq(Event \cup Messages) /\ b \in Seq(Event \cup Messages)
    BY <1>2 DEF TypeOK, Task
  <2>2. ((a \o queue) \o b) \o events = << >>
    BY DEF Quiet, Pipeline, Channel
  <2> HIDE DEF a, b
  <2> QED BY <2>1, <2>2
<1>4. /\ ~InQueue /\ ~InEvents /\ ~InLoop /\ ~InManager /\ ~InDaemon /\ ~InHandler /\ ~InTimer
      /\ ~InStation
  BY <1>1, <1>3 DEF InQueue, InEvents, Among, InLoop, InManager, InDaemon, InHandler, InTimer,
     InStation, Quiet, Task, TurnCodes
<1>5. ApAhead
  BY <1>4 DEF Turns, Count, WayBackOK
<1> QED BY <1>1, <1>3, <1>5 DEF ApAhead, Among, Task

\* The invariant, for portals without connect requests.
LEMMA WayBackInvariant ==
  ASSUME "connect" \notin PortalRequests, TimerQueueLength >= 6
  PROVE  Spec => []WayBackInv
<1>1. Init => NoUser /\ GotOK /\ CommandsAhead /\ TurnOK /\ WayBackOK /\ StopOK /\ PostingOK
              /\ PlaceOK
  BY TurnInit, PlacesInit
<1>2. TypeOK /\ TypeOK' /\ BitsFollowDriver /\ BeliefFollowsDriver /\ PostingOK /\ PlaceOK
        /\ StopOK /\ NoUser /\ GotOK /\ CommandsAhead /\ TurnOK /\ WayBackOK /\ [Next]_vars
      => /\ PostingOK' /\ PlaceOK' /\ StopOK' /\ NoUser' /\ GotOK' /\ CommandsAhead'
         /\ TurnOK' /\ WayBackOK'
  BY PostingNext, PlaceNext, StopNext, NoUserNext, GotNext, AheadNext, TurnNext DEF WayBackInv
<1> QED BY <1>1, <1>2, TypeCorrect, BitsCorrect, BeliefCorrect, PTL DEF Spec, WayBackInv

\* A device whose user asks for no connection is never offline for good: when
\* everything has settled, its retry timer runs or its access point is up.
THEOREM WayBackCorrect ==
  ASSUME "connect" \notin PortalRequests, TimerQueueLength >= 6
  PROVE  Spec => []AlwaysAWayBack
<1>1. WayBackInv => AlwaysAWayBack
  BY QuietWayBack DEF WayBackInv
<1> QED BY <1>1, WayBackInvariant, PTL

\* xTimerStart and xTimerStop give up at once when the timer daemon's queue is full:
\* however long the daemon is kept from running, six of its ten slots are enough for
\* every command of such a device, so that none is refused.
THEOREM CommandsFit ==
  ASSUME "connect" \notin PortalRequests, TimerQueueLength >= 6
  PROVE  Spec => [](Len(commands) <= 6)
<1>1. WayBackInv => Len(commands) <= 6
  <2> SUFFICES ASSUME WayBackInv
               PROVE  Len(commands) <= 6
    OBVIOUS
  <2>1. Len(commands) \in Nat /\ Debt \in Nat /\ Len(commands) <= Debt
    BY DebtFacts DEF WayBackInv, TypeOK
  <2>2. Debt <= Allowance /\ Allowance \in {2, 3, 4, 5, 6}
    BY DEF WayBackInv, CommandsAhead, Allowance
  <2> QED BY <2>1, <2>2
<1> QED BY <1>1, WayBackInvariant, PTL

-----------------------------------------------------------------------------
(***************************************************************************)
(* The bit that keeps an address got at startup from saving the            *)
(* configuration: RestoreBitTracksAttempt.                                 *)
(*                                                                         *)
(* The argument: a device that starts is still.  One message is all that   *)
(* happens to it, from the order to load the configuration to the end of   *)
(* the attempt made with it, and no user, timer or scan comes between.     *)
(* After that the order is not given again, and the bit is set only while  *)
(* the address that clears it is on its way.                               *)
(***************************************************************************)

\* One message, in one place, is all there is; or none, nowhere.
Somewhere == Task \cup {"queue", "driver"}
Alone(where, m) ==
  /\ posting = [t \in Task |-> IF t = where THEN m ELSE NoMessage]
  /\ queue   = IF where = "queue" THEN <<m>> ELSE << >>
  /\ events  = IF where = "driver" THEN <<m>> ELSE << >>
Nothing == Alone("nowhere", NoMessage)

\* Nothing but this message can make the device do something.
Still == /\ mode = "STA" /\ sta # "connected" /\ bits \subseteq {"REQUEST_RESTORE_STA"}
         /\ retryTimer = FALSE /\ shutdownTimer = FALSE /\ commands = << >>
         /\ scanning = FALSE

\* The orders of the startup.
Load    == Message("LOAD_AND_RESTORE_STA")
Restore == ConnectSta("restore")

\* The four phases: the order to load, which becomes the order to connect, on
\* its way to the attempt; the attempt; its failure on its way; and all that is
\* not startup.
Ordered(where) == /\ mgr = Receive /\ bits = {}
                  /\ Alone(where, Load) \/ (Alone(where, Restore) /\ config # NoNetwork)
Beginning == mgr.pc = "connect" /\ mgr.seen = {} /\ Nothing /\ config # NoNetwork
Boot      == /\ Still /\ sta = "idle"
             /\ Ordered("manager") \/ Ordered("queue") \/ Beginning

Attempt == Still /\ sta = "connecting" /\ mgr = Receive /\ Nothing

Failure        == StaDisconnected("CONNECT_FAILED")
Failed(where)  == mgr = Receive /\ Alone(where, Failure)
GivingUp       == mgr.pc = "disconnected" /\ mgr.seen = {} /\ Nothing
Failing        == /\ Still /\ sta = "idle"
                  /\ Failed("driver") \/ Failed("events") \/ Failed("queue") \/ GivingUp

NoOrders == /\ queue \in Seq(Messages \ {Load, Restore})
            /\ \A t \in Task : posting[t] \notin {Load, Restore}
IpAhead  == \/ Among(queue, {"STA_GOT_IP"})
            \/ posting["events"].code = "STA_GOT_IP"
            \/ Among(events, {"STA_GOT_IP"})
            \/ mgr.pc = "got_ip" /\ "REQUEST_RESTORE_STA" \in mgr.seen
Later    == NoOrders /\ ("REQUEST_RESTORE_STA" \in bits => IpAhead)

RestoreOK == Boot \/ Attempt \/ Failing \/ Later

-----------------------------------------------------------------------------
\* The startup.

\* A still device is moved by its one message, by the end of its attempt, or by
\* a reset.
LEMMA StillSteps ==
  ASSUME Still, [Next]_vars
  PROVE  \/ UNCHANGED vars
         \/ PowerCycle
         \/ \E t \in Task : Deliver(t)
         \/ HandleEvent
         \/ Manager
         \/ sta = "connecting" /\ (AttemptSucceeds \/ AttemptFails)
<1>1. ~RunCommand /\ ~RetryTimerFires /\ ~ShutdownTimerFires /\ ~ScanCompletes
  BY DEF Still, RunCommand, RetryTimerFires, ShutdownTimerFires, ScanCompletes
<1>2. ~Portal
  BY DEF Still, Portal, RequestConnect, RequestDisconnect, RequestScan, Serving
<1>3. ~LinkLost /\ ((AttemptSucceeds \/ AttemptFails) => sta = "connecting")
  BY DEF Still, LinkLost, AttemptSucceeds, AttemptFails, Station
<1> QED BY <1>1, <1>2, <1>3 DEF Next, Step, Daemon

\* Where the one message is, and where there is none.
LEMMA AloneFacts ==
  ASSUME NEW where, NEW m \in Messages, Alone(where, m)
  PROVE  /\ \A t \in Task : t # where => Free(t)
         /\ \A t \in Task : t = where => ~Free(t) /\ posting[t] = m
         /\ where = "queue" => queue = <<m>> /\ Head(queue) = m /\ Tail(queue) = << >>
         /\ where # "queue" => queue = << >>
         /\ where = "driver" => events = <<m>> /\ Head(events) = m /\ Tail(events) = << >>
         /\ where # "driver" => events = << >>
<1>1. m # NoMessage
  BY MessageFacts
<1> QED BY <1>1 DEF Alone, Free

\* A message posted reaches the queue and is alone there.
LEMMA AloneDelivered ==
  ASSUME NEW where \in Task, NEW m \in Messages, Alone(where, m), NEW t \in Task, Deliver(t)
  PROVE  Alone("queue", m)' /\ t = where
<1>1. t = where /\ posting[t] = m /\ queue = << >> /\ events = << >>
  BY AloneFacts DEF Deliver, Task
<1>2. /\ queue' = <<m>> /\ events' = << >>
      /\ posting' = [posting EXCEPT ![t] = NoMessage]
  BY <1>1 DEF Deliver, Post, driverVars
<1>3. posting' = [x \in Task |-> IF x = "queue" THEN m ELSE NoMessage]
  BY <1>1, <1>2 DEF Alone, Task
<1> QED BY <1>1, <1>2, <1>3 DEF Alone

\* The manager at the top of its loop with an empty queue, or with an order of
\* its own to post, waits.
LEMMA ManagerWaits ==
  ASSUME mgr = Receive, queue = << >> \/ ~Free("manager")
  PROVE  ~Manager
BY ReceiveFacts DEF Manager, ScanDone, StartWifiScan, LoadAndRestoreSta, MarkRequest, StartAttempt,
   ForgetIp, AttemptFailed, UserDisconnected, ConnectionLost, StartAp, CheckConnected,
   StopAp, RestartHttp, ReadIp, GotIp, DisconnectSta, Take

\* With one message in its queue it handles that.
LEMMA ManagerTakes ==
  ASSUME mgr = Receive, queue # << >>, Manager
  PROVE  /\ Head(queue).code = "LOAD_AND_RESTORE_STA" => LoadAndRestoreSta
         /\ Head(queue).code = "CONNECT_STA" => MarkRequest
         /\ Head(queue).code = "STA_DISCONNECTED" => ForgetIp
BY ReceiveFacts DEF Manager, ScanDone, StartWifiScan, LoadAndRestoreSta, MarkRequest, StartAttempt,
   ForgetIp, AttemptFailed, UserDisconnected, ConnectionLost, StartAp, CheckConnected,
   StopAp, RestartHttp, ReadIp, GotIp, DisconnectSta, Take

\* A reset begins the startup again.
LEMMA ResetBoots ==
  ASSUME PowerCycle
  PROVE  Boot'
<1>1. Still' /\ sta' = "idle"
  BY DEF PowerCycle, Still
<1>2. Alone("manager", Load)'
  BY DEF PowerCycle, BootPosting, Alone, Load
<1> QED BY <1>1, <1>2 DEF Boot, Ordered, PowerCycle

\* From the order to load, or to connect, to the attempt.
LEMMA BootNext ==
  ASSUME Boot, [Next]_vars
  PROVE  RestoreOK'
<1>1. CASE UNCHANGED vars
  BY <1>1 DEF RestoreOK, Boot, Still, Ordered, Beginning, Nothing, Alone, vars, managerVars,
     timerVars, dataVars, driverVars
<1>2. CASE PowerCycle
  BY <1>2, ResetBoots DEF RestoreOK
<1>m. /\ Load \in Messages /\ Load.code = "LOAD_AND_RESTORE_STA"
      /\ Restore \in Messages /\ Restore.code = "CONNECT_STA" /\ Restore.param = "restore"
  BY MessageFacts DEF Load, Restore, Message, ConnectSta
<1>s. Still /\ sta = "idle"
  BY DEF Boot
<1>3. ASSUME Ordered("manager"), ~UNCHANGED vars, ~PowerCycle
      PROVE  Boot'
  <2>1. PICK m \in {Load, Restore} : Alone("manager", m) /\ (m = Restore => config # NoNetwork)
    BY <1>3, <1>m DEF Ordered
  <2>2. ~Free("manager") /\ events = << >>
    BY <1>m, <2>1, AloneFacts DEF Task
  <2>3. ~Manager /\ ~HandleEvent
    BY <1>3, <2>2, ManagerWaits DEF Ordered, HandleEvent
  <2>4. PICK t \in Task : Deliver(t)
    BY <1>3, <1>s, <2>3, StillSteps
  <2>5. Alone("queue", m)'
    BY <1>m, <2>1, <2>4, AloneDelivered DEF Task
  <2>6. UNCHANGED <<mgr, bits, retryTimer, shutdownTimer, commands, config, sta, mode, scanning>>
    BY <2>4 DEF Deliver, managerVars, timerVars, dataVars, driverVars
  <2> QED BY <1>3, <1>s, <2>1, <2>5, <2>6 DEF Boot, Still, Ordered
<1>4. ASSUME Ordered("queue"), ~UNCHANGED vars, ~PowerCycle
      PROVE  Boot' \/ Later'
  <2>1. PICK m \in {Load, Restore} : Alone("queue", m) /\ (m = Restore => config # NoNetwork)
    BY <1>4, <1>m DEF Ordered
  <2>2. /\ queue = <<m>> /\ Head(queue) = m /\ Tail(queue) = << >> /\ events = << >>
        /\ \A t \in Task : Free(t)
    BY <1>m, <2>1, AloneFacts DEF Task
  <2>3. Manager
    BY <1>4, <1>s, <2>2, StillSteps DEF HandleEvent, Deliver
  <2>4. CASE m = Load
    <3>1. LoadAndRestoreSta
      BY <1>4, <1>m, <2>2, <2>3, <2>4, ManagerTakes DEF Ordered
    <3>2. /\ queue' = << >> /\ events' = << >> /\ config' = nvs
          /\ posting' = [posting EXCEPT !["manager"] = FirstOrder]
          /\ UNCHANGED <<mgr, bits, retryTimer, shutdownTimer, commands, sta, mode, scanning>>
      BY <2>2, <3>1 DEF LoadAndRestoreSta, Take, Post, managerVars, timerVars, driverVars
    <3>3. posting' = [t \in Task |-> IF t = "manager" THEN FirstOrder ELSE NoMessage]
      BY <2>1, <3>2 DEF Alone, Task
    <3>4. CASE nvs # NoNetwork
      <4>1. Alone("manager", Restore)'
        BY <3>2, <3>3, <3>4 DEF Alone, FirstOrder, Restore
      <4> QED BY <1>4, <1>s, <3>2, <3>4, <4>1 DEF Boot, Still, Ordered
    <3>5. CASE nvs = NoNetwork
      <4>1. FirstOrder \notin {Load, Restore} /\ NoMessage \notin {Load, Restore}
        BY <3>5 DEF FirstOrder, Load, Restore, Message, ConnectSta, NoMessage
      <4>2. NoOrders'
        BY <3>2, <3>3, <4>1 DEF NoOrders
      <4> QED BY <1>4, <3>2, <4>2 DEF Later, Ordered
    <3> QED BY <3>4, <3>5
  <2>5. CASE m = Restore
    <3>1. MarkRequest
      BY <1>4, <1>m, <2>2, <2>3, <2>5, ManagerTakes DEF Ordered
    <3>2. /\ queue' = << >> /\ bits' = {"REQUEST_RESTORE_STA"}
          /\ mgr' = At("connect", m, {"CONNECTED", "SCAN"})
          /\ UNCHANGED <<posting, events, config, retryTimer, shutdownTimer, commands, sta, mode, scanning>>
      BY <1>4, <1>m, <2>2, <2>5, <3>1
         DEF MarkRequest, Take, Ordered, timerVars, dataVars, driverVars
    <3>3. mgr'.pc = "connect" /\ mgr'.seen = {}
      BY <3>2 DEF At
    <3>4. Nothing'
      BY <2>1, <3>2 DEF Nothing, Alone, Task
    <3> QED BY <1>s, <2>1, <2>5, <3>2, <3>3, <3>4 DEF Boot, Still, Beginning
  <2> QED BY <2>4, <2>5
<1>5. ASSUME Beginning, ~UNCHANGED vars, ~PowerCycle
      PROVE  Attempt'
  <2>1. /\ queue = << >> /\ events = << >> /\ \A t \in Task : Free(t)
    BY <1>5 DEF Beginning, Nothing, Alone, Free, Task
  <2>2. Manager
    BY <1>5, <1>s, <2>1, StillSteps DEF HandleEvent, Deliver
  <2>3. StartAttempt
    BY <1>5, <2>2 DEF Beginning, Manager, ScanDone, StartWifiScan, LoadAndRestoreSta, MarkRequest,
       ForgetIp, AttemptFailed, UserDisconnected, ConnectionLost, StartAp, CheckConnected,
       StopAp, RestartHttp, ReadIp, GotIp, DisconnectSta, Take
  <2>4. /\ mgr' = Receive /\ sta' = "connecting"
        /\ UNCHANGED <<queue, posting, events, bits, retryTimer, shutdownTimer, commands, mode, scanning>>
    BY <1>5, <1>s, <2>3 DEF StartAttempt, Beginning, EspWifiConnect, timerVars
  <2> QED BY <1>5, <1>s, <2>4 DEF Attempt, Still, Beginning, Nothing, Alone
<1> QED BY <1>1, <1>2, <1>3, <1>4, <1>5 DEF Boot, RestoreOK

\* The attempt ends with an address, or with a failure.
LEMMA AttemptNext ==
  ASSUME Attempt, [Next]_vars
  PROVE  RestoreOK'
<1>1. CASE UNCHANGED vars
  BY <1>1 DEF RestoreOK, Attempt, Still, Nothing, Alone, vars, managerVars, timerVars, driverVars
<1>2. CASE PowerCycle
  BY <1>2, ResetBoots DEF RestoreOK
<1>3. /\ Still /\ mgr = Receive /\ queue = << >> /\ events = << >>
      /\ posting = [t \in Task |-> NoMessage] /\ \A t \in Task : Free(t)
  BY DEF Attempt, Nothing, Alone, Free, Task
<1>4. ~Manager /\ ~HandleEvent /\ \A t \in Task : ~Deliver(t)
  BY <1>3, ManagerWaits DEF HandleEvent, Deliver
<1>5. CASE AttemptSucceeds
  <2>1. /\ events' = Append(events, Message("STA_GOT_IP")) /\ UNCHANGED <<queue, posting>>
    BY <1>5 DEF AttemptSucceeds, Station
  <2>2. events' = <<Message("STA_GOT_IP")>>
    BY <1>3, <2>1
  <2>3. Among(events, {"STA_GOT_IP"})'
    BY <2>2, CodeFacts DEF Among
  <2>4. NoOrders'
    BY <1>3, <2>1 DEF NoOrders, NoMessage, Load, Restore, Message, ConnectSta
  <2> QED BY <2>3, <2>4 DEF Later, IpAhead, RestoreOK
<1>6. CASE AttemptFails
  <2>1. /\ events' = Append(events, Failure) /\ sta' = "idle"
        /\ UNCHANGED <<queue, posting, mgr, bits, retryTimer, shutdownTimer, commands, mode, scanning>>
    BY <1>6 DEF AttemptFails, Station, Failure, managerVars, timerVars
  <2>2. Alone("driver", Failure)'
    BY <1>3, <2>1 DEF Alone, Task
  <2> QED BY <1>3, <2>1, <2>2 DEF Failing, Failed, Still, RestoreOK
<1> QED BY <1>1, <1>2, <1>3, <1>4, <1>5, <1>6, StillSteps

\* The failure reaches the handler, which clears the bit: no user can have asked
\* for anything.
LEMMA FailingNext ==
  ASSUME Failing, [Next]_vars
  PROVE  RestoreOK'
<1>1. CASE UNCHANGED vars
  BY <1>1 DEF RestoreOK, Failing, Still, Failed, GivingUp, Nothing, Alone, vars, managerVars,
     timerVars, driverVars
<1>2. CASE PowerCycle
  BY <1>2, ResetBoots DEF RestoreOK
<1>m. /\ Failure \in Messages /\ Failure \in Reports /\ Failure.code = "STA_DISCONNECTED"
  BY MessageFacts, CodeFacts DEF Failure
<1>s. Still /\ sta = "idle"
  BY DEF Failing
<1>3. ASSUME Failed("driver"), ~UNCHANGED vars, ~PowerCycle
      PROVE  Failing'
  <2>1. /\ queue = << >> /\ Head(events) = Failure /\ Tail(events) = << >>
        /\ \A t \in Task : Free(t)
    BY <1>3, <1>m, AloneFacts DEF Failed, Task
  <2>2. HandleEvent
    BY <1>3, <1>s, <2>1, StillSteps, ManagerWaits DEF Failed, Deliver
  <2>3. /\ events' = << >> /\ posting' = [posting EXCEPT !["events"] = Failure]
        /\ bits' \subseteq bits
        /\ UNCHANGED <<queue, mgr, retryTimer, shutdownTimer, commands, sta, mode, scanning>>
    BY <1>m, <2>1, <2>2 DEF HandleEvent, Post, Sets, managerVars, timerVars
  <2>4. Alone("events", Failure)'
    BY <1>3, <2>1, <2>3 DEF Failed, Alone, Task
  <2> QED BY <1>3, <1>s, <2>3, <2>4 DEF Failing, Failed, Still
<1>4. ASSUME Failed("events"), ~UNCHANGED vars, ~PowerCycle
      PROVE  Failing'
  <2>1. queue = << >> /\ events = << >>
    BY <1>4, <1>m, AloneFacts DEF Failed
  <2>2. PICK t \in Task : Deliver(t)
    BY <1>4, <1>s, <2>1, StillSteps, ManagerWaits DEF Failed, HandleEvent
  <2>3. Alone("queue", Failure)'
    BY <1>4, <1>m, <2>2, AloneDelivered DEF Failed, Task
  <2>4. UNCHANGED <<mgr, bits, retryTimer, shutdownTimer, commands, sta, mode, scanning>>
    BY <2>2 DEF Deliver, managerVars, timerVars, driverVars
  <2> QED BY <1>4, <1>s, <2>3, <2>4 DEF Failing, Failed, Still
<1>5. ASSUME Failed("queue"), ~UNCHANGED vars, ~PowerCycle
      PROVE  Failing'
  <2>1. /\ queue = <<Failure>> /\ Head(queue) = Failure /\ Tail(queue) = << >>
        /\ events = << >> /\ \A t \in Task : Free(t)
    BY <1>5, <1>m, AloneFacts DEF Failed, Task
  <2>2. Manager
    BY <1>5, <1>s, <2>1, StillSteps DEF HandleEvent, Deliver
  <2>3. ForgetIp
    BY <1>5, <1>m, <2>1, <2>2, ManagerTakes DEF Failed
  <2>4. /\ queue' = << >> /\ bits' = bits /\ shutdownTimer' = FALSE
        /\ mgr' = At("disconnected", Failure,
                     {"REQUEST_STA_CONNECT", "REQUEST_DISCONNECT", "AP_STARTED"})
        /\ UNCHANGED <<posting, events, retryTimer, commands, sta, mode, scanning>>
    <3>1. shutdownTimer = FALSE
      BY <1>s DEF Still
    <3> QED BY <2>1, <2>3, <3>1 DEF ForgetIp, Take, CancelShutdown, timerVars, driverVars
  <2>5. mgr'.pc = "disconnected" /\ mgr'.seen = {}
    BY <1>s, <2>4 DEF At, Still
  <2>6. Nothing'
    BY <1>5, <2>1, <2>4 DEF Failed, Nothing, Alone, Task
  <2> QED BY <1>s, <2>4, <2>5, <2>6 DEF Failing, GivingUp, Still
<1>6. ASSUME GivingUp, ~UNCHANGED vars, ~PowerCycle
      PROVE  Later'
  <2>1. /\ queue = << >> /\ events = << >> /\ posting = [t \in Task |-> NoMessage]
        /\ \A t \in Task : Free(t)
    BY <1>6 DEF GivingUp, Nothing, Alone, Free, Task
  <2>2. Manager
    BY <1>6, <1>s, <2>1, StillSteps DEF HandleEvent, Deliver
  <2>3. ConnectionLost
    BY <1>6, <2>2 DEF GivingUp, Manager, ScanDone, StartWifiScan, LoadAndRestoreSta, MarkRequest,
       StartAttempt, ForgetIp, AttemptFailed, UserDisconnected, StartAp, CheckConnected,
       StopAp, RestartHttp, ReadIp, GotIp, DisconnectSta, Take
  <2>4. /\ queue' = queue /\ "REQUEST_RESTORE_STA" \notin bits'
        /\ \/ posting' = posting
           \/ posting' = [posting EXCEPT !["manager"] = Message("START_AP")]
    BY <2>3 DEF ConnectionLost, Post
  <2>5. NoOrders'
    BY <2>1, <2>4 DEF NoOrders, NoMessage, Load, Restore, Message, ConnectSta, Task
  <2> QED BY <2>4, <2>5 DEF Later
<1> QED BY <1>1, <1>2, <1>3, <1>4, <1>5, <1>6 DEF Failing, RestoreOK

-----------------------------------------------------------------------------
\* After the startup.

\* The order to load is not given again, and so neither is its order to connect.
LEMMA NoOrdersNext ==
  ASSUME TypeOK, NoOrders, [Next]_vars, ~PowerCycle
  PROVE  NoOrders'
<1> DEFINE M == Messages \ {Load, Restore}
<1>1. /\ queue \in Seq(M) /\ posting \in [Task -> Messages \cup {NoMessage}]
      /\ \A t \in Task : posting[t] \notin {Load, Restore}
  BY DEF NoOrders, TypeOK
<1>2. /\ \A m \in M : m.code # "LOAD_AND_RESTORE_STA"
      /\ NoMessage \notin {Load, Restore}
      /\ \A c : c # "LOAD_AND_RESTORE_STA" => Message(c) \notin {Load, Restore}
      /\ ConnectSta("auto") \notin {Load, Restore} /\ ConnectSta("user") \notin {Load, Restore}
  <2>1. ASSUME NEW m \in M PROVE m.code # "LOAD_AND_RESTORE_STA"
    BY <2>1 DEF Messages, Orders, Reports, Message, ConnectSta, StaDisconnected, Load, Restore
  <2> QED BY <2>1 DEF NoMessage, Message, ConnectSta, Load, Restore
<1>3. \A e \in Event : e \notin {Load, Restore}
  BY MessageFacts, CodeFacts DEF Event, Load, Restore, Message, ConnectSta
<1>q. \/ UNCHANGED queue \/ (queue # << >> /\ queue' = Tail(queue))
      \/ \E t \in Task : posting[t] # NoMessage /\ queue' = Append(queue, posting[t])
  BY DEF Next, Step, Daemon, Manager, ScanDone, StartWifiScan, LoadAndRestoreSta, MarkRequest, StartAttempt,
     ForgetIp, AttemptFailed, UserDisconnected, ConnectionLost, StartAp, CheckConnected,
     StopAp, RestartHttp, ReadIp, GotIp, DisconnectSta, Take, Deliver, Free, HandleEvent,
     RunCommand, RetryTimerFires, ShutdownTimerFires, Portal, RequestConnect, RequestDisconnect,
     RequestScan, AttemptSucceeds, AttemptFails, LinkLost, Station, ScanCompletes, vars
<1>4. queue' \in Seq(M)
  <2>1. ASSUME NEW t \in Task, posting[t] # NoMessage, queue' = Append(queue, posting[t])
        PROVE  queue' \in Seq(M)
    BY <1>1, <2>1
  <2> HIDE DEF M
  <2>2. CASE queue # << >> /\ queue' = Tail(queue)
    BY <1>1, <2>2
  <2>3. CASE UNCHANGED queue
    BY <1>1, <2>3
  <2> QED BY <1>q, <2>1, <2>2, <2>3
<1>5. \A t \in Task : posting'[t] \notin {Load, Restore}
  <2> USE <1>1, <1>2 DEF Task
  <2>1. CASE UNCHANGED posting
    BY <2>1
  <2>2. ASSUME NEW t \in Task, NEW m, Post(t, m), m \notin {Load, Restore}
        PROVE  \A x \in Task : posting'[x] \notin {Load, Restore}
    BY <2>2 DEF Post
  <2>3. CASE Manager
    <3>1. ~LoadAndRestoreSta
      <4>1. queue # << >> => Head(queue) \in M
        BY <1>1
      <4> QED BY <1>2, <4>1 DEF LoadAndRestoreSta, Take
    <3>2. UNCHANGED posting \/ Post("manager", Message("START_AP"))
      BY <2>3, <3>1 DEF Manager, ScanDone, StartWifiScan, MarkRequest, StartAttempt, ForgetIp,
         AttemptFailed, UserDisconnected, RestartAp, ConnectionLost, StartAp, CheckConnected,
         StopAp, RestartHttp, ReadIp, GotIp, DisconnectSta
    <3> QED BY <2>1, <2>2, <3>2
  <2>4. CASE \E t \in Task : Deliver(t)
    BY <2>2, <2>4 DEF Deliver
  <2>5. CASE HandleEvent
    <3>1. Head(events) \notin {Load, Restore}
      BY <1>3, <2>5 DEF HandleEvent, TypeOK
    <3> QED BY <2>1, <2>2, <2>5, <3>1 DEF HandleEvent
  <2>6. CASE RunCommand \/ RetryTimerFires \/ ShutdownTimerFires
    BY <2>2, <2>6 DEF RunCommand, RetryTimerFires, ShutdownTimerFires
  <2>7. CASE Portal
    <3>1. \/ Post("http", ConnectSta("user"))
          \/ Post("http", Message("DISCONNECT_STA"))
          \/ Post("http", Message("START_WIFI_SCAN"))
      BY <2>7 DEF Portal, RequestConnect, RequestDisconnect, RequestScan
    <3> QED BY <2>2, <3>1
  <2>8. CASE AttemptSucceeds \/ AttemptFails \/ LinkLost \/ ScanCompletes \/ UNCHANGED vars
    BY <2>1, <2>8 DEF AttemptSucceeds, AttemptFails, LinkLost, Station, ScanCompletes, vars
  <2> QED BY <2>3, <2>4, <2>5, <2>6, <2>7, <2>8 DEF Next, Step, Daemon
<1> QED BY <1>4, <1>5 DEF NoOrders

\* So the bit is not set again, ...
LEMMA BitNotSet ==
  ASSUME TypeOK, NoOrders, [Next]_vars
  PROVE  "REQUEST_RESTORE_STA" \in bits' => "REQUEST_RESTORE_STA" \in bits
<1>1. CASE MarkRequest
  <2>1. Head(queue) \in Messages \ {Load, Restore} /\ Head(queue).code = "CONNECT_STA"
    BY <1>1 DEF MarkRequest, Take, NoOrders
  <2>2. Head(queue).param # "restore"
    BY <2>1 DEF Messages, Orders, Reports, Message, ConnectSta, StaDisconnected, Load, Restore
  <2> QED BY <1>1, <2>2 DEF MarkRequest
<1>2. CASE HandleEvent
  BY <1>2 DEF HandleEvent, Sets
<1>3. CASE Manager /\ ~MarkRequest
  BY <1>3 DEF Manager, ScanDone, StartWifiScan, LoadAndRestoreSta, StartAttempt, ForgetIp,
     AttemptFailed, UserDisconnected, ConnectionLost, StartAp, CheckConnected, StopAp,
     RestartHttp, ReadIp, GotIp, EndRestore, DisconnectSta
<1>4. CASE \/ \E t \in Task : Deliver(t)
           \/ RunCommand \/ RetryTimerFires \/ ShutdownTimerFires \/ Portal
           \/ AttemptSucceeds \/ AttemptFails \/ LinkLost \/ ScanCompletes \/ PowerCycle
           \/ UNCHANGED vars
  BY <1>4 DEF Deliver, RunCommand, RetryTimerFires, ShutdownTimerFires, Portal, RequestConnect,
     RequestDisconnect, RequestScan, AttemptSucceeds, AttemptFails, LinkLost, Station,
     ScanCompletes, PowerCycle, vars
<1> QED BY <1>1, <1>2, <1>3, <1>4 DEF Next, Step, Daemon

\* ... and the address that clears it stays on its way until it does.
LEMMA IpAheadNext ==
  ASSUME TypeOK, NoOrders, "REQUEST_RESTORE_STA" \in bits, IpAhead, [Next]_vars, ~PowerCycle
  PROVE  "REQUEST_RESTORE_STA" \in bits' => IpAhead'
<1>t. /\ queue \in Seq(Messages) /\ events \in Seq(Event)
      /\ posting \in [Task -> Messages \cup {NoMessage}]
  BY DEF TypeOK
<1> DEFINE Ip == {"STA_GOT_IP"}
\* An event more leaves it among the events.
<1>e. ASSUME NEW e \in Event, events' = events \/ events' = Append(events, e)
      PROVE  Among(events, Ip) => Among(events', Ip)
  <2>1. CASE events' = events
    BY <2>1
  <2>2. CASE events' = Append(events, e)
    BY <1>t, <2>2, AmongFacts
  <2> QED BY <1>e, <2>1, <2>2
<1>1. ASSUME NEW t \in Task, Deliver(t)
      PROVE  IpAhead'
  <2>1. /\ UNCHANGED <<events, mgr>>
        /\ posting' = [posting EXCEPT ![t] = NoMessage]
    BY <1>1 DEF Deliver, Post, managerVars, driverVars
  <2>2. /\ Among(queue, Ip) => Among(queue', Ip)
        /\ posting[t].code = "STA_GOT_IP" => Among(queue', Ip)
    <3>1. posting[t] \in Messages /\ queue' = Append(queue, posting[t])
      BY <1>t, <1>1 DEF Deliver, Free
    <3> QED BY <1>t, <3>1, AmongFacts
  <2>3. t # "events" => posting'["events"] = posting["events"]
    BY <1>t, <2>1 DEF Task
  <2> QED BY <2>1, <2>2, <2>3 DEF IpAhead
<1>2. CASE HandleEvent
  <2>1. /\ events # << >> /\ events' = Tail(events) /\ UNCHANGED <<mgr, queue>>
        /\ posting["events"] = NoMessage
    BY <1>2 DEF HandleEvent, managerVars, Free
  <2>2. Among(events, Ip) => Among(events', Ip) \/ Head(events).code = "STA_GOT_IP"
    BY <1>t, <2>1, AmongFacts
  <2>3. Head(events).code = "STA_GOT_IP" => posting'["events"] = Head(events)
    BY <1>2, <1>t, <2>1, CodeFacts DEF HandleEvent, Post, Task
  <2> QED BY <2>1, <2>2, <2>3, CodeFacts DEF IpAhead
<1>3. CASE RunCommand \/ RetryTimerFires \/ ShutdownTimerFires \/ Portal
  <2>1. UNCHANGED <<mgr, queue, events>> /\ posting'["events"] = posting["events"]
    BY <1>3, <1>t DEF RunCommand, RetryTimerFires, ShutdownTimerFires, Portal, RequestConnect,
       RequestDisconnect, RequestScan, Post, managerVars, driverVars, Task
  <2> QED BY <2>1 DEF IpAhead
<1>4. CASE AttemptSucceeds \/ AttemptFails \/ LinkLost \/ ScanCompletes
  <2>1. PICK e \in Event : events' = Append(events, e)
    BY <1>4, MessageFacts DEF AttemptSucceeds, AttemptFails, LinkLost, Station, ScanCompletes
  <2>2. UNCHANGED <<mgr, queue, posting>>
    BY <1>4 DEF AttemptSucceeds, AttemptFails, LinkLost, Station, ScanCompletes, managerVars
  <2> QED BY <1>e, <2>1, <2>2 DEF IpAhead
<1>5. CASE Manager
  <2>1. posting'["events"] = posting["events"]
    BY <1>5, <1>t DEF Manager, ScanDone, StartWifiScan, LoadAndRestoreSta, MarkRequest,
       StartAttempt, ForgetIp, AttemptFailed, UserDisconnected, ConnectionLost, RestartAp,
       StartAp, CheckConnected, StopAp, RestartHttp, ReadIp, GotIp, DisconnectSta, Post, Task
  <2>2. \E e \in Event : events' = events \/ events' = Append(events, e)
    BY <1>5, MessageFacts DEF Manager, ScanDone, StartWifiScan, LoadAndRestoreSta, MarkRequest,
       StartAttempt, ForgetIp, AttemptFailed, UserDisconnected, ConnectionLost, StartAp,
       CheckConnected, StopAp, RestartHttp, ReadIp, GotIp, DisconnectSta, driverVars,
       EspWifiDisconnect, EspWifiSetMode, EspWifiScanStart, EspWifiScanStop
  <2>3. Among(events, Ip) => Among(events', Ip)
    BY <1>e, <2>2
  <2>4. CASE ReadIp
    <3>1. mgr'.pc = "got_ip" /\ mgr'.seen = bits \cap {"REQUEST_RESTORE_STA", "AP_STARTED"}
      BY <2>4 DEF ReadIp
    <3> QED BY <3>1 DEF IpAhead
  <2>5. CASE GotIp
    <3>1. CASE "REQUEST_RESTORE_STA" \in mgr.seen
      BY <2>5, <3>1 DEF GotIp, EndRestore
    <3>2. CASE "REQUEST_RESTORE_STA" \notin mgr.seen
      <4>1. UNCHANGED <<queue, posting, events>>
        BY <2>5 DEF GotIp, driverVars
      <4> QED BY <3>2, <4>1 DEF IpAhead
    <3> QED BY <3>1, <3>2
  <2>6. CASE ~ReadIp /\ ~GotIp
    <3>1. /\ mgr.pc # "got_ip"
          /\ UNCHANGED queue \/ (queue # << >> /\ Head(queue).code # "STA_GOT_IP"
                                 /\ queue' = Tail(queue))
      BY <1>5, <2>6 DEF Manager, ScanDone, StartWifiScan, LoadAndRestoreSta, MarkRequest,
         StartAttempt, ForgetIp, AttemptFailed, UserDisconnected, ConnectionLost, StartAp,
         CheckConnected, StopAp, RestartHttp, DisconnectSta, Take
    <3>2. Among(queue, Ip) => Among(queue', Ip)
      <4>1. CASE UNCHANGED queue
        BY <4>1
      <4>2. ASSUME queue # << >>, Head(queue).code # "STA_GOT_IP", queue' = Tail(queue)
            PROVE  Among(queue, Ip) => Among(queue', Ip)
        BY <1>t, <4>2, AmongFacts
      <4> QED BY <3>1, <4>1, <4>2
    <3> QED BY <2>1, <2>3, <3>1, <3>2 DEF IpAhead
  <2> QED BY <2>4, <2>5, <2>6
<1>6. CASE UNCHANGED vars
  BY <1>6 DEF IpAhead, vars, managerVars, driverVars
<1> QED BY <1>1, <1>2, <1>3, <1>4, <1>5, <1>6 DEF Next, Step, Daemon

\* Every step.
LEMMA RestoreNext == TypeOK /\ RestoreOK /\ [Next]_vars => RestoreOK'
<1> SUFFICES ASSUME TypeOK, RestoreOK, [Next]_vars
             PROVE  RestoreOK'
  OBVIOUS
<1>1. CASE Later /\ ~PowerCycle
  <2>1. NoOrders'
    BY <1>1, NoOrdersNext DEF Later
  <2>2. "REQUEST_RESTORE_STA" \in bits' => IpAhead'
    BY <1>1, BitNotSet, IpAheadNext DEF Later
  <2> QED BY <2>1, <2>2 DEF Later, RestoreOK
<1>2. CASE PowerCycle
  BY <1>2, ResetBoots DEF RestoreOK
<1> QED BY <1>1, <1>2, BootNext, AttemptNext, FailingNext DEF RestoreOK

-----------------------------------------------------------------------------
\* What is on its way to a handler.

\* A message handled, in the queue, being posted or among the events is awaited.
LEMMA OnItsWay ==
  ASSUME TypeOK, NEW c, c # "NONE",
         \/ mgr.msg.code = c \/ Among(queue, {c})
         \/ posting["events"].code = c \/ Among(events, {c})
  PROVE  Awaited(c)
<1> SUFFICES Among(Pipeline, {c})
  BY DEF Awaited, Among
<1> DEFINE S == Event \cup Messages
<1> DEFINE p == posting["events"]
<1> DEFINE s1 == OneOrNone(mgr.msg)
<1> DEFINE s2 == s1 \o queue
<1> DEFINE s3 == OneOrNone(p)
<1> DEFINE s4 == s2 \o s3
<1>1. Pipeline = s4 \o events
  BY DEF Pipeline, Channel
<1>2. mgr.msg \in Messages \cup {NoMessage} /\ p \in Messages \cup {NoMessage}
  BY DEF TypeOK, Task
<1>3. queue \in Seq(S) /\ events \in Seq(S)
  BY DEF TypeOK
<1>4. (p.code = c => Among(s3, {c})) /\ (mgr.msg.code = c => Among(s1, {c}))
  BY <1>2, CodeFacts DEF OneOrNone, Among
<1>5. Among(s1, {c}) \/ Among(queue, {c}) \/ Among(s3, {c}) \/ Among(events, {c})
  BY <1>4
<1> HIDE DEF S, p, s1, s3
<1>6. s1 \in Seq(S) /\ s3 \in Seq(S)
  BY <1>2, LinkOneOrNone DEF S, s1, s3
<1>7. s2 \in Seq(S) /\ (Among(s1, {c}) \/ Among(queue, {c}) => Among(s2, {c}))
  BY <1>3, <1>6, AmongConcat
<1> HIDE DEF s2
<1>8. s4 \in Seq(S) /\ (Among(s2, {c}) \/ Among(s3, {c}) => Among(s4, {c}))
  BY <1>6, <1>7, AmongConcat
<1> HIDE DEF s4
<1>9. Among(s4, {c}) \/ Among(events, {c}) => Among(s4 \o events, {c})
  BY <1>3, <1>8, AmongConcat
<1> QED BY <1>1, <1>5, <1>7, <1>8, <1>9

\* In every phase the bit has its reason.
LEMMA RestoreTracks ==
  ASSUME TypeOK, PlaceOK, RestoreOK
  PROVE  RestoreBitTracksAttempt
<1> SUFFICES ASSUME "REQUEST_RESTORE_STA" \in bits
             PROVE  \/ mgr.pc = "connect" \/ sta = "connecting"
                    \/ Awaited("STA_GOT_IP") \/ Awaited("STA_DISCONNECTED")
  BY DEF RestoreBitTracksAttempt
<1>1. CASE Boot
  BY <1>1 DEF Boot, Ordered, Beginning
<1>2. CASE Attempt
  BY <1>2 DEF Attempt
<1>3. CASE Failing
  <2>1. Failure \in Messages /\ Failure.code = "STA_DISCONNECTED"
    BY MessageFacts, CodeFacts DEF Failure
  <2>2. CASE GivingUp
    BY <2>2, OnItsWay DEF GivingUp, PlaceOK
  <2>3. CASE Failed("driver") \/ Failed("queue")
    <3>1. queue = <<Failure>> \/ events = <<Failure>>
      BY <2>1, <2>3, AloneFacts DEF Failed
    <3>2. Among(queue, {"STA_DISCONNECTED"}) \/ Among(events, {"STA_DISCONNECTED"})
      BY <2>1, <3>1 DEF Among
    <3> QED BY <3>2, OnItsWay
  <2>4. CASE Failed("events")
    <3>1. posting["events"] = Failure
      BY <2>1, <2>4, AloneFacts DEF Failed, Task
    <3> QED BY <2>1, <3>1, OnItsWay
  <2> QED BY <1>3, <2>2, <2>3, <2>4 DEF Failing
<1>4. CASE Later
  <2>1. mgr.pc = "got_ip" => mgr.msg.code = "STA_GOT_IP"
    BY DEF PlaceOK
  <2> QED BY <1>4, <2>1, OnItsWay DEF Later, IpAhead
<1> QED BY <1>1, <1>2, <1>3, <1>4 DEF RestoreOK

\* The bit that stops GOT_IP from saving the configuration is there only during
\* the attempt made at startup, and until the result of that is handled.
THEOREM RestoreBitCorrect == Spec => []RestoreBitTracksAttempt
<1>1. Init => RestoreOK
  <2> SUFFICES ASSUME Init
               PROVE  Boot
    BY DEF RestoreOK
  <2>1. Still /\ sta = "idle" /\ mgr = Receive /\ bits = {}
    BY DEF Init, Still
  <2>2. Alone("manager", Load)
    BY DEF Init, BootPosting, Alone, Load
  <2> QED BY <2>1, <2>2 DEF Boot, Ordered
<1>2. TypeOK /\ RestoreOK /\ [Next]_vars => RestoreOK'
  BY RestoreNext
<1>3. TypeOK /\ PlaceOK /\ RestoreOK => RestoreBitTracksAttempt
  BY RestoreTracks
<1> QED BY <1>1, <1>2, <1>3, TypeCorrect, PlacesCorrect, PTL DEF Spec
=============================================================================
