------------------------------- MODULE Portal -------------------------------
(***************************************************************************)
(* The portal from end to end: the page in the user's browser (code.js),   *)
(* which posts a network and then polls the status; the web server's task, *)
(* which serves one request at a time; the manager, which turns the news   *)
(* of the station into the status text; and the mutex over the two texts   *)
(* (status.json and ap.json) that the server sends while the manager       *)
(* prints them.                                                            *)
(*                                                                         *)
(* WifiManager has the manager in detail.  Here its handlers are one step  *)
(* each, the event loop brings news at once, and the access point stays    *)
(* up; in exchange a status names its network, and requests and answers    *)
(* take their time: a status fetched before a request to connect may be    *)
(* answered behind it.  One page is open, without its disconnect button.   *)
(*                                                                         *)
(* A definition called like another with Missing, Unchecked, Early or      *)
(* Impatient added is that one with a plausible bug.                       *)
(***************************************************************************)
EXTENDS Naturals, Sequences, FiniteSets

CONSTANTS Network,      \* the networks a user may enter, by their ssid
          NoNetwork,    \* the zeroed configuration
          QueueLength,  \* slots of wifi_manager_queue
          CheckBound    \* bound: status requests under way at a time

ASSUME NetworkAssumption == NoNetwork \notin Network
ASSUME BoundAssumption   == QueueLength \in Nat \ {0} /\ CheckBound \in Nat \ {0}

VARIABLES selected,   \* code.js: selectedSSID
          shown,      \* what the page shows, of the screens of a connection
          posting,    \* where the page's POST is
          polling,    \* checkStatusInterval runs
          asked,      \* status requests that have no answer yet
          answers,    \* status texts on their way to the page
          http,       \* where the web server's task is
          json,       \* the task that holds wifi_manager_json_mutex
          list,       \* accessp_json is whole, or half printed
          config,     \* wifi_manager_config_sta
          saved,      \* the configuration in the flash
          status,     \* ip_info_json: the network and the reason it names
          requested,  \* WIFI_MANAGER_REQUEST_STA_CONNECT_BIT
          queue,      \* wifi_manager_queue
          retryTimer, \* wifi_manager_retry_timer is running
          sta,        \* external: the station, and the network it is about
          met,        \* history: what the last POST met, see Meets
          refused,    \* history: the page's last POST was answered with 400
          early,      \* history: a status was asked for before the page's request
          happened,   \* history: outcomes for selected since its POST
          reached     \* history: the network that a GOT_IP in the queue is about

pageVars  == <<selected, shown, posting, polling, asked, answers>>
histVars  == <<met, refused, early, happened, reached>>
storeVars == <<config, saved>>
mgrVars   == <<requested, retryTimer>>
vars == <<pageVars, http, json, list, storeVars, status, mgrVars, queue, sta, histVars>>

Known   == Network \cup {NoNetwork}
Reasons == {"CONNECTION_OK", "FAILED_ATTEMPT", "LOST_CONNECTION"}
Empty   == [ssid |-> NoNetwork, urc |-> "none"]
Status  == [ssid : Known, urc : Reasons] \cup {Empty}
Station == {[state |-> "idle", net |-> NoNetwork]}
             \cup [state : {"connecting", "connected"}, net : Network]

TypeOK ==
  /\ selected \in Known
  /\ shown \in {"list", "wait", "success", "fail"}
  /\ posting \in {"no", "sent", "taken"}
  /\ polling \in BOOLEAN
  /\ asked \in 0..CheckBound
  /\ answers \subseteq Status
  /\ asked + Cardinality(answers) <= CheckBound
  /\ http \in {"idle", "overwritten", "cleared", "status", "unwanted", "list", "scan"}
  /\ json \in {"nobody", "http", "manager"}
  /\ list \in {"whole", "torn"}
  /\ config \in Known /\ saved \in Known
  /\ status \in Status
  /\ requested \in BOOLEAN
  /\ queue \in Seq({"user", "auto", "GOT_IP", "DISCONNECTED"}) /\ Len(queue) <= QueueLength
  /\ retryTimer \in BOOLEAN
  /\ sta \in Station
  /\ met \in {"rest", "order", "attempt"}
  /\ refused \in BOOLEAN
  /\ early \in BOOLEAN
  /\ happened \subseteq {"ok", "fail"}
  /\ reached \in Known

\* The page has just been loaded.  A device with a configuration is about to
\* restore it.
Init ==
  /\ selected = NoNetwork /\ shown = "list" /\ posting = "no"
  /\ polling = TRUE /\ asked = 0 /\ answers = {}
  /\ http = "idle" /\ json = "nobody"
  /\ list = "whole"
  /\ config \in Known /\ saved = config
  /\ queue = IF config = NoNetwork THEN << >> ELSE <<"auto">>
  /\ status = Empty
  /\ requested = FALSE /\ retryTimer = FALSE
  /\ sta = [state |-> "idle", net |-> NoNetwork]
  /\ met = "rest" /\ refused = FALSE /\ early = FALSE /\ happened = {}
  /\ reached = NoNetwork

-----------------------------------------------------------------------------
\* The page.

\* performConnect: polling stops, and the wait screen is shown until a status
\* about this network unlocks it.
Join(n) ==
  /\ shown # "wait" /\ posting = "no"
  /\ selected' = n
  /\ shown' = "wait"
  /\ posting' = "sent"
  /\ polling' = FALSE
  /\ early' = (asked > 0 \/ answers # {})
  /\ refused' = FALSE /\ happened' = {}
  /\ UNCHANGED <<asked, answers, http, json, list, storeVars, status, mgrVars, queue,
                 sta, met, reached>>

\* The POST gets no answer: fetch throws, and performConnect ends there.
PostLost ==
  /\ posting # "no"
  /\ posting' = "no"
  /\ UNCHANGED <<selected, shown, polling, asked, answers, http, json, list, storeVars,
                 status, mgrVars, queue, sta, histVars>>

\* The user loads the page again; nobody waits for old answers then.
Reload ==
  /\ shown = "wait"
  /\ selected' = NoNetwork /\ shown' = "list" /\ posting' = "no"
  /\ polling' = TRUE /\ asked' = 0 /\ answers' = {}
  /\ http' = IF http = "status" THEN "unwanted" ELSE http
  /\ refused' = FALSE /\ early' = FALSE /\ happened' = {}
  /\ UNCHANGED <<json, list, storeVars, status, mgrVars, queue, sta, met, reached>>

\* checkStatus, started every 950 ms whether or not the last one has ended ...
Check ==
  /\ polling
  /\ asked + Cardinality(answers) < CheckBound
  /\ asked' = asked + 1
  /\ UNCHANGED <<selected, shown, posting, polling, answers, http, json, list, storeVars,
                 status, mgrVars, queue, sta, histVars>>

Verdict(urc) == CASE urc = "CONNECTION_OK"  -> "success"
                  [] urc = "FAILED_ATTEMPT" -> "fail"
                  [] OTHER                  -> shown

\* ... and its end: only a status about the selected network counts, and only
\* on the screens of a connection can it be seen.
CheckStatus(a) ==
  /\ answers' = answers \ {a}
  /\ shown' = IF a.ssid = selected /\ a.ssid # NoNetwork /\ shown # "list"
              THEN Verdict(a.urc) ELSE shown
  /\ UNCHANGED <<selected, posting, polling, asked, http, json, list, storeVars, status,
                 mgrVars, queue, sta, histVars>>

-----------------------------------------------------------------------------
\* The web server.

JsonFreeUnchecked == TRUE
JsonFree == json = "nobody"

Queued(m) == \E i \in DOMAIN queue : queue[i] = m

OutcomePending == Queued("GOT_IP") \/ Queued("DISCONNECTED")
OrderPending   == Queued("user") \/ Queued("auto") \/ retryTimer

\* What a POST meets when it overwrites the configuration: an attempt or a
\* connection, or the news of it; an order to connect or a retry that is about to
\* begin and will use the new one; or a device at rest.
Meets == IF sta.state # "idle" \/ OutcomePending THEN "attempt"
         ELSE IF OrderPending THEN "order" ELSE "rest"

\* POST connect.json: the configuration is overwritten, ...
TakePost ==
  /\ http = "idle" /\ posting = "sent"
  /\ posting' = "taken"
  /\ http' = "overwritten"
  /\ config' = selected
  /\ met' = Meets
  /\ UNCHANGED <<selected, shown, polling, asked, answers, json, list, saved, status,
                 mgrVars, queue, sta, refused, early, happened, reached>>

\* ... unless the ssid or the password is empty (an open network's is) or too long:
\* then nothing is changed or ordered, and the page, which does not look at the
\* answer, polls like after any other.
RefusePost ==
  /\ http = "idle" /\ posting = "sent"
  /\ posting' = "no" /\ polling' = TRUE
  /\ refused' = TRUE
  /\ UNCHANGED <<selected, shown, asked, answers, http, json, list, storeVars, status,
                 mgrVars, queue, sta, met, early, happened, reached>>

FlushMissing == UNCHANGED status
Flush == status' = Empty

\* ... wifi_manager_connect_async clears the status, ...
ClearStatus ==
  /\ http = "overwritten" /\ JsonFree
  /\ http' = "cleared"
  /\ Flush
  /\ UNCHANGED <<pageVars, json, list, storeVars, mgrVars, queue, sta, histVars>>

HasRoomUnchecked == TRUE
HasRoom == Len(queue) < QueueLength

\* ... and posts the order; the page has its answer, and polls again.
PostOrder ==
  /\ http = "cleared" /\ HasRoom
  /\ http' = "idle"
  /\ queue' = Append(queue, "user")
  /\ polling' = (polling \/ posting = "taken")
  /\ posting' = IF posting = "taken" THEN "no" ELSE posting
  /\ UNCHANGED <<selected, shown, asked, answers, json, list, storeVars, status, mgrVars,
                 sta, histVars>>

\* GET status.json: sent while the server holds the mutex, ...
TakeCheck ==
  /\ http = "idle" /\ asked > 0 /\ JsonFree
  /\ http' = "status" /\ json' = "http"
  /\ UNCHANGED <<pageVars, list, storeVars, status, mgrVars, queue, sta, histVars>>

\* ... or refused when the mutex is not free in time.
RefuseCheck ==
  /\ http = "idle" /\ asked > 0 /\ json # "nobody"
  /\ asked' = asked - 1
  /\ UNCHANGED <<selected, shown, posting, polling, answers, http, json, list, storeVars,
                 status, mgrVars, queue, sta, histVars>>

AnswerCheck ==
  /\ http \in {"status", "unwanted"}
  /\ http' = "idle" /\ json' = "nobody"
  /\ IF http = "status" THEN asked' = asked - 1 /\ answers' = answers \cup {status}
                        ELSE UNCHANGED <<asked, answers>>
  /\ UNCHANGED <<selected, shown, posting, polling, list, storeVars, status,
                 mgrVars, queue, sta, histVars>>

\* GET ap.json, at any time.
TakeList ==
  /\ http = "idle" /\ JsonFree
  /\ http' = "list" /\ json' = "http"
  /\ UNCHANGED <<pageVars, list, storeVars, status, mgrVars, queue, sta, histVars>>

AnswerList ==
  /\ http = "list"
  /\ http' = "scan" /\ json' = "nobody"
  /\ UNCHANGED <<pageVars, list, storeVars, status, mgrVars, queue, sta, histVars>>

\* ... and a scan is ordered, when there is room for it.  The manager starts it
\* whatever else it does, so the order does not stay in the queue here.
OrderScan ==
  /\ http = "scan" /\ HasRoom
  /\ http' = "idle"
  /\ UNCHANGED <<pageVars, json, list, storeVars, status, mgrVars, queue, sta, histVars>>

-----------------------------------------------------------------------------
\* The manager, which is printing the list while it holds the mutex.

TakeMessage(messages) ==
  /\ json # "manager"
  /\ queue # << >> /\ Head(queue) \in messages
  /\ queue' = Tail(queue)

\* CONNECT_STA: a connected station is left alone, one that is connecting goes
\* on with the network it has.
Attempt == sta' = IF sta.state = "idle" /\ config # NoNetwork
                  THEN [state |-> "connecting", net |-> config] ELSE sta

ConnectStaEarly ==
  /\ TakeMessage({"user", "auto"})
  /\ requested' = (requested \/ Head(queue) = "user")
  /\ Attempt
  /\ saved' = config
  /\ UNCHANGED <<pageVars, http, json, list, config, status, retryTimer, histVars>>

ConnectSta ==
  /\ TakeMessage({"user", "auto"})
  /\ requested' = (requested \/ Head(queue) = "user")
  /\ Attempt
  /\ UNCHANGED <<pageVars, http, json, list, storeVars, status, retryTimer, histVars>>

\* wifi_manager_generate_ip_info_json, with the network of that moment.
GenerateImpatient(urc) == status' = IF JsonFree THEN [ssid |-> config, urc |-> urc] ELSE status
Generate(urc) == JsonFree /\ status' = [ssid |-> config, urc |-> urc]

StaDisconnected ==
  /\ TakeMessage({"DISCONNECTED"})
  /\ \/ /\ requested
        /\ requested' = FALSE
        /\ Generate("FAILED_ATTEMPT")
        /\ UNCHANGED retryTimer
     \/ /\ ~requested
        /\ Generate("LOST_CONNECTION")
        /\ retryTimer' = TRUE
        /\ UNCHANGED requested
  /\ UNCHANGED <<pageVars, http, json, list, storeVars, sta, histVars>>

\* The save may fail, and is left out after a restore.
StaGotIp ==
  /\ TakeMessage({"GOT_IP"})
  /\ requested' = FALSE
  /\ saved' \in {saved, config}
  /\ Generate("CONNECTION_OK")
  /\ reached' = IF OutcomePending' THEN reached ELSE NoNetwork
  /\ UNCHANGED <<pageVars, http, json, list, config, retryTimer, sta, met, refused, early,
                 happened>>

\* SCAN_DONE: the list is sorted out and printed under the mutex.
StartList ==
  /\ json # "manager" /\ JsonFree
  /\ json' = "manager" /\ list' = "torn"
  /\ UNCHANGED <<pageVars, http, storeVars, status, mgrVars, queue, sta, histVars>>

EndList ==
  /\ json = "manager"
  /\ json' = "nobody" /\ list' = "whole"
  /\ UNCHANGED <<pageVars, http, storeVars, status, mgrVars, queue, sta, histVars>>

RetryTimerFires ==
  /\ retryTimer /\ HasRoom
  /\ retryTimer' = FALSE
  /\ queue' = Append(queue, "auto")
  /\ UNCHANGED <<pageVars, http, json, list, storeVars, status, requested, sta, histVars>>

-----------------------------------------------------------------------------
\* The station, with its news brought to the manager.

Outcome(from, to, message, outcome) ==
  /\ sta.state = from
  /\ HasRoom
  /\ sta' = IF to = "idle" THEN [state |-> "idle", net |-> NoNetwork]
                           ELSE [sta EXCEPT !.state = to]
  /\ queue' = Append(queue, message)
  /\ happened' = IF sta.net = selected THEN happened \cup {outcome} ELSE happened
  /\ reached' = IF to = "connected" THEN sta.net ELSE reached
  /\ UNCHANGED <<pageVars, http, json, list, storeVars, status, mgrVars, met, refused,
                 early>>

AttemptEnds == \/ Outcome("connecting", "connected", "GOT_IP", "ok")
               \/ Outcome("connecting", "idle", "DISCONNECTED", "fail")
LinkLost == Outcome("connected", "idle", "DISCONNECTED", "fail")

-----------------------------------------------------------------------------
Manager == ConnectSta \/ StaDisconnected \/ StaGotIp
Serve   == TakePost \/ RefusePost \/ ClearStatus \/ PostOrder \/ OrderScan
Answer  == AnswerCheck \/ AnswerList

Next ==
  \/ \E n \in Network : Join(n)
  \/ PostLost \/ Reload
  \/ Check \/ \E a \in answers : CheckStatus(a)
  \/ Serve \/ TakeCheck \/ RefuseCheck \/ TakeList \/ Answer
  \/ Manager \/ StartList \/ EndList \/ RetryTimerFires
  \/ AttemptEnds \/ LinkLost

Spec == Init /\ [][Next]_vars

\* The tasks run, and one that waits for the mutex or the queue gets it in the
\* end; the browser polls and receives what was sent; and an idle server that
\* finds status requests again and again does not refuse them all.  An attempt need
\* not end: a station that nobody gives an address to has no news.
Fairness ==
  /\ SF_vars(Manager) /\ SF_vars(Serve)
  /\ WF_vars(Answer) /\ WF_vars(EndList)
  /\ WF_vars(Check) /\ WF_vars(\E a \in answers : CheckStatus(a))
  /\ <>[](http # "idle" \/ asked = 0) \/ []<><<TakeCheck>>_vars

FairSpec == Spec /\ Fairness

-----------------------------------------------------------------------------
\* Properties.

\* "In order to avoid a false positive on the front end app": the page says that
\* a connection came about, or failed, only if that happened since its request,
\* and with this network.  It may be wrong when the request met an attempt, its
\* news, or a status request, under way, or was refused, which leaves the status
\* as it is: another request's outcome is then taken for its own.
PageHonest ==
  met # "attempt" /\ ~refused /\ ~early =>
    /\ shown = "success" => "ok" \in happened
    /\ shown = "fail" => "fail" \in happened

\* "Make sure the http server isn't trying to access the list while it gets
\* refreshed."
ServedWhole == http = "list" => list = "whole"

\* What is saved for the next start is a network that has been seen to work,
\* unless a request overwrote the configuration under an attempt.
SavesWhatWorked == [][saved' # saved /\ met # "attempt" => saved' = reached]_vars

\* A request that met a device at rest, and was not refused, gets its verdict: the
\* wait screen ends, unless the connection was made and lost again meanwhile, or
\* the attempt has no end.
PageUnlocks ==
  \/ [](shown = "wait" /\ posting = "no" /\ met = "rest" /\ ~refused /\ polling
          => <>(shown # "wait" \/ status.urc = "LOST_CONNECTION"))
  \/ <>[](sta.state = "connecting")
=============================================================================
