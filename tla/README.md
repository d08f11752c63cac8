# Verification of the clock's central unit

The central unit is an ESP32-C3 that takes the time from SNTP and commands from
MQTT over Wi-Fi and passes both on to two clocks over two UARTs. This directory
holds TLA+ models of it, TLC runs over small instances, and TLAPS proofs.
Sources are named relative to the repository; `wm/` stands for
`managed_components/jackhuang021__esp32-wifi-manager/src/`.

## The system

| Component | State | Operations | Properties that make it correct |
|---|---|---|---|
| Manager task (`wm/wifi_manager.c` 938-1418) | queue of three messages, event bits, retries, RAM configuration, address, status text | one handler per message | what it believes of the link follows the driver; an offline device has a way back; it never blocks for good |
| Event handler (575-783) | the event bits | one driver event at a time: sets bits, posts a message | the bits follow the driver |
| Timers (140-160) and their daemon | two one-shot timers, a queue of commands | carry out starts and stops; post CONNECT_STA, STOP_AP | retries never end while offline; the access point goes down, but never offline; no command is refused |
| Web server (`wm/http_app.c`) | a request in a handler, the mutex over the two texts | POST, DELETE, the GETs of list and status; stopped and restarted by the manager | a request is posted, or the server is being restarted; no text is sent half printed |
| Portal page (`wm/code.js`) | selected network, screen, polling, requests under way | join a network, poll the status, show its verdict, read the list | a verdict is about the page's own request, and comes in the end, where the device gives one |
| Saved configuration (`wifi_manager.c` 216-411, `wm/nvs_sync.c`) | RAM copy, three blobs in flash, a mutex | save, fetch, POST's overwrite | a clean save leaves it whole; the mutex comes back |
| DNS server (`wm/dns_server.c`) | a task, a query | start, stop, reply | runs only with an access point; a plain query learns the address |
| UART reception (`main/uart/UartEvent.cxx`, `PacketProcessor.cxx`) | a stream, a buffer and two positions | an event's bytes; one round of the packet task | no byte lost, moved or repeated; it finds the next packet again |
| Time source (`main/time/TimeSource.hpp`) | two flags, a notification | SNTP's answer, a request, the second's round, a countdown command | a request is answered; a countdown shifts the second |
| MQTT client (`main/mqtt/MqttClient.cxx`) | none of its own | data to both streams, countdown commands | starts once online |
| UART transmission (`main/uart/UartTx.hpp`) | two streams | sends what a stream holds | makes room |
| Status LED (`main/StatusLed.hpp`), callbacks (`main/Application.cxx`) | three event bits | set, clear, consume | the LED follows the manager, and takes nobody's bit |
| Access point list, JSON (`wifi_manager.c` 465-494, 841-901, `wm/json.c`) | an array, a text | sort out, print, read | the page shows every network once, under its name |

Interaction: the driver's events reach the event handler in the event loop's task;
that one, the web server, the timers and the manager itself post to the manager's
queue, always with `portMAX_DELAY`. Manager and callbacks start and stop the timers
by commands to the timer daemon, which are carried out when that, with a lower
priority, comes to run. The manager stops the web server by joining its task. The
manager prints the list and the status under a mutex that the web server holds while
it sends them; each side gives up, or tries again, when the mutex is not free in
time. The page polls the status every 950 ms, stops while it posts a request, and
takes the first status that names its network for its verdict. The manager's
callbacks set and clear the bits of `syncEventGroup`, on which TimeSource and the
MQTT client wait and which the LED consumes. A clock's request goes from UartEvent
through a stream to PacketProcessor, which sets a flag of TimeSource; TimeSource and
the MQTT client fill the two streams that UartTx empties.

What is hard here: five tasks post to one queue with no timeout, and the one
that empties it is among them; bits are changed in one task and the news of the
change handled in another, later; so is a timer that was ordered to start, and one is
only ordered to stop if it is seen to run; handlers read the bits once and act on the
copy; request bits are set by one message and cleared by another that may never
come; a save is several writes with an error return after each; a status fetched, or
news handled, behind a request may be about the attempt before; the flags of
TimeSource are shared without a lock; and bytes come in pieces of any length.
The full list, line by line, is `hazards` in PROJECT.json.

## Modules

**WifiManager.tla** (with MCWifiManager and WifiManagerProofs). The manager, the
event loop, the web server and the timer daemon are four tasks; each has a slot in
`posting` for the message it is trying to post, and does nothing else until
`Deliver` finds room in `queue`. `Order` is xTimerStart or xTimerStop: a command in
`commands`, or nothing when that is full; `RunCommand` is the daemon, and a timer
runs from then on. `CancelShutdown` orders a stop only of a timer that runs, as the
code does. There is an action for every message of the manager's switch. Those that
read the event bits once and use the copy later are two actions
(`MarkRequest`/`StartAttempt`, `ForgetIp`/its three cases,
`CheckConnected`/`StopAp`, `ReadIp`/`GotIp`); `mgr` holds where the task is and the
copy. (`StopAp` ends access point and DNS in one step: between the two calls,
wifi_manager.c:1313 and 1316, the DNS task has nobody to answer.) `HandleEvent` is the event handler, `RequestConnect`, `RequestDisconnect` and
`RequestScan` the web server's handlers, `RestartHttp` http_app_stop and
http_app_start, `PowerCycle` a reset, which may come at any moment and leaves only
`nvs`. The driver is external: a station (idle, connecting, connected), a mode, a
scan, and `events` for the event loop. A disconnect of an idle station brings no
event; a scan is refused while the station connects; an attempt may have no end;
`esp_wifi_set_config` while an attempt is in progress may abort the program
(ESP_ERROR_CHECK), which is a PowerCycle. A fetch that fails for another reason than
a missing configuration is left out.

`Pipeline` is all news on its way to the manager. **LinkNews.tla** says what
event loop, queue and handlers promise together: every change of the link is
told once, in order; `LinkNewsDelivered` is the refinement
(`link` is the station's, `news` the link's messages of the Pipeline, `belief`
the address). WayBackProofs holds the two longest arguments.

**Portal.tla** (with PortalProofs). The same manager from the other side: a page,
the web server's task, the manager, the station, the mutex and the queue, with
statuses that name their network. Each of the manager's handlers is one step and
its event loop has no delay, since WifiManager has these in detail; what takes
time here is what goes between page and server. `Join` is performConnect,
`TakePost`, `ClearStatus`, `PostOrder` the POST handler up to its answer (it
waits for the mutex and for the queue), `TakeCheck`, `AnswerCheck`,
`RefuseCheck` and `TakeList`, `AnswerList`, `OrderScan` the two GETs, `StartList`
and `EndList` the manager's SCAN_DONE. `RefusePost` is the answer 400, to an ssid or a
password that is empty or too long: which one the user enters is not in the model, so any
POST may be refused. `PostLost` is a POST without an answer: the
page then never polls again (code.js:218), and only a `Reload` helps. Five
variables are history, for the properties.

**AccessPoints.tla** and **DnsServer.tla** (checked through MCPortal) are functions of
their input, translated loop by loop: filter_unique, the list's text,
json_print_string and the page's reading of list and names (the browser's UTF-8
decoder, byte by byte, and behind it its JSON reader); the reply that the DNS task
makes of a query in place, and what a resolver reads in that. A loop is a recursive
function of the number of rounds, so that **InputProofs.tla** can prove about it.
**Recursion.tla** models nothing: it is what such proofs rest on.

**PacketProcessor.tla** (with MCPacketProcessor and PacketProcessorProofs). A
byte is a number and each field of the header one byte, without its status,
which nobody reads. `UartData(n)` is an UART event with n bytes, `UartFlush` the
two events that throw the input away, `Extract` one round of the packet task
(rewind, receive, shift, scan, packet) through the operators named after these
steps, and `Discard` the round with a full buffer, which asks for no byte, gets
none, and resets the stream. The packet task touches shared state once, first,
so a round is one action. The bytes of `sent` and `processed` are history.
Topics and payloads do not hold the magic. A stream's send waits for room (its
wrapper is in a submodule that is not in the repository).

**Application.tla** (with ApplicationProofs). `group` is syncEventGroup; each
callback is two steps; `time` and `mqtt` are where those tasks are; a wait may
time out at any moment; a stream holds whole packets. The chip has one core and
the LED the lowest priority, so the LED first runs when the other two tasks
have reached their waits: `LedMayRun`. Setting a bit releases the tasks that
wait for it in the same step, as FreeRTOS does.

**NvsConfig.tla** (with MCNvsConfig and NvsConfigProofs). The save and the fetch
of the configuration blob by blob, the mutex, every error return, the POST
handler that overwrites the configuration meanwhile, and resets. It details
what WifiManager has as one choice (`nvs' \in {config, nvs}`). **ConfigStore.tla**
is what the blobs, the mutex and the error returns promise together, which is
little: the fields in the flash change only during a save, each once at most, the
ssid first, to what the RAM then holds; and a boot loads both, the ssid alone, or
none. `KeepsConfigStore` is the refinement, which StoreRefined proves.

Definitions with a suffix such as `Missing`, `Unchecked` or `OffByOne` are
mutants: what their neighbour would be with a plausible mistake. PROJECT.json
names for each property one that breaks it.

## Runs

| Run | Question | Result |
|---|---|---|
| wifi_manager | do bits, belief, status, restore bit, DNS and access point follow the driver through every interleaving, and is the manager told all news of the link? | holds, 1,352,558 states |
| wifi_manager_recovery | with disconnects and scans: is there always a way back; does the device reach its access point, go on trying, end its scans, and close the access point again? | holds, 431,081 states |
| wifi_manager_stranded | the same way back, with connect requests | **violated** |
| wifi_manager_self_post | does every post of the manager end? | **violated** |
| wifi_manager_stale_bit | is a settled online device free of an old disconnect request? | **violated** |
| portal | is the page's verdict true and does it come, is the list whole, is what is saved what worked; and for all short inputs: does the list show every network, do names come through, are plain DNS queries answered? | holds, 905,718 states |
| packet_processor | is every byte accounted for, and a whole packet found? | holds, 11,000 states |
| packet_processor_shift | does the shift make room? | **violated** |
| application | do the LED, the tasks' start and the requests work? | holds, 101,846 states |
| application_countdown | does a countdown's notification make the second start over? | **violated** |
| nvs_config | is a clean save whole, the mutex held only in a save, and the flash a ConfigStore? | holds, 9,389 states |
| nvs_config_lock | does the next save get the mutex? | **violated** |

The violations, each a finding in PROJECT.json:
- *Stranded device.* CONNECT_STA sets REQUEST_STA_CONNECT_BIT before it looks
  whether the station is connected. If it is, the bit stays, and the next loss
  of the link is handled as a user's failed attempt: no retry timer, no access
  point.
- *Manager waiting for itself.* It posts START_AP to its own queue without a
  timeout; when the other tasks have filled the three slots nobody empties them.
- *Stale disconnect.* DISCONNECT_STA of an idle station sets its bit and no event
  clears it; a link lost later erases the configuration.
- *Shift.* `bufferLastPosition -= bufferStartPosition` comes after
  `bufferStartPosition = 0`, so the full buffer stays full.
- *Countdown.* The flag is set, then the task notified; a round that timed out
  in between consumes the flag, and the notification ends its next wait at once.
- *Mutex.* A failed commit returns without `nvs_sync_unlock`.

What the passing properties leave out is as telling as what they say:
- *EventuallyReachable*, *ScanEnds* and *PageUnlocks* except an attempt without an end
  (`Stuck`). A station that associates and is given no address raises neither event
  (wifi_manager.c:628, 747), and nothing in the code times it out: no retry, no access
  point and no verdict follow. KeepsTrying holds as it stands, since such a station is
  not idle.
- *The shutdown timer* may run offline. wifi_manager.c:1191-1192 says that it is time to
  cancel it when the link is lost, but a start that is still a command then is not seen
  (1194), not stopped, and carried out afterwards. What holds is that its STOP_AP takes
  no access point down from an offline device (ApStopsOnlyOnline), and that the starts and
  stops of earlier connections do not undo the start of one that lasts (ApCloses). A
  timer of an earlier connection may close the access point early on a later one.
- *PageHonest* and *PageUnlocks* except a refused POST. The server answers 400
  (http_app.c:188) to the empty password of an open network; nothing is ordered and the
  status is not flushed, but the page polls all the same (code.js:228), for ever or
  until an earlier request's outcome for that network passes for its own.
- *PageHonest* excepts requests that met an attempt, its news or a status request
  under way. wifi_manager.c:792-795 clears the status "to avoid a false positive
  on the front end app" and code.js:191-193 stops polling for the same reason;
  neither recalls what is on its way already, so an older outcome for the same
  network is then taken for the new one.
- *PageUnlocks* is about requests that met a device at rest. A request that finds
  the station connected starts no attempt (wifi_manager.c:1119), so no verdict
  comes. A status LOST_CONNECTION has no case on the wait screen
  (code.js:282-325), so the outcome seen must be the attempt's own.
- *SavesWhatWorked* excepts requests that met an attempt: GOT_IP saves the
  configuration of that moment (wifi_manager.c:1347), which they overwrote.
- *ScanEnds* excepts a scan refused by an attempt that then succeeds.
- *NamesComeThrough* speaks of what the browser makes of the bytes: names that are not
  UTF-8 are shown with U+FFFD, since res.json() decodes the list (code.js:248), and two
  of them may look the same. In Portal a network is a model value: that the page posts
  its name in a header, where a character beyond Latin-1 makes fetch throw and one
  within it is a byte and not UTF-8, is left out.
- *ListShowsNetworks*: without an access point the text is "[", which does not
  parse; the page then keeps its list, so it does no harm.
- *AnswersPlainQueries*: with a second question, another type or an EDNS record
  the reply is not one that the resolver can use. A query longer than the buffer
  is cut by recvfrom and answered, although dns_server.c:125 says "we simply
  ignore it"; such queries are left out.

Bounds. One network is enough for WifiManager, since a configuration is only
compared with none; NvsConfig takes three so that flash, RAM and request may all
differ, and Portal two, so that a status may be about another network. One slot in
the manager's queue makes every task wait for every other, and one retry lets the
counter reach and pass its threshold; the violation runs use the code's three slots
and the daemon's ten. A second slot, in either queue, was checked for the run
wifi_manager as well (7,899,608 states; 5,726,410 for the daemon's); it takes too
long to be a run. There the daemon's queue has one slot, so that commands are
refused; in wifi_manager_recovery it has six, with which none ever is (CommandsFit),
as with the device's ten: a device whose queue refused the start of
the retry timer would have no way back. One waiting driver event of the world's own
(`EventBound`) beside those the calls cause lets news overtake each other; the
proofs need no such bound. Connect and disconnect requests together are beyond TLC
(more than 15 million states); the proofs of safety cover any set of requests.
Portal's queue has one slot, so that every poster waits, and one status request is
under way at a time (`CheckBound`); a second one, which the browser may start after
950 ms, is covered by the proofs. The lists have up to four records of two names,
two authmodes and two signals (a pair of twins, a hidden network and another in any
order), the names up to two of 35 codes (each escape and its neighbours, the bounds
of the bytes that begin and continue a character) and up to four of 6, for
characters of four bytes that are whole or break off; the queries one or two
different questions and up to one added record of 5, 17, 62 or 67 octets, so that
one, two or three entries fill the buffer but for an octet; these are evaluated
once, in the initial state, and InputProofs has no bound. The buffer of 11 bytes
takes three packets of 4 and 5 bytes to overrun, and the stream of 8 holds more than
the buffer has room for. Two failing flash calls give a failed save after a torn
one. Streams of two packets hold the packets of two writers, and a third waits.

Fairness. WifiManager: the scheduler runs the manager, the event loop, each post
that has room, and the timer daemon, and the driver ends every scan; it need not end
an attempt. The event loop and the timer daemon, when they wait for a slot that
comes and goes, get one in the end (SF): a waiting task is woken by priority and
then in order, the event loop is above the web server, and users do not keep the
queue full for ever. The manager and the web server are not granted that (WF).
Nothing is assumed of users or of the network. FairSpec has no resets: a device
after its last one is in an initial state. `GoesOn` says that the manager does not
wait for good, which wifi_manager_self_post shows it may: a device that waits for
itself may really stop, so wifi_manager_recovery checks no deadlock. Portal: the
manager and the server, which wait for a mutex and a queue that others take and give
back, get them in the end (SF); answers, polls and the printing of a list end (WF),
an attempt need not. An idle server that finds status requests again and again does
not refuse all of them: each waits ten ticks for a mutex that is held for the
printing of a list. Nothing is assumed of what the user does, nor that a POST is
answered. Application: every task and the second half of a callback go on, UartTx
empties its streams; nothing is assumed of SNTP, MQTT or the clocks. RequestAnswered
speaks of runs in which MQTT data stop at last, since each writer of a stream could
otherwise always find it filled by the other. It does not count a request that comes
while a time packet is being written: TimeSource.hpp:132 drops it, though a packet
is on its way. NvsConfig: the manager goes on when the mutex lets it.

## Proofs

All proofs are for every value of the constants, under the named assumptions
in the modules (a non-empty queue, a value for "no network" that is none, a
buffer larger than a header, and so on).

- **WifiManagerProofs.** TypeOK is inductive once a handler's copy of the bits is
  bounded. BitsFollowDriver is inductive: each action appends to `events` what it
  did to `sta` or `mode`, and HandleEvent turns the oldest into a bit.
  BeliefFollowsDriver is not: a step of HandleEvent moves a message from the events
  to the queue and the bit at once. It is composed of BitsFollowDriver and
  BeliefFollowsBit (the address follows CONNECTED_BIT through handler, queue and
  post), by lemmas on what the newest of several messages says (AfterAppend,
  AfterTail and their like). StatusHonest follows from the belief and BeliefGuards,
  which relates status and address. DnsNeedsAp needs that a START_AP is followed by
  its restart of the web server (DnsOK). ApStopsOnlyOnline needs StopOK: a handler
  that has seen CONNECTED_BIT either is still online or has the loss ahead of it;
  this is where the copy of the bits might have been stale. NewsDelivered is the
  refinement of LinkNews. The news in messages behind one another are behind one
  another (NewsConcat, by induction), so that what the event loop takes, waits to
  post and posts stays in its place, and a step that moves it is a stutter. A driver
  event appends the news of what it did to `sta` (NewsAppend), the manager's two
  handlers of such news take the oldest and set the address to it (NewsTail), and
  nobody else touches either (LinkNext has a step for each action).
- **WayBackProofs.** AlwaysAWayBack, for portals whose user asks for no connection
  (with such requests it fails, see above). It is far from inductive. What is to
  happen next to the link is a *turn*: it is in one place at most (`TurnOK`), handed
  on from the order to load the configuration to the order to connect, to the
  station, to the news of its end, to the command that starts the retry timer, to
  that timer and to the order again, and it ends only where an access point is ahead
  (`WayBackOK`). Settled and offline, the turn can only be in the retry timer, or is
  gone. This needs that the command is not refused, hence `TimerQueueLength >= 6`,
  and that nothing stops the timer it starts. Both come from `CommandsAhead`: the
  commands that wait, with those that the shutdown timer and the news of the link
  will bring (`Debt`), are few, and the fewer the less the turn has come on since
  the retry timer had it (`Allowance`), because the daemon carries out the start of
  the retry timer after the commands before it, and behind it stand at most two
  stops of the other timer (`RetryLast`, `RetryNear`). CommandsFit is the bound
  itself.
- **WayBackProofs**, second part. RestoreBitTracksAttempt. The startup is followed
  through four phases: the order to load becomes the order to connect (`Boot`), the
  attempt, its failure on its way (`Failing`), and all that comes later. In all but
  the last one message is all there is in the whole device, since there is no access
  point yet, and so no user; later, the bit is set only while the address that
  clears it is on its way.
- **PortalProofs.** TypeOK, ServedWhole, PageHonest and SavesWhatWorked from one
  inductive invariant: who holds the mutex (LockInv), where the page is (PageInv),
  that station and news are about the configuration unless a request overwrote it
  (StoreInv), that news and status are about the request in force (NewsInv), and
  so is what the page was told (AnswerInv). Types counts a status request until
  its answer arrives.
- **PacketProcessorProofs.** TypeOK, with a well-formed buffer as the invariant that
  the steps of a round pass on; WholePacketIsProcessed, which follows through
  receive, shift and scan from a drained buffer; and Conservation: the places in
  the input of the bytes in buffer and stream (`Placed`) and those of the packets
  handed on (`Marks`) keep their order, and each step moves them.
- **ApplicationProofs.** TypeOK; LedHasNews, from an invariant that says what
  holds in the middle of a callback.
- **NvsConfigProofs.** TypeOK; LockHeldInSave, with what a leaked mutex excludes;
  SaveStoresConfig, from an invariant that says at each place of the save which
  fields are already stored; and StoreRefined, that each step is a step of
  ConfigStore or leaves its store alone.
- **Recursion.** The library's induction and its theorems about recursive functions
  take an operator, which the provers cannot instantiate. Here the body of the
  function is a constant operator of the module: INSTANCE puts a given body in its
  place, the lemma Defined says that the function exists and has the values the body gives,
  if that looks back only (LooksBack), and Induction is over a set of numbers,
  `{i \in Nat : ...}`, instead of a predicate. Both rest on Smallest, from the
  library's well-founded order of the naturals.
- **InputProofs.** The three properties of MCPortal about what comes in from outside,
  and the same for inputs of any length, which is stronger: PlainQueriesAnswered (any
  number of different questions and of records, entries of any size: the answer
  stands behind all of them, so only one question and no record leave it where it is
  counted); NetworksListed (any list: MergedAt says what the first loop has made of
  the list after k records, Settled what the second one has after i, with the rows
  done, the free slots behind them and the records to come; RowFacts and
  StrongestFacts are about cardinality and maximum); NamesRead (any name of bytes
  from 1 to 255: TextGrows says where in the text a character's part stands,
  WrittenFacts that as much is counted as is written, ReadWritten that the reader,
  ready before a part, is ready behind it and has the character; and what the decoder
  makes of the text is the text of what it makes of the name, since an escape is of
  characters of one byte, which break off one under way as the escaped byte does).

Only model-checked: the liveness properties (EventuallyReachable, KeepsTrying,
ScanEnds, ApCloses, PageUnlocks, TasksStart, RequestAnswered), which are out of the prover's
reach, since they are about fairness and ENABLED. Every other property of a passing
run is a theorem.

## Not modelled

The DNS task's socket and its descriptor, and queries shorter than a header or as
long as the buffer; the pieces of a packet in the streams to the UARTs (their
wrapper is in a submodule that is not in the repository, so whether one send of
it excludes another cannot be read); the URLs of the web server and the memory
they are in; several pages at once, resets in Portal, and the page's layout; the
sizes of the list's buffers, channels and addresses in it; the texts of logs and
time packets; PWM, pins and UART settings; SNTP, MQTT and TLS themselves;
`wifi_manager_destroy`, which nobody calls; the examples and the build.

## Plan

1. The DNS task and the web server with their descriptors and URLs, for the two
   hazards about what is freed or closed under a running handler.
2. Streams of pieces between TimeSource, MqttClient and UartTx, composed with
   PacketProcessor's reading of a packet, when the stream's wrapper is at hand.
3. Portal with two pages, and with WifiManager's event loop in place of its own.
