---------------------------- MODULE PortalProofs ----------------------------
(***************************************************************************)
(* Proofs about Portal, for any networks, queue length and number of       *)
(* status requests under way: its type invariant, that a list is never     *)
(* sent half printed, that the page's verdict is true of its request, and  *)
(* that only a network that worked is saved.                               *)
(***************************************************************************)
EXTENDS Portal, FiniteSetTheorems, TLAPS

-----------------------------------------------------------------------------
\* The inductive invariant, in parts.

\* Where the page is: from its request to the server's answer it does not poll,
\* and, unless a status was asked for before, has nothing to learn.
PageInv ==
  /\ shown = "list" => posting = "no"
  /\ posting # "no" => ~polling
  /\ posting = "taken" => http \in {"overwritten", "cleared"}
  /\ http = "status" => asked > 0
  /\ shown # "list" => selected \in Network
  /\ shown # "list" /\ ~polling /\ ~early => shown = "wait" /\ asked = 0 /\ answers = {}

\* Who holds the mutex.
LockInv ==
  /\ http \in {"status", "unwanted", "list"} => json = "http"
  /\ list = "torn" => json = "manager"

\* Unless a request overwrote it under an attempt, the station and the news of
\* it are about the configuration.
StoreInv ==
  met # "attempt" =>
    /\ sta.state # "idle" => sta.net = config
    /\ Queued("GOT_IP") => reached = config

\* The page's request is the last one the server took, and was not refused.
InForce == ~refused /\ (posting = "taken" \/ (shown # "list" /\ polling))

Honest(a) ==
  a.ssid = selected =>
    /\ a.urc = "CONNECTION_OK" => "ok" \in happened
    /\ a.urc = "FAILED_ATTEMPT" => "fail" \in happened

\* Then the news in the queue and the status text are about the request.
NewsInv ==
  InForce /\ met # "attempt" =>
    /\ config = selected
    /\ Queued("GOT_IP") => "ok" \in happened
    /\ Queued("DISCONNECTED") => "fail" \in happened
    /\ http # "overwritten" => Honest(status)

\* And so is what the page has been told.
AnswerInv ==
  shown # "list" /\ polling /\ met # "attempt" /\ ~refused /\ ~early =>
    /\ \A a \in answers : Honest(a)
    /\ shown = "success" => "ok" \in happened
    /\ shown = "fail" => "fail" \in happened

Types == TypeOK /\ IsFiniteSet(answers)

-----------------------------------------------------------------------------
\* Lemmas.

\* The steps, for the proofs' case distinctions.
LEMMA StepCases ==
  ASSUME Next
  PROVE  \/ \E n \in Network : Join(n)
         \/ PostLost \/ Reload \/ Check
         \/ \E a \in answers : CheckStatus(a)
         \/ TakePost \/ RefusePost \/ ClearStatus \/ PostOrder
         \/ TakeCheck \/ RefuseCheck \/ AnswerCheck \/ TakeList \/ AnswerList \/ OrderScan
         \/ ConnectSta \/ StaDisconnected \/ StaGotIp
         \/ StartList \/ EndList \/ RetryTimerFires
         \/ AttemptEnds \/ LinkLost
BY DEF Next, Serve, Answer, Manager

\* What the queue holds after a message was appended or taken.
LEMMA QueueAppend ==
  ASSUME NEW m, NEW x, queue \in Seq({"user", "auto", "GOT_IP", "DISCONNECTED"}),
         m \in {"user", "auto", "GOT_IP", "DISCONNECTED"},
         queue' = Append(queue, m), Queued(x)'
  PROVE  x = m \/ Queued(x)
<1>1. PICK i \in DOMAIN queue' : queue'[i] = x
  BY DEF Queued
<1>2. CASE i = Len(queue) + 1
  BY <1>1, <1>2
<1>3. CASE i # Len(queue) + 1
  <2>1. i \in DOMAIN queue /\ queue[i] = x
    BY <1>1, <1>3
  <2> QED
    BY <2>1 DEF Queued
<1> QED
  BY <1>2, <1>3

LEMMA QueueTail ==
  ASSUME NEW x, queue \in Seq({"user", "auto", "GOT_IP", "DISCONNECTED"}),
         queue # << >>, queue' = Tail(queue), Queued(x)'
  PROVE  Queued(x)
<1>1. PICK i \in DOMAIN queue' : queue'[i] = x
  BY DEF Queued
<1>2. i + 1 \in DOMAIN queue /\ queue[i + 1] = x
  BY <1>1
<1> QED
  BY <1>2 DEF Queued

LEMMA QueueHead ==
  ASSUME queue \in Seq({"user", "auto", "GOT_IP", "DISCONNECTED"}), queue # << >>
  PROVE  Queued(Head(queue))
<1>1. 1 \in DOMAIN queue /\ queue[1] = Head(queue)
  OBVIOUS
<1> QED
  BY <1>1 DEF Queued

\* A POST that does not meet an attempt meets a station at rest and no news.
LEMMA MeetsAttempt ==
  ASSUME Meets # "attempt"
  PROVE  sta.state = "idle" /\ ~OutcomePending
<1>1. sta.state # "idle" \/ OutcomePending => Meets = "attempt"
  BY DEF Meets
<1> QED
  BY <1>1

-----------------------------------------------------------------------------
\* Who holds the mutex.
LEMMA LockInit == Init => LockInv
BY DEF Init, LockInv

LEMMA LockStep ==
  ASSUME TypeOK, LockInv, [Next]_vars
  PROVE  LockInv'
<1>1. CASE UNCHANGED vars
  BY <1>1 DEF LockInv, vars, pageVars
<1>2. CASE Next
  <2>1. ASSUME NEW n \in Network, Join(n) PROVE LockInv'
    BY <2>1 DEF LockInv, Join
  <2>2. CASE PostLost \/ Check
    BY <2>2 DEF LockInv, PostLost, Check
  <2>3. CASE Reload
    BY <2>3 DEF LockInv, Reload
  <2>4. ASSUME NEW a \in answers, CheckStatus(a) PROVE LockInv'
    BY <2>4 DEF LockInv, CheckStatus
  <2>5. CASE TakePost \/ RefusePost \/ ClearStatus \/ PostOrder
    BY <2>5 DEF LockInv, TakePost, RefusePost, ClearStatus, PostOrder
  <2>6. CASE TakeCheck \/ TakeList
    BY <2>6 DEF LockInv, TakeCheck, TakeList, JsonFree
  <2>7. CASE RefuseCheck
    BY <2>7 DEF LockInv, RefuseCheck
  <2>8. CASE AnswerCheck \/ AnswerList \/ OrderScan
    BY <2>8 DEF LockInv, AnswerCheck, AnswerList, OrderScan
  <2>9. CASE ConnectSta \/ StaDisconnected \/ StaGotIp
    BY <2>9 DEF LockInv, ConnectSta, StaDisconnected, StaGotIp
  <2>10. CASE StartList \/ EndList
    BY <2>10 DEF LockInv, StartList, EndList, JsonFree
  <2>11. CASE RetryTimerFires
    BY <2>11 DEF LockInv, RetryTimerFires
  <2>12. CASE AttemptEnds \/ LinkLost
    BY <2>12 DEF LockInv, AttemptEnds, LinkLost, Outcome
  <2> QED
    BY <1>2, <2>1, <2>2, <2>3, <2>4, <2>5, <2>6, <2>7, <2>8, <2>9, <2>10, <2>11, <2>12, StepCases
<1> QED
  BY <1>1, <1>2

-----------------------------------------------------------------------------
\* Where the page is.
LEMMA PageInit == Init => PageInv
BY DEF Init, PageInv

LEMMA PageStep ==
  ASSUME TypeOK, PageInv, [Next]_vars
  PROVE  PageInv'
<1> USE NetworkAssumption, BoundAssumption
<1>0. asked \in Nat
  BY DEF TypeOK
<1>1. CASE UNCHANGED vars
  BY <1>1 DEF PageInv, vars, pageVars, histVars
<1>2. CASE Next
  <2>1. ASSUME NEW n \in Network, Join(n) PROVE PageInv'
    <3>1. early' <=> (asked > 0 \/ answers # {})
      BY <2>1, Zenon DEF Join
    <3>2. ~early' => asked = 0 /\ answers = {}
      BY <1>0, <3>1
    <3> QED
      BY <2>1, <3>2 DEF PageInv, Join
  <2>2. CASE PostLost
    BY <2>2 DEF PageInv, PostLost, histVars
  <2>3. CASE Reload
    BY <2>3 DEF PageInv, Reload
  <2>4. CASE Check
    BY <1>0, <2>4 DEF PageInv, Check, histVars
  <2>5. ASSUME NEW a \in answers, CheckStatus(a) PROVE PageInv'
    <3>1. shown = "list" <=> shown' = "list"
      BY <2>5 DEF CheckStatus, Verdict
    <3> QED
      BY <2>5, <3>1 DEF PageInv, CheckStatus, histVars
  <2>6. CASE TakePost
    BY <2>6 DEF PageInv, TakePost
  <2>7. CASE ClearStatus
    BY <2>7 DEF PageInv, ClearStatus, pageVars, histVars
  <2>8. CASE PostOrder
    <3>1. posting' \in {"no", posting} /\ (posting = "taken" => posting' = "no" /\ polling')
      BY <2>8, Zenon DEF PostOrder
    <3>2. posting # "taken" => posting' = posting /\ (polling' <=> polling)
      BY <2>8, Zenon DEF PostOrder
    <3>3. http' = "idle" /\ UNCHANGED <<shown, selected, asked, answers, early>>
      BY <2>8 DEF PostOrder, histVars
    <3> QED
      BY <3>1, <3>2, <3>3 DEF PageInv
  <2>9. CASE TakeCheck \/ TakeList
    BY <1>0, <2>9 DEF PageInv, TakeCheck, TakeList, pageVars, histVars
  <2>10. CASE RefuseCheck
    BY <1>0, <2>10 DEF PageInv, RefuseCheck, histVars
  <2>11. CASE AnswerCheck
    <3>1. /\ http \in {"status", "unwanted"} /\ http' = "idle"
          /\ http # "status" => asked' = asked /\ answers' = answers
          /\ UNCHANGED <<selected, shown, posting, polling, early>>
      BY <2>11 DEF AnswerCheck, histVars
    <3> QED
      BY <1>0, <3>1 DEF PageInv
  <2>12. CASE AnswerList \/ OrderScan
    BY <2>12 DEF PageInv, AnswerList, OrderScan, pageVars, histVars
  <2>13. CASE ConnectSta \/ StaDisconnected \/ StaGotIp
    <3>1. UNCHANGED <<pageVars, http, early>>
      BY <2>13 DEF ConnectSta, StaDisconnected, StaGotIp, histVars
    <3> QED
      BY <3>1 DEF PageInv, pageVars
  <2>14. CASE StartList \/ EndList \/ RetryTimerFires
    BY <2>14 DEF PageInv, StartList, EndList, RetryTimerFires, pageVars, histVars
  <2>15. CASE AttemptEnds \/ LinkLost
    <3>1. UNCHANGED <<pageVars, http, early>>
      BY <2>15, Zenon DEF AttemptEnds, LinkLost, Outcome
    <3> QED
      BY <3>1 DEF PageInv, pageVars
  <2>16. CASE RefusePost
    BY <2>16 DEF PageInv, RefusePost
  <2> QED
    BY <1>2, <2>1, <2>2, <2>3, <2>4, <2>5, <2>6, <2>7, <2>8, <2>9, <2>10, <2>11, <2>12, <2>13,
       <2>14, <2>15, <2>16, StepCases
<1> QED
  BY <1>1, <1>2

-----------------------------------------------------------------------------
\* Types.  A status request is counted until its answer is in answers, so the
\* two together stay in their bound.
LEMMA TypesInit == Init => Types
<1> SUFFICES ASSUME Init PROVE Types
  OBVIOUS
<1> USE NetworkAssumption, BoundAssumption
<1>1. answers = {} /\ IsFiniteSet(answers) /\ Cardinality(answers) = 0
  BY FS_EmptySet DEF Init
<1>2. queue \in Seq({"user", "auto", "GOT_IP", "DISCONNECTED"}) /\ Len(queue) <= QueueLength
  <2>1. queue = << >> \/ queue = <<"auto">>
    BY DEF Init
  <2>2. CASE queue = << >>
    BY <2>2
  <2>3. CASE queue = <<"auto">>
    <3>1. Len(queue) = 1 /\ queue \in Seq({"auto"})
      BY <2>3
    <3>2. queue \in Seq({"user", "auto", "GOT_IP", "DISCONNECTED"})
      BY <2>3
    <3> QED
      BY <3>1, <3>2
  <2> QED
    BY <2>1, <2>2, <2>3
<1>3. status \in Status /\ sta \in Station
  BY DEF Init, Status, Station
<1>4. /\ polling \in BOOLEAN /\ requested \in BOOLEAN /\ retryTimer \in BOOLEAN
      /\ early \in BOOLEAN /\ refused \in BOOLEAN
  BY DEF Init
<1>5. asked = 0 /\ asked \in 0..CheckBound /\ asked + Cardinality(answers) <= CheckBound
  BY <1>1 DEF Init
<1> QED
  BY <1>1, <1>2, <1>3, <1>4, <1>5 DEF Init, Types, TypeOK, Known

LEMMA TypesStep ==
  ASSUME Types, PageInv, [Next]_vars
  PROVE  Types'
<1> USE NetworkAssumption, BoundAssumption
<1>0. TypeOK /\ IsFiniteSet(answers) /\ asked \in Nat /\ Cardinality(answers) \in Nat
  BY FS_CardinalityType DEF Types, TypeOK
<1>1. CASE UNCHANGED vars
  BY <1>1 DEF Types, TypeOK, vars, pageVars, storeVars, mgrVars, histVars
<1>2. CASE Next
  <2>1. ASSUME NEW n \in Network, Join(n) PROVE Types'
    <3>1. early' \in BOOLEAN
      BY <2>1, Zenon DEF Join
    <3>2. /\ selected' \in Known /\ shown' = "wait" /\ posting' = "sent"
          /\ polling' \in BOOLEAN /\ refused' \in BOOLEAN /\ happened' = {}
      BY <2>1 DEF Join, Known
    <3>3. UNCHANGED <<asked, answers, http, json, list, storeVars, status, mgrVars, queue, sta,
                      met, reached>>
      BY <2>1 DEF Join
    <3> QED
      BY <1>0, <3>1, <3>2, <3>3 DEF Types, TypeOK, storeVars, mgrVars
  <2>2. CASE PostLost
    BY <1>0, <2>2 DEF Types, TypeOK, PostLost, storeVars, mgrVars, histVars
  <2>3. CASE Reload
    <3>1. answers' = {} /\ IsFiniteSet(answers') /\ Cardinality(answers') = 0
      BY <2>3, FS_EmptySet DEF Reload
    <3>2. http' \in {"idle", "overwritten", "cleared", "unwanted", "list", "scan"}
      BY <1>0, <2>3 DEF TypeOK, Reload
    <3>3. asked' = 0 /\ asked' \in 0..CheckBound /\ asked' + Cardinality(answers') <= CheckBound
      BY <2>3, <3>1 DEF Reload
    <3>4. /\ selected' \in Known /\ shown' = "list" /\ posting' = "no"
          /\ polling' \in BOOLEAN /\ early' \in BOOLEAN /\ refused' \in BOOLEAN
          /\ happened' = {}
      BY <2>3 DEF Reload, Known
    <3>5. UNCHANGED <<json, list, storeVars, status, mgrVars, queue, sta, met, reached>>
      BY <2>3 DEF Reload
    <3> QED
      BY <1>0, <3>1, <3>2, <3>3, <3>4, <3>5 DEF Types, TypeOK, storeVars, mgrVars
  <2>4. CASE Check
    BY <1>0, <2>4 DEF Types, TypeOK, Check, storeVars, mgrVars, histVars
  <2>5. ASSUME NEW a \in answers, CheckStatus(a) PROVE Types'
    <3>1. IsFiniteSet(answers') /\ Cardinality(answers') = Cardinality(answers) - 1
      BY <1>0, <2>5, FS_RemoveElement DEF CheckStatus
    <3>2. shown' \in {"list", "wait", "success", "fail"}
      BY <1>0, <2>5 DEF TypeOK, CheckStatus, Verdict
    <3>3. answers' \subseteq Status /\ asked' = asked
      BY <1>0, <2>5 DEF TypeOK, CheckStatus
    <3>4. asked' + Cardinality(answers') <= CheckBound
      BY <1>0, <3>1, <3>3 DEF TypeOK
    <3> QED
      BY <1>0, <2>5, <3>1, <3>2, <3>3, <3>4
      DEF Types, TypeOK, CheckStatus, storeVars, mgrVars, histVars
  <2>6. CASE TakePost
    <3>1. met' \in {"rest", "order", "attempt"}
      BY <2>6 DEF TakePost, Meets
    <3> QED
      BY <1>0, <2>6, <3>1 DEF Types, TypeOK, TakePost, mgrVars
  <2>7. CASE ClearStatus
    <3>1. status' \in Status
      BY <2>7 DEF ClearStatus, Flush, Status
    <3> QED
      BY <1>0, <2>7, <3>1 DEF Types, TypeOK, ClearStatus, pageVars, storeVars, mgrVars, histVars
  <2>8. CASE PostOrder
    <3>1. posting' \in {"no", posting}
      BY <2>8, Zenon DEF PostOrder
    <3>2. polling' \in BOOLEAN
      BY <2>8, Zenon DEF PostOrder
    <3>3. queue' \in Seq({"user", "auto", "GOT_IP", "DISCONNECTED"}) /\ Len(queue') <= QueueLength
      BY <1>0, <2>8 DEF TypeOK, PostOrder, HasRoom
    <3>4. /\ http' = "idle"
          /\ UNCHANGED <<selected, shown, asked, answers, json, list, storeVars, status, mgrVars,
                         sta, histVars>>
      BY <2>8, Zenon DEF PostOrder
    <3> QED
      BY <1>0, <3>1, <3>2, <3>3, <3>4 DEF Types, TypeOK, storeVars, mgrVars, histVars
  <2>9. CASE TakeCheck \/ TakeList
    <3>1. /\ http' \in {"status", "list"} /\ json' = "http"
          /\ UNCHANGED <<pageVars, list, storeVars, status, mgrVars, queue, sta, histVars>>
      BY <2>9 DEF TakeCheck, TakeList
    <3> QED
      BY <1>0, <3>1 DEF Types, TypeOK, pageVars, storeVars, mgrVars, histVars
  <2>10. CASE RefuseCheck
    BY <1>0, <2>10 DEF Types, TypeOK, RefuseCheck, storeVars, mgrVars, histVars
  <2>11. CASE AnswerCheck
    <3>1. /\ http' = "idle" /\ json' = "nobody"
          /\ UNCHANGED <<selected, shown, posting, polling, list, storeVars, status,
                         mgrVars, queue, sta, histVars>>
      BY <2>11, Zenon DEF AnswerCheck
    <3>2. CASE http = "status"
      <4>1. asked' = asked - 1 /\ answers' = answers \cup {status}
        BY <2>11, <3>2 DEF AnswerCheck
      <4>2. asked > 0
        BY <3>2 DEF PageInv
      <4>3. /\ IsFiniteSet(answers')
            /\ Cardinality(answers') \in {Cardinality(answers), Cardinality(answers) + 1}
        BY <1>0, <4>1, FS_AddElement
      <4>4. asked' \in 0..CheckBound /\ asked' + Cardinality(answers') <= CheckBound
        BY <1>0, <4>1, <4>2, <4>3 DEF TypeOK
      <4> QED
        BY <1>0, <3>1, <4>1, <4>3, <4>4 DEF Types, TypeOK, storeVars, mgrVars, histVars
    <3>3. CASE http # "status"
      <4>1. asked' = asked /\ answers' = answers
        BY <2>11, <3>3 DEF AnswerCheck
      <4> QED
        BY <1>0, <3>1, <4>1 DEF Types, TypeOK, storeVars, mgrVars, histVars
    <3> QED
      BY <3>2, <3>3
  <2>12. CASE AnswerList \/ OrderScan
    <3>1. CASE AnswerList
      BY <1>0, <3>1 DEF Types, TypeOK, AnswerList, pageVars, storeVars, mgrVars, histVars
    <3>2. CASE OrderScan
      BY <1>0, <3>2 DEF Types, TypeOK, OrderScan, pageVars, storeVars, mgrVars, histVars
    <3> QED
      BY <2>12, <3>1, <3>2
  <2>13. CASE ConnectSta \/ StaDisconnected \/ StaGotIp
    <3>1. queue' \in Seq({"user", "auto", "GOT_IP", "DISCONNECTED"}) /\ Len(queue') <= QueueLength
      <4>1. queue # << >> /\ queue' = Tail(queue)
        BY <2>13 DEF ConnectSta, StaDisconnected, StaGotIp, TakeMessage
      <4> QED
        BY <1>0, <4>1 DEF TypeOK
    <3>2. requested' \in BOOLEAN
      BY <1>0, <2>13, Zenon DEF TypeOK, ConnectSta, StaDisconnected, StaGotIp
    <3>3. retryTimer' \in BOOLEAN /\ saved' \in Known
      BY <1>0, <2>13 DEF TypeOK, ConnectSta, StaDisconnected, StaGotIp, storeVars
    <3>4. sta' \in Station
      BY <1>0, <2>13 DEF TypeOK, ConnectSta, StaDisconnected, StaGotIp, Attempt, Station, Known
    <3>5. status' \in Status
      BY <1>0, <2>13 DEF TypeOK, ConnectSta, StaDisconnected, StaGotIp, Generate, Status, Reasons
    <3>6. reached' \in Known
      BY <1>0, <2>13 DEF TypeOK, ConnectSta, StaDisconnected, StaGotIp, Known, histVars
    <3>7. UNCHANGED <<pageVars, http, json, list, config, met, refused, early, happened>>
      BY <2>13 DEF ConnectSta, StaDisconnected, StaGotIp, storeVars, histVars
    <3> QED
      BY <1>0, <3>1, <3>2, <3>3, <3>4, <3>5, <3>6, <3>7 DEF Types, TypeOK, pageVars
  <2>14. CASE StartList \/ EndList
    <3>1. /\ json' \in {"manager", "nobody"} /\ list' \in {"whole", "torn"}
          /\ UNCHANGED <<pageVars, http, storeVars, status, mgrVars, queue, sta, histVars>>
      BY <2>14 DEF StartList, EndList
    <3> QED
      BY <1>0, <3>1 DEF Types, TypeOK, pageVars, storeVars, mgrVars, histVars
  <2>15. CASE RetryTimerFires
    <3>1. queue' \in Seq({"user", "auto", "GOT_IP", "DISCONNECTED"}) /\ Len(queue') <= QueueLength
      BY <1>0, <2>15 DEF TypeOK, RetryTimerFires, HasRoom
    <3>2. /\ retryTimer' \in BOOLEAN
          /\ UNCHANGED <<pageVars, http, json, list, storeVars, status, requested, sta, histVars>>
      BY <2>15 DEF RetryTimerFires
    <3> QED
      BY <1>0, <3>1, <3>2 DEF Types, TypeOK, pageVars, storeVars, histVars
  <2>16. ASSUME NEW from \in {"connecting", "connected"}, NEW to \in {"idle", "connected"},
                NEW message \in {"GOT_IP", "DISCONNECTED"}, NEW outcome \in {"ok", "fail"},
                Outcome(from, to, message, outcome)
         PROVE  Types'
    <3>1. queue' \in Seq({"user", "auto", "GOT_IP", "DISCONNECTED"}) /\ Len(queue') <= QueueLength
      BY <1>0, <2>16 DEF TypeOK, Outcome, HasRoom
    <3>2. sta \in [state : {"connecting", "connected"}, net : Network]
      BY <1>0, <2>16 DEF TypeOK, Outcome, Station
    <3>3. sta' \in Station
      BY <2>16, <3>2 DEF Outcome, Station
    <3>4. happened' \subseteq {"ok", "fail"} /\ reached' \in Known
      BY <1>0, <2>16, <3>2 DEF TypeOK, Outcome, Known
    <3>5. UNCHANGED <<pageVars, http, json, list, storeVars, status, mgrVars, met, refused, early>>
      BY <2>16, Zenon DEF Outcome
    <3> QED
      BY <1>0, <3>1, <3>3, <3>4, <3>5 DEF Types, TypeOK, pageVars, storeVars, mgrVars
  <2>17. CASE AttemptEnds \/ LinkLost
    BY <2>16, <2>17 DEF AttemptEnds, LinkLost
  <2>18. CASE RefusePost
    BY <1>0, <2>18 DEF Types, TypeOK, RefusePost, storeVars, mgrVars
  <2> QED
    BY <1>2, <2>1, <2>2, <2>3, <2>4, <2>5, <2>6, <2>7, <2>8, <2>9, <2>10, <2>11, <2>12, <2>13,
       <2>14, <2>15, <2>17, <2>18, StepCases
<1> QED
  BY <1>1, <1>2

-----------------------------------------------------------------------------
\* The station and its news are about the configuration.
LEMMA StoreInit == Init => StoreInv
<1> SUFFICES ASSUME Init PROVE StoreInv
  OBVIOUS
<1>1. sta.state = "idle"
  BY DEF Init
<1>2. queue = << >> \/ queue = <<"auto">>
  BY DEF Init
<1>3. ~Queued("GOT_IP")
  BY <1>2 DEF Queued
<1> QED
  BY <1>1, <1>3 DEF StoreInv

LEMMA StoreStep ==
  ASSUME TypeOK, StoreInv, [Next]_vars
  PROVE  StoreInv'
<1>0. queue \in Seq({"user", "auto", "GOT_IP", "DISCONNECTED"}) /\ sta \in Station
  BY DEF TypeOK
<1>1. ASSUME UNCHANGED <<met, sta, config, queue, reached>> PROVE StoreInv'
  BY <1>1 DEF StoreInv, Queued
<1>2. CASE UNCHANGED vars
  BY <1>1, <1>2 DEF vars, histVars, storeVars
<1>3. CASE Next
  <2>1. ASSUME NEW n \in Network, Join(n) PROVE StoreInv'
    BY <1>1, <2>1 DEF Join, storeVars
  <2>2. CASE PostLost \/ Check \/ RefuseCheck
    BY <1>1, <2>2 DEF PostLost, Check, RefuseCheck, storeVars, histVars
  <2>3. CASE Reload
    BY <1>1, <2>3 DEF Reload, storeVars
  <2>4. ASSUME NEW a \in answers, CheckStatus(a) PROVE StoreInv'
    BY <1>1, <2>4 DEF CheckStatus, storeVars, histVars
  <2>5. CASE TakePost
    <3>1. met' = Meets /\ UNCHANGED <<sta, queue>>
      BY <2>5 DEF TakePost
    <3>2. met' # "attempt" => sta.state = "idle" /\ ~Queued("GOT_IP")
      BY <3>1, MeetsAttempt DEF OutcomePending
    <3> QED
      BY <3>1, <3>2 DEF StoreInv, Queued
  <2>6. CASE ClearStatus \/ TakeCheck \/ TakeList \/ AnswerList \/ OrderScan
    BY <1>1, <2>6 DEF ClearStatus, TakeCheck, TakeList, AnswerList, OrderScan, storeVars, histVars
  <2>7. CASE AnswerCheck
    BY <1>1, <2>7 DEF AnswerCheck, storeVars, histVars
  <2>8. CASE PostOrder
    <3>1. queue' = Append(queue, "user") /\ UNCHANGED <<met, sta, config, reached>>
      BY <2>8 DEF PostOrder, storeVars, histVars
    <3>2. Queued("GOT_IP")' => Queued("GOT_IP")
      BY <1>0, <3>1, QueueAppend
    <3> QED
      BY <3>1, <3>2 DEF StoreInv
  <2>9. CASE ConnectSta
    <3>1. /\ queue # << >> /\ queue' = Tail(queue) /\ UNCHANGED <<met, config, reached>>
          /\ sta' = sta \/ sta' = [state |-> "connecting", net |-> config]
      BY <2>9 DEF ConnectSta, TakeMessage, Attempt, storeVars, histVars
    <3>2. Queued("GOT_IP")' => Queued("GOT_IP")
      BY <1>0, <3>1, QueueTail
    <3> QED
      BY <3>1, <3>2 DEF StoreInv
  <2>10. CASE StaDisconnected
    <3>1. queue # << >> /\ queue' = Tail(queue) /\ UNCHANGED <<met, sta, config, reached>>
      BY <2>10 DEF StaDisconnected, TakeMessage, storeVars, histVars
    <3>2. Queued("GOT_IP")' => Queued("GOT_IP")
      BY <1>0, <3>1, QueueTail
    <3> QED
      BY <3>1, <3>2 DEF StoreInv
  <2>11. CASE StaGotIp
    <3>1. /\ queue # << >> /\ queue' = Tail(queue) /\ UNCHANGED <<met, sta, config>>
          /\ OutcomePending' => reached' = reached
      BY <2>11 DEF StaGotIp, TakeMessage
    <3>2. Queued("GOT_IP")' => Queued("GOT_IP")
      BY <1>0, <3>1, QueueTail
    <3> QED
      BY <3>1, <3>2 DEF StoreInv, OutcomePending
  <2>12. CASE StartList \/ EndList
    BY <1>1, <2>12 DEF StartList, EndList, storeVars, histVars
  <2>13. CASE RetryTimerFires
    <3>1. queue' = Append(queue, "auto") /\ UNCHANGED <<met, sta, config, reached>>
      BY <2>13 DEF RetryTimerFires, storeVars, histVars
    <3>2. Queued("GOT_IP")' => Queued("GOT_IP")
      BY <1>0, <3>1, QueueAppend
    <3> QED
      BY <3>1, <3>2 DEF StoreInv
  <2>14. CASE Outcome("connecting", "connected", "GOT_IP", "ok")
    <3>1. /\ sta.state = "connecting" /\ sta' = [sta EXCEPT !.state = "connected"]
          /\ reached' = sta.net /\ UNCHANGED <<met, config>>
      BY <2>14 DEF Outcome, storeVars
    <3>2. sta \in [state : {"connecting", "connected"}, net : Network]
      BY <1>0, <3>1 DEF Station
    <3>3. sta'.net = sta.net
      BY <3>1, <3>2
    <3> QED
      BY <3>1, <3>3 DEF StoreInv
  <2>15. ASSUME NEW from \in {"connecting", "connected"}, Outcome(from, "idle", "DISCONNECTED", "fail")
         PROVE  StoreInv'
    <3>1. /\ queue' = Append(queue, "DISCONNECTED") /\ sta'.state = "idle"
          /\ UNCHANGED <<met, config, reached>>
      BY <2>15 DEF Outcome, storeVars
    <3>2. Queued("GOT_IP")' => Queued("GOT_IP")
      BY <1>0, <3>1, QueueAppend
    <3> QED
      BY <3>1, <3>2 DEF StoreInv
  <2>16. CASE AttemptEnds \/ LinkLost
    BY <2>14, <2>15, <2>16 DEF AttemptEnds, LinkLost
  <2>17. CASE RefusePost
    BY <1>1, <2>17 DEF RefusePost, storeVars
  <2> QED
    BY <1>3, <2>1, <2>2, <2>3, <2>4, <2>5, <2>6, <2>7, <2>8, <2>9, <2>10, <2>11, <2>12, <2>13, <2>16,
       <2>17, StepCases
<1> QED
  BY <1>2, <1>3

-----------------------------------------------------------------------------
\* The news and the status are about the request in force.
LEMMA NewsInit == Init => NewsInv
<1> SUFFICES ASSUME Init PROVE NewsInv
  OBVIOUS
<1>1. posting = "no" /\ shown = "list"
  BY DEF Init
<1> QED
  BY <1>1 DEF NewsInv, InForce

LEMMA NewsStep ==
  ASSUME TypeOK, PageInv, StoreInv, NewsInv, [Next]_vars
  PROVE  NewsInv'
<1>0. queue \in Seq({"user", "auto", "GOT_IP", "DISCONNECTED"}) /\ sta \in Station
  BY DEF TypeOK
<1>1. ASSUME InForce' => InForce, UNCHANGED <<met, config, selected, queue, happened, status>>,
             http # "overwritten" \/ http' = "overwritten"
      PROVE  NewsInv'
  BY <1>1 DEF NewsInv, Honest, Queued
<1>2. ASSUME UNCHANGED <<posting, shown, polling, refused>> PROVE InForce' => InForce
  BY <1>2 DEF InForce
<1>3. CASE UNCHANGED vars
  BY <1>1, <1>2, <1>3 DEF vars, pageVars, histVars, storeVars
<1>4. CASE Next
  <2>1. ASSUME NEW n \in Network, Join(n) PROVE NewsInv'
    BY <2>1 DEF Join, NewsInv, InForce
  <2>2. CASE PostLost
    <3>1. InForce' => InForce
      BY <2>2 DEF PostLost, InForce, histVars
    <3> QED
      BY <1>1, <2>2, <3>1 DEF PostLost, storeVars, histVars
  <2>3. CASE Reload
    BY <2>3 DEF Reload, NewsInv, InForce
  <2>4. CASE Check \/ RefuseCheck
    BY <1>1, <1>2, <2>4 DEF Check, RefuseCheck, storeVars, histVars
  <2>5. ASSUME NEW a \in answers, CheckStatus(a) PROVE NewsInv'
    <3>1. shown = "list" <=> shown' = "list"
      BY <2>5 DEF CheckStatus, Verdict
    <3>2. InForce' => InForce
      BY <2>5, <3>1 DEF CheckStatus, InForce, histVars
    <3> QED
      BY <1>1, <2>5, <3>2 DEF CheckStatus, storeVars, histVars
  <2>6. CASE TakePost
    <3>1. /\ met' = Meets /\ config' = selected /\ http' = "overwritten"
          /\ UNCHANGED <<selected, queue>>
      BY <2>6 DEF TakePost
    <3>2. met' # "attempt" => ~Queued("GOT_IP") /\ ~Queued("DISCONNECTED")
      BY <3>1, MeetsAttempt DEF OutcomePending
    <3> QED
      BY <3>1, <3>2 DEF NewsInv, Queued
  <2>7. CASE ClearStatus
    <3>1. Honest(status)'
      BY <2>7 DEF ClearStatus, Flush, Empty, Honest
    <3>2. UNCHANGED <<pageVars, met, refused, config, queue, happened>>
      BY <2>7 DEF ClearStatus, storeVars, histVars
    <3> QED
      BY <3>1, <3>2 DEF NewsInv, InForce, Queued, pageVars
  <2>8. CASE PostOrder
    <3>1. InForce' => InForce
      <4>1. /\ UNCHANGED <<shown, refused>>
            /\ posting' = IF posting = "taken" THEN "no" ELSE posting
            /\ polling' <=> polling \/ posting = "taken"
        BY <2>8, Zenon DEF PostOrder, histVars
      <4>2. posting' # "taken"
        BY <4>1
      <4> QED
        BY <4>1, <4>2, Zenon DEF InForce
    <3>2. /\ queue' = Append(queue, "user") /\ http = "cleared"
          /\ UNCHANGED <<met, config, selected, happened, status>>
      BY <2>8 DEF PostOrder, storeVars, histVars
    <3>3. /\ Queued("GOT_IP")' => Queued("GOT_IP")
          /\ Queued("DISCONNECTED")' => Queued("DISCONNECTED")
      BY <1>0, <3>2, QueueAppend
    <3>4. Honest(status)' <=> Honest(status)
      BY <3>2 DEF Honest
    <3> QED
      BY <3>1, <3>2, <3>3, <3>4 DEF NewsInv
  <2>9. CASE TakeCheck \/ TakeList \/ AnswerList \/ OrderScan
    BY <1>1, <1>2, <2>9 DEF TakeCheck, TakeList, AnswerList, OrderScan, pageVars, storeVars, histVars
  <2>10. CASE AnswerCheck
    <3>1. /\ http # "overwritten"
          /\ UNCHANGED <<posting, shown, polling, refused, selected, met, config, queue, happened,
                         status>>
      BY <2>10 DEF AnswerCheck, storeVars, histVars
    <3> QED
      BY <1>1, <1>2, <3>1
  <2>11. CASE ConnectSta
    <3>1. /\ queue # << >> /\ queue' = Tail(queue)
          /\ UNCHANGED <<pageVars, http, met, refused, config, happened, status>>
      BY <2>11 DEF ConnectSta, TakeMessage, storeVars, histVars
    <3>2. /\ Queued("GOT_IP")' => Queued("GOT_IP")
          /\ Queued("DISCONNECTED")' => Queued("DISCONNECTED")
      BY <1>0, <3>1, QueueTail
    <3> QED
      BY <3>1, <3>2 DEF NewsInv, InForce, Honest, pageVars
  <2>12. CASE StaDisconnected
    <3>1. /\ queue # << >> /\ queue' = Tail(queue) /\ Head(queue) = "DISCONNECTED"
          /\ \E urc \in {"FAILED_ATTEMPT", "LOST_CONNECTION"} :
               status' = [ssid |-> config, urc |-> urc]
          /\ UNCHANGED <<pageVars, http, met, refused, config, happened>>
      BY <2>12 DEF StaDisconnected, TakeMessage, Generate, storeVars, histVars
    <3>2. /\ Queued("GOT_IP")' => Queued("GOT_IP")
          /\ Queued("DISCONNECTED")' => Queued("DISCONNECTED")
          /\ Queued("DISCONNECTED")
      BY <1>0, <3>1, QueueTail, QueueHead
    <3>3. InForce /\ met # "attempt" => Honest(status)'
      BY <3>1, <3>2 DEF NewsInv, Honest
    <3> QED
      BY <3>1, <3>2, <3>3 DEF NewsInv, InForce, pageVars
  <2>13. CASE StaGotIp
    <3>1. /\ queue # << >> /\ queue' = Tail(queue) /\ Head(queue) = "GOT_IP"
          /\ status' = [ssid |-> config, urc |-> "CONNECTION_OK"]
          /\ UNCHANGED <<pageVars, http, met, refused, config, happened>>
      BY <2>13 DEF StaGotIp, TakeMessage, Generate
    <3>2. /\ Queued("GOT_IP")' => Queued("GOT_IP")
          /\ Queued("DISCONNECTED")' => Queued("DISCONNECTED")
          /\ Queued("GOT_IP")
      BY <1>0, <3>1, QueueTail, QueueHead
    <3>3. InForce /\ met # "attempt" => Honest(status)'
      BY <3>1, <3>2 DEF NewsInv, Honest
    <3> QED
      BY <3>1, <3>2, <3>3 DEF NewsInv, InForce, pageVars
  <2>14. CASE StartList \/ EndList
    BY <1>1, <1>2, <2>14 DEF StartList, EndList, pageVars, storeVars, histVars
  <2>15. CASE RetryTimerFires
    <3>1. /\ queue' = Append(queue, "auto")
          /\ UNCHANGED <<pageVars, http, met, refused, config, happened, status>>
      BY <2>15 DEF RetryTimerFires, storeVars, histVars
    <3>2. /\ Queued("GOT_IP")' => Queued("GOT_IP")
          /\ Queued("DISCONNECTED")' => Queued("DISCONNECTED")
      BY <1>0, <3>1, QueueAppend
    <3> QED
      BY <3>1, <3>2 DEF NewsInv, InForce, Honest, pageVars
  <2>16. ASSUME NEW from \in {"connecting", "connected"}, NEW to \in {"idle", "connected"},
                NEW message, NEW outcome, Outcome(from, to, message, outcome),
                <<message, outcome>> \in {<<"GOT_IP", "ok">>, <<"DISCONNECTED", "fail">>}
         PROVE  NewsInv'
    <3>1. /\ sta.state # "idle" /\ queue' = Append(queue, message)
          /\ happened' = IF sta.net = selected THEN happened \cup {outcome} ELSE happened
          /\ UNCHANGED <<pageVars, http, met, refused, config, status>>
      BY <2>16 DEF Outcome, storeVars
    <3>2. InForce' <=> InForce
      BY <3>1 DEF InForce, pageVars
    <3>3. InForce /\ met # "attempt" => happened' = happened \cup {outcome}
      BY <3>1 DEF NewsInv, StoreInv
    <3>4. /\ Queued("GOT_IP")' => message = "GOT_IP" \/ Queued("GOT_IP")
          /\ Queued("DISCONNECTED")' => message = "DISCONNECTED" \/ Queued("DISCONNECTED")
      BY <1>0, <2>16, <3>1, QueueAppend
    <3>5. Honest(status) => Honest(status)'
      BY <3>1 DEF Honest, pageVars
    <3> QED
      BY <2>16, <3>1, <3>2, <3>3, <3>4, <3>5 DEF NewsInv, pageVars
  <2>17. CASE AttemptEnds \/ LinkLost
    BY <2>16, <2>17 DEF AttemptEnds, LinkLost
  <2>18. CASE RefusePost
    BY <2>18 DEF RefusePost, NewsInv, InForce
  <2> QED
    BY <1>4, <2>1, <2>2, <2>3, <2>4, <2>5, <2>6, <2>7, <2>8, <2>9, <2>10, <2>11, <2>12, <2>13, <2>14,
       <2>15, <2>17, <2>18, StepCases
<1> QED
  BY <1>3, <1>4

-----------------------------------------------------------------------------
\* What the page has been told is about its request.
LEMMA AnswerInit == Init => AnswerInv
BY DEF Init, AnswerInv

LEMMA AnswerStep ==
  ASSUME TypeOK, PageInv, NewsInv, AnswerInv, [Next]_vars
  PROVE  AnswerInv'
<1>1. ASSUME UNCHANGED <<selected, shown, polling, answers, met, refused, early>>,
             happened \subseteq happened'
      PROVE  AnswerInv'
  BY <1>1 DEF AnswerInv, Honest
<1>2. CASE UNCHANGED vars
  BY <1>1, <1>2 DEF vars, pageVars, histVars
<1>3. CASE Next
  <2>1. ASSUME NEW n \in Network, Join(n) PROVE AnswerInv'
    BY <2>1 DEF Join, AnswerInv
  <2>2. CASE PostLost \/ Check \/ RefuseCheck
    BY <1>1, <2>2 DEF PostLost, Check, RefuseCheck, histVars
  <2>3. CASE Reload
    BY <2>3 DEF Reload, AnswerInv
  <2>4. ASSUME NEW a \in answers, CheckStatus(a) PROVE AnswerInv'
    <3>1. /\ answers' = answers \ {a} /\ shown' \in {shown, Verdict(a.urc)}
          /\ UNCHANGED <<selected, polling, met, refused, early, happened>>
          /\ shown' # shown => a.ssid = selected /\ shown' = Verdict(a.urc) /\ shown # "list"
      BY <2>4 DEF CheckStatus, histVars
    <3>2. CASE shown' = shown
      BY <3>1, <3>2 DEF AnswerInv, Honest
    <3>3. CASE shown' # shown
      <4>1. /\ shown' = "success" => a.urc = "CONNECTION_OK"
            /\ shown' = "fail" => a.urc = "FAILED_ATTEMPT"
        BY <3>1, <3>3 DEF Verdict
      <4> QED
        BY <3>1, <3>3, <4>1 DEF AnswerInv, Honest
    <3> QED
      BY <3>2, <3>3
  <2>5. CASE TakePost
    <3>1. ~polling /\ polling' = polling
      BY <2>5 DEF TakePost, PageInv
    <3> QED
      BY <3>1 DEF AnswerInv
  <2>6. CASE ClearStatus \/ TakeCheck \/ TakeList \/ AnswerList \/ OrderScan
    BY <1>1, <2>6 DEF ClearStatus, TakeCheck, TakeList, AnswerList, OrderScan, pageVars, histVars
  <2>7. CASE PostOrder
    <3>1. /\ UNCHANGED <<selected, shown, answers, met, refused, early, happened>>
      BY <2>7 DEF PostOrder, histVars
    <3>2. CASE ~polling
      BY <3>1, <3>2 DEF AnswerInv, PageInv
    <3>3. CASE polling
      BY <3>1, <3>3 DEF AnswerInv, Honest
    <3> QED
      BY <3>2, <3>3
  <2>8. CASE AnswerCheck
    <3>1. /\ UNCHANGED <<selected, shown, polling, met, refused, early, happened>>
          /\ http # "overwritten" /\ answers' \subseteq answers \cup {status}
      BY <2>8 DEF AnswerCheck, histVars
    <3>2. shown # "list" /\ polling /\ met # "attempt" /\ ~refused => Honest(status)
      BY <3>1 DEF NewsInv, InForce
    <3> QED
      BY <3>1, <3>2 DEF AnswerInv, Honest
  <2>9. CASE ConnectSta \/ StaDisconnected \/ StaGotIp
    <3>1. UNCHANGED <<pageVars, met, refused, early, happened>>
      BY <2>9 DEF ConnectSta, StaDisconnected, StaGotIp, histVars
    <3> QED
      BY <1>1, <3>1 DEF pageVars
  <2>10. CASE StartList \/ EndList \/ RetryTimerFires
    BY <1>1, <2>10 DEF StartList, EndList, RetryTimerFires, pageVars, histVars
  <2>11. CASE AttemptEnds \/ LinkLost
    <3>1. UNCHANGED <<pageVars, met, refused, early>> /\ happened \subseteq happened'
      BY <2>11 DEF AttemptEnds, LinkLost, Outcome
    <3> QED
      BY <1>1, <3>1 DEF pageVars
  <2>12. CASE RefusePost
    BY <2>12 DEF RefusePost, AnswerInv
  <2> QED
    BY <1>3, <2>1, <2>2, <2>3, <2>4, <2>5, <2>6, <2>7, <2>8, <2>9, <2>10, <2>11, <2>12, StepCases
<1> QED
  BY <1>2, <1>3

-----------------------------------------------------------------------------
\* Theorems.

IInv == Types /\ PageInv /\ LockInv /\ StoreInv /\ NewsInv /\ AnswerInv

LEMMA Invariance == Spec => []IInv
<1>1. Init => IInv
  BY TypesInit, PageInit, LockInit, StoreInit, NewsInit, AnswerInit DEF IInv
<1>2. IInv /\ [Next]_vars => IInv'
  BY TypesStep, PageStep, LockStep, StoreStep, NewsStep, AnswerStep DEF IInv, Types
<1> QED
  BY <1>1, <1>2, PTL DEF Spec

\* TypeOK holds of every reachable state: the queue and the requests under way
\* stay in their bounds, and a station that is not idle has a network.
THEOREM TypeCorrect == Spec => []TypeOK
<1>1. IInv => TypeOK
  BY DEF IInv, Types
<1> QED
  BY <1>1, Invariance, PTL

\* The web server never sends a list that the manager is printing.
THEOREM ListServedWhole == Spec => []ServedWhole
<1>1. IInv => ServedWhole
  BY DEF IInv, Types, TypeOK, LockInv, ServedWhole
<1> QED
  BY <1>1, Invariance, PTL

\* The page shows success, or failure, only when its own request had that
\* outcome, for requests that met no attempt and followed no pending check.
THEOREM VerdictHonest == Spec => []PageHonest
<1>1. IInv => PageHonest
  <2> SUFFICES ASSUME IInv, met # "attempt", ~refused, ~early
               PROVE  /\ shown = "success" => "ok" \in happened
                      /\ shown = "fail" => "fail" \in happened
    BY DEF PageHonest
  <2>1. CASE polling
    BY <2>1 DEF IInv, AnswerInv
  <2>2. CASE ~polling
    BY <2>2 DEF IInv, PageInv
  <2> QED
    BY <2>1, <2>2
<1> QED
  BY <1>1, Invariance, PTL

\* The flash changes only to the network whose connection is being handled,
\* unless a request overwrote the configuration under an attempt.
THEOREM SavedWorked == Spec => SavesWhatWorked
<1>1. IInv /\ [Next]_vars => (saved' # saved /\ met # "attempt" => saved' = reached)
  <2> SUFFICES ASSUME IInv, [Next]_vars, saved' # saved, met # "attempt"
               PROVE  saved' = reached
    OBVIOUS
  <2>1. Next
    BY DEF vars, storeVars
  <2>2. StaGotIp
    <3>1. ASSUME NEW n \in Network, Join(n) PROVE FALSE
      BY <3>1 DEF Join, storeVars
    <3>2. ASSUME NEW a \in answers, CheckStatus(a) PROVE FALSE
      BY <3>2 DEF CheckStatus, storeVars
    <3>3. CASE PostLost \/ Reload \/ Check \/ RefuseCheck \/ AnswerCheck
      BY <3>3 DEF PostLost, Reload, Check, RefuseCheck, AnswerCheck, storeVars
    <3>4. CASE TakePost \/ RefusePost \/ ClearStatus \/ PostOrder
      BY <3>4 DEF TakePost, RefusePost, ClearStatus, PostOrder, storeVars
    <3>7. CASE TakeCheck \/ TakeList \/ AnswerList \/ OrderScan
      BY <3>7 DEF TakeCheck, TakeList, AnswerList, OrderScan, storeVars
    <3>5. CASE ConnectSta \/ StaDisconnected
      BY <3>5 DEF ConnectSta, StaDisconnected, storeVars
    <3>6. CASE StartList \/ EndList \/ RetryTimerFires \/ AttemptEnds \/ LinkLost
      BY <3>6 DEF StartList, EndList, RetryTimerFires, AttemptEnds, LinkLost, Outcome, storeVars
    <3> QED
      BY <2>1, <3>1, <3>2, <3>3, <3>4, <3>5, <3>6, <3>7, StepCases
  <2>3. saved' = config /\ queue # << >> /\ Head(queue) = "GOT_IP"
    BY <2>2 DEF StaGotIp, TakeMessage
  <2>4. Queued("GOT_IP")
    BY <2>3, QueueHead DEF IInv, Types, TypeOK
  <2> QED
    BY <2>3, <2>4 DEF IInv, StoreInv
<1> QED
  BY <1>1, Invariance, PTL DEF Spec, SavesWhatWorked
=============================================================================
