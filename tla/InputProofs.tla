---------------------------- MODULE InputProofs ----------------------------
(***************************************************************************)
(* The properties of MCPortal about what comes in from outside -- queries  *)
(* for the DNS server, access points from the driver, bytes of their names *)
(* -- are checked up to a length.  Here they are proved for any length.    *)
(*                                                                         *)
(* The operators are recursive functions along a sequence.  Recursion      *)
(* gives what a proof needs of one: a body of the form <Name>Body is       *)
(* instantiated as <Name>Function, whose Defined and Induction are then    *)
(* theorems about it.                                                      *)
(***************************************************************************)
EXTENDS MCPortal, FiniteSetTheorems, TLAPS

\* What \o puts where.
LEMMA Concatenated ==
  ASSUME NEW S, NEW s \in Seq(S), NEW t \in Seq(S)
  PROVE  /\ s \o t \in Seq(S) /\ Len(s \o t) = Len(s) + Len(t)
         /\ \A k \in 1..Len(s) : (s \o t)[k] = s[k]
         /\ \A k \in 1..Len(t) : (s \o t)[Len(s) + k] = t[k]
OBVIOUS

\* What TLC enumerates are sequences.
LEMMA UpToSeq == \A S : \A n \in Nat : UpTo(n, S) \subseteq Seq(S)
BY DEF UpTo

-----------------------------------------------------------------------------
\* The DNS server's reply.

OctetsBody(query, octets, i) == IF i = 0 THEN HeaderSize ELSE octets[i - 1] + query.body[i].size
OctetsFunction == INSTANCE Recursion WITH Body <- OctetsBody

\* The octets of a query with one entry.
LEMMA PlainLength ==
  ASSUME NEW query, Len(query.body) = 1
  PROVE  DnsLength(query) = HeaderSize + query.body[1].size
<1> DEFINE octets == OctetsFunction!Function(query, 1)
<1>1. DnsLength(query) = octets[1]
  BY DEF DnsLength, OctetsBody, OctetsFunction!Function
<1>2. OctetsFunction!LooksBack(query, 1)
  BY DEF OctetsFunction!LooksBack, OctetsBody
<1>3. octets = [i \in 0..1 |-> OctetsBody(query, octets, i)]
  <2> HIDE DEF OctetsBody
  <2>1. 1 \in Nat
    OBVIOUS
  <2> QED BY Zenon, <1>2, <2>1, OctetsFunction!Defined
<1>4. octets[0] = OctetsBody(query, octets, 0) /\ octets[1] = OctetsBody(query, octets, 1)
  <2> HIDE DEF octets, OctetsBody
  <2> QED BY <1>3
<1> HIDE DEF octets
<1> QED BY <1>1, <1>4 DEF OctetsBody

\* What a resolver asks, whatever it is and brings with it.
Asked == {Query(questions, records) :
            questions \in {qs \in Seq(Question) : Askable(qs)}, records \in Seq(Addition)}

\* The parts of a query, and of the reply to it.
LEMMA AskedFacts ==
  ASSUME NEW questions \in Seq(Question), Askable(questions), NEW records \in Seq(Addition)
  PROVE  LET query == Query(questions, records)
             reply == Reply(query)
             count == Len(questions)
         IN  /\ query.header.QDCount = count /\ count \in Nat \ {0}
             /\ Len(query.body) = count + Len(records)
             /\ \A i \in 1..count : query.body[i] = questions[i]
             /\ \A i \in 1..Len(query.body) : query.body[i].size \in DnsSizes
             /\ \A i \in 1..Len(query.body) : query.body[i].kind # "answer"
             /\ reply.header.QR = 1 /\ reply.header.RCode = 0 /\ reply.header.TC = 0
             /\ reply.header.QDCount = count /\ reply.header.ANCount = count
             /\ reply.header.NSCount = 0 /\ reply.header.ARCount = 0
             /\ Len(reply.body) = Len(query.body) + 1
             /\ \A i \in 1..Len(query.body) : reply.body[i] = query.body[i]
             /\ reply.body[Len(reply.body)] = Hijack(query)
<1> DEFINE query == Query(questions, records)
<1> DEFINE reply == Reply(query)
<1> DEFINE entries == Question \cup Addition
<1>1. query.body = questions \o records /\ query.header = QueryHeader(Len(questions), Len(records))
  BY DEF Query
<1>2. questions \in Seq(entries) /\ records \in Seq(entries)
  OBVIOUS
<1>3. Len(questions) \in Nat \ {0} /\ Len(records) \in Nat
  BY DEF Askable
<1>4. /\ query.body \in Seq(entries)
      /\ Len(query.body) = Len(questions) + Len(records)
      /\ \A i \in 1..Len(questions) : query.body[i] = questions[i]
  BY <1>1, <1>2
<1>5. \A e \in entries : e.size \in DnsSizes /\ e.kind # "answer"
  BY DEF Question, Addition
<1>6. \A i \in 1..Len(query.body) : query.body[i] \in entries
  BY <1>4
<1>7. reply.header = ReplyHeader(query.header) /\ reply.body = query.body \o <<Hijack(query)>>
  BY DEF Reply
<1>8. /\ query.header.QDCount = Len(questions)
      /\ reply.header.QR = 1 /\ reply.header.RCode = 0 /\ reply.header.TC = 0
      /\ reply.header.QDCount = Len(questions) /\ reply.header.ANCount = Len(questions)
      /\ reply.header.NSCount = 0 /\ reply.header.ARCount = 0
  BY <1>1, <1>7 DEF ReplyHeader, QueryHeader, CountAnswers
<1>9. /\ Len(reply.body) = Len(query.body) + 1
      /\ \A i \in 1..Len(query.body) : reply.body[i] = query.body[i]
      /\ reply.body[Len(query.body) + 1] = Hijack(query)
  <2> DEFINE all == entries \cup {Hijack(query)}
  <2>1. query.body \in Seq(all) /\ Hijack(query) \in all
    BY <1>4
  <2> HIDE DEF query, all, entries
  <2>2. \A s \in Seq(all), e \in all : Len(s \o <<e>>) = Len(s) + 1
             /\ (\A i \in 1..Len(s) : (s \o <<e>>)[i] = s[i]) /\ (s \o <<e>>)[Len(s) + 1] = e
    OBVIOUS
  <2> HIDE DEF reply
  <2> QED BY <1>7, <2>1, <2>2
<1> HIDE DEF query, reply, entries
<1> QED BY <1>3, <1>4, <1>5, <1>6, <1>8, <1>9 DEF query, reply

\* A resolver learns an address from the reply to one question for one, and to
\* nothing else: with more questions or a record the answer stands behind the
\* records that are counted, and one answer does not answer two questions.
LEMMA PlainAnswered ==
  ASSUME NEW query \in Asked, DnsLength(query) < QueryMaxSize
  PROVE  LearnsAddress(query) <=> Plain(query)
<1> DEFINE reply == Reply(query)
<1>1. PICK questions \in Seq(Question), records \in Seq(Addition) :
        Askable(questions) /\ query = Query(questions, records)
  BY DEF Asked
<1> DEFINE count == Len(questions)
<1>2. /\ query.header.QDCount = count /\ count \in Nat \ {0} /\ Len(records) \in Nat
      /\ Len(query.body) = count + Len(records)
      /\ \A i \in 1..count : query.body[i] = questions[i]
      /\ \A i \in 1..Len(query.body) : query.body[i].size \in DnsSizes
      /\ \A i \in 1..Len(query.body) : query.body[i].kind # "answer"
      /\ reply.header.QR = 1 /\ reply.header.RCode = 0 /\ reply.header.TC = 0
      /\ reply.header.QDCount = count /\ reply.header.ANCount = count
      /\ reply.header.NSCount = 0 /\ reply.header.ARCount = 0
      /\ Len(reply.body) = Len(query.body) + 1
      /\ \A i \in 1..Len(query.body) : reply.body[i] = query.body[i]
      /\ reply.body[Len(reply.body)] = Hijack(query)
  BY <1>1, AskedFacts
<1>3. Hijack(query).kind = "answer" /\ Hijack(query).name = query.body[1].name
      /\ Hijack(query).type = "A"
  BY DEF Hijack
<1> HIDE DEF reply
<1>4. ASSUME LearnsAddress(query)
      PROVE  Plain(query)
  <2>1. /\ count + count <= Len(reply.body)
        /\ \A i \in 1..count : \E j \in count + 1..count + count :
             /\ reply.body[j].kind = "answer" /\ reply.body[j].name = reply.body[i].name
             /\ reply.body[j].type = reply.body[i].type
    BY <1>2, <1>4 DEF LearnsAddress, reply
  <2>2. \A i \in 1..count :
          /\ Len(reply.body) <= count + count
          /\ reply.body[i].name = Hijack(query).name /\ reply.body[i].type = Hijack(query).type
    <3> SUFFICES ASSUME NEW i \in 1..count
                 PROVE  /\ Len(reply.body) <= count + count
                        /\ reply.body[i].name = Hijack(query).name
                        /\ reply.body[i].type = Hijack(query).type
      OBVIOUS
    <3>1. PICK j \in count + 1..count + count :
             /\ reply.body[j].kind = "answer" /\ reply.body[j].name = reply.body[i].name
             /\ reply.body[j].type = reply.body[i].type
      BY <2>1
    <3>2. j \in 1..Len(query.body) + 1 /\ j \notin 1..Len(query.body)
      <4>1. j \in 1..Len(query.body) + 1
        BY <1>2, <2>1
      <4>2. j \in 1..Len(query.body) => reply.body[j].kind # "answer"
        BY <1>2
      <4> QED BY <3>1, <4>1, <4>2
    <3>3. j = Len(reply.body)
      BY <1>2, <3>2
    <3> QED BY <1>2, <3>1, <3>3
  <2>3. \A i \in 1..count : questions[i].name = Hijack(query).name
                            /\ questions[i].type = Hijack(query).type
    <3> SUFFICES ASSUME NEW i \in 1..count
                 PROVE  questions[i].name = Hijack(query).name /\ questions[i].type = Hijack(query).type
      OBVIOUS
    <3>1. query.body[i] = questions[i] /\ i \in 1..Len(query.body)
      BY <1>2
    <3>2. reply.body[i] = questions[i]
      BY <1>2, <3>1
    <3> QED BY <2>2, <3>2
  <2>4. \A i, j \in 1..count : i = j
    BY <1>1, <2>3 DEF Askable, SameQuestion
  <2>5. count = 1
    <3>1. count > 1 => 1 \in 1..count /\ 2 \in 1..count
      BY <1>2
    <3>2. ~(count > 1)
      <4> HIDE DEF count
      <4> QED BY <2>4, <3>1
    <3>3. count \in Nat \ {0}
      BY <1>2
    <3> HIDE DEF count
    <3> QED BY <3>2, <3>3
  <2>6. Len(query.body) = 1
    BY <1>2, <2>2, <2>5
  <2> QED BY <1>2, <1>3, <2>3, <2>5, <2>6 DEF Plain
<1>5. ASSUME Plain(query)
      PROVE  LearnsAddress(query)
  <2>1. Len(query.body) = 1 /\ query.body[1].type = "A" /\ count = 1 /\ Len(reply.body) = 2
    BY <1>2, <1>5 DEF Plain
  <2>2. reply.body[1] = query.body[1] /\ reply.body[2] = Hijack(query)
    BY <1>2, <2>1
  <2>3. Accepted(DnsLength(query))
    <3>1. query.body[1].size \in Nat
      <4>1. query.body[1].size \in DnsSizes
        BY <1>2, <2>1
      <4> QED BY <4>1, DnsAssumption
    <3>2. DnsLength(query) = HeaderSize + query.body[1].size
      BY <2>1, PlainLength
    <3> QED BY <3>1, <3>2 DEF Accepted, AnswerMaxSize, QueryMaxSize, AnswerSize, HeaderSize
  <2> QED BY <1>2, <1>3, <2>1, <2>2, <2>3 DEF LearnsAddress, reply
<1> QED BY <1>4, <1>5

\* AnswersPlainQueries, and beyond its bounds: for any number of questions and of
\* records, and entries of any size.
THEOREM PlainQueriesAnswered ==
  /\ AnswersPlainQueries
  /\ \A query \in Asked : DnsLength(query) < QueryMaxSize => (LearnsAddress(query) <=> Plain(query))
<1>1. Queries \subseteq Asked
  <2> SUFFICES ASSUME NEW questions \in UpTo(2, Question), Askable(questions),
                      NEW records \in UpTo(1, Addition)
               PROVE  Query(questions, records) \in Asked
    BY DEF Queries
  <2>1. questions \in Seq(Question) /\ records \in Seq(Addition)
    BY UpToSeq
  <2> QED BY <2>1 DEF Asked
<1> QED BY <1>1, PlainAnswered DEF AnswersPlainQueries

-----------------------------------------------------------------------------
\* The list of access points: wifi_manager_filter_unique, first loop.

\* aps[p] is a later twin of one of the first k records.
Taken(aps, k, p) == \E j \in 1..p - 1 : j <= k /\ Twins(aps[j], aps[p])

\* What the first loop has made of the list after k records.
MergedAt(aps, k) ==
  [p \in DOMAIN aps |->
     IF aps[p].ssid # NoName /\ Taken(aps, k, p) THEN Cleared
     ELSE IF aps[p].ssid # NoName /\ p <= k THEN Best(aps, p)
     ELSE aps[p]]

\* One record more.
LEMMA MergeStep ==
  ASSUME NEW aps \in Seq(AccessPoint), NEW i \in 1..Len(aps)
  PROVE  RemoveTwins(MergedAt(aps, i - 1), i) = MergedAt(aps, i)
<1> DEFINE n == Len(aps)
<1> DEFINE M == MergedAt(aps, i - 1)
<1> DEFINE N == MergedAt(aps, i)
<1>1. n \in Nat /\ DOMAIN aps = 1..n /\ i \in Nat /\ DOMAIN M = 1..n /\ DOMAIN N = 1..n
  BY DEF MergedAt
<1>2. Cleared.ssid = NoName
  BY DEF Cleared
<1>3. \A p \in 1..n : M[p] = IF aps[p].ssid # NoName /\ Taken(aps, i - 1, p) THEN Cleared
                             ELSE IF aps[p].ssid # NoName /\ p <= i - 1 THEN Best(aps, p)
                             ELSE aps[p]
  BY <1>1 DEF MergedAt
<1>4. \A p \in 1..n : N[p] = IF aps[p].ssid # NoName /\ Taken(aps, i, p) THEN Cleared
                             ELSE IF aps[p].ssid # NoName /\ p <= i THEN Best(aps, p)
                             ELSE aps[p]
  BY <1>1 DEF MergedAt
<1>5. M = [p \in 1..n |-> M[p]] /\ N = [p \in 1..n |-> N[p]] /\ Len(M) = n
  BY <1>1 DEF MergedAt
<1> HIDE DEF M, N
\* What a record takes is its own.
<1>6. \A p \in 1..n : Taken(aps, i - 1, p) => Taken(aps, i, p)
  BY <1>1 DEF Taken
<1>7. \A p \in 1..n : p # i /\ Taken(aps, i, p) =>
        Taken(aps, i - 1, p) \/ (p > i /\ Twins(aps[i], aps[p]))
  BY <1>1 DEF Taken
<1>8. Taken(aps, i, i) <=> Taken(aps, i - 1, i)
  BY <1>1 DEF Taken
<1>9. \A p \in 1..n : p > i /\ Twins(aps[i], aps[p]) => Taken(aps, i, p)
  BY <1>1 DEF Taken
<1>10. CASE aps[i].ssid = NoName \/ Taken(aps, i - 1, i)
  <2>1. M[i].ssid = NoName
    BY <1>2, <1>3, <1>10
  <2>2. RemoveTwins(M, i) = M
    BY <2>1 DEF RemoveTwins
  <2>3. ASSUME NEW p \in 1..n, aps[p].ssid # NoName
        PROVE  Taken(aps, i, p) <=> Taken(aps, i - 1, p)
    <3>1. p > i /\ Twins(aps[i], aps[p]) => Taken(aps, i - 1, p)
      <4> SUFFICES ASSUME p > i, Twins(aps[i], aps[p])
                   PROVE  Taken(aps, i - 1, p)
        OBVIOUS
      <4>1. Taken(aps, i - 1, i)
        BY <1>10, <2>3 DEF Twins
      <4> QED BY <1>1, <4>1 DEF Taken, Twins
    <3> QED BY <1>6, <1>7, <1>8, <3>1
  <2>4. ASSUME NEW p \in 1..n
        PROVE  M[p] = N[p]
    <3>1. CASE p = i
      BY <1>3, <1>4, <1>8, <1>10, <3>1
    <3>2. CASE p # i
      <4>1. p <= i <=> p <= i - 1
        BY <1>1, <3>2
      <4> QED BY <1>3, <1>4, <2>3, <4>1
    <3> QED BY <3>1, <3>2
  <2>5. M = N
    BY <1>5, <2>4, Zenon
  <2> QED BY <2>2, <2>5 DEF M, N
<1>11. CASE aps[i].ssid # NoName /\ ~Taken(aps, i - 1, i)
  <2> DEFINE twins == {j \in i + 1..n : Twins(M[i], M[j])}
  <2> DEFINE best == Strongest({M[j] : j \in twins \cup {i}})
  <2>1. M[i] = aps[i]
    BY <1>1, <1>3, <1>11
  <2>2. ASSUME NEW j \in i + 1..n
        PROVE  /\ Twins(M[i], M[j]) <=> Twins(aps[i], aps[j])
               /\ Twins(aps[i], aps[j]) => M[j] = aps[j]
    <3>1. j \in 1..n /\ ~(j <= i - 1)
      BY <1>1
    <3>2. CASE aps[j].ssid # NoName /\ Taken(aps, i - 1, j)
      <4>1. ~Twins(M[i], M[j])
        BY <1>2, <1>3, <1>11, <2>1, <3>1, <3>2 DEF Twins
      <4>2. ~Twins(aps[i], aps[j])
        BY <1>1, <1>11, <3>1, <3>2 DEF Taken, Twins
      <4> QED BY <4>1, <4>2
    <3>3. CASE ~(aps[j].ssid # NoName /\ Taken(aps, i - 1, j))
      BY <1>3, <2>1, <3>1, <3>3
    <3> QED BY <3>2, <3>3
  <2>3. {M[j] : j \in twins \cup {i}}
          = {aps[j] : j \in {k \in DOMAIN aps : Twins(aps[k], aps[i])}}
    <3>1. twins \cup {i} = {k \in DOMAIN aps : Twins(aps[k], aps[i])}
      <4>1. \A k \in 1..n : Twins(aps[k], aps[i]) => k \in twins \cup {i}
        <5> SUFFICES ASSUME NEW k \in 1..n, Twins(aps[k], aps[i]), k # i
                     PROVE  k \in twins
          OBVIOUS
        <5>1. ~(k \in 1..i - 1)
          BY <1>1, <1>11 DEF Taken
        <5>2. k \in i + 1..n /\ Twins(aps[i], aps[k])
          BY <1>1, <5>1 DEF Twins
        <5> QED BY <2>2, <5>2
      <4>2. \A k \in twins \cup {i} : k \in 1..n /\ Twins(aps[k], aps[i])
        BY <1>1, <2>2 DEF Twins
      <4> HIDE DEF twins
      <4> QED BY <1>1, <4>1, <4>2
    <3>2. \A j \in twins \cup {i} : M[j] = aps[j]
      BY <2>1, <2>2
    <3> HIDE DEF twins
    <3> QED BY <3>1, <3>2
  <2>4. Best(aps, i) = [M[i] EXCEPT !.rssi = best]
    BY <2>1, <2>3 DEF Best
  <2>5. RemoveTwins(M, i) = [k \in 1..n |-> IF k = i THEN [M[i] EXCEPT !.rssi = best]
                                           ELSE IF k \in twins THEN Cleared ELSE M[k]]
    BY <1>1, <1>5, <1>11, <2>1 DEF RemoveTwins
  <2> HIDE DEF best
  <2>6. ASSUME NEW p \in 1..n
        PROVE  N[p] = IF p = i THEN [M[i] EXCEPT !.rssi = best]
                      ELSE IF p \in twins THEN Cleared ELSE M[p]
    <3>1. CASE p = i
      BY <1>1, <1>4, <1>8, <1>11, <2>4, <3>1
    <3>2. CASE p \in twins
      <4>1. p # i /\ p > i /\ Twins(aps[i], aps[p])
        BY <1>1, <2>2, <3>2
      <4>2. aps[p].ssid # NoName
        BY <1>11, <4>1 DEF Twins
      <4> HIDE DEF twins
      <4> QED BY <1>4, <1>9, <3>2, <4>1, <4>2
    <3>3. CASE p # i /\ p \notin twins
      <4>1. Taken(aps, i, p) <=> Taken(aps, i - 1, p)
        <5>1. ~(p > i /\ Twins(aps[i], aps[p]))
          BY <1>1, <2>2, <3>3
        <5> QED BY <1>6, <1>7, <3>3, <5>1
      <4>2. p <= i <=> p <= i - 1
        BY <1>1, <3>3
      <4> HIDE DEF twins
      <4> QED BY <1>3, <1>4, <3>3, <4>1, <4>2
    <3> QED BY <3>1, <3>2, <3>3
  <2> HIDE DEF twins
  <2>7. RemoveTwins(M, i) = N
    BY <1>5, <2>5, <2>6
  <2> QED BY <2>7 DEF M, N
<1> QED BY <1>10, <1>11

MergeBody(aps, aplist, i) == IF i = 0 THEN aps ELSE RemoveTwins(aplist[i - 1], i)
MergeFunction == INSTANCE Recursion WITH Body <- MergeBody

\* The first loop leaves the first record of each network and authmode, with the
\* best signal, and no other one with a name.
LEMMA MergedFacts ==
  ASSUME NEW aps \in Seq(AccessPoint)
  PROVE  Merged(aps) = MergedAt(aps, Len(aps))
<1> DEFINE n == Len(aps)
<1> DEFINE f == MergeFunction!Function(aps, n)
<1>1. n \in Nat
  OBVIOUS
<1>2. Merged(aps) = f[n]
  BY DEF Merged, MergeBody, MergeFunction!Function
<1>3. MergeFunction!LooksBack(aps, n)
  BY DEF MergeFunction!LooksBack, MergeBody
<1>4. f = [i \in 0..n |-> MergeBody(aps, f, i)]
  <2> HIDE DEF MergeBody
  <2> QED BY Zenon, <1>1, <1>3, MergeFunction!Defined
<1> HIDE DEF f
<1> DEFINE P == {i \in Nat : i <= n => f[i] = MergedAt(aps, i)}
<1>5. 0 \in P
  <2>1. f[0] = aps
    BY <1>1, <1>4 DEF MergeBody
  <2>2. \A p \in 1..n : ~Taken(aps, 0, p)
    BY DEF Taken
  <2>3. MergedAt(aps, 0) = aps
    BY <2>2 DEF MergedAt
  <2> QED BY <2>1, <2>3
<1>6. ASSUME NEW i \in Nat, i \in P
      PROVE  i + 1 \in P
  <2> SUFFICES ASSUME i + 1 <= n
               PROVE  f[i + 1] = MergedAt(aps, i + 1)
    OBVIOUS
  <2>1. i + 1 \in 1..n /\ i + 1 \in 0..n /\ (i + 1) - 1 = i /\ i + 1 # 0 /\ i <= n
    BY <1>1
  <2>2. f[i + 1] = RemoveTwins(f[i], i + 1)
    BY <1>4, <2>1 DEF MergeBody
  <2>3. RemoveTwins(MergedAt(aps, (i + 1) - 1), i + 1) = MergedAt(aps, i + 1)
    BY <2>1, MergeStep
  <2> QED BY <1>6, <2>1, <2>2, <2>3
<1>7. n \in P
  <2> HIDE DEF P
  <2> QED BY <1>1, <1>5, <1>6, MergeFunction!Induction
<1> QED BY <1>1, <1>2, <1>7

-----------------------------------------------------------------------------
\* Second loop.

\* The number of rows up to a record.
LEMMA RowFacts ==
  ASSUME NEW aps \in Seq(AccessPoint)
  PROVE  /\ Row(aps, 0) = 0
         /\ \A i \in 0..Len(aps) : Row(aps, i) \in 0..i
         /\ \A i \in 1..Len(aps) :
              Row(aps, i) = IF i \in Firsts(aps) THEN Row(aps, i - 1) + 1 ELSE Row(aps, i - 1)
         /\ \A i, j \in 0..Len(aps) : i <= j => Row(aps, i) <= Row(aps, j)
         /\ Row(aps, Len(aps)) = Cardinality(Firsts(aps))
         /\ Firsts(aps) = {} <=> Row(aps, Len(aps)) = 0
<1> DEFINE n == Len(aps)
<1> DEFINE F(i) == Firsts(aps) \cap 1..i
<1>1. n \in Nat /\ Firsts(aps) \subseteq 1..n
  BY DEF Firsts
<1>2. \A i \in 0..n : IsFiniteSet(F(i)) /\ Cardinality(F(i)) \in Nat /\ Cardinality(F(i)) <= i
  <2> SUFFICES ASSUME NEW i \in 0..n
               PROVE  IsFiniteSet(F(i)) /\ Cardinality(F(i)) \in Nat /\ Cardinality(F(i)) <= i
    OBVIOUS
  <2>1. i \in Nat /\ IsFiniteSet(1..i) /\ Cardinality(1..i) = i
    <3>1. i \in Int /\ 1 \in Int /\ i \in Nat
      BY <1>1
    <3>2. IsFiniteSet(1..i) /\ Cardinality(1..i) = IF 1 > i THEN 0 ELSE i - 1 + 1
      BY <3>1, FS_Interval
    <3> QED BY <3>1, <3>2
  <2>2. F(i) \subseteq 1..i
    OBVIOUS
  <2> HIDE DEF F
  <2> QED BY <2>1, <2>2, FS_Subset, FS_CardinalityType
<1>3. \A i \in 0..n : Row(aps, i) \in 0..i
  BY <1>1, <1>2 DEF Row
<1>4. Row(aps, 0) = 0
  BY <1>1, <1>3
<1>5. ASSUME NEW i \in 1..n
      PROVE  Row(aps, i) = IF i \in Firsts(aps) THEN Row(aps, i - 1) + 1 ELSE Row(aps, i - 1)
  <2>1. i - 1 \in 0..n /\ i \in 0..n /\ i \notin F(i - 1)
    BY <1>1
  <2>2. F(i) = IF i \in Firsts(aps) THEN F(i - 1) \cup {i} ELSE F(i - 1)
    BY <1>1
  <2>3. Cardinality(F(i - 1) \cup {i}) = Cardinality(F(i - 1)) + 1
    BY <1>2, <2>1, FS_AddElement
  <2> QED BY <2>2, <2>3 DEF Row
<1>6. ASSUME NEW i \in 0..n, NEW j \in 0..n, i <= j
      PROVE  Row(aps, i) <= Row(aps, j)
  <2>1. F(i) \subseteq F(j)
    BY <1>1, <1>6
  <2> QED BY <1>2, <2>1, FS_Subset DEF Row
<1>7. F(n) = Firsts(aps)
  BY <1>1
<1>8. Firsts(aps) = {} <=> Row(aps, n) = 0
  <2>1. IsFiniteSet(Firsts(aps))
    BY <1>1, <1>2, <1>7
  <2> QED BY <1>7, <2>1, FS_EmptySet DEF Row
<1> QED BY <1>3, <1>4, <1>5, <1>6, <1>7, <1>8 DEF Row

\* There is a strongest one among some records.
LEMMA StrongestFacts ==
  ASSUME NEW aps \in Seq(AccessPoint), NEW T \in SUBSET (DOMAIN aps), T # {}
  PROVE  LET best == Strongest({aps[j] : j \in T})
         IN  best \in Rssi /\ \A j \in T : aps[j].rssi <= best
<1> DEFINE n == Len(aps)
<1> DEFINE Of(m) == T \cap 1..m
<1>1. n \in Nat /\ DOMAIN aps = 1..n /\ Of(n) = T
  OBVIOUS
<1>2. \A j \in T : aps[j].rssi \in Rssi /\ aps[j].rssi \in Int
  <2>1. \A j \in T : aps[j] \in AccessPoint
    OBVIOUS
  <2> QED BY <2>1, RecordAssumption DEF AccessPoint
<1> DEFINE P == {m \in Nat : Of(m) # {} =>
                   \E j \in Of(m) : \A k \in Of(m) : aps[k].rssi <= aps[j].rssi}
<1>3. 0 \in P
  <2>1. Of(0) = {}
    OBVIOUS
  <2> QED BY <2>1
<1>4. ASSUME NEW m \in Nat, m \in P
      PROVE  m + 1 \in P
  <2> SUFFICES ASSUME Of(m + 1) # {}
               PROVE  \E j \in Of(m + 1) : \A k \in Of(m + 1) : aps[k].rssi <= aps[j].rssi
    OBVIOUS
  <2>1. Of(m + 1) = Of(m) \cup (T \cap {m + 1})
    OBVIOUS
  <2>2. CASE m + 1 \notin T
    <3>1. Of(m + 1) = Of(m)
      BY <2>1, <2>2
    <3> QED BY <1>4, <3>1
  <2>3. CASE m + 1 \in T /\ Of(m) = {}
    <3>1. Of(m + 1) = {m + 1}
      BY <2>1, <2>3
    <3>2. aps[m + 1].rssi <= aps[m + 1].rssi
      BY <1>2, <2>3
    <3> HIDE DEF Of
    <3> QED BY <3>1, <3>2
  <2>4. CASE m + 1 \in T /\ Of(m) # {}
    <3>1. PICK j \in Of(m) : \A k \in Of(m) : aps[k].rssi <= aps[j].rssi
      BY <1>4, <2>4
    <3>2. CASE aps[m + 1].rssi <= aps[j].rssi
      <4>1. j \in Of(m + 1) /\ \A k \in Of(m + 1) : aps[k].rssi <= aps[j].rssi
        BY <2>1, <3>1, <3>2
      <4> QED BY <4>1
    <3>3. CASE ~(aps[m + 1].rssi <= aps[j].rssi)
      <4>1. \A k \in Of(m) : aps[k].rssi <= aps[m + 1].rssi
        BY <1>2, <2>4, <3>1, <3>3
      <4>2. aps[m + 1].rssi <= aps[m + 1].rssi
        BY <1>2, <2>4
      <4>3. m + 1 \in Of(m + 1) /\ \A k \in Of(m + 1) : aps[k].rssi <= aps[m + 1].rssi
        BY <2>1, <2>4, <4>1, <4>2
      <4> QED BY <4>3
    <3> QED BY <3>2, <3>3
  <2> QED BY <2>2, <2>3, <2>4
<1>5. n \in P
  <2> HIDE DEF P
  <2> QED BY <1>1, <1>3, <1>4, MergeFunction!Induction
<1>6. PICK j \in T : \A k \in T : aps[k].rssi <= aps[j].rssi
  BY <1>1, <1>5
<1> DEFINE S == {ap.rssi : ap \in {aps[k] : k \in T}}
<1>7. aps[j].rssi \in S /\ \A y \in S : aps[j].rssi >= y
  BY <1>2, <1>6
<1>8. Strongest({aps[k] : k \in T}) \in S /\ \A y \in S : Strongest({aps[k] : k \in T}) >= y
  <2>1. Strongest({aps[k] : k \in T}) = CHOOSE x \in S : \A y \in S : x >= y
    BY DEF Strongest, Max
  <2> HIDE DEF S
  <2> QED BY <1>7, <2>1
<1>9. \A k \in T : aps[k].rssi \in S
  OBVIOUS
<1>10. S \subseteq Rssi /\ S \subseteq Int
  BY <1>2
<1> HIDE DEF S
<1> QED BY <1>8, <1>9, <1>10

\* A first record with its network's best signal is one, of the same network.
LEMMA BestFacts ==
  ASSUME NEW aps \in Seq(AccessPoint), NEW i \in DOMAIN aps
  PROVE  Best(aps, i) \in AccessPoint /\ Best(aps, i).ssid = aps[i].ssid
<1> DEFINE T == {k \in DOMAIN aps : Twins(aps[k], aps[i])}
<1>1. T \in SUBSET (DOMAIN aps) /\ i \in T
  BY DEF Twins
<1>2. Strongest({aps[j] : j \in T}) \in Rssi
  <2> HIDE DEF T
  <2> QED BY <1>1, StrongestFacts
<1>3. aps[i] \in AccessPoint
  OBVIOUS
<1>4. Best(aps, i) = [aps[i] EXCEPT !.rssi = Strongest({aps[j] : j \in T})]
  BY DEF Best
<1> HIDE DEF T
<1> QED BY <1>2, <1>3, <1>4 DEF AccessPoint

\* What the first loop leaves: first records and free places.
LEMMA LeftFacts ==
  ASSUME NEW aps \in Seq(AccessPoint), NEW i \in 1..Len(aps)
  PROVE  LET ap == MergedAt(aps, Len(aps))[i] IN
         /\ ap \in AccessPoint \cup {Cleared}
         /\ i \in Firsts(aps) => ap = Best(aps, i) /\ ap.ssid # NoName
         /\ i \notin Firsts(aps) => ap.ssid = NoName
<1>1. i \in DOMAIN aps /\ i <= Len(aps) /\ aps[i] \in AccessPoint
  OBVIOUS
<1>2. i \in Firsts(aps) <=> aps[i].ssid # NoName /\ ~Taken(aps, Len(aps), i)
  BY <1>1 DEF Firsts, Taken
<1>3. MergedAt(aps, Len(aps))[i] =
        IF aps[i].ssid # NoName /\ Taken(aps, Len(aps), i) THEN Cleared
        ELSE IF aps[i].ssid # NoName THEN Best(aps, i) ELSE aps[i]
  BY <1>1 DEF MergedAt
<1>4. Cleared.ssid = NoName
  BY DEF Cleared
<1> QED BY <1>1, <1>2, <1>3, <1>4, BestFacts

\* The list after i records, of which the first Row(aps, i) places hold the first
\* ones of their network and authmode, and the rest up to i is free.
Settled(aps, s, i) ==
  LET c == Row(aps, i) IN
  /\ s \in [aplist : [1..Len(aps) -> AccessPoint \cup {Cleared}], total_unique : Int,
            first_free : 0..Len(aps)]
  /\ \A j \in Firsts(aps) : j <= i => s.aplist[Row(aps, j)] = Best(aps, j)
  /\ \A k \in 1..c : s.aplist[k].ssid # NoName
  /\ \A k \in c + 1..i : s.aplist[k].ssid = NoName
  /\ \A k \in i + 1..Len(aps) : s.aplist[k] = MergedAt(aps, Len(aps))[k]
  /\ s.total_unique = Len(aps) - (i - c)
  /\ s.first_free = IF c = i THEN 0 ELSE c + 1

\* One record more.
LEMMA ReorderStep ==
  ASSUME NEW aps \in Seq(AccessPoint), NEW i \in 1..Len(aps), NEW s, Settled(aps, s, i - 1)
  PROVE  Settled(aps, Reorder(s, i), i)
<1> DEFINE n == Len(aps)
<1> DEFINE c == Row(aps, i - 1)
<1> DEFINE ap == s.aplist[i]
<1> DEFINE t == Reorder(s, i)
<1> DEFINE moved == [s.aplist EXCEPT ![s.first_free] = ap, ![i] = Cleared]
<1>1. n \in Nat /\ i - 1 \in 0..n /\ i \in 0..n /\ i \in 1..n
  OBVIOUS
<1>2. /\ c \in 0..i - 1
      /\ Row(aps, i) = IF i \in Firsts(aps) THEN c + 1 ELSE c
      /\ \A j \in Firsts(aps) : j \in 1..n
      /\ \A j \in Firsts(aps) : j <= i - 1 => Row(aps, j) <= c /\ Row(aps, j) \in 1..j
  <2>1. \A j \in Firsts(aps) : j \in 1..n
    BY DEF Firsts
  <2>2. ASSUME NEW j \in Firsts(aps)
        PROVE  Row(aps, j) \in 1..j
    <3>1. j \in 1..n /\ j - 1 \in 0..n /\ j \in 0..n
      BY <1>1, <2>1
    <3>2. Row(aps, j) = Row(aps, j - 1) + 1 /\ Row(aps, j - 1) \in 0..j - 1
      BY <2>2, <3>1, RowFacts
    <3> QED BY <3>1, <3>2
  <2>3. \A j \in Firsts(aps) : j <= i - 1 => Row(aps, j) <= c
    <3>1. \A j \in Firsts(aps) : j \in 0..n
      BY <1>1, <2>1
    <3> QED BY <1>1, <3>1, RowFacts
  <2> QED BY <1>1, <2>1, <2>2, <2>3, RowFacts
<1>3. /\ s \in [aplist : [1..n -> AccessPoint \cup {Cleared}], total_unique : Int,
                first_free : 0..n]
      /\ \A j \in Firsts(aps) : j <= i - 1 => s.aplist[Row(aps, j)] = Best(aps, j)
      /\ \A k \in 1..c : s.aplist[k].ssid # NoName
      /\ \A k \in c + 1..i - 1 : s.aplist[k].ssid = NoName
      /\ \A k \in i..n : s.aplist[k] = MergedAt(aps, n)[k]
      /\ s.total_unique = n - ((i - 1) - c)
      /\ s.first_free = IF c = i - 1 THEN 0 ELSE c + 1
  BY <1>1 DEF Settled
<1>4. /\ ap \in AccessPoint \cup {Cleared}
      /\ i \in Firsts(aps) => ap = Best(aps, i) /\ ap.ssid # NoName
      /\ i \notin Firsts(aps) => ap.ssid = NoName
  <2>1. ap = MergedAt(aps, n)[i]
    BY <1>1, <1>3
  <2> QED BY <2>1, LeftFacts
<1>5. t = IF ap.ssid = NoName
            THEN [s EXCEPT !.total_unique = @ - 1,
                           !.first_free = IF @ = 0 THEN i ELSE @]
            ELSE IF s.first_free = 0 THEN s
            ELSE [s EXCEPT !.aplist = moved, !.first_free = NextFree(moved)]
  BY DEF Reorder
<1> HIDE DEF t, c, ap, n
\* A free place more.
<1>6. CASE i \notin Firsts(aps)
  <2>1. Row(aps, i) = c /\ ap.ssid = NoName
    BY <1>2, <1>4, <1>6
  <2>2. /\ t \in [aplist : [1..n -> AccessPoint \cup {Cleared}], total_unique : Int,
                  first_free : 0..n]
        /\ t.aplist = s.aplist /\ t.total_unique = n - (i - c)
        /\ t.first_free = IF c = i - 1 THEN i ELSE c + 1
    <3>1. t = [s EXCEPT !.total_unique = @ - 1, !.first_free = IF @ = 0 THEN i ELSE @]
      BY <1>5, <2>1
    <3>2. t = [aplist |-> s.aplist, total_unique |-> s.total_unique - 1,
               first_free |-> IF s.first_free = 0 THEN i ELSE s.first_free]
      BY <1>3, <3>1
    <3>3. s.total_unique - 1 = n - (i - c) /\ s.total_unique - 1 \in Int
      BY <1>1, <1>2, <1>3
    <3>4. (IF s.first_free = 0 THEN i ELSE s.first_free) = IF c = i - 1 THEN i ELSE c + 1
      BY <1>1, <1>2, <1>3
    <3>5. (IF s.first_free = 0 THEN i ELSE s.first_free) \in 0..n
      BY <1>1, <1>3
    <3> QED BY <1>3, <3>2, <3>3, <3>4, <3>5
  <2>3. \A j \in Firsts(aps) : j <= i => j <= i - 1
    BY <1>1, <1>2, <1>6
  <2>4. \A k \in c + 1..i : t.aplist[k].ssid = NoName
    BY <1>1, <1>2, <1>3, <2>1, <2>2 DEF ap
  <2>5. \A k \in i + 1..n : t.aplist[k] = MergedAt(aps, n)[k]
    BY <1>1, <1>3, <2>2
  <2>6. t.first_free = IF c = i THEN 0 ELSE c + 1
    BY <1>1, <1>2, <2>2
  <2> QED BY <1>3, <2>1, <2>2, <2>3, <2>4, <2>5, <2>6 DEF Settled, t, n
\* A first record, without a free place before it, ...
<1>7. CASE i \in Firsts(aps) /\ c = i - 1
  <2>1. Row(aps, i) = i /\ ap.ssid # NoName /\ ap = Best(aps, i)
    BY <1>1, <1>2, <1>4, <1>7
  <2>2. t = s /\ s.first_free = 0
    BY <1>3, <1>5, <1>7, <2>1
  <2>3. \A j \in Firsts(aps) : j <= i => s.aplist[Row(aps, j)] = Best(aps, j)
    BY <1>1, <1>2, <1>3, <2>1 DEF ap
  <2>4. \A k \in 1..i : s.aplist[k].ssid # NoName
    BY <1>1, <1>3, <1>7, <2>1 DEF ap
  <2>5. s.total_unique = n - (i - i)
    BY <1>1, <1>3, <1>7
  <2>6. \A k \in i + 1..i : FALSE
    BY <1>1
  <2>7. \A k \in i + 1..n : s.aplist[k] = MergedAt(aps, n)[k]
    BY <1>1, <1>3
  <2> QED BY <1>3, <2>1, <2>2, <2>3, <2>4, <2>5, <2>6, <2>7 DEF Settled, t, n
\* ... or with one, into which it moves.
<1>8. CASE i \in Firsts(aps) /\ c # i - 1
  <2>1. /\ Row(aps, i) = c + 1 /\ ap.ssid # NoName /\ ap = Best(aps, i) /\ s.first_free = c + 1
        /\ c + 1 \in 1..n /\ c + 1 < i /\ c \in Nat
    BY <1>1, <1>2, <1>3, <1>4, <1>8
  <2>2. /\ moved \in [1..n -> AccessPoint \cup {Cleared}]
        /\ moved[c + 1] = ap /\ moved[i] = Cleared
        /\ \A k \in 1..n : k # c + 1 /\ k # i => moved[k] = s.aplist[k]
    BY <1>1, <1>3, <1>4, <2>1
  <2>3. NextFree(moved) = c + 2
    <3> DEFINE S == {j \in DOMAIN moved : moved[j].ssid = NoName}
    <3>1. DOMAIN moved = 1..n
      BY <2>2
    <3>2. c + 2 \in S
      <4>1. c + 2 \in 1..n /\ c + 2 <= i
        BY <1>1, <2>1
      <4>2. moved[c + 2].ssid = NoName
        <5>1. CASE c + 2 = i
          BY <2>2, <5>1 DEF Cleared
        <5>2. CASE c + 2 # i
          <6>1. c + 2 \in c + 1..i - 1 /\ c + 2 # c + 1
            BY <1>1, <2>1, <4>1, <5>2
          <6> QED BY <1>3, <2>2, <4>1, <5>2, <6>1
        <5> QED BY <5>1, <5>2
      <4> HIDE DEF moved
      <4> QED BY <3>1, <4>1, <4>2
    <3>3. \A y \in S : c + 2 <= y
      <4> SUFFICES ASSUME NEW y \in S, ~(c + 2 <= y)
                   PROVE  FALSE
        OBVIOUS
      <4>1. y \in 1..n /\ y <= c + 1 /\ y # i /\ moved[y].ssid = NoName
        BY <1>1, <2>1, <3>1
      <4>2. y # c + 1
        BY <2>1, <2>2, <4>1
      <4>3. y \in 1..c /\ moved[y] = s.aplist[y]
        BY <2>1, <2>2, <4>1, <4>2
      <4> QED BY <1>3, <4>1, <4>3
    <3>4. S \subseteq Int
      BY <3>1
    <3>5. NextFree(moved) = CHOOSE x \in S : \A y \in S : x =< y
      BY DEF NextFree, Min
    <3> HIDE DEF S, moved
    <3>6. NextFree(moved) \in S /\ \A y \in S : NextFree(moved) <= y
      BY <3>2, <3>3, <3>5
    <3>7. c + 2 <= NextFree(moved) /\ NextFree(moved) <= c + 2 /\ NextFree(moved) \in Int
      BY Zenon, <3>2, <3>3, <3>4, <3>6
    <3> QED BY <2>1, <3>7
  <2> HIDE DEF moved
  <2>4. t = [s EXCEPT !.aplist = moved, !.first_free = NextFree(moved)]
    BY <1>5, <2>1
  <2>5. /\ t \in [aplist : [1..n -> AccessPoint \cup {Cleared}], total_unique : Int,
                  first_free : 0..n]
        /\ t.aplist = moved /\ t.total_unique = n - (i - (c + 1)) /\ t.first_free = c + 2
    <3>1. t = [aplist |-> moved, total_unique |-> s.total_unique, first_free |-> c + 2]
      BY <1>3, <2>3, <2>4
    <3>2. s.total_unique = n - (i - (c + 1)) /\ s.total_unique \in Int /\ c + 2 \in 0..n
      BY <1>1, <1>3, <2>1
    <3> QED BY <2>2, <3>1, <3>2
  <2>6. \A j \in Firsts(aps) : j <= i => moved[Row(aps, j)] = Best(aps, j)
    <3> SUFFICES ASSUME NEW j \in Firsts(aps), j <= i
                 PROVE  moved[Row(aps, j)] = Best(aps, j)
      OBVIOUS
    <3>1. CASE j = i
      BY <2>1, <2>2, <3>1
    <3>2. CASE j # i
      <4>1. j <= i - 1
        BY <1>1, <1>2, <3>2
      <4>2. Row(aps, j) <= c /\ Row(aps, j) \in 1..j /\ s.aplist[Row(aps, j)] = Best(aps, j)
        BY <1>2, <1>3, <4>1
      <4>3. Row(aps, j) \in 1..n /\ Row(aps, j) # c + 1 /\ Row(aps, j) # i
        BY <1>1, <1>2, <2>1, <4>1, <4>2
      <4> QED BY <2>2, <4>2, <4>3
    <3> QED BY <3>1, <3>2
  <2>7. \A k \in 1..c + 1 : moved[k].ssid # NoName
    <3> SUFFICES ASSUME NEW k \in 1..c + 1
                 PROVE  moved[k].ssid # NoName
      OBVIOUS
    <3>1. k \in 1..n /\ k # i /\ (k = c + 1 \/ k \in 1..c)
      BY <1>1, <2>1
    <3> QED BY <1>3, <2>1, <2>2, <3>1
  <2>8. \A k \in c + 2..i : moved[k].ssid = NoName
    <3> SUFFICES ASSUME NEW k \in c + 2..i
                 PROVE  moved[k].ssid = NoName
      OBVIOUS
    <3>1. CASE k = i
      BY <2>2, <3>1 DEF Cleared
    <3>2. CASE k # i
      <4>1. k \in 1..n /\ k # c + 1 /\ k \in c + 1..i - 1
        BY <1>1, <2>1, <3>2
      <4> QED BY <1>3, <2>2, <3>2, <4>1
    <3> QED BY <3>1, <3>2
  <2>9. \A k \in i + 1..n : moved[k] = MergedAt(aps, n)[k]
    <3> SUFFICES ASSUME NEW k \in i + 1..n
                 PROVE  moved[k] = MergedAt(aps, n)[k]
      OBVIOUS
    <3>1. k \in 1..n /\ k # c + 1 /\ k # i /\ k \in i..n
      BY <1>1, <2>1
    <3> QED BY <1>3, <2>2, <3>1
  <2>10. (c + 1) + 1 = c + 2 /\ c + 1 # i
    BY <1>1, <2>1
  <2> QED BY <2>1, <2>5, <2>6, <2>7, <2>8, <2>9, <2>10 DEF Settled, t, n
<1> QED BY <1>6, <1>7, <1>8 DEF t

ReorderBody(aplist, s, i) == IF i = 0 THEN Start(aplist) ELSE Reorder(s[i - 1], i)
ReorderFunction == INSTANCE Recursion WITH Body <- ReorderBody

\* All of them.
LEMMA ReorderedFacts ==
  ASSUME NEW aps \in Seq(AccessPoint)
  PROVE  Settled(aps, Reordered(Merged(aps)), Len(aps))
<1> DEFINE n == Len(aps)
<1> DEFINE M == Merged(aps)
<1> DEFINE f == ReorderFunction!Function(M, n)
<1>1. n \in Nat
  OBVIOUS
<1>2. M = MergedAt(aps, n) /\ DOMAIN M = 1..n /\ M = [k \in 1..n |-> M[k]]
  <2>1. M = MergedAt(aps, n)
    BY MergedFacts
  <2>2. DOMAIN MergedAt(aps, n) = 1..n /\ MergedAt(aps, n) = [k \in 1..n |-> MergedAt(aps, n)[k]]
    BY DEF MergedAt
  <2> QED BY <2>1, <2>2
<1> HIDE DEF M
<1>3. \A k \in 1..n : M[k] \in AccessPoint \cup {Cleared}
  BY <1>2, LeftFacts
<1>4. M \in [1..n -> AccessPoint \cup {Cleared}] /\ Len(M) = n
  BY <1>1, <1>2, <1>3
<1>5. Reordered(M) = f[n]
  BY <1>4 DEF Reordered, ReorderBody, ReorderFunction!Function
<1>6. ReorderFunction!LooksBack(M, n)
  BY DEF ReorderFunction!LooksBack, ReorderBody
<1>7. f = [i \in 0..n |-> ReorderBody(M, f, i)]
  <2> HIDE DEF ReorderBody
  <2> QED BY Zenon, <1>1, <1>6, ReorderFunction!Defined
<1> HIDE DEF f
<1> DEFINE P == {i \in Nat : i <= n => Settled(aps, f[i], i)}
<1>8. 0 \in P
  <2>1. f[0] = [aplist |-> M, total_unique |-> n, first_free |-> 0]
    BY <1>1, <1>4, <1>7 DEF ReorderBody, Start
  <2>2. Row(aps, 0) = 0
    BY RowFacts
  <2>3. \A j \in Firsts(aps) : ~(j <= 0)
    BY DEF Firsts
  <2>4. f[0] \in [aplist : [1..n -> AccessPoint \cup {Cleared}], total_unique : Int,
                  first_free : 0..n]
    BY <1>1, <1>4, <2>1
  <2>5. /\ f[0].aplist = MergedAt(aps, n) /\ f[0].first_free = 0 /\ f[0].total_unique = n - (0 - 0)
    BY <1>1, <1>2, <2>1
  <2>6. \A k : k \notin 1..0 /\ k \notin 0 + 1..0
    OBVIOUS
  <2> HIDE DEF n
  <2>7. Settled(aps, f[0], 0)
    BY <2>2, <2>3, <2>4, <2>5, <2>6 DEF Settled, n
  <2> QED BY <2>7
<1>9. ASSUME NEW i \in Nat, i \in P
      PROVE  i + 1 \in P
  <2> SUFFICES ASSUME i + 1 <= n
               PROVE  Settled(aps, f[i + 1], i + 1)
    OBVIOUS
  <2>1. i + 1 \in 1..n /\ i + 1 \in 0..n /\ (i + 1) - 1 = i /\ i + 1 # 0 /\ i <= n
    BY <1>1
  <2>2. f[i + 1] = Reorder(f[i], i + 1)
    BY <1>7, <2>1 DEF ReorderBody
  <2>3. Settled(aps, f[i], (i + 1) - 1)
    BY <1>9, <2>1
  <2>4. Settled(aps, Reorder(f[i], i + 1), i + 1)
    BY <2>1, <2>3, ReorderStep
  <2> QED BY <2>2, <2>4
<1>10. n \in P
  <2> HIDE DEF P
  <2> QED BY <1>1, <1>8, <1>9, ReorderFunction!Induction
<1> QED BY <1>1, <1>5, <1>10 DEF M

\* wifi_manager_filter_unique leaves a row for each first record, in its order.
LEMMA FilterFacts ==
  ASSUME NEW aps \in Seq(AccessPoint)
  PROVE  /\ FilterUnique(aps) \in Seq(AccessPoint)
         /\ Len(FilterUnique(aps)) = Cardinality(Firsts(aps))
         /\ \A i \in Firsts(aps) : FilterUnique(aps)[Row(aps, i)] = Best(aps, i)
<1> DEFINE n == Len(aps)
<1> DEFINE end == Reordered(Merged(aps))
<1> DEFINE c == Row(aps, n)
<1>1. Settled(aps, end, n)
  BY ReorderedFacts
<1>2. /\ n \in Nat /\ c \in 0..n /\ c = Cardinality(Firsts(aps))
  BY RowFacts
<1>3. /\ end.aplist \in [1..n -> AccessPoint \cup {Cleared}]
      /\ \A j \in Firsts(aps) : j <= n => end.aplist[Row(aps, j)] = Best(aps, j)
      /\ \A k \in 1..c : end.aplist[k].ssid # NoName
      /\ end.total_unique = n - (n - c)
  BY <1>1 DEF Settled
<1>4. FilterUnique(aps) = [k \in 1..end.total_unique |-> end.aplist[k]]
  BY DEF FilterUnique
<1>5. \A j \in Firsts(aps) : j <= n /\ Row(aps, j) \in 1..c
  <2> SUFFICES ASSUME NEW j \in Firsts(aps)
               PROVE  j <= n /\ Row(aps, j) \in 1..c
    OBVIOUS
  <2>1. j \in 1..n /\ j \in 0..n /\ j - 1 \in 0..n /\ n \in 0..n
    BY <1>2 DEF Firsts
  <2>2. Row(aps, j) = Row(aps, j - 1) + 1 /\ Row(aps, j - 1) \in 0..j - 1 /\ Row(aps, j) <= c
    BY <2>1, RowFacts
  <2> QED BY <1>2, <2>1, <2>2
<1> HIDE DEF end, c, n
<1>6. end.total_unique = c /\ c \in Nat
  BY <1>2, <1>3
<1>7. \A k \in 1..c : end.aplist[k] \in AccessPoint
  <2>1. Cleared.ssid = NoName
    BY DEF Cleared
  <2> QED BY <1>2, <1>3, <2>1
<1>8. FilterUnique(aps) = [k \in 1..c |-> end.aplist[k]]
  BY <1>4, <1>6
<1>9. FilterUnique(aps) \in Seq(AccessPoint) /\ Len(FilterUnique(aps)) = c
  BY <1>6, <1>7, <1>8
<1>10. ASSUME NEW i \in Firsts(aps)
       PROVE  FilterUnique(aps)[Row(aps, i)] = Best(aps, i)
  BY <1>3, <1>5, <1>8
<1> QED BY <1>2, <1>9, <1>10 DEF c, n

-----------------------------------------------------------------------------
\* The text of the list, and the page.

Item(aps, i) == <<aps[i], IF i = Len(aps) THEN "]" ELSE ",">>
PrintBody(aps, text, i) == IF i = 0 THEN <<"[">> ELSE text[i - 1] \o Item(aps, i)
PrintFunction == INSTANCE Recursion WITH Body <- PrintBody

Token == AccessPoint \cup {"[", ",", "]"}

\* Two tokens behind a text, ...
LEMMA TokensBehind ==
  ASSUME NEW s \in Seq(Token), NEW t \in Seq(Token), Len(t) = 2
  PROVE  /\ s \o t \in Seq(Token) /\ Len(s \o t) = Len(s) + 2
         /\ \A k \in 1..Len(s) : (s \o t)[k] = s[k]
         /\ (s \o t)[Len(s) + 1] = t[1] /\ (s \o t)[Len(s) + 2] = t[2]
<1>1. /\ s \o t \in Seq(Token) /\ Len(s \o t) = Len(s) + Len(t)
      /\ \A k \in 1..Len(s) : (s \o t)[k] = s[k]
      /\ \A k \in 1..Len(t) : (s \o t)[Len(s) + k] = t[k]
  BY Concatenated
<1>2. 1 \in 1..Len(t) /\ 2 \in 1..Len(t)
  OBVIOUS
<1>3. Len(s \o t) = Len(s) + 2
  BY Zenon, <1>1
<1> QED BY Zenon, <1>1, <1>2, <1>3

\* ... one token, and two.
LEMMA TokenFacts ==
  ASSUME NEW a \in Token, NEW b \in Token
  PROVE  /\ <<a, b>> \in Seq(Token) /\ Len(<<a, b>>) = 2 /\ <<a, b>>[1] = a /\ <<a, b>>[2] = b
         /\ <<a>> \in Seq(Token) /\ Len(<<a>>) = 1 /\ <<a>>[1] = a
OBVIOUS

\* Record and separator, record and separator; or only the bracket.
LEMMA PrintFacts ==
  ASSUME NEW aps \in Seq(AccessPoint)
  PROVE  LET text == PrintList(aps) IN
         /\ Len(text) = 2 * Len(aps) + 1
         /\ \A k \in 1..Len(aps) : text[2 * k] = aps[k]
         /\ text[Len(text)] = IF Len(aps) = 0 THEN "[" ELSE "]"
<1> DEFINE n == Len(aps)
<1> DEFINE f == PrintFunction!Function(aps, n)
<1>1. n \in Nat /\ \A k \in 1..n : aps[k] \in AccessPoint
  OBVIOUS
<1>2. PrintList(aps) = f[n]
  BY DEF PrintList, PrintBody, Item, PrintFunction!Function
<1>3. PrintFunction!LooksBack(aps, n)
  BY DEF PrintFunction!LooksBack, PrintBody
<1>4. f = [i \in 0..n |-> PrintBody(aps, f, i)]
  <2> HIDE DEF PrintBody
  <2> QED BY Zenon, <1>1, <1>3, PrintFunction!Defined
<1> HIDE DEF f
<1>5. "[" \in Token /\ "]" \in Token /\ "," \in Token /\ AccessPoint \subseteq Token
  BY DEF Token
<1>6. ASSUME NEW i \in 1..n
      PROVE  /\ Item(aps, i) \in Seq(Token) /\ Len(Item(aps, i)) = 2
             /\ Item(aps, i)[1] = aps[i] /\ Item(aps, i)[2] = IF i = n THEN "]" ELSE ","
  <2>1. PICK sep \in Token : sep = IF i = n THEN "]" ELSE ","
    BY <1>5
  <2>2. Item(aps, i) = <<aps[i], sep>> /\ aps[i] \in Token
    BY <1>1, <1>5, <2>1 DEF Item
  <2>3. /\ <<aps[i], sep>> \in Seq(Token) /\ Len(<<aps[i], sep>>) = 2
        /\ <<aps[i], sep>>[1] = aps[i] /\ <<aps[i], sep>>[2] = sep
    BY Zenon, <2>2, TokenFacts
  <2> QED BY Zenon, <2>1, <2>2, <2>3
<1> DEFINE Good(i) == /\ f[i] \in Seq(Token) /\ Len(f[i]) = 2 * i + 1
                      /\ \A k \in 1..i : f[i][2 * k] = aps[k]
                      /\ f[i][2 * i + 1] = IF i = 0 THEN "[" ELSE IF i = n THEN "]" ELSE ","
<1> DEFINE P == {i \in Nat : i <= n => Good(i)}
<1>7. 0 \in P
  <2>1. f[0] = <<"[">>
    BY <1>1, <1>4 DEF PrintBody
  <2>2. f[0] \in Seq(Token) /\ Len(f[0]) = 1 /\ f[0][1] = "["
    BY <1>5, <2>1, TokenFacts
  <2>3. 2 * 0 + 1 = 1 /\ \A k : k \notin 1..0
    OBVIOUS
  <2> QED BY <2>2, <2>3
<1>8. ASSUME NEW i \in Nat, i \in P
      PROVE  i + 1 \in P
  <2> SUFFICES ASSUME i + 1 <= n
               PROVE  Good(i + 1)
    <3> HIDE DEF Good
    <3> QED OBVIOUS
  <2>1. i + 1 \in 1..n /\ i + 1 \in 0..n /\ (i + 1) - 1 = i /\ i + 1 # 0 /\ i <= n
    BY <1>1
  <2>2. f[i + 1] = f[i] \o Item(aps, i + 1)
    BY <1>4, <2>1 DEF PrintBody
  <2>3. Good(i)
    BY <1>8, <2>1
  <2>4. f[i] \in Seq(Token) /\ Len(f[i]) = 2 * i + 1
    BY <2>3
  <2>5. /\ Item(aps, i + 1) \in Seq(Token) /\ Len(Item(aps, i + 1)) = 2
        /\ Item(aps, i + 1)[1] = aps[i + 1]
        /\ Item(aps, i + 1)[2] = IF i + 1 = n THEN "]" ELSE ","
    BY <1>6, <2>1
  <2> HIDE DEF Good
  <2>6. /\ f[i + 1] \in Seq(Token) /\ Len(f[i + 1]) = (2 * i + 1) + 2
        /\ \A k \in 1..2 * i + 1 : f[i + 1][k] = f[i][k]
        /\ f[i + 1][(2 * i + 1) + 1] = aps[i + 1]
        /\ f[i + 1][(2 * i + 1) + 2] = IF i + 1 = n THEN "]" ELSE ","
    <3>1. PICK t \in Seq(Token) : t = Item(aps, i + 1) /\ Len(t) = 2
      BY <2>5
    <3>2. PICK s \in Seq(Token) : s = f[i]
      BY <2>4
    <3>3. f[i + 1] = s \o t
      BY <2>2, <3>1, <3>2
    <3>4. /\ f[i + 1] \in Seq(Token) /\ Len(f[i + 1]) = Len(s) + 2
          /\ \A k \in 1..Len(s) : f[i + 1][k] = s[k]
          /\ f[i + 1][Len(s) + 1] = t[1] /\ f[i + 1][Len(s) + 2] = t[2]
      <4>1. Len(t) = 2
        BY <3>1
      <4>2. /\ s \o t \in Seq(Token) /\ Len(s \o t) = Len(s) + 2
            /\ \A k \in 1..Len(s) : (s \o t)[k] = s[k]
            /\ (s \o t)[Len(s) + 1] = t[1] /\ (s \o t)[Len(s) + 2] = t[2]
        BY Zenon, <4>1, TokensBehind
      <4> QED BY Zenon, <3>3, <4>2
    <3> QED BY Zenon, <2>4, <2>5, <3>1, <3>2, <3>4
  <2>7. ASSUME NEW k \in 1..i + 1
        PROVE  f[i + 1][2 * k] = aps[k]
    <3>1. CASE k = i + 1
      <4>1. 2 * k = (2 * i + 1) + 1
        BY <3>1
      <4> QED BY <2>6, <3>1, <4>1
    <3>2. CASE k # i + 1
      <4>1. k \in 1..i /\ 2 * k \in 1..2 * i + 1
        BY <3>2
      <4> QED BY <2>3, <2>6, <4>1 DEF Good
    <3> QED BY <3>1, <3>2
  <2>8. 2 * (i + 1) + 1 = (2 * i + 1) + 2
    OBVIOUS
  <2> QED BY <2>1, <2>6, <2>7, <2>8 DEF Good
<1>9. n \in P
  <2> HIDE DEF P
  <2> QED BY <1>1, <1>7, <1>8, PrintFunction!Induction
<1>10. Good(n)
  <2>1. n <= n
    BY <1>1
  <2> QED BY <1>9, <2>1
<1> QED BY <1>1, <1>2, <1>10

\* ShowsNetworks, for any list the driver found.
LEMMA NetworksShown ==
  ASSUME NEW aps \in Seq(AccessPoint)
  PROVE  ShowsNetworks(aps)
<1> DEFINE rows == FilterUnique(aps)
<1> DEFINE text == PrintList(rows)
<1> DEFINE page == RefreshAP(text, <<"before">>)
<1>1. /\ rows \in Seq(AccessPoint) /\ Len(rows) = Cardinality(Firsts(aps))
      /\ \A i \in Firsts(aps) : rows[Row(aps, i)] = Best(aps, i)
  BY FilterFacts
<1>2. /\ Len(text) = 2 * Len(rows) + 1 /\ \A k \in 1..Len(rows) : text[2 * k] = rows[k]
      /\ text[Len(text)] = IF Len(rows) = 0 THEN "[" ELSE "]"
  BY <1>1, PrintFacts
<1>3. Firsts(aps) = {} <=> Len(rows) = 0
  BY <1>1, RowFacts
<1> HIDE DEF rows, text
<1>4. CASE Len(rows) = 0
  <2>1. page = <<"before">>
    BY <1>2, <1>4 DEF RefreshAP
  <2> QED BY <1>3, <1>4, <2>1 DEF ShowsNetworks, rows, text
<1>5. CASE Len(rows) # 0
  <2>1. Len(rows) \in Nat
    BY <1>1
  <2>2. Len(text) > 2 /\ text[Len(text)] = "]" /\ (Len(text) - 1) \div 2 = Len(rows)
    BY <1>2, <1>5, <2>1
  <2>3. page = [i \in 1..Len(rows) |-> text[2 * i]]
    BY <2>2 DEF RefreshAP
  <2>4. rows = [i \in 1..Len(rows) |-> rows[i]]
    BY <1>1
  <2>5. page = rows
    BY <1>2, <2>3, <2>4
  <2> HIDE DEF page
  <2> QED BY <1>1, <1>3, <1>5, <2>5 DEF ShowsNetworks, rows, text, page
<1> QED BY <1>4, <1>5

\* ListShowsNetworks, and beyond its bound: for a list of any length.
THEOREM NetworksListed ==
  ListShowsNetworks /\ \A aps \in Seq(AccessPoint) : ShowsNetworks(aps)
<1>1. UpTo(ListBound, AccessPoint) \subseteq Seq(AccessPoint)
  BY UpToSeq, LengthAssumption
<1> QED BY <1>1, NetworksShown DEF ListShowsNetworks

-----------------------------------------------------------------------------
\* The names: json_print_string and the page's reader.

\* What a name is made of: everything but the 0 that ends it.
NameByte == 1..255

\* The three ways to write a character.
IsPlain(c)  == c > 31 /\ c \notin {Quote, Backslash}
IsShort(c)  == c \in DOMAIN Letter
IsNumber(c) == c < 32 /\ c \notin DOMAIN Letter

\* Each character has one of them, and escape_characters counts as many more
\* characters as it takes.
LEMMA WrittenFacts ==
  ASSUME NEW c \in NameByte
  PROVE  /\ IsPlain(c) \/ IsShort(c) \/ IsNumber(c)
         /\ IsPlain(c) => Written(c) = <<c>> /\ Extra(c) = 0
         /\ IsShort(c) => Written(c) = <<Backslash, Letter[c]>> /\ Extra(c) = 1
         /\ IsNumber(c) => /\ Written(c) = <<Backslash, 117, 48, 48, Hex(c \div 16), Hex(c % 16)>>
                           /\ Extra(c) = 5
         /\ IsShort(c) => Letter[c] \in Nat /\ Letter[c] # 117
         /\ Hex(c \div 16) \in Nat /\ Hex(c % 16) \in Nat
         /\ Written(c) \in Seq(Nat) /\ Len(Written(c)) = 1 + Extra(c)
<1>1. c \in Nat /\ c \div 16 \in Nat /\ c % 16 \in Nat
  BY DEF NameByte
<1>2. DOMAIN Letter = {8, 9, 10, 12, 13, 34, 92}
  BY DEF Letter, Quote, Backslash
<1>3. IsPlain(c) \/ IsShort(c) \/ IsNumber(c)
  BY <1>1, <1>2 DEF IsPlain, IsShort, IsNumber, Quote, Backslash
<1>4. IsPlain(c) => Written(c) = <<c>> /\ Extra(c) = 0
  BY <1>1 DEF IsPlain, Written, Extra, OneCharacter, Quote, Backslash
<1>5. IsShort(c) => Written(c) = <<Backslash, Letter[c]>> /\ Extra(c) = 1
  <2>1. IsShort(c) => c \in OneCharacter /\ ~(c > 31 /\ c \notin {Quote, Backslash})
    BY <1>2 DEF IsShort, OneCharacter, Quote, Backslash
  <2> QED BY <2>1 DEF IsShort, Written, Extra
<1>6. IsNumber(c) => /\ Written(c) = <<Backslash, 117, 48, 48, Hex(c \div 16), Hex(c % 16)>>
                     /\ Extra(c) = 5
  <2>1. IsNumber(c) => c \notin OneCharacter /\ ~(c > 31 /\ c \notin {Quote, Backslash})
    BY <1>1, <1>2 DEF IsNumber, OneCharacter, Quote, Backslash
  <2> QED BY <2>1 DEF IsNumber, Written, Extra
<1>7. IsShort(c) => Letter[c] \in Nat /\ Letter[c] # 117
  BY <1>2 DEF IsShort, Letter, Quote, Backslash
<1>8. Hex(c \div 16) \in Nat /\ Hex(c % 16) \in Nat
  BY <1>1 DEF Hex
<1>9. Written(c) \in Seq(Nat) /\ Len(Written(c)) = 1 + Extra(c)
  <2>1. \A x \in Nat : <<x>> \in Seq(Nat) /\ Len(<<x>>) = 1
    OBVIOUS
  <2>2. \A x, y \in Nat : <<x, y>> \in Seq(Nat) /\ Len(<<x, y>>) = 2
    OBVIOUS
  <2>3. \A x, y \in Nat : /\ <<92, 117, 48, 48, x, y>> \in Seq(Nat)
                          /\ Len(<<92, 117, 48, 48, x, y>>) = 6
    OBVIOUS
  <2>4. CASE IsPlain(c)
    <3>1. Written(c) = <<c>> /\ 1 + Extra(c) = 1
      BY <1>4, <2>4
    <3>2. <<c>> \in Seq(Nat) /\ Len(<<c>>) = 1
      BY <1>1, <2>1
    <3> QED BY Zenon, <3>1, <3>2
  <2>5. CASE IsShort(c)
    <3>1. Written(c) = <<92, Letter[c]>> /\ 1 + Extra(c) = 2
      BY <1>5, <2>5 DEF Backslash
    <3>2. <<92, Letter[c]>> \in Seq(Nat) /\ Len(<<92, Letter[c]>>) = 2
      BY <1>7, <2>2, <2>5
    <3> QED BY Zenon, <3>1, <3>2
  <2>6. CASE IsNumber(c)
    <3>1. /\ Written(c) = <<92, 117, 48, 48, Hex(c \div 16), Hex(c % 16)>>
          /\ 1 + Extra(c) = 6
      BY <1>6, <2>6 DEF Backslash
    <3>2. /\ <<92, 117, 48, 48, Hex(c \div 16), Hex(c % 16)>> \in Seq(Nat)
          /\ Len(<<92, 117, 48, 48, Hex(c \div 16), Hex(c % 16)>>) = 6
      BY <1>8, <2>3
    <3> QED BY Zenon, <3>1, <3>2
  <2> QED BY <1>3, <2>4, <2>5, <2>6
<1> QED BY <1>3, <1>4, <1>5, <1>6, <1>7, <1>8, <1>9

\* What is written is bytes again; for one of ASCII, bytes of ASCII, and for
\* another one that byte.
LEMMA WrittenBytes ==
  ASSUME NEW c \in NameByte
  PROVE  /\ Written(c) \in Seq(NameByte) /\ Len(Written(c)) \in 1..6
         /\ c < 128 => \A j \in 1..Len(Written(c)) : Written(c)[j] < 128
         /\ ~(c < 128) => Written(c) = <<c>>
<1> DEFINE Ascii == 1..127
<1>1. c \in 1..255 /\ c \in Nat
  BY DEF NameByte
<1>2. DOMAIN Letter = {8, 9, 10, 12, 13, 34, 92}
  BY DEF Letter, Quote, Backslash
<1>2a. /\ \A S : \A x \in S : <<x>> \in Seq(S) /\ Len(<<x>>) = 1 /\ <<x>>[1] = x
       /\ \A S : \A x, y \in S : <<x, y>> \in Seq(S)
       /\ \A S : \A x, y, z, v, a, b \in S : <<x, y, z, v, a, b>> \in Seq(S)
       /\ \A S, T : S \subseteq T => Seq(S) \subseteq Seq(T)
       /\ \A S : \A w \in Seq(S) : \A j \in 1..Len(w) : w[j] \in S
  OBVIOUS
<1>2b. 92 \in Ascii /\ 117 \in Ascii /\ 48 \in Ascii /\ Ascii \subseteq NameByte
       /\ \A a \in Ascii : a < 128
  BY DEF NameByte
<1>3. /\ \A x, y \in Ascii : <<x, y>> \in Seq(Ascii)
      /\ \A x, y \in Ascii : <<92, 117, 48, 48, x, y>> \in Seq(Ascii)
      /\ Seq(Ascii) \subseteq Seq(NameByte)
      /\ \A w \in Seq(Ascii) : \A j \in 1..Len(w) : w[j] < 128
  <2> HIDE DEF Ascii
  <2> QED BY Zenon, <1>2a, <1>2b
<1>4. CASE IsPlain(c)
  <2>1. Written(c) = <<c>>
    BY <1>4, WrittenFacts
  <2>2. Written(c) \in Seq(NameByte) /\ Len(Written(c)) = 1 /\ Written(c)[1] = c
    BY Zenon, <1>2a, <2>1
  <2> QED BY <1>1, <2>1, <2>2
<1>5. ASSUME IsShort(c)
      PROVE  Written(c) \in Seq(Ascii) /\ Len(Written(c)) \in 1..6 /\ c < 128
  <2>1. Letter[c] \in Ascii /\ Backslash \in Ascii /\ c < 128
    BY <1>2, <1>5 DEF IsShort, Letter, Quote, Backslash
  <2>2. Written(c) = <<Backslash, Letter[c]>> /\ Len(Written(c)) = 2
    BY <1>5, WrittenFacts
  <2> HIDE DEF Ascii
  <2>3. Written(c) \in Seq(Ascii)
    BY Zenon, <1>3, <2>1, <2>2
  <2> QED BY <2>1, <2>2, <2>3
<1>6. ASSUME IsNumber(c)
      PROVE  Written(c) \in Seq(Ascii) /\ Len(Written(c)) \in 1..6 /\ c < 128
  <2>1. c \div 16 \in 0..1 /\ c % 16 \in 0..15
    BY <1>1, <1>6 DEF IsNumber
  <2>2. Hex(c \div 16) \in Ascii /\ Hex(c % 16) \in Ascii
    BY <2>1 DEF Hex
  <2>3. /\ Written(c) = <<92, 117, 48, 48, Hex(c \div 16), Hex(c % 16)>>
        /\ Len(Written(c)) = 6
    BY <1>6, WrittenFacts DEF Backslash
  <2>4. c < 128
    BY <1>1, <1>6 DEF IsNumber
  <2> HIDE DEF Ascii
  <2>5. Written(c) \in Seq(Ascii)
    BY Zenon, <1>3, <2>2, <2>3
  <2> QED BY <2>3, <2>4, <2>5
<1> HIDE DEF Ascii
<1> QED BY <1>3, <1>4, <1>5, <1>6, WrittenFacts

\* The reader, between characters ...
Ready(out) == [out |-> out, at |-> 0, code |-> 0]
\* ... and within an escape.
Within(out, at, code) == [out |-> out, at |-> at, code |-> code]

\* One character of the text: one that stands for itself, ...
LEMMA ReadOnePlain ==
  ASSUME NEW out, NEW c \in Nat, IsPlain(c)
  PROVE  ReadOne(Ready(out), c) = Ready(Append(out, c))
<1>1. c # Backslash /\ ~(c < 32 \/ c = Quote) /\ c \in Nat
  BY DEF IsPlain
<1>2. Ready(out).at = 0 /\ Ready(out).out = out
  BY DEF Ready
<1> QED BY <1>1, <1>2 DEF ReadOne, Ready

\* ... the one that begins an escape, ...
LEMMA ReadOneBackslash ==
  ASSUME NEW out
  PROVE  ReadOne(Ready(out), Backslash) = Within(out, 1, 0)
<1>1. Ready(out).at = 0 /\ [Ready(out) EXCEPT !.at = 1] = Within(out, 1, 0)
  BY DEF Ready, Within
<1> QED BY <1>1 DEF ReadOne

\* ... the letter of a short one, ...
LEMMA ReadOneLetter ==
  ASSUME NEW out, NEW c \in NameByte, IsShort(c)
  PROVE  ReadOne(Within(out, 1, 0), Letter[c]) = Ready(Append(out, c))
<1> DEFINE means == {d \in DOMAIN Letter : Letter[d] = Letter[c]}
<1>1. means = {c}
  <2>1. DOMAIN Letter = {8, 9, 10, 12, 13, 34, 92}
    BY DEF Letter, Quote, Backslash
  <2>2. /\ Letter[8] = 98 /\ Letter[9] = 116 /\ Letter[10] = 110 /\ Letter[12] = 102
        /\ Letter[13] = 114 /\ Letter[34] = 34 /\ Letter[92] = 92
    BY DEF Letter, Quote, Backslash
  <2>3. \A d \in DOMAIN Letter : Letter[d] = Letter[c] => d = c
    BY <2>1, <2>2 DEF IsShort
  <2> QED BY <2>3 DEF IsShort
<1>2. Within(out, 1, 0).at = 1 /\ Within(out, 1, 0).out = out
  BY DEF Within
<1>3. Letter[c] # 117
  BY WrittenFacts
<1>4. (IF means = {} THEN Garbled ELSE CHOOSE d \in means : TRUE) = c
  BY <1>1
<1> DEFINE w == Within(out, 1, 0)
<1> HIDE DEF w
<1>5. w.at = 1 /\ w.at # 0 /\ w.out = out
  BY <1>2 DEF w
<1>6. ReadOne(w, Letter[c]) = Ready(Append(w.out, IF means = {} THEN Garbled
                                                 ELSE CHOOSE d \in means : TRUE))
  BY <1>3, <1>5 DEF ReadOne, Ready
<1> QED BY <1>4, <1>5, <1>6 DEF w

\* ... the letter of a number, ...
LEMMA ReadOneU ==
  ASSUME NEW out
  PROVE  ReadOne(Within(out, 1, 0), 117) = Within(out, 2, 0)
<1>1. Within(out, 1, 0).at = 1 /\ [Within(out, 1, 0) EXCEPT !.at = 2] = Within(out, 2, 0)
  BY DEF Within
<1> QED BY <1>1 DEF ReadOne

\* ... a digit of it, ...
LEMMA ReadOneDigit ==
  \A out, code, char, next, new : \A at \in 2..4 :
    next = at + 1 /\ new = 16 * code + Digit(char)
      => ReadOne(Within(out, at, code), char) = Within(out, next, new)
<1> SUFFICES ASSUME NEW out, NEW code, NEW char, NEW next, NEW new, NEW at \in 2..4,
                    next = at + 1, new = 16 * code + Digit(char)
             PROVE  ReadOne(Within(out, at, code), char) = Within(out, next, new)
  OBVIOUS
<1> DEFINE s == Within(out, at, code)
<1>1. s.at = at /\ s.code = code /\ s.out = out
  BY DEF Within
<1> HIDE DEF s
<1>3. s.at \in 2..4 /\ s.at # 0 /\ s.at # 1
  BY <1>1
<1>4. ReadOne(s, char) = Within(s.out, s.at + 1, 16 * s.code + Digit(char))
  BY <1>3 DEF ReadOne, Within
<1> QED BY <1>1, <1>4 DEF s

\* ... and the last one, which ends it.
LEMMA ReadOneLast ==
  ASSUME NEW out, NEW code, NEW char
  PROVE  ReadOne(Within(out, 5, code), char) = Ready(Append(out, 16 * code + Digit(char)))
<1> DEFINE s == Within(out, 5, code)
<1>1. s.at = 5 /\ s.code = code /\ s.out = out
  BY DEF Within
<1> HIDE DEF s
<1>2. s.at \notin 2..4 /\ s.at # 0 /\ s.at # 1
  BY <1>1
<1>3. ReadOne(s, char) = Ready(Append(s.out, 16 * s.code + Digit(char)))
  BY <1>1, <1>2 DEF ReadOne, Ready
<1> QED BY <1>1, <1>3 DEF s

\* The first three digits.
LEMMA ReadOneDigits ==
  \A out, code, char, new : new = 16 * code + Digit(char)
     => /\ ReadOne(Within(out, 2, code), char) = Within(out, 3, new)
        /\ ReadOne(Within(out, 3, code), char) = Within(out, 4, new)
        /\ ReadOne(Within(out, 4, code), char) = Within(out, 5, new)
<1> SUFFICES ASSUME NEW out, NEW code, NEW char, NEW new, new = 16 * code + Digit(char)
             PROVE  /\ ReadOne(Within(out, 2, code), char) = Within(out, 3, new)
                    /\ ReadOne(Within(out, 3, code), char) = Within(out, 4, new)
                    /\ ReadOne(Within(out, 4, code), char) = Within(out, 5, new)
  OBVIOUS
<1> QED BY ReadOneDigit

\* The digits of a number read as the number.
LEMMA Digits ==
  ASSUME NEW c \in NameByte
  PROVE  /\ 0 = 16 * 0 + Digit(48)
         /\ c \div 16 = 16 * 0 + Digit(Hex(c \div 16))
         /\ c = 16 * (c \div 16) + Digit(Hex(c % 16))
<1>1. \A d \in 0..15 : Digit(Hex(d)) = d
  BY DEF Digit, Hex
<1>2. c \in Int /\ 1 <= c /\ c <= 255
  BY DEF NameByte
<1>3. c = 16 * (c \div 16) + (c % 16) /\ c \div 16 \in Int /\ c % 16 \in 0..15
  BY <1>2
<1>4. c \div 16 \in 0..15
  <2> DEFINE d == c \div 16
  <2> DEFINE m == c % 16
  <2>1. c = 16 * d + m /\ d \in Int /\ m \in 0..15
    BY <1>3
  <2> HIDE DEF d, m
  <2>2. d \in 0..15
    BY <1>2, <2>1
  <2> QED BY <2>2 DEF d
<1>5. Digit(48) = 0
  BY DEF Digit
<1>6. Digit(Hex(c \div 16)) = c \div 16 /\ Digit(Hex(c % 16)) = c % 16
  BY Zenon, <1>1, <1>3, <1>4
<1>7. 16 * 0 = 0 /\ 0 + c \div 16 = c \div 16
  BY <1>3
<1> QED BY <1>3, <1>5, <1>6, <1>7

\* Where the text has what is written for c, the reader gets c.
LEMMA ReadWritten ==
  ASSUME NEW s, NEW l \in Nat, NEW c \in NameByte, NEW out,
         \A j \in 1..Len(Written(c)) : s[l + j] = ReadOne(s[(l + j) - 1], Written(c)[j]),
         s[l] = Ready(out)
  PROVE  s[l + Len(Written(c))] = Ready(Append(out, c))
<1>0. IsPlain(c) \/ IsShort(c) \/ IsNumber(c)
  BY WrittenFacts
<1>1. (l + 1) - 1 = l /\ (l + 2) - 1 = l + 1 /\ (l + 3) - 1 = l + 2 /\ (l + 4) - 1 = l + 3
      /\ (l + 5) - 1 = l + 4 /\ (l + 6) - 1 = l + 5
  OBVIOUS
<1>2. CASE IsPlain(c)
  <2>1. Len(Written(c)) = 1 /\ Written(c)[1] = c
    BY <1>2, WrittenFacts
  <2>2. s[l + 1] = ReadOne(Ready(out), c)
    BY <1>1, <2>1
  <2>3. c \in Nat
    BY DEF NameByte
  <2> QED BY <1>2, <2>1, <2>2, <2>3, ReadOnePlain
<1>3. CASE IsShort(c)
  <2>1. Len(Written(c)) = 2 /\ Written(c)[1] = Backslash /\ Written(c)[2] = Letter[c]
    BY <1>3, WrittenFacts
  <2>2. s[l + 1] = ReadOne(Ready(out), Backslash) /\ s[l + 2] = ReadOne(s[l + 1], Letter[c])
    BY <1>1, <2>1
  <2>3. s[l + 1] = Within(out, 1, 0)
    BY <2>2, ReadOneBackslash
  <2> QED BY <1>3, <2>1, <2>2, <2>3, ReadOneLetter
<1>4. CASE IsNumber(c)
  <2>1. /\ Len(Written(c)) = 6 /\ Written(c)[1] = Backslash /\ Written(c)[2] = 117
        /\ Written(c)[3] = 48 /\ Written(c)[4] = 48
        /\ Written(c)[5] = Hex(c \div 16) /\ Written(c)[6] = Hex(c % 16)
    BY <1>4, WrittenFacts
  <2>2. /\ s[l + 1] = ReadOne(s[l], Backslash) /\ s[l + 2] = ReadOne(s[l + 1], 117)
        /\ s[l + 3] = ReadOne(s[l + 2], 48) /\ s[l + 4] = ReadOne(s[l + 3], 48)
        /\ s[l + 5] = ReadOne(s[l + 4], Hex(c \div 16))
        /\ s[l + 6] = ReadOne(s[l + 5], Hex(c % 16))
    BY <1>1, <2>1
  <2>3. s[l + 2] = Within(out, 2, 0)
    BY <2>2, ReadOneBackslash, ReadOneU
  <2>4. s[l + 3] = Within(out, 3, 0)
    <3>1. 0 = 16 * 0 + Digit(48)
      BY Zenon, Digits
    <3>2. ReadOne(Within(out, 2, 0), 48) = Within(out, 3, 0)
      BY <3>1, ReadOneDigits
    <3> QED BY Zenon, <2>2, <2>3, <3>2
  <2>5. s[l + 4] = Within(out, 4, 0)
    <3>1. 0 = 16 * 0 + Digit(48)
      BY Zenon, Digits
    <3>2. ReadOne(Within(out, 3, 0), 48) = Within(out, 4, 0)
      BY <3>1, ReadOneDigits
    <3> QED BY Zenon, <2>2, <2>4, <3>2
  <2>6. s[l + 5] = Within(out, 5, c \div 16)
    <3>1. c \div 16 = 16 * 0 + Digit(Hex(c \div 16))
      BY Zenon, Digits
    <3>2. ReadOne(Within(out, 4, 0), Hex(c \div 16)) = Within(out, 5, c \div 16)
      BY <3>1, ReadOneDigits
    <3> QED BY Zenon, <2>2, <2>5, <3>2
  <2>7. s[l + 6] = Ready(Append(out, 16 * (c \div 16) + Digit(Hex(c % 16))))
    BY <2>2, <2>6, ReadOneLast
  <2>8. s[l + 6] = Ready(Append(out, c))
    BY Zenon, <2>7, Digits
  <2> QED BY <2>1, <2>7, <2>8
<1> QED BY <1>0, <1>2, <1>3, <1>4

TextBody(name, text, i) == IF i = 0 THEN << >> ELSE text[i - 1] \o Written(name[i])
TextFunction == INSTANCE Recursion WITH Body <- TextBody

LengthBody(name, length, i) == IF i = 0 THEN 0 ELSE length[i - 1] + 1 + Extra(name[i])
LengthFunction == INSTANCE Recursion WITH Body <- LengthBody

ReaderBody(text, s, i) ==
  IF i = 0 THEN [out |-> << >>, at |-> 0, code |-> 0] ELSE ReadOne(s[i - 1], text[i])
ReaderFunction == INSTANCE Recursion WITH Body <- ReaderBody

\* The two functions of the text, step by step.
LEMMA TextSteps ==
  ASSUME NEW name \in Seq(NameByte)
  PROVE  LET text   == TextFunction!Function(name, Len(name))
             length == LengthFunction!Function(name, Len(name))
         IN  /\ Text(name) = text[Len(name)] /\ OutputLength(name) = length[Len(name)]
             /\ text[0] = << >> /\ length[0] = 0
             /\ \A i \in 0..Len(name) - 1 :
                  /\ text[i + 1] = text[i] \o Written(name[i + 1])
                  /\ length[i + 1] = length[i] + 1 + Extra(name[i + 1])
<1> DEFINE n == Len(name)
<1> DEFINE text == TextFunction!Function(name, n)
<1> DEFINE length == LengthFunction!Function(name, n)
<1>1. n \in Nat
  OBVIOUS
<1>2. Text(name) = text[n] /\ OutputLength(name) = length[n]
  BY DEF Text, OutputLength, TextBody, LengthBody, TextFunction!Function, LengthFunction!Function
<1>3. TextFunction!LooksBack(name, n)
  BY DEF TextFunction!LooksBack, TextBody
<1>4. LengthFunction!LooksBack(name, n)
  BY DEF LengthFunction!LooksBack, LengthBody
<1>5. text = [i \in 0..n |-> TextBody(name, text, i)]
  <2> HIDE DEF TextBody
  <2> QED BY Zenon, <1>1, <1>3, TextFunction!Defined
<1>6. length = [i \in 0..n |-> LengthBody(name, length, i)]
  <2> HIDE DEF LengthBody
  <2> QED BY Zenon, <1>1, <1>4, LengthFunction!Defined
<1> HIDE DEF text, length
<1>7. text[0] = << >> /\ length[0] = 0
  <2>1. 0 \in 0..n
    BY <1>1
  <2>2. text[0] = TextBody(name, text, 0) /\ length[0] = LengthBody(name, length, 0)
    BY Zenon, <1>5, <1>6, <2>1
  <2> QED BY <2>2 DEF TextBody, LengthBody
<1>8. ASSUME NEW i \in 0..n - 1
      PROVE  /\ text[i + 1] = text[i] \o Written(name[i + 1])
             /\ length[i + 1] = length[i] + 1 + Extra(name[i + 1])
  <2>1. i + 1 \in 0..n /\ (i + 1) - 1 = i /\ i + 1 # 0
    BY <1>1
  <2>2. text[i + 1] = TextBody(name, text, i + 1) /\ length[i + 1] = LengthBody(name, length, i + 1)
    <3> HIDE DEF n
    <3> QED BY Zenon, <1>5, <1>6, <2>1
  <2> QED BY <2>1, <2>2 DEF TextBody, LengthBody
<1> QED BY <1>2, <1>7, <1>8 DEF text, length

\* The reader's function, step by step.
LEMMA ReaderSteps ==
  ASSUME NEW text \in Seq(Nat)
  PROVE  LET s == ReaderFunction!Function(text, Len(text)) IN
         /\ Read(text) = IF s[Len(text)].at = 0 THEN s[Len(text)].out
                         ELSE Append(s[Len(text)].out, Garbled)
         /\ s[0] = Ready(<< >>)
         /\ \A i \in 1..Len(text) : s[i] = ReadOne(s[i - 1], text[i])
<1> DEFINE n == Len(text)
<1> DEFINE s == ReaderFunction!Function(text, n)
<1>1. n \in Nat
  OBVIOUS
<1>2. Read(text) = IF s[n].at = 0 THEN s[n].out ELSE Append(s[n].out, Garbled)
  <2> HIDE DEF ReadOne
  <2> QED BY DEF Read, ReaderBody, ReaderFunction!Function
<1>3. ReaderFunction!LooksBack(text, n)
  <2> HIDE DEF ReadOne
  <2> QED BY DEF ReaderFunction!LooksBack, ReaderBody
<1>4. s = [i \in 0..n |-> ReaderBody(text, s, i)]
  <2> HIDE DEF ReaderBody
  <2> QED BY Zenon, <1>1, <1>3, ReaderFunction!Defined
<1> HIDE DEF s
<1>5. s[0] = Ready(<< >>)
  BY <1>1, <1>4 DEF ReaderBody, Ready
<1>6. ASSUME NEW i \in 1..n
      PROVE  s[i] = ReadOne(s[i - 1], text[i])
  <2>1. i \in 0..n /\ i # 0
    BY <1>1
  <2> HIDE DEF n
  <2>2. s[i] = ReaderBody(text, s, i)
    BY Zenon, <1>4, <2>1
  <2> QED BY <2>1, <2>2 DEF ReaderBody
<1> QED BY <1>2, <1>5, <1>6 DEF s

\* What is written for a character stays where it was put.
LEMMA TextGrows ==
  ASSUME NEW name \in Seq(NameByte)
  PROVE  LET text   == TextFunction!Function(name, Len(name))
             length == LengthFunction!Function(name, Len(name))
         IN  /\ Text(name) \in Seq(NameByte) /\ Len(Text(name)) = length[Len(name)]
             /\ \A i \in 0..Len(name) - 1 :
                  /\ length[i] \in Nat
                  /\ length[i + 1] = length[i] + Len(Written(name[i + 1]))
                  /\ \A j \in 1..Len(Written(name[i + 1])) :
                       /\ length[i] + j \in 1..Len(Text(name))
                       /\ Text(name)[length[i] + j] = Written(name[i + 1])[j]
<1> DEFINE n == Len(name)
<1> DEFINE text == TextFunction!Function(name, n)
<1> DEFINE length == LengthFunction!Function(name, n)
<1>1. n \in Nat /\ \A i \in 1..n : name[i] \in NameByte
  OBVIOUS
<1>2. /\ Text(name) = text[n] /\ text[0] = << >> /\ length[0] = 0
      /\ \A i \in 0..n - 1 : /\ text[i + 1] = text[i] \o Written(name[i + 1])
                             /\ length[i + 1] = length[i] + 1 + Extra(name[i + 1])
  BY TextSteps
<1> HIDE DEF text, length
<1>3. ASSUME NEW i \in 0..n - 1
      PROVE  /\ Written(name[i + 1]) \in Seq(NameByte) /\ Len(Written(name[i + 1])) \in Nat
             /\ Len(Written(name[i + 1])) = 1 + Extra(name[i + 1])
  <2>1. name[i + 1] \in NameByte
    BY <1>1
  <2>2. /\ Written(name[i + 1]) \in Seq(NameByte)
        /\ Len(Written(name[i + 1])) = 1 + Extra(name[i + 1])
    BY <2>1, WrittenFacts, WrittenBytes
  <2> QED BY <2>2
<1> DEFINE Good(i) == /\ text[i] \in Seq(NameByte) /\ Len(text[i]) = length[i] /\ length[i] \in Nat
                      /\ \A j \in 0..i : /\ length[j] \in Nat /\ length[j] <= length[i]
                                         /\ \A k \in 1..length[j] : text[i][k] = text[j][k]
<1> DEFINE P == {i \in Nat : i <= n => Good(i)}
<1>4. 0 \in P
  <2>1. text[0] \in Seq(NameByte) /\ Len(text[0]) = 0
    BY <1>2
  <2>2. (\A j \in 0..0 : j = 0) /\ \A k : k \notin 1..0
    OBVIOUS
  <2>3. \A j \in 0..0 : /\ length[j] \in Nat /\ length[j] <= length[0]
                        /\ \A k \in 1..length[j] : text[0][k] = text[j][k]
    BY <1>2, <2>2
  <2>4. Good(0)
    BY <1>2, <2>1, <2>3
  <2> HIDE DEF Good
  <2> QED BY <2>4
<1>5. ASSUME NEW i \in Nat, i \in P
      PROVE  i + 1 \in P
  <2> DEFINE w == Written(name[i + 1])
  <2> SUFFICES ASSUME i + 1 <= n
               PROVE  Good(i + 1)
    <3> HIDE DEF Good
    <3> QED OBVIOUS
  <2>1. i \in 0..n - 1 /\ i <= n
    BY <1>1
  <2>2. Good(i)
    BY <1>5, <2>1
  <2>3. text[i + 1] = text[i] \o w /\ w \in Seq(NameByte) /\ Len(w) \in Nat
    BY <1>2, <1>3, <2>1
  <2>4. length[i + 1] = length[i] + Len(w)
    <3>1. length[i + 1] = length[i] + 1 + Extra(name[i + 1]) /\ Len(w) = 1 + Extra(name[i + 1])
      BY <1>2, <1>3, <2>1
    <3>2. length[i] \in Nat
      BY <2>2
    <3>3. Extra(name[i + 1]) \in Int
      BY DEF Extra
    <3> QED BY <3>1, <3>2, <3>3
  <2>5. text[i] \in Seq(NameByte) /\ Len(text[i]) = length[i] /\ length[i] \in Nat
    BY <2>2
  <2> HIDE DEF w
  <2>6. /\ text[i + 1] \in Seq(NameByte) /\ Len(text[i + 1]) = length[i + 1]
        /\ length[i + 1] \in Nat /\ length[i] <= length[i + 1]
        /\ \A k \in 1..length[i] : text[i + 1][k] = text[i][k]
    BY <2>3, <2>4, <2>5, Concatenated
  <2>7. ASSUME NEW j \in 0..i + 1
        PROVE  /\ length[j] \in Nat /\ length[j] <= length[i + 1]
               /\ \A k \in 1..length[j] : text[i + 1][k] = text[j][k]
    <3>1. CASE j = i + 1
      BY <2>6, <3>1
    <3>2. CASE j # i + 1
      <4>1. j \in 0..i
        BY <3>2
      <4>2. /\ length[j] \in Nat /\ length[j] <= length[i]
            /\ \A k \in 1..length[j] : text[i][k] = text[j][k]
        BY <2>2, <4>1
      <4> HIDE DEF Good
      <4> QED BY <2>5, <2>6, <4>2
    <3> QED BY <3>1, <3>2
  <2> QED BY <2>6, <2>7
<1>6. \A i \in 0..n : Good(i)
  <2> HIDE DEF P
  <2>1. Nat \subseteq P
    BY <1>4, <1>5, TextFunction!Induction
  <2> QED BY <1>1, <2>1 DEF P
<1>7. Good(n)
  <2> HIDE DEF Good
  <2> QED BY <1>1, <1>6
<1>8. ASSUME NEW i \in 0..n - 1
      PROVE  /\ length[i] \in Nat /\ length[i + 1] = length[i] + Len(Written(name[i + 1]))
             /\ \A j \in 1..Len(Written(name[i + 1])) :
                  /\ length[i] + j \in 1..Len(text[n])
                  /\ text[n][length[i] + j] = Written(name[i + 1])[j]
  <2> DEFINE w == Written(name[i + 1])
  <2>1. i \in 0..n /\ i + 1 \in 0..n
    BY <1>1
  <2>2. text[i] \in Seq(NameByte) /\ Len(text[i]) = length[i] /\ length[i] \in Nat
    BY <1>6, <2>1
  <2>3. text[i + 1] = text[i] \o w /\ w \in Seq(NameByte) /\ Len(w) \in Nat
    BY <1>2, <1>3
  <2>4. Len(text[i + 1]) = length[i + 1]
    BY <1>6, <2>1
  <2>5. /\ length[i + 1] \in Nat /\ length[i + 1] <= length[n] /\ Len(text[n]) = length[n]
        /\ length[n] \in Nat
        /\ \A k \in 1..length[i + 1] : text[n][k] = text[i + 1][k]
    BY <1>7, <2>1
  <2> HIDE DEF Good, w
  <2>6. /\ Len(text[i + 1]) = length[i] + Len(w)
        /\ \A j \in 1..Len(w) : text[i + 1][length[i] + j] = w[j]
    <3>1. \A a, b \in Seq(NameByte) : /\ Len(a \o b) = Len(a) + Len(b)
                                  /\ \A j \in 1..Len(b) : (a \o b)[Len(a) + j] = b[j]
      BY Concatenated
    <3>2. /\ Len(text[i] \o w) = Len(text[i]) + Len(w)
          /\ \A j \in 1..Len(w) : (text[i] \o w)[Len(text[i]) + j] = w[j]
      BY <2>2, <2>3, <3>1
    <3> QED BY Zenon, <2>2, <2>3, <3>2
  <2>7. ASSUME NEW j \in 1..Len(w)
        PROVE  length[i] + j \in 1..Len(text[n]) /\ text[n][length[i] + j] = w[j]
    <3>1. length[i] + j \in 1..length[i + 1] /\ length[i] + j \in 1..Len(text[n])
      <4>1. length[i + 1] = length[i] + Len(w)
        BY <2>4, <2>6
      <4>2. \A l, m, end \in Nat : l + m <= end
              => \A k \in 1..m : l + k \in 1..l + m /\ l + k \in 1..end
        OBVIOUS
      <4>3. length[i] + Len(w) <= Len(text[n]) /\ Len(text[n]) \in Nat
        BY <2>5, <4>1
      <4>4. length[i] \in Nat /\ Len(w) \in Nat
        BY <2>2, <2>3
      <4>5. length[i] + j \in 1..length[i] + Len(w) /\ length[i] + j \in 1..Len(text[n])
        BY Zenon, <4>2, <4>3, <4>4
      <4> QED BY Zenon, <4>1, <4>5
    <3> QED BY <2>3, <2>5, <2>6, <3>1
  <2> QED BY <2>2, <2>4, <2>6, <2>7 DEF w
<1> QED BY <1>2, <1>7, <1>8 DEF text, length

\* The reader of one more character.
Reading(text) == ReaderFunction!Function(text, Len(text))[Len(text)]

LEMMA ReadingFacts ==
  ASSUME NEW text \in Seq(Nat)
  PROVE  /\ Read(text) = IF Reading(text).at = 0 THEN Reading(text).out
                         ELSE Append(Reading(text).out, Garbled)
         /\ Reading(<< >>) = Ready(<< >>)
         /\ \A c \in Nat : Reading(Append(text, c)) = ReadOne(Reading(text), c)
<1>1. Read(text) = IF Reading(text).at = 0 THEN Reading(text).out
                   ELSE Append(Reading(text).out, Garbled)
  BY ReaderSteps DEF Reading
<1>2. Reading(<< >>) = Ready(<< >>)
  <2>1. << >> \in Seq(Nat) /\ Len(<< >>) = 0
    OBVIOUS
  <2> QED BY <2>1, ReaderSteps DEF Reading
<1>3. ASSUME NEW c \in Nat
      PROVE  Reading(Append(text, c)) = ReadOne(Reading(text), c)
  <2> DEFINE n == Len(text)
  <2> DEFINE more == Append(text, c)
  <2> DEFINE s == ReaderFunction!Function(text, n)
  <2> DEFINE s1 == ReaderFunction!Function(more, Len(more))
  <2>1. /\ n \in Nat /\ more \in Seq(Nat) /\ Len(more) = n + 1 /\ more[n + 1] = c
        /\ \A i \in 1..n : more[i] = text[i]
    OBVIOUS
  <2>2. s[0] = Ready(<< >>) /\ \A i \in 1..n : s[i] = ReadOne(s[i - 1], text[i])
    BY ReaderSteps
  <2>3. s1[0] = Ready(<< >>) /\ \A i \in 1..Len(more) : s1[i] = ReadOne(s1[i - 1], more[i])
    BY <2>1, ReaderSteps
  <2>4. Reading(text) = s[n] /\ Reading(more) = s1[n + 1]
    BY <2>1 DEF Reading
  <2> HIDE DEF more, s, s1
  <2> DEFINE P == {i \in Nat : i <= n => s1[i] = s[i]}
  <2>5. 0 \in P
    BY <2>2, <2>3
  <2>6. ASSUME NEW i \in Nat, i \in P
        PROVE  i + 1 \in P
    <3> SUFFICES ASSUME i + 1 <= n
                 PROVE  s1[i + 1] = s[i + 1]
      OBVIOUS
    <3>1. i + 1 \in 1..n /\ i + 1 \in 1..Len(more) /\ (i + 1) - 1 = i /\ i <= n
      BY <2>1
    <3>2. s1[i] = s[i]
      BY <2>6, <3>1
    <3> QED BY <2>1, <2>2, <2>3, <3>1, <3>2
  <2>7. n \in P
    <3> HIDE DEF P
    <3> QED BY <2>1, <2>5, <2>6, ReaderFunction!Induction
  <2>8. s1[n] = s[n]
    BY <2>1, <2>7
  <2>9. s1[n + 1] = ReadOne(s1[n], c)
    <3>1. n + 1 \in 1..Len(more) /\ (n + 1) - 1 = n
      BY <2>1
    <3> QED BY <2>1, <2>3, <3>1
  <2> QED BY <2>4, <2>8, <2>9 DEF more
<1> QED BY <1>1, <1>2, <1>3

\* What it takes to append a sequence of one or two elements.
LEMMA OneElement ==
  ASSUME NEW v \in Seq(Nat), Len(v) = 1
  PROVE  v = <<v[1]>>
OBVIOUS

LEMMA AppendedTwo ==
  ASSUME NEW t \in Seq(Nat), NEW v \in Seq(Nat)
  PROVE  /\ Len(v) = 0 => t \o v = t
         /\ Len(v) = 1 => t \o v = Append(t, v[1])
         /\ Len(v) = 2 => t \o v = Append(Append(t, v[1]), v[2])
         /\ \A a \in Nat : t \o Append(v, a) = Append(t \o v, a) /\ t \o Append(<< >>, a) = Append(t, a)
<1>1. Len(v) = 0 => t \o v = t
  OBVIOUS
<1>2. ASSUME NEW v1 \in Seq(Nat), NEW a \in Nat
      PROVE  t \o Append(v1, a) = Append(t \o v1, a)
  OBVIOUS
<1>3. ASSUME NEW a \in Nat
      PROVE  t \o Append(<< >>, a) = Append(t, a)
  OBVIOUS
<1>4. Len(v) = 1 => v[1] \in Nat /\ v = Append(<< >>, v[1])
  <2>0. \A i \in 1..Len(v) : v[i] \in Nat
    OBVIOUS
  <2> SUFFICES ASSUME Len(v) = 1
               PROVE  v[1] \in Nat /\ v = Append(<< >>, v[1])
    OBVIOUS
  <2>1. v[1] \in Nat
    BY <2>0
  <2>2. v = <<v[1]>>
    BY OneElement
  <2>3. \A a \in Nat : Append(<< >>, a) = <<a>>
    OBVIOUS
  <2>4. v = Append(<< >>, v[1])
    BY Zenon, <2>1, <2>2, <2>3
  <2> QED BY Zenon, <2>1, <2>4
<1>5. Len(v) = 2 => v[1] \in Nat /\ v[2] \in Nat /\ v = Append(Append(<< >>, v[1]), v[2])
  OBVIOUS
<1>6. \A a \in Nat : Append(<< >>, a) \in Seq(Nat)
  OBVIOUS
<1>7. Len(v) = 1 => t \o v = Append(t, v[1])
  BY Zenon, <1>3, <1>4
<1>8. Len(v) = 2 => t \o v = Append(Append(t, v[1]), v[2])
  <2> SUFFICES ASSUME Len(v) = 2
               PROVE  t \o v = Append(Append(t, v[1]), v[2])
    OBVIOUS
  <2> DEFINE w == Append(<< >>, v[1])
  <2>1. w \in Seq(Nat) /\ v[2] \in Nat /\ t \o w = Append(t, v[1])
    BY Zenon, <1>3, <1>5, <1>6
  <2>2. v = Append(w, v[2])
    BY Zenon, <1>5
  <2> HIDE DEF w
  <2>3. t \o Append(w, v[2]) = Append(t \o w, v[2])
    BY Zenon, <1>2, <2>1
  <2> QED BY Zenon, <2>1, <2>2, <2>3
<1> QED BY <1>1, <1>2, <1>3, <1>7, <1>8

\* Up to two characters that stand for themselves.
PlainCode == {c \in Nat : IsPlain(c)}

LEMMA ReadPlain ==
  ASSUME NEW text \in Seq(Nat), NEW out \in Seq(Nat), Reading(text) = Ready(out),
         NEW u \in Seq(PlainCode), Len(u) <= 2
  PROVE  Reading(text \o u) = Ready(out \o u) /\ text \o u \in Seq(Nat) /\ out \o u \in Seq(Nat)
<1>1. Len(u) \in {0, 1, 2} /\ \A i \in 1..Len(u) : u[i] \in Nat /\ IsPlain(u[i])
  <2>1. Len(u) \in Nat /\ \A i \in 1..Len(u) : u[i] \in PlainCode
    OBVIOUS
  <2>2. \A c \in PlainCode : c \in Nat /\ IsPlain(c)
    BY DEF PlainCode
  <2>3. Len(u) \in {0, 1, 2}
    <3>1. \A m \in Nat : m <= 2 => m \in {0, 1, 2}
      OBVIOUS
    <3> QED BY Zenon, <2>1, <3>1
  <2> QED BY Zenon, <2>1, <2>2, <2>3
<1>2. u \in Seq(Nat) /\ text \o u \in Seq(Nat) /\ out \o u \in Seq(Nat)
  BY DEF PlainCode
<1>3. CASE Len(u) = 0
  <2>1. text \o u = text /\ out \o u = out
    BY <1>2, <1>3, AppendedTwo
  <2> QED BY <1>2, <2>1
<1>4. \A t, o \in Seq(Nat) : \A c \in Nat :
        IsPlain(c) /\ Reading(t) = Ready(o) => Reading(Append(t, c)) = Ready(Append(o, c))
  BY ReadingFacts, ReadOnePlain
<1>5. CASE Len(u) = 1
  <2>1. text \o u = Append(text, u[1]) /\ out \o u = Append(out, u[1])
    BY <1>2, <1>5, AppendedTwo
  <2>2. u[1] \in Nat /\ IsPlain(u[1])
    BY <1>1, <1>5
  <2> QED BY <1>2, <1>4, <2>1, <2>2
<1>6. CASE Len(u) = 2
  <2>1. /\ text \o u = Append(Append(text, u[1]), u[2]) /\ out \o u = Append(Append(out, u[1]), u[2])
    BY <1>2, <1>6, AppendedTwo
  <2>2. u[1] \in Nat /\ IsPlain(u[1]) /\ u[2] \in Nat /\ IsPlain(u[2])
    BY <1>1, <1>6
  <2>3. Reading(Append(text, u[1])) = Ready(Append(out, u[1]))
    BY <1>4, <2>2
  <2>4. Append(text, u[1]) \in Seq(Nat) /\ Append(out, u[1]) \in Seq(Nat)
    BY <2>2
  <2>5. Reading(Append(Append(text, u[1]), u[2])) = Ready(Append(Append(out, u[1]), u[2]))
    <3> DEFINE t == Append(text, u[1])
    <3> DEFINE o == Append(out, u[1])
    <3> HIDE DEF t, o
    <3>1. t \in Seq(Nat) /\ o \in Seq(Nat) /\ Reading(t) = Ready(o)
      BY <2>3, <2>4 DEF t, o
    <3>2. Reading(Append(t, u[2])) = Ready(Append(o, u[2]))
      BY <1>4, <2>2, <3>1
    <3> QED BY <3>2 DEF t, o
  <2> QED BY <1>2, <2>1, <2>5
<1> QED BY <1>1, <1>2, <1>3, <1>5, <1>6

\* The decoder: a character under way has a code that will not be of ASCII.
UnderOK(under) ==
  \/ under = NoCharacter
  \/ /\ under.needed \in 1..3 /\ under.code \in Nat
     /\ under.lower \in 128..191 /\ under.upper \in 128..191
     /\ under.needed = 1 => under.code >= 2
     /\ 64 * under.code + (under.lower - 128) >= 2

LEMMA BegunFacts ==
  ASSUME NEW byte \in NameByte
  PROVE  UnderOK(Begun(byte)) /\ (byte < 128 => Begun(byte) = NoCharacter)
<1>1. byte \in Nat
  BY DEF NameByte
<1>2. CASE byte \in 194..223
  <2>1. Begun(byte) = Character(1, byte - 192)
    BY <1>2 DEF Begun
  <2> QED BY <1>2, <2>1 DEF UnderOK, Character
<1>3. CASE byte = 224
  <2>1. Begun(byte) = [needed |-> 2, code |-> 0, lower |-> 160, upper |-> 191]
    BY <1>3 DEF Begun, Character
  <2> QED BY <1>3, <2>1 DEF UnderOK
<1>4. CASE byte = 237
  <2>1. Begun(byte) = [needed |-> 2, code |-> 13, lower |-> 128, upper |-> 159]
    BY <1>4 DEF Begun, Character
  <2> QED BY <1>4, <2>1 DEF UnderOK
<1>5. CASE byte \in (225..239) \ {237}
  <2>1. Begun(byte) = Character(2, byte - 224)
    BY <1>5 DEF Begun
  <2> QED BY <1>5, <2>1 DEF UnderOK, Character
<1>6. CASE byte = 240
  <2>1. Begun(byte) = [needed |-> 3, code |-> 0, lower |-> 144, upper |-> 191]
    BY <1>6 DEF Begun, Character
  <2> QED BY <1>6, <2>1 DEF UnderOK
<1>7. CASE byte \in 241..243
  <2>1. Begun(byte) = Character(3, byte - 240)
    BY <1>7 DEF Begun
  <2> QED BY <1>7, <2>1 DEF UnderOK, Character
<1>8. CASE byte = 244
  <2>1. Begun(byte) = [needed |-> 3, code |-> 4, lower |-> 128, upper |-> 143]
    BY <1>8 DEF Begun, Character
  <2> QED BY <1>8, <2>1 DEF UnderOK
<1>9. CASE byte \notin 194..244
  <2>1. Begun(byte) = NoCharacter
    BY <1>1, <1>9 DEF Begun
  <2> QED BY <2>1 DEF UnderOK
<1>10. byte < 128 => byte \notin 194..244 /\ Begun(byte) = NoCharacter
  BY <1>1 DEF Begun
<1> QED BY <1>1, <1>2, <1>3, <1>4, <1>5, <1>6, <1>7, <1>8, <1>9, <1>10

\* A byte of ASCII breaks a character off and stands for itself; another one adds
\* up to two characters, none of them of ASCII.
LEMMA DecodedFacts ==
  ASSUME NEW under, UnderOK(under), NEW byte \in NameByte
  PROVE  /\ BrokenOff(under) \in Seq(PlainCode) /\ Len(BrokenOff(under)) <= 1
         /\ byte < 128 => ~GoesOn(under, byte) /\ Decoded(under, byte) = Append(BrokenOff(under), byte)
         /\ ~(byte < 128) => Decoded(under, byte) \in Seq(PlainCode)
                             /\ Len(Decoded(under, byte)) <= 2
<1>1. byte \in Nat
  BY DEF NameByte
<1>2. Replacement \in PlainCode
  BY DEF Replacement, PlainCode, IsPlain, Quote, Backslash
<1>3. \A c \in PlainCode : <<c>> \in Seq(PlainCode) /\ Len(<<c>>) = 1
  OBVIOUS
<1>4. << >> \in Seq(PlainCode) /\ Len(<< >>) = 0
  OBVIOUS
<1>5. BrokenOff(under) \in Seq(PlainCode) /\ Len(BrokenOff(under)) <= 1
  BY <1>2, <1>3, <1>4 DEF BrokenOff
<1>6. Refused(byte) \in Seq(PlainCode) /\ Len(Refused(byte)) <= 1
  BY <1>2, <1>3, <1>4 DEF Refused
<1>7. ASSUME byte < 128
      PROVE  ~GoesOn(under, byte) /\ Decoded(under, byte) = Append(BrokenOff(under), byte)
  <2>1. ~GoesOn(under, byte)
    BY <1>1, <1>7 DEF GoesOn, UnderOK, NoCharacter
  <2>2. Decoded(under, byte) = BrokenOff(under) \o <<byte>>
    BY <1>7, <2>1 DEF Decoded
  <2> QED BY <1>5, <2>1, <2>2
<1>8. ASSUME ~(byte < 128)
      PROVE  Decoded(under, byte) \in Seq(PlainCode) /\ Len(Decoded(under, byte)) <= 2
  <2>1. CASE GoesOn(under, byte)
    <3>1. under # NoCharacter
      BY <1>1, <2>1 DEF GoesOn, NoCharacter
    <3>2. /\ under.code \in Nat /\ (under.needed = 1 => under.code >= 2)
      BY <3>1 DEF UnderOK
    <3>3. CASE under.needed = 1
      <4> DEFINE c == 64 * under.code + (byte - 128)
      <4>1. c \in Nat /\ c >= 128
        BY <1>1, <1>8, <3>2, <3>3
      <4>2. Decoded(under, byte) = <<c>>
        BY <2>1, <3>3 DEF Decoded
      <4> HIDE DEF c
      <4>3. c \in PlainCode
        BY <4>1 DEF PlainCode, IsPlain, Quote, Backslash
      <4>4. <<c>> \in Seq(PlainCode) /\ Len(<<c>>) <= 2
        BY <1>3, <4>3
      <4> QED BY <4>2, <4>4
    <3>4. CASE under.needed # 1
      <4>1. Decoded(under, byte) = << >>
        BY <2>1, <3>4 DEF Decoded
      <4> QED BY <1>4, <4>1
    <3> QED BY <3>3, <3>4
  <2>2. CASE ~GoesOn(under, byte)
    <3>1. Decoded(under, byte) = BrokenOff(under) \o Refused(byte)
      BY <1>8, <2>2 DEF Decoded
    <3> QED BY <1>5, <1>6, <3>1
  <2> QED BY <2>1, <2>2
<1> QED BY <1>5, <1>7, <1>8

\* A step of it.
LEMMA DecodeOneParts ==
  \A s, byte : /\ DecodeOne(s, byte).out = s.out \o Decoded(s.under, byte)
               /\ DecodeOne(s, byte).under =
                    IF ~GoesOn(s.under, byte) THEN Begun(byte)
                    ELSE IF s.under.needed = 1 THEN NoCharacter
                    ELSE Character(s.under.needed - 1, 64 * s.under.code + (byte - 128))
BY DEF DecodeOne

LEMMA DecodeOneFacts ==
  ASSUME NEW s, s.out \in Seq(Nat), UnderOK(s.under), NEW byte \in NameByte
  PROVE  /\ DecodeOne(s, byte).out = s.out \o Decoded(s.under, byte)
         /\ DecodeOne(s, byte).out \in Seq(Nat)
         /\ UnderOK(DecodeOne(s, byte).under)
         /\ byte < 128 => DecodeOne(s, byte).under = NoCharacter
<1> DEFINE u == s.under
<1>1. DecodeOne(s, byte).out = s.out \o Decoded(u, byte)
  BY DEF DecodeOne
<1>2. Decoded(u, byte) \in Seq(Nat)
  <2>1. Seq(PlainCode) \subseteq Seq(Nat)
    BY DEF PlainCode
  <2>2. byte \in Nat
    BY DEF NameByte
  <2>3. byte < 128 => Append(BrokenOff(u), byte) \in Seq(Nat)
    <3>1. BrokenOff(u) \in Seq(Nat)
      BY <2>1, DecodedFacts
    <3> QED BY <2>2, <3>1
  <2> QED BY <2>1, <2>3, DecodedFacts
<1>3. CASE ~GoesOn(u, byte)
  <2>1. DecodeOne(s, byte).under = Begun(byte)
    BY <1>3 DEF DecodeOne
  <2> QED BY <1>1, <1>2, <2>1, BegunFacts
<1>4. CASE GoesOn(u, byte)
  <2>1. ~(byte < 128)
    BY <1>4, DecodedFacts
  <2>2. /\ u.needed \in 1..3 /\ u.code \in Nat /\ u.lower \in 128..191 /\ u.upper \in 128..191
        /\ 64 * u.code + (u.lower - 128) >= 2 /\ byte \in u.lower..u.upper
    <3>1. u # NoCharacter
      BY <1>4 DEF GoesOn, NoCharacter, NameByte
    <3> QED BY <1>4, <3>1 DEF UnderOK, GoesOn
  <2>3. CASE u.needed = 1
    <3>1. DecodeOne(s, byte).under = NoCharacter
      BY <1>4, <2>3 DEF DecodeOne
    <3> QED BY <1>1, <1>2, <2>1, <3>1 DEF UnderOK
  <2>4. CASE u.needed # 1
    <3> DEFINE c == 64 * u.code + (byte - 128)
    <3>1. DecodeOne(s, byte).under = Character(u.needed - 1, c)
      BY <1>4, <2>4 DEF DecodeOne
    <3>2. c \in Nat /\ c >= 2 /\ u.needed - 1 \in 1..2
      <4>1. \A code \in Nat : \A lower, upper \in 128..191 : \A b \in lower..upper :
              64 * code + (lower - 128) >= 2
                => 64 * code + (b - 128) \in Nat /\ 64 * code + (b - 128) >= 2
        OBVIOUS
      <4>2. u.needed - 1 \in 1..2
        BY <2>2, <2>4
      <4> QED BY Zenon, <2>2, <4>1, <4>2
    <3> HIDE DEF c
    <3>3. UnderOK(Character(u.needed - 1, c))
      BY <3>2 DEF UnderOK, Character
    <3> QED BY <1>1, <1>2, <2>1, <3>1, <3>3
  <2> QED BY <2>3, <2>4
<1> QED BY <1>3, <1>4

DecoderBody(bytes, s, i) ==
  IF i = 0 THEN [out |-> << >>, under |-> NoCharacter] ELSE DecodeOne(s[i - 1], bytes[i])
DecoderFunction == INSTANCE Recursion WITH Body <- DecoderBody

\* Its function, step by step.
LEMMA DecoderSteps ==
  ASSUME NEW bytes \in Seq(NameByte)
  PROVE  LET s == DecoderFunction!Function(bytes, Len(bytes)) IN
         /\ Decode(bytes) = s[Len(bytes)].out \o BrokenOff(s[Len(bytes)].under)
         /\ s[0] = [out |-> << >>, under |-> NoCharacter]
         /\ \A i \in 1..Len(bytes) : s[i] = DecodeOne(s[i - 1], bytes[i])
         /\ \A i \in 0..Len(bytes) : s[i].out \in Seq(Nat) /\ UnderOK(s[i].under)
<1> DEFINE n == Len(bytes)
<1> DEFINE s == DecoderFunction!Function(bytes, n)
<1>1. n \in Nat /\ \A i \in 1..n : bytes[i] \in NameByte
  OBVIOUS
<1>2. Decode(bytes) = s[n].out \o BrokenOff(s[n].under)
  <2> HIDE DEF DecodeOne
  <2> QED BY DEF Decode, DecoderBody, DecoderFunction!Function
<1>3. DecoderFunction!LooksBack(bytes, n)
  <2> HIDE DEF DecodeOne
  <2> QED BY DEF DecoderFunction!LooksBack, DecoderBody
<1>4. s = [i \in 0..n |-> DecoderBody(bytes, s, i)]
  <2> HIDE DEF DecoderBody
  <2> QED BY Zenon, <1>1, <1>3, DecoderFunction!Defined
<1> HIDE DEF s
<1>5. s[0] = [out |-> << >>, under |-> NoCharacter]
  BY <1>1, <1>4 DEF DecoderBody
<1>6. ASSUME NEW i \in 1..n
      PROVE  s[i] = DecodeOne(s[i - 1], bytes[i])
  <2>1. i \in 0..n /\ i # 0
    BY <1>1
  <2> HIDE DEF n
  <2>2. s[i] = DecoderBody(bytes, s, i)
    BY Zenon, <1>4, <2>1
  <2> QED BY <2>1, <2>2 DEF DecoderBody
<1> DEFINE P == {i \in Nat : i <= n => s[i].out \in Seq(Nat) /\ UnderOK(s[i].under)}
<1>7. 0 \in P
  <2>1. s[0].out = << >> /\ s[0].under = NoCharacter /\ << >> \in Seq(Nat)
    BY <1>5
  <2>2. UnderOK(NoCharacter)
    BY DEF UnderOK
  <2> QED BY <2>1, <2>2
<1>8. ASSUME NEW i \in Nat, i \in P
      PROVE  i + 1 \in P
  <2> SUFFICES ASSUME i + 1 <= n
               PROVE  s[i + 1].out \in Seq(Nat) /\ UnderOK(s[i + 1].under)
    OBVIOUS
  <2>1. i + 1 \in 1..n /\ (i + 1) - 1 = i /\ i <= n
    BY <1>1
  <2>2. s[i].out \in Seq(Nat) /\ UnderOK(s[i].under)
    BY <1>8, <2>1
  <2>3. s[i + 1] = DecodeOne(s[i], bytes[i + 1]) /\ bytes[i + 1] \in NameByte
    BY <1>1, <1>6, <2>1
  <2> QED BY <2>2, <2>3, DecodeOneFacts
<1>9. Nat \subseteq P
  <2> HIDE DEF P
  <2> QED BY <1>7, <1>8, DecoderFunction!Induction
<1>10. \A i \in 0..n : s[i].out \in Seq(Nat) /\ UnderOK(s[i].under)
  BY <1>1, <1>9
<1> QED BY <1>2, <1>5, <1>6, <1>10 DEF s

\* s decodes, from l on, what is written for c.
Decodes(s, l, c) ==
  /\ \A j \in 0..Len(Written(c)) : s[l + j].out \in Seq(Nat) /\ UnderOK(s[l + j].under)
  /\ \A j \in 1..Len(Written(c)) : s[l + j] = DecodeOne(s[(l + j) - 1], Written(c)[j])

\* A byte more of the name, and what is written for it more of the text: where the
\* text was read as what the name decodes to, it is again.
LEMMA ByteComesThrough ==
  ASSUME NEW s, NEW l \in Nat, NEW c \in NameByte, NEW d,
         d.out \in Seq(Nat), UnderOK(d.under), Decodes(s, l, c),
         s[l].under = d.under, Reading(s[l].out) = Ready(d.out)
  PROVE  /\ s[l + Len(Written(c))].under = DecodeOne(d, c).under
         /\ Reading(s[l + Len(Written(c))].out) = Ready(DecodeOne(d, c).out)
<1> USE DEF Decodes
<1> DEFINE w == Written(c)
<1> DEFINE u == d.under
<1>1. /\ w \in Seq(NameByte) /\ Len(w) \in 1..6
      /\ c < 128 => \A j \in 1..Len(w) : w[j] < 128
      /\ ~(c < 128) => w = <<c>>
  BY WrittenBytes
<1>2. s[l].out \in Seq(Nat)
  <2>1. 0 \in 0..Len(w) /\ l + 0 = l
    BY <1>1
  <2> QED BY <2>1
<1>3. DecodeOne(d, c).out = d.out \o Decoded(u, c)
  BY DecodeOneFacts
<1>4. CASE ~(c < 128)
  <2>1. Len(w) = 1 /\ w[1] = c /\ (l + 1) - 1 = l
    BY <1>1, <1>4
  <2>2. s[l + 1] = DecodeOne(s[l], c)
    BY <2>1
  <2>3. s[l + 1].out = s[l].out \o Decoded(u, c)
    <3>1. DecodeOne(s[l], c).out = s[l].out \o Decoded(s[l].under, c)
      BY Zenon, DecodeOneParts
    <3> QED BY <2>2, <3>1
  <2>4. s[l + 1].under = DecodeOne(d, c).under
    BY <2>2, DecodeOneParts
  <2>5. Decoded(u, c) \in Seq(PlainCode) /\ Len(Decoded(u, c)) <= 2
    BY <1>4, DecodedFacts
  <2>6. Reading(s[l].out \o Decoded(u, c)) = Ready(d.out \o Decoded(u, c))
    BY <1>2, <2>5, ReadPlain
  <2> QED BY <1>3, <2>1, <2>3, <2>4, <2>6
<1>5. CASE c < 128
  <2> DEFINE b == BrokenOff(u)
  <2> DEFINE base == s[l].out \o b
  <2> DEFINE k == Len(w)
  <2> DEFINE R == [q \in 0..k |-> IF q = 0 THEN Reading(base) ELSE Reading(s[l + q].out)]
  <2>1. b \in Seq(PlainCode) /\ Len(b) <= 1 /\ b \in Seq(Nat) /\ c \in Nat
    <3>1. b \in Seq(PlainCode) /\ Len(b) <= 1
      BY DecodedFacts
    <3> QED BY <3>1 DEF PlainCode, NameByte
  <2>2. Reading(base) = Ready(d.out \o b) /\ base \in Seq(Nat) /\ d.out \o b \in Seq(Nat)
    <3> HIDE DEF b
    <3>1. Len(b) <= 2
      BY <2>1
    <3> QED BY <1>2, <2>1, <3>1, ReadPlain
  <2>3. /\ k \in 1..6 /\ k \in Nat /\ k \in 1..k /\ k # 0 /\ 0 \in 0..k /\ k \in 0..k
        /\ \A j \in 1..k : w[j] \in NameByte /\ w[j] \in Nat /\ w[j] < 128
    <3>1. \A m \in 1..6 : m \in Nat /\ m \in 1..m /\ m # 0 /\ 0 \in 0..m /\ m \in 0..m
      OBVIOUS
    <3>2. \A j \in 1..k : w[j] \in NameByte
      <4> HIDE DEF w, NameByte
      <4> QED BY <1>1
    <3>3. NameByte \subseteq Nat
      BY DEF NameByte
    <3> HIDE DEF w, NameByte
    <3> QED BY Zenon, <1>1, <1>5, <3>1, <3>2, <3>3
  <2>m. \A e : \A byte \in NameByte :
          e.out \in Seq(Nat) /\ UnderOK(e.under) /\ byte < 128
          => /\ DecodeOne(e, byte).under = NoCharacter
             /\ DecodeOne(e, byte).out = e.out \o Append(BrokenOff(e.under), byte)
    <3> SUFFICES ASSUME NEW e, NEW byte \in NameByte, e.out \in Seq(Nat), UnderOK(e.under), byte < 128
                 PROVE  /\ DecodeOne(e, byte).under = NoCharacter
                        /\ DecodeOne(e, byte).out = e.out \o Append(BrokenOff(e.under), byte)
      BY Zenon
    <3>1. Decoded(e.under, byte) = Append(BrokenOff(e.under), byte)
      BY DecodedFacts
    <3>2. DecodeOne(e, byte).under = NoCharacter
      BY DecodeOneFacts
    <3>3. DecodeOne(e, byte).out = e.out \o Decoded(e.under, byte)
      BY Zenon, DecodeOneParts
    <3> QED BY Zenon, <3>1, <3>2, <3>3
  <2>4. ASSUME NEW q \in 1..k
        PROVE  s[l + q].under = NoCharacter
    <3>1. (l + q) - 1 = l + (q - 1) /\ q - 1 \in 0..k
      BY <2>3
    <3>2. s[l + (q - 1)].out \in Seq(Nat) /\ UnderOK(s[l + (q - 1)].under)
      BY <3>1
    <3>3. s[l + q] = DecodeOne(s[l + (q - 1)], w[q])
      BY <3>1
    <3> HIDE DEF w, k
    <3>4. w[q] \in NameByte /\ w[q] < 128
      BY Zenon, <2>3
    <3>5. DecodeOne(s[l + (q - 1)], w[q]).under = NoCharacter
      BY Zenon, <2>m, <3>2, <3>4
    <3> QED BY <3>3, <3>5
  <2>5. ASSUME NEW q \in 1..k
        PROVE  R[q] = ReadOne(R[q - 1], w[q])
    <3>1. (l + q) - 1 = l + (q - 1) /\ q - 1 \in 0..k /\ q \in 0..k /\ q # 0
      BY <2>3
    <3> DEFINE e == s[l + (q - 1)]
    <3>2. e.out \in Seq(Nat) /\ UnderOK(e.under)
      BY <3>1
    <3>3. s[l + q] = DecodeOne(e, w[q])
      BY <3>1
    <3>4. s[l + q].out = e.out \o Append(BrokenOff(e.under), w[q])
      <4> HIDE DEF w, k, e
      <4> QED BY Zenon, <2>3, <2>m, <3>2, <3>3
    <3>5. R[q] = Reading(s[l + q].out)
      BY <3>1
    <3>6. \A t \in Seq(Nat) : \A a \in Nat : Reading(Append(t, a)) = ReadOne(Reading(t), a)
      BY ReadingFacts
    <3>7. CASE q = 1
      <4>1. e = s[l] /\ R[q - 1] = Reading(base)
        <5>1. l + (q - 1) = l /\ q - 1 = 0
          BY <3>7
        <5> QED BY <3>1, <5>1
      <4>2. e.out \o Append(b, w[q]) = Append(base, w[q])
        <5>1. \A t, v \in Seq(Nat) : \A a \in Nat : t \o Append(v, a) = Append(t \o v, a)
          BY AppendedTwo
        <5> HIDE DEF b, e, k, w
        <5> QED BY Zenon, <1>2, <2>1, <2>3, <4>1, <5>1
      <4>3. s[l + q].out = Append(base, w[q])
        BY <3>4, <4>1, <4>2
      <4> HIDE DEF R, base, e
      <4> QED BY <2>2, <2>3, <3>5, <3>6, <4>1, <4>3
    <3>8. CASE q # 1
      <4>1. q - 1 \in 1..k /\ q - 1 # 0
        BY <2>3, <3>8
      <4>2. e.under = NoCharacter /\ R[q - 1] = Reading(e.out)
        BY <2>4, <3>1, <4>1
      <4>3. BrokenOff(e.under) = << >>
        BY <4>2 DEF BrokenOff
      <4> HIDE DEF R, e, k, w
      <4>4. e.out \o Append(<< >>, w[q]) = Append(e.out, w[q])
        <5>1. \A t \in Seq(Nat) : \A a \in Nat : t \o Append(<< >>, a) = Append(t, a)
          BY AppendedTwo
        <5> QED BY Zenon, <2>3, <3>2, <5>1
      <4>5. s[l + q].out = Append(e.out, w[q])
        BY Zenon, <3>4, <4>3, <4>4
      <4>6. Reading(Append(e.out, w[q])) = ReadOne(Reading(e.out), w[q])
        BY Zenon, <2>3, <3>2, <3>6
      <4> QED BY Zenon, <3>5, <4>2, <4>5, <4>6
    <3> QED BY <3>7, <3>8
  <2>6. R[0] = Ready(d.out \o b) /\ R[k] = Reading(s[l + k].out)
    <3>1. R[0] = Reading(base)
      BY <2>3
    <3>2. R[k] = Reading(s[l + k].out)
      BY <2>3
    <3> HIDE DEF R, base, k, b
    <3> QED BY Zenon, <2>2, <3>1, <3>2
  <2>7. R[0 + k] = Ready(Append(d.out \o b, c))
    <3> HIDE DEF R, b
    <3>1. \A j \in 1..Len(Written(c)) : R[0 + j] = ReadOne(R[(0 + j) - 1], Written(c)[j])
      <4>1. \A j \in 1..k : 0 + j = j
        OBVIOUS
      <4> QED BY <2>5, <4>1
    <3>2. 0 \in Nat
      OBVIOUS
    <3>3. \A f, out : \A m \in Nat :
            /\ \A j \in 1..Len(Written(c)) : f[m + j] = ReadOne(f[(m + j) - 1], Written(c)[j])
            /\ f[m] = Ready(out)
            => f[m + Len(Written(c))] = Ready(Append(out, c))
      BY ReadWritten
    <3> QED BY Zenon, <2>6, <3>1, <3>2, <3>3
  <2>8. 0 + k = k
    BY <2>3
  <2>9. DecodeOne(d, c).out = Append(d.out \o b, c) /\ DecodeOne(d, c).under = NoCharacter
    <3>1. DecodeOne(d, c).out = d.out \o Append(b, c)
      BY <1>3, <1>5, DecodedFacts
    <3>2. \A t, v \in Seq(Nat) : \A a \in Nat : t \o Append(v, a) = Append(t \o v, a)
      BY AppendedTwo
    <3>3. DecodeOne(d, c).under = NoCharacter
      BY <1>5, DecodeOneFacts
    <3> HIDE DEF b
    <3> QED BY <2>1, <3>1, <3>2, <3>3
  <2> HIDE DEF R, b, base
  <2>10. /\ s[l + k].under = DecodeOne(d, c).under
         /\ Reading(s[l + k].out) = Ready(DecodeOne(d, c).out)
    <3> HIDE DEF k, w
    <3> QED BY Zenon, <2>3, <2>4, <2>6, <2>7, <2>8, <2>9
  <2> QED BY Zenon, <2>10
<1> QED BY <1>4, <1>5

\* ComesThrough, for any name.
LEMMA NameComesThrough ==
  ASSUME NEW name \in Seq(NameByte)
  PROVE  ComesThrough(name)
<1> DEFINE n == Len(name)
<1> DEFINE text == Text(name)
<1> DEFINE length == LengthFunction!Function(name, n)
<1> DEFINE s == DecoderFunction!Function(text, Len(text))
<1> DEFINE d == DecoderFunction!Function(name, n)
<1>1. n \in Nat /\ \A i \in 1..n : name[i] \in NameByte
  OBVIOUS
<1>2. /\ text \in Seq(NameByte) /\ Len(text) = length[n]
      /\ \A i \in 0..n - 1 :
           /\ length[i] \in Nat /\ length[i + 1] = length[i] + Len(Written(name[i + 1]))
           /\ \A j \in 1..Len(Written(name[i + 1])) :
                /\ length[i] + j \in 1..Len(text)
                /\ text[length[i] + j] = Written(name[i + 1])[j]
  BY TextGrows
<1>3. OutputLength(name) = length[n] /\ length[0] = 0
  BY TextSteps
<1>4. /\ Decode(text) = s[Len(text)].out \o BrokenOff(s[Len(text)].under)
      /\ s[0] = [out |-> << >>, under |-> NoCharacter]
      /\ \A i \in 1..Len(text) : s[i] = DecodeOne(s[i - 1], text[i])
      /\ \A i \in 0..Len(text) : s[i].out \in Seq(Nat) /\ UnderOK(s[i].under)
  BY <1>2, DecoderSteps
<1>5. /\ Decode(name) = d[n].out \o BrokenOff(d[n].under)
      /\ d[0] = [out |-> << >>, under |-> NoCharacter]
      /\ \A i \in 1..n : d[i] = DecodeOne(d[i - 1], name[i])
      /\ \A i \in 0..n : d[i].out \in Seq(Nat) /\ UnderOK(d[i].under)
  BY DecoderSteps
<1> HIDE DEF text, length, s, d
<1>6. PrintString(name) = <<Quote>> \o text \o <<Quote>>
  <2>1. text = [k \in 1..OutputLength(name) |-> IF k <= Len(text) THEN text[k] ELSE Garbled]
    BY <1>2, <1>3
  <2> QED BY <2>1 DEF PrintString, text
<1> DEFINE Same(i) == /\ s[length[i]].under = d[i].under
                      /\ Reading(s[length[i]].out) = Ready(d[i].out)
<1> DEFINE P == {i \in Nat : i <= n => Same(i)}
<1>7. 0 \in P
  <2>1. << >> \in Seq(Nat)
    OBVIOUS
  <2> QED BY <1>3, <1>4, <1>5, <2>1, ReadingFacts
<1>8. ASSUME NEW i \in Nat, i \in P
      PROVE  i + 1 \in P
  <2> DEFINE c == name[i + 1]
  <2> SUFFICES ASSUME i + 1 <= n
               PROVE  Same(i + 1)
    <3> HIDE DEF Same
    <3> QED OBVIOUS
  <2>1. i \in 0..n - 1 /\ i <= n /\ i + 1 \in 1..n /\ i \in 0..n /\ (i + 1) - 1 = i
    BY <1>1
  <2>2. Same(i)
    <3> HIDE DEF Same
    <3> QED BY <1>8, <2>1
  <2>3. length[i] \in Nat /\ length[i + 1] = length[i] + Len(Written(c)) /\ c \in NameByte
    BY <1>1, <1>2, <2>1
  <2>4. \A j \in 1..Len(Written(c)) :
          /\ length[i] + j \in 1..Len(text)
          /\ s[length[i] + j] = DecodeOne(s[(length[i] + j) - 1], Written(c)[j])
    BY <1>2, <1>4, <2>1
  <2>5. Len(Written(c)) \in 1..6
    BY <2>3, WrittenBytes
  <2>6. ASSUME NEW j \in 0..Len(Written(c))
        PROVE  length[i] + j \in 0..Len(text)
    <3>1. CASE j = 0
      <4>1. 1 \in 1..Len(Written(c))
        <5>1. \A m \in 1..6 : 1 \in 1..m
          OBVIOUS
        <5> HIDE DEF c
        <5> QED BY Zenon, <2>5, <5>1
      <4>2. length[i] + 1 \in 1..Len(text)
        BY <2>4, <4>1
      <4> QED BY <2>3, <3>1, <4>2
    <3>2. CASE j # 0
      <4>1. j \in 1..Len(Written(c))
        BY <2>5, <3>2
      <4>2. length[i] + j \in 1..Len(text)
        BY <2>4, <4>1
      <4> QED BY <4>2
    <3> QED BY <3>1, <3>2
  <2>7. \A j \in 0..Len(Written(c)) :
          s[length[i] + j].out \in Seq(Nat) /\ UnderOK(s[length[i] + j].under)
    BY <1>4, <2>6
  <2>8. d[i + 1] = DecodeOne(d[i], c) /\ d[i].out \in Seq(Nat) /\ UnderOK(d[i].under)
    BY <1>5, <2>1
  <2>9. Decodes(s, length[i], c)
    BY <2>4, <2>7 DEF Decodes
  <2> HIDE DEF c
  <2>10. /\ s[length[i] + Len(Written(c))].under = DecodeOne(d[i], c).under
         /\ Reading(s[length[i] + Len(Written(c))].out) = Ready(DecodeOne(d[i], c).out)
    BY <2>2, <2>3, <2>8, <2>9, ByteComesThrough
  <2> QED BY Zenon, <2>3, <2>8, <2>10
<1>9. n \in P
  <2> HIDE DEF P
  <2> QED BY <1>1, <1>7, <1>8, TextFunction!Induction
<1>10. Same(n)
  <2>1. n <= n
    BY <1>1
  <2> HIDE DEF Same
  <2> QED BY <1>9, <2>1
<1>11. Read(Decode(text)) = Decode(name)
  <2> DEFINE e == s[Len(text)]
  <2> DEFINE b == BrokenOff(d[n].under)
  <2>1. e.under = d[n].under /\ Reading(e.out) = Ready(d[n].out)
    BY <1>2, <1>10
  <2>2. Len(text) \in 0..Len(text) /\ n \in 0..n /\ 1 \in NameByte
    BY <1>1, <1>2 DEF NameByte
  <2>3. e.out \in Seq(Nat) /\ d[n].out \in Seq(Nat) /\ UnderOK(d[n].under)
    BY <1>4, <1>5, <2>2
  <2>4. b \in Seq(PlainCode) /\ Len(b) <= 1
    BY <2>2, <2>3, DecodedFacts
  <2>5. Len(b) <= 2
    BY <2>4
  <2> HIDE DEF e, b
  <2>6. Reading(e.out \o b) = Ready(d[n].out \o b) /\ e.out \o b \in Seq(Nat)
    BY <2>1, <2>3, <2>4, <2>5, ReadPlain
  <2>7. Decode(text) = e.out \o b /\ Decode(name) = d[n].out \o b
    BY <1>4, <1>5, <2>1 DEF e, b
  <2>8. Read(e.out \o b) = d[n].out \o b
    <3> DEFINE t == e.out \o b
    <3> DEFINE o == d[n].out \o b
    <3>1. Reading(t).at = 0 /\ Reading(t).out = o
      BY <2>6 DEF Ready
    <3>2. t \in Seq(Nat)
      BY <2>6
    <3> HIDE DEF t, o
    <3>3. Read(t) = o
      BY <3>1, <3>2, ReadingFacts
    <3> QED BY <3>3 DEF t, o
  <2> QED BY <2>7, <2>8
<1> QED BY <1>6, <1>11 DEF ComesThrough, text

\* NamesComeThrough, and beyond its bounds and its codes: for a name of any length
\* and of any bytes, UTF-8 or not.
THEOREM NamesRead ==
  NamesComeThrough /\ \A name \in Seq(NameByte) : ComesThrough(name)
<1>1. Codes \subseteq NameByte /\ LongCodes \subseteq NameByte
  BY DEF Codes, LongCodes, NameByte
<1>2. UpTo(NameBound, Codes) \cup UpTo(LongBound, LongCodes) \subseteq Seq(NameByte)
  <2>1. /\ UpTo(NameBound, Codes) \subseteq Seq(Codes)
        /\ UpTo(LongBound, LongCodes) \subseteq Seq(LongCodes)
    BY UpToSeq, LengthAssumption
  <2>2. Seq(Codes) \subseteq Seq(NameByte) /\ Seq(LongCodes) \subseteq Seq(NameByte)
    <3> HIDE DEF Codes, LongCodes, NameByte
    <3> QED BY <1>1
  <2> QED BY <2>1, <2>2
<1> QED BY <1>2, NameComesThrough DEF NamesComeThrough
=============================================================================
