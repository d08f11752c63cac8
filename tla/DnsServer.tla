----------------------------- MODULE DnsServer -----------------------------
(***************************************************************************)
(* One round of the captive portal's DNS server (dns_server.c): the reply  *)
(* that is made out of a query, in place, and what the asking resolver     *)
(* makes of that.  A resolver is external: it reads a message entry by     *)
(* entry, as many as the header's counts say.                              *)
(*                                                                         *)
(* An entry is a question or a record; of its octets only their number     *)
(* matters.  Names are values, and a name that points to the question is   *)
(* the name that stands there.  A query that fills the whole buffer, or is *)
(* cut to it, is left out.                                                 *)
(*                                                                         *)
(* A definition called like another with Kept added is that one with a     *)
(* plausible bug.                                                          *)
(***************************************************************************)
EXTENDS Integers, Sequences

CONSTANTS Domain,       \* the names that are asked for
          DnsSizes      \* octets of an entry

ASSUME DnsAssumption == DnsSizes \subseteq Nat \ {0}

\* dns_server.h, in octets.
HeaderSize   == 12
AnswerSize   == 16
QueryMaxSize == 80
AnswerMaxSize == QueryMaxSize + AnswerSize

\* A question, and a record that a query may bring with it (EDNS does).
Question == [kind : {"question"}, name : Domain, type : {"A", "AAAA"}, size : DnsSizes]
Addition == [kind : {"record"}, name : {"root"}, type : {"OPT"}, size : DnsSizes]

\* The header's fields that are read or written; ID is the same everywhere.
QueryHeader(questions, records) ==
  [QR |-> 0, RCode |-> 0, TC |-> 0,
   QDCount |-> questions, ANCount |-> 0, NSCount |-> 0, ARCount |-> records]

Query(questions, records) ==
  [header |-> QueryHeader(Len(questions), Len(records)), body |-> questions \o records]

DnsLength(query) ==
  LET octets[i \in 0..Len(query.body)] ==
        IF i = 0 THEN HeaderSize ELSE octets[i - 1] + query.body[i].size
  IN  octets[Len(query.body)]

\* "if the query is bigger than the buffer size we simply ignore it"
Accepted(length) == length > 0 /\ length + AnswerSize - 1 < AnswerMaxSize

CountAnswersKept(header) == header.ANCount
CountAnswers(header) == header.QDCount

\* The header as it is sent back ...
ReplyHeader(header) ==
  [header EXCEPT !.QR = 1, !.RCode = 0, !.TC = 0,
                 !.ANCount = CountAnswers(header), !.NSCount = 0, !.ARCount = 0]

\* ... and behind the rest of the query one answer, for the first name in it.
Hijack(query) ==
  [kind |-> "answer", name |-> query.body[1].name, type |-> "A", size |-> AnswerSize]

Reply(query) == [header |-> ReplyHeader(query.header), body |-> query.body \o <<Hijack(query)>>]

\* The resolver learns an address from a response without error that repeats
\* its questions and then has, among the records it counts, an answer to them.
LearnsAddress(query) ==
  LET reply == Reply(query)
      asked == query.header.QDCount
      end   == asked + reply.header.ANCount + reply.header.NSCount + reply.header.ARCount
  IN  /\ Accepted(DnsLength(query))
      /\ reply.header.QR = 1 /\ reply.header.RCode = 0 /\ reply.header.TC = 0
      /\ reply.header.QDCount = asked /\ end <= Len(reply.body)
      /\ \A i \in 1..asked :
           /\ reply.body[i] = query.body[i]
           /\ \E j \in asked + 1..asked + reply.header.ANCount :
                LET answer == reply.body[j] IN
                  answer.kind = "answer" /\ answer.name = reply.body[i].name
                                         /\ answer.type = reply.body[i].type

\* Nobody asks the same question twice, or asks nothing.
SameQuestion(q, q1) == q.name = q1.name /\ q.type = q1.type
Askable(questions) ==
  /\ questions # << >>
  /\ \A i, j \in DOMAIN questions : SameQuestion(questions[i], questions[j]) => i = j

\* One question for an address, and nothing else.
Plain(query) == Len(query.body) = 1 /\ query.body[1].type = "A"
=============================================================================
