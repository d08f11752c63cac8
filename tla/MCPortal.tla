------------------------------ MODULE MCPortal ------------------------------
(***************************************************************************)
(* Instances of Portal for TLC, with the access point list it serves and   *)
(* the DNS replies that bring a browser to it.  The properties of these    *)
(* are about every list, name and query, not about a state: they are       *)
(* evaluated once, in the initial state.                                   *)
(***************************************************************************)
EXTENDS Portal, AccessPoints, DnsServer

CONSTANTS ListBound,    \* bound: length of the lists
          NameBound,    \* bound: length of the names
          LongBound     \* bound: length of those of the longest characters

ASSUME LengthAssumption == {ListBound, NameBound, LongBound} \subseteq Nat

\* Letters, what json_print_string escapes, the codes next to it, and bytes of
\* UTF-8: those that may only go on, on both sides of every bound, those that
\* begin a character, and those that do neither.
Codes == {7, 8, 9, 10, 11, 12, 13, 14, 31, 32, 33, 34, 35, 65, 91, 92, 93, 127,
          128, 143, 144, 159, 160, 191, 192, 194, 195, 223, 224, 226, 237, 240, 244, 245, 255}
\* What it takes for a character of four bytes, or for one that breaks off.
LongCodes == {34, 128, 143, 159, 226, 240}
Signals == {-80, -60}

\* Entries of which one, two or three fill a query up to its last octet but one.
Octets == {5, 17, 62, 67}

UpTo(n, S) == UNION {[1..m -> S] : m \in 0..n}

Queries == {Query(questions, records) :
              questions \in {qs \in UpTo(2, Question) : Askable(qs)}, records \in UpTo(1, Addition)}

\* Whatever the driver found, the page lists every named network once for each
\* of its authmodes, with its best signal; and when there is none it stays as it
\* was, although the text it gets is "[".
ListShowsNetworks == Init => \A aps \in UpTo(ListBound, AccessPoint) : ShowsNetworks(aps)

\* Whatever bytes a network's name has, UTF-8 or not, json_print_string writes a
\* text of the length it counted, which the page reads as what its browser makes
\* of those bytes: no escape is split, added or read into the name.
NamesComeThrough ==
  Init => \A name \in UpTo(NameBound, Codes) \cup UpTo(LongBound, LongCodes) :
            ComesThrough(name)

\* "... replies to the esp's address no matter which request is sent to it": a
\* resolver that asks one question for an address, in less than the buffer's
\* octets, learns it.  One that asks more, for another type, or with an EDNS
\* record does not: the answer stands where nobody reads it.
AnswersPlainQueries ==
  Init => \A query \in Queries :
            DnsLength(query) < QueryMaxSize => (LearnsAddress(query) <=> Plain(query))
=============================================================================
