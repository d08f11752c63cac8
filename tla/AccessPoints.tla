---------------------------- MODULE AccessPoints ----------------------------
(***************************************************************************)
(* The list of access points, from the driver's records to the page:       *)
(* wifi_manager_filter_unique sorts the records out in place,              *)
(* wifi_manager_generate_acess_points_json prints what is left, with       *)
(* json_print_string for the names, and refreshAP of the page reads it.    *)
(*                                                                         *)
(* These are functions of their input: the operators below follow the C    *)
(* loops, and the properties compare them with what they are for.          *)
(*                                                                         *)
(* A definition called like another with Last or Missing added is that one *)
(* with a plausible bug.                                                   *)
(***************************************************************************)
EXTENDS Integers, Sequences, FiniteSetsExt

CONSTANTS Name,         \* ssids; a record's ssid is one of them or NoName
          NoName,       \* the empty ssid: hidden networks, cleared records
          AuthMode,
          Rssi          \* signal strengths

ASSUME RecordAssumption == NoName \notin Name /\ AuthMode \subseteq Nat /\ Rssi \subseteq Int

AccessPoint == [ssid : Name \cup {NoName}, authmode : AuthMode, rssi : Rssi]

\* A record after memset.
Cleared == [ssid |-> NoName, authmode |-> 0, rssi |-> 0]

Twins(ap, ap1) == ap.ssid = ap1.ssid /\ ap.authmode = ap1.authmode

Strongest(aps) == Max({ap.rssi : ap \in aps})

-----------------------------------------------------------------------------
\* wifi_manager_filter_unique, first loop: record i takes the best signal of its
\* later twins, which are cleared.
RemoveTwins(aplist, i) ==
  LET twins == {j \in i + 1..Len(aplist) : Twins(aplist[i], aplist[j])}
      best  == Strongest({aplist[j] : j \in twins \cup {i}})
  IN  IF aplist[i].ssid = NoName THEN aplist
      ELSE [k \in DOMAIN aplist |-> IF k = i THEN [aplist[i] EXCEPT !.rssi = best]
                                    ELSE IF k \in twins THEN Cleared ELSE aplist[k]]

NextFreeLast(aplist) == Max({j \in DOMAIN aplist : aplist[j].ssid = NoName})
NextFree(aplist)     == Min({j \in DOMAIN aplist : aplist[j].ssid = NoName})

\* Second loop: record i moves into the first free slot, if there is one.
Reorder(s, i) ==
  LET ap    == s.aplist[i]
      moved == [s.aplist EXCEPT ![s.first_free] = ap, ![i] = Cleared]
  IN  IF ap.ssid = NoName
      THEN [s EXCEPT !.total_unique = @ - 1,
                     !.first_free = IF @ = 0 THEN i ELSE @]
      ELSE IF s.first_free = 0 THEN s
      ELSE [s EXCEPT !.aplist = moved, !.first_free = NextFree(moved)]

\* The first loop leaves out the last record, which has no later twins: for it
\* RemoveTwins changes nothing.
Merged(aps) ==
  LET aplist[i \in 0..Len(aps)] == IF i = 0 THEN aps ELSE RemoveTwins(aplist[i - 1], i)
  IN  aplist[Len(aps)]

Start(aplist) == [aplist |-> aplist, total_unique |-> Len(aplist), first_free |-> 0]
Reordered(aplist) ==
  LET s[i \in 0..Len(aplist)] == IF i = 0 THEN Start(aplist) ELSE Reorder(s[i - 1], i)
  IN  s[Len(aplist)]

FilterUnique(aps) ==
  LET end == Reordered(Merged(aps)) IN [k \in 1..end.total_unique |-> end.aplist[k]]

-----------------------------------------------------------------------------
\* wifi_manager_generate_acess_points_json: each record brings the separator
\* behind it, and the last one the closing bracket.
PrintList(aps) ==
  LET text[i \in 0..Len(aps)] ==
        IF i = 0 THEN <<"[">> ELSE text[i - 1] \o <<aps[i], IF i = Len(aps) THEN "]" ELSE ",">>
  IN  text[Len(aps)]

\* refreshAP: a text that does not parse, or an empty list, leaves the page as it
\* is.  (The page's order, by signal, is left out: the rows are a bag.)
RefreshAP(text, before) ==
  IF text[Len(text)] = "]" /\ Len(text) > 2
  THEN [i \in 1..(Len(text) - 1) \div 2 |-> text[2 * i]]
  ELSE before

-----------------------------------------------------------------------------
\* json_print_string.
Quote     == 34
Backslash == 92
\* Codes and the letters of their escape: \b \t \n \f \r, quote and backslash.
Letter == [c \in {8, 9, 10, 12, 13, Quote, Backslash} |->
             CASE c = 8 -> 98 [] c = 9 -> 116 [] c = 10 -> 110 [] c = 12 -> 102
               [] c = 13 -> 114 [] OTHER -> c]

\* The characters strchr looks for.
OneCharacterMissing == {Quote, Backslash, 8, 10, 13, 9}
OneCharacter        == {Quote, Backslash, 8, 12, 10, 13, 9}

\* escape_characters of one character, counted by the first loop ...
Extra(c) == IF c \in OneCharacter THEN 1 ELSE IF c < 32 THEN 5 ELSE 0

Hex(d) == IF d < 10 THEN 48 + d ELSE 87 + d

\* ... and what the second one writes for it.
Written(c) == IF c > 31 /\ c \notin {Quote, Backslash} THEN <<c>>
              ELSE IF c \in DOMAIN Letter THEN <<Backslash, Letter[c]>>
              ELSE <<Backslash, 117, 48, 48, Hex(c \div 16), Hex(c % 16)>>

Text(name) ==
  LET text[i \in 0..Len(name)] == IF i = 0 THEN << >> ELSE text[i - 1] \o Written(name[i])
  IN  text[Len(name)]

OutputLength(name) ==
  LET length[i \in 0..Len(name)] == IF i = 0 THEN 0 ELSE length[i - 1] + 1 + Extra(name[i])
  IN  length[Len(name)]

\* The closing quote goes where the count says, over what is there or behind a
\* gap; a 0 ends the string.
Garbled == -1
PrintString(name) ==
  LET body(k) == IF k <= Len(Text(name)) THEN Text(name)[k] ELSE Garbled
  IN  <<Quote>> \o [k \in 1..OutputLength(name) |-> body(k)] \o <<Quote>>

\* res.json() first decodes the bytes as UTF-8, in which a name need not be
\* written: needed bytes are missing from the character under way, code is what
\* those before them say, and the next one has to be in lower..upper.
NoCharacter == [needed |-> 0, code |-> 0, lower |-> 256, upper |-> 0]
Character(needed, code) == [needed |-> needed, code |-> code, lower |-> 128, upper |-> 191]

\* The character that a byte begins, if it does; neither one that has a shorter
\* form, nor a surrogate, nor one beyond the last.
Begun(byte) ==
  CASE byte \in 194..223 -> Character(1, byte - 192)
    [] byte = 224        -> [Character(2, 0) EXCEPT !.lower = 160]
    [] byte = 237        -> [Character(2, 13) EXCEPT !.upper = 159]
    [] byte \in (225..239) \ {237} -> Character(2, byte - 224)
    [] byte = 240        -> [Character(3, 0) EXCEPT !.lower = 144]
    [] byte \in 241..243 -> Character(3, byte - 240)
    [] byte = 244        -> [Character(3, 4) EXCEPT !.upper = 143]
    [] OTHER             -> NoCharacter

\* A character that does not go on, and a byte that begins none, become U+FFFD.
Replacement == 65533
BrokenOff(under) == IF under = NoCharacter THEN << >> ELSE <<Replacement>>

Refused(byte) == IF Begun(byte) = NoCharacter THEN <<Replacement>> ELSE << >>
GoesOn(under, byte) == byte \in under.lower..under.upper
Decoded(under, byte) ==
  IF GoesOn(under, byte)
  THEN IF under.needed = 1 THEN <<64 * under.code + (byte - 128)>> ELSE << >>
  ELSE BrokenOff(under) \o (IF byte < 128 THEN <<byte>> ELSE Refused(byte))

DecodeOne(s, byte) ==
  [out   |-> s.out \o Decoded(s.under, byte),
   under |-> IF ~GoesOn(s.under, byte) THEN Begun(byte)
             ELSE IF s.under.needed = 1 THEN NoCharacter
             ELSE Character(s.under.needed - 1, 64 * s.under.code + (byte - 128))]

\* The quotes around a name are characters of one byte: none is under way at the
\* first, and the last one breaks off one that is.
Decode(bytes) ==
  LET s[i \in 0..Len(bytes)] ==
        IF i = 0 THEN [out |-> << >>, under |-> NoCharacter] ELSE DecodeOne(s[i - 1], bytes[i])
      end == s[Len(bytes)]
  IN  end.out \o BrokenOff(end.under)

\* What its JSON reader makes of the characters between the quotes, one by one:
\* at counts those of an escape it has read, code is the number in it.  What may
\* not stand there reads as Garbled.
Digit(char) == IF char < 87 THEN char - 48 ELSE char - 87

ReadOne(s, char) ==
  LET means  == {c \in DOMAIN Letter : Letter[c] = char}
      code   == 16 * s.code + Digit(char)
      ends(c) == [out |-> Append(s.out, c), at |-> 0, code |-> 0]
  IN  CASE s.at = 0 /\ char = Backslash -> [s EXCEPT !.at = 1]
        [] s.at = 0 /\ char # Backslash -> ends(IF char < 32 \/ char = Quote THEN Garbled ELSE char)
        [] s.at = 1 /\ char = 117       -> [s EXCEPT !.at = 2]
        [] s.at = 1 /\ char # 117       -> ends(IF means = {} THEN Garbled
                                                ELSE CHOOSE c \in means : TRUE)
        [] s.at \in 2..4                -> [out |-> s.out, at |-> s.at + 1, code |-> code]
        [] s.at = 5                     -> ends(code)

Read(text) ==
  LET s[i \in 0..Len(text)] ==
        IF i = 0 THEN [out |-> << >>, at |-> 0, code |-> 0] ELSE ReadOne(s[i - 1], text[i])
      end == s[Len(text)]
  IN  IF end.at = 0 THEN end.out ELSE Append(end.out, Garbled)

-----------------------------------------------------------------------------
\* What they are for.

\* The first records of their network and authmode, the row of one of them, and
\* what belongs there.
Firsts(aps) == {i \in DOMAIN aps : /\ aps[i].ssid # NoName
                                   /\ \A j \in 1..i - 1 : ~Twins(aps[j], aps[i])}
Row(aps, i) == Cardinality(Firsts(aps) \cap 1..i)
Best(aps, i) ==
  [aps[i] EXCEPT !.rssi = Strongest({aps[j] : j \in {k \in DOMAIN aps : Twins(aps[k], aps[i])}})]

\* The page has a row for every authmode of every named network, with the best
\* signal, in the order of discovery; without one it stays as it was.
ShowsNetworks(aps) ==
  LET page == RefreshAP(PrintList(FilterUnique(aps)), <<"before">>)
  IN  IF Firsts(aps) = {} THEN page = <<"before">>
      ELSE /\ page \in Seq(AccessPoint) /\ Len(page) = Cardinality(Firsts(aps))
           /\ \A i \in Firsts(aps) : page[Row(aps, i)] = Best(aps, i)

\* A name's text is as long as was counted, ends with its quote, and is read as
\* the browser reads the name's bytes: the name itself, if it is written in UTF-8.
ComesThrough(name) ==
  /\ PrintString(name) = <<Quote>> \o Text(name) \o <<Quote>>
  /\ Read(Decode(Text(name))) = Decode(name)
=============================================================================
