---------------------------- MODULE ConfigStore ----------------------------
(***************************************************************************)
(* What keeping the configuration in the flash promises, whatever fails:   *)
(* the two fields there change only during a save, each at most once, the  *)
(* ssid first, and to what the RAM holds at that moment; and a boot loads  *)
(* all of the configuration, its ssid alone, or nothing.  It promises no   *)
(* more: a save is not atomic, neither to a reset nor to the web server.   *)
(* NvsConfig implements this with a mutex, a settings blob, and an error   *)
(* return behind every call.                                               *)
(***************************************************************************)
CONSTANTS Network, Empty, Absent

VARIABLES ram,      \* the configuration in use
          stored,   \* the two fields in the flash
          unsaved,  \* the fields the save in progress has yet to look at
          up        \* the device has loaded its configuration

vars == <<ram, stored, unsaved, up>>

Field == {"ssid", "password"}
Zeroed == [f \in Field |-> Empty]

Init == /\ ram = Zeroed
        /\ stored = [f \in Field |-> Absent]
        /\ unsaved = {}
        /\ up = FALSE

Load(fields) ==
  /\ ~up
  /\ \A f \in fields : stored[f] # Absent
  /\ ram' = [f \in Field |-> IF f \in fields THEN stored[f] ELSE Empty]
  /\ up' = TRUE
  /\ UNCHANGED <<stored, unsaved>>

\* A user's disconnect, or the start of a user's request to connect, whose
\* fields follow one by one.
Erase == up /\ ram' = Zeroed /\ UNCHANGED <<stored, unsaved, up>>

Fill(f, n) ==
  /\ up
  /\ ram' = [ram EXCEPT ![f] = n]
  /\ UNCHANGED <<stored, unsaved, up>>

BeginSave == up /\ unsaved = {} /\ unsaved' = Field /\ UNCHANGED <<ram, stored, up>>

\* A field is passed over when it is there already, or cannot be read.
SaveField(f) ==
  /\ f \in unsaved
  /\ f = "password" => "ssid" \notin unsaved
  /\ unsaved' = unsaved \ {f}
  /\ stored' \in {stored, [stored EXCEPT ![f] = ram[f]]}
  /\ UNCHANGED <<ram, up>>

GiveUp == unsaved' = {} /\ UNCHANGED <<ram, stored, up>>

Reset == ram' = Zeroed /\ unsaved' = {} /\ up' = FALSE /\ UNCHANGED stored

Next == \/ \E fields \in {{}, {"ssid"}, Field} : Load(fields)
        \/ Erase
        \/ \E f \in Field, n \in Network : Fill(f, n)
        \/ BeginSave
        \/ \E f \in Field : SaveField(f)
        \/ GiveUp
        \/ Reset

Spec == Init /\ [][Next]_vars
=============================================================================
