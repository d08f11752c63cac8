----------------------------- MODULE NvsConfig -----------------------------
(***************************************************************************)
(* How the configuration gets to the flash and back: the steps of          *)
(* wifi_manager_save_sta_config and wifi_manager_fetch_wifi_sta_config,    *)
(* under the mutex of nvs_sync.c, beside the web server, which overwrites  *)
(* the configuration in place.  WifiManager has a save and a fetch as one  *)
(* choice each; here every blob is an action, every call may fail, and a   *)
(* reset may come between any two.                                         *)
(*                                                                         *)
(* The flash (external) keeps a blob as soon as nvs_set_blob returns.      *)
(*                                                                         *)
(* A definition called like another with Unchecked, IfStored, Scattered or *)
(* Locked added is a mutant: what the other would be with a plausible      *)
(* mistake.                                                                *)
(***************************************************************************)
EXTENDS Naturals

CONSTANTS Network,      \* networks: each has its own ssid and password
          Empty,        \* a zeroed field
          Absent,       \* no blob under this key
          ErrorBound    \* bound: calls of the flash that fail

ASSUME NetworkAssumption == Empty \notin Network /\ Absent \notin Network \cup {Empty}
ASSUME BoundAssumption   == ErrorBound \in Nat

VARIABLES config,     \* wifi_manager_config_sta, in RAM
          flash,      \* external: the blobs of the two fields and of the settings
          lock,       \* nvs_sync_mutex is taken
          mgr,        \* where the manager task is
          change,     \* the save in progress has written something
          failed,     \* its esp_err after reading the settings is an error
          post,       \* the field the web server's POST handler copies next
          errors,     \* history: calls that failed
          clean,      \* history: the save met no error and no POST
          leaked      \* history: a save returned without giving the mutex back

saveVars == <<change, failed>>
vars == <<config, flash, lock, mgr, saveVars, post, errors, clean, leaked>>

Field == {"ssid", "password"}
Value == Network \cup {Empty}
AllOf(v) == [f \in Field |-> v]

NoPost == [next |-> "none", network |-> Empty]

TypeOK ==
  /\ config \in [Field -> Value]
  /\ flash \in [Field \cup {"settings"} -> Value \cup {Absent}]
  /\ lock \in BOOLEAN
  /\ mgr \in {"fetch", "idle", "lock", "ssid", "password", "settings", "commit", "close"}
  /\ change \in BOOLEAN
  /\ failed \in BOOLEAN
  /\ post \in [next : Field, network : Network] \cup {NoPost}
  /\ errors \in 0..ErrorBound
  /\ clean \in BOOLEAN
  /\ leaked \in BOOLEAN

\* A new device.  The settings never change: Empty stands for their value.
Init ==
  /\ config = AllOf(Empty)
  /\ flash = [k \in Field \cup {"settings"} |-> Absent]
  /\ lock = FALSE
  /\ mgr = "fetch"
  /\ change = FALSE /\ failed = FALSE
  /\ post = NoPost
  /\ errors = 0 /\ clean = FALSE /\ leaked = FALSE

-----------------------------------------------------------------------------
\* A call of the flash that fails.
Fails == errors < ErrorBound /\ errors' = errors + 1
Works == UNCHANGED errors

\* The mutex is not recursive: a task that has it waits for ever.
Lock == ~lock /\ lock' = TRUE
Unlock == lock' = FALSE

-----------------------------------------------------------------------------
\* wifi_manager_fetch_wifi_sta_config, called once after a boot.  No request
\* reaches the web server yet, so nobody sees its steps.

LoadsScattered(fields) ==
  config' = [f \in Field |-> IF flash[f] # Absent THEN flash[f] ELSE Empty]
Loads(fields) == config' = [f \in Field |-> IF f \in fields THEN flash[f] ELSE Empty]
HasAllUnchecked(keys) == TRUE
HasAll(keys)  == \A k \in keys : flash[k] # Absent

\* It stops at the first field that is absent or cannot be read.
Fetch ==
  /\ mgr = "fetch" /\ ~lock
  /\ \/ HasAll(Field) /\ Loads(Field)                   /\ Works
     \/ ~HasAll(Field) /\ HasAll({"ssid"}) /\ Loads({"ssid"}) /\ Works
     \/ ~HasAll({"ssid"}) /\ Loads({})                  /\ Works
     \/ HasAll({"ssid"}) /\ Loads({"ssid"})             /\ Fails
     \/ Loads({})                                       /\ Fails
  /\ mgr' = "idle"
  /\ UNCHANGED <<flash, lock, saveVars, post, clean, leaked>>

-----------------------------------------------------------------------------
\* wifi_manager_save_sta_config

\* After GOT_IP, or after a user's disconnect has zeroed the configuration.
StartSave ==
  /\ mgr = "idle"
  /\ \/ UNCHANGED config
     \/ config' = AllOf(Empty)
  /\ mgr' = "lock"
  /\ clean' = (post = NoPost)
  /\ UNCHANGED <<flash, lock, saveVars, post, errors, leaked>>

ReturnLocked == mgr' = "idle" /\ UNCHANGED lock
Return == mgr' = "idle" /\ Unlock

LockAndOpen ==
  /\ mgr = "lock"
  /\ ~lock
  /\ \/ Lock /\ mgr' = "ssid" /\ Works /\ UNCHANGED clean
     \/ Return /\ Fails /\ clean' = FALSE               \* nvs_open
  /\ change' = FALSE /\ failed' = FALSE
  /\ UNCHANGED <<config, flash, post, leaked>>

DiffersIfStored(f) == flash[f] \notin {Absent, config[f]}
Differs(f) == (IF flash[f] = Absent THEN Empty ELSE flash[f]) # config[f]

\* A field that cannot be read is left as it is, and the error forgotten.
SaveField(f, next) ==
  /\ mgr = f
  /\ \/ /\ Differs(f)
        /\ flash' = [flash EXCEPT ![f] = config[f]]
        /\ change' = TRUE /\ mgr' = next
        /\ Works /\ UNCHANGED <<lock, clean>>
     \/ /\ ~Differs(f)
        /\ mgr' = next
        /\ Works /\ UNCHANGED <<flash, lock, change, clean>>
     \/ /\ Fails /\ mgr' = next                         \* nvs_get_blob
        /\ clean' = FALSE /\ UNCHANGED <<flash, lock, change>>
     \/ /\ Differs(f) /\ Fails /\ Return                \* nvs_set_blob
        /\ clean' = FALSE /\ UNCHANGED <<flash, change>>
  /\ UNCHANGED <<config, failed, post, leaked>>

SaveSettings ==
  /\ mgr = "settings"
  /\ \/ /\ flash["settings"] = Absent
        /\ flash' = [flash EXCEPT !["settings"] = Empty]
        /\ change' = TRUE /\ mgr' = "commit"
        /\ Works /\ UNCHANGED <<lock, failed, clean>>
     \/ /\ flash["settings"] # Absent
        /\ mgr' = "commit"
        /\ Works /\ UNCHANGED <<flash, lock, change, failed, clean>>
     \/ /\ Fails /\ failed' = TRUE /\ mgr' = "commit"   \* nvs_get_blob
        /\ clean' = FALSE /\ UNCHANGED <<flash, lock, change>>
     \/ /\ flash["settings"] = Absent /\ Fails /\ Return
        /\ clean' = FALSE /\ UNCHANGED <<flash, change, failed>>
  /\ UNCHANGED <<config, post, leaked>>

\* What nvs_commit returns, or, without a change, what reading the settings
\* returned: with an error the function returns, and the mutex stays taken.
Commit ==
  /\ mgr = "commit"
  /\ \/ (change \/ ~failed) /\ Works /\ mgr' = "close" /\ UNCHANGED <<clean, leaked>>
     \/ change /\ Fails /\ mgr' = "idle" /\ clean' = FALSE /\ leaked' = TRUE
     \/ ~change /\ failed /\ Works /\ mgr' = "idle" /\ leaked' = TRUE /\ UNCHANGED clean
  /\ UNCHANGED <<config, flash, lock, saveVars, post>>

EndSave ==
  /\ mgr = "close"
  /\ Return
  /\ UNCHANGED <<config, flash, saveVars, post, errors, clean, leaked>>

-----------------------------------------------------------------------------
\* http_server_post_handler: the configuration is zeroed, then filled.

PostStart(n) ==
  /\ post = NoPost /\ mgr # "fetch"
  /\ config' = AllOf(Empty)
  /\ post' = [next |-> "ssid", network |-> n]
  /\ clean' = FALSE
  /\ UNCHANGED <<flash, lock, mgr, saveVars, errors, leaked>>

PostCopy ==
  /\ post # NoPost
  /\ config' = [config EXCEPT ![post.next] = post.network]
  /\ post' = IF post.next = "ssid" THEN [post EXCEPT !.next = "password"] ELSE NoPost
  /\ clean' = FALSE
  /\ UNCHANGED <<flash, lock, mgr, saveVars, errors, leaked>>

\* A reset at any moment: the flash is all that survives it.
PowerCycle ==
  /\ config' = AllOf(Empty)
  /\ lock' = FALSE /\ mgr' = "fetch"
  /\ change' = FALSE /\ failed' = FALSE
  /\ post' = NoPost /\ clean' = FALSE /\ leaked' = FALSE
  /\ UNCHANGED <<flash, errors>>

-----------------------------------------------------------------------------
Save == LockAndOpen \/ SaveField("ssid", "password") \/ SaveField("password", "settings")
          \/ SaveSettings \/ Commit \/ EndSave

Next == \/ Fetch \/ StartSave \/ Save
        \/ \E n \in Network : PostStart(n)
        \/ PostCopy
        \/ PowerCycle

Spec == Init /\ [][Next]_vars

\* The manager task goes on whenever the mutex lets it.
FairSpec == Spec /\ WF_vars(Save)

-----------------------------------------------------------------------------
\* Properties.

\* Whatever was in the flash before, from a torn save or a failed one, a save
\* that met no error and no POST leaves the configuration there, whole.
Holds(f) == flash[f] = config[f] \/ (flash[f] = Absent /\ config[f] = Empty)
SaveStoresConfig == [][EndSave /\ clean => \A f \in Field : Holds(f)]_vars

\* The mutex is taken exactly during a save, but for the two ways out of
\* Commit that keep it.
LockHeldInSave ==
  lock <=> leaked \/ mgr \in {"ssid", "password", "settings", "commit", "close"}

\* The fields that the save in progress has yet to look at.
Unsaved == CASE mgr = "ssid"     -> Field
             [] mgr = "password" -> {"password"}
             [] OTHER            -> {}

Store == INSTANCE ConfigStore WITH
           ram     <- config,
           stored  <- [f \in Field |-> flash[f]],
           unsaved <- Unsaved,
           up      <- mgr # "fetch"

\* Whatever fails and whenever the device is reset, the flash takes a field only
\* in a save, once, in order and as it is in RAM then; and what a boot loads is
\* never a password without its ssid.
KeepsConfigStore == Store!Spec

\* "In practice, nvs_sync_lock will almost never wait."
LockComesBack == mgr = "lock" ~> mgr # "lock"
=============================================================================
