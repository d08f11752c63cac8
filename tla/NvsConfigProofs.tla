-------------------------- MODULE NvsConfigProofs --------------------------
(***************************************************************************)
(* Proofs about NvsConfig, for any networks and any number of failing      *)
(* calls: its type invariant, who holds the mutex, that an undisturbed     *)
(* save stores the whole configuration, and that it implements             *)
(* ConfigStore.                                                            *)
(***************************************************************************)
EXTENDS NvsConfig, TLAPS

\* The manager's steps under the mutex, for the proofs' case distinctions.
LEMMA SaveCases ==
  ASSUME Save
  PROVE  \/ LockAndOpen \/ SaveField("ssid", "password") \/ SaveField("password", "settings")
         \/ SaveSettings \/ Commit \/ EndSave
BY DEF Save

-----------------------------------------------------------------------------
\* TypeOK holds of every reachable state: in particular no absent blob is ever
\* loaded into the configuration.
THEOREM TypeCorrect == Spec => []TypeOK
<1> USE NetworkAssumption, BoundAssumption
<1>1. Init => TypeOK
  <2> SUFFICES ASSUME Init PROVE TypeOK
    OBVIOUS
  <2>1. config \in [Field -> Value] /\ flash \in [Field \cup {"settings"} -> Value \cup {Absent}]
    BY DEF Init, AllOf, Value
  <2>2. errors \in 0..ErrorBound
    BY DEF Init
  <2> QED
    BY <2>1, <2>2 DEF Init, TypeOK
<1>2. TypeOK /\ [Next]_vars => TypeOK'
  <2> SUFFICES ASSUME TypeOK, [Next]_vars PROVE TypeOK'
    OBVIOUS
  <2>0. Empty \in Value /\ AllOf(Empty) \in [Field -> Value] /\ Absent \notin Value
    BY DEF AllOf, Value
  <2>1. CASE Fetch
    <3>1. config' \in [Field -> Value]
      BY <2>0, <2>1 DEF TypeOK, Fetch, Loads, HasAll, Field
    <3>2. errors' \in 0..ErrorBound
      BY <2>1 DEF TypeOK, Fetch, Works, Fails
    <3> QED
      BY <2>1, <3>1, <3>2 DEF TypeOK, Fetch, saveVars
  <2>2. CASE StartSave
    BY <2>0, <2>2 DEF TypeOK, StartSave, saveVars
  <2>3. CASE LockAndOpen
    <3>1. errors' \in 0..ErrorBound
      BY <2>3 DEF TypeOK, LockAndOpen, Works, Fails
    <3>2. /\ lock' \in BOOLEAN /\ mgr' \in {"idle", "ssid"} /\ clean' \in BOOLEAN
          /\ change' \in BOOLEAN /\ failed' \in BOOLEAN
      BY <2>3 DEF TypeOK, LockAndOpen, Lock, Return, Unlock
    <3> QED
      BY <2>3, <3>1, <3>2 DEF TypeOK, LockAndOpen
  <2>4. ASSUME NEW f \in Field, NEW next \in {"password", "settings"}, SaveField(f, next)
        PROVE  TypeOK'
    <3>1. flash' \in [Field \cup {"settings"} -> Value \cup {Absent}]
      BY <2>4 DEF TypeOK, SaveField
    <3>2. errors' \in 0..ErrorBound
      BY <2>4 DEF TypeOK, SaveField, Works, Fails
    <3>3. /\ mgr' \in {"idle", "password", "settings"}
          /\ lock' \in BOOLEAN /\ change' \in BOOLEAN /\ clean' \in BOOLEAN
      BY <2>4 DEF TypeOK, SaveField, Return, Unlock
    <3> QED
      BY <2>4, <3>1, <3>2, <3>3 DEF TypeOK, SaveField
  <2>5. CASE SaveSettings
    <3>1. flash' \in [Field \cup {"settings"} -> Value \cup {Absent}]
      BY <2>0, <2>5 DEF TypeOK, SaveSettings
    <3>2. errors' \in 0..ErrorBound
      BY <2>5 DEF TypeOK, SaveSettings, Works, Fails
    <3>3. /\ mgr' \in {"idle", "commit"} /\ lock' \in BOOLEAN /\ change' \in BOOLEAN
          /\ failed' \in BOOLEAN /\ clean' \in BOOLEAN
      BY <2>5 DEF TypeOK, SaveSettings, Return, Unlock
    <3> QED
      BY <2>5, <3>1, <3>2, <3>3 DEF TypeOK, SaveSettings
  <2>6. CASE Commit
    <3>1. errors' \in 0..ErrorBound
      BY <2>6 DEF TypeOK, Commit, Works, Fails
    <3>2. mgr' \in {"idle", "close"} /\ clean' \in BOOLEAN /\ leaked' \in BOOLEAN
      BY <2>6 DEF TypeOK, Commit
    <3> QED
      BY <2>6, <3>1, <3>2 DEF TypeOK, Commit, saveVars
  <2>7. CASE EndSave
    BY <2>7 DEF TypeOK, EndSave, Return, Unlock, saveVars
  <2>8. ASSUME NEW n \in Network, PostStart(n) PROVE TypeOK'
    BY <2>0, <2>8 DEF TypeOK, PostStart, saveVars, Field, Value
  <2>9. CASE PostCopy
    <3>1. post \in [next : Field, network : Network] /\ post.network \in Value
      BY <2>9 DEF TypeOK, PostCopy, Value
    <3>2. config' \in [Field -> Value]
      BY <2>9, <3>1 DEF TypeOK, PostCopy
    <3>3. post' \in [next : Field, network : Network] \cup {NoPost}
      BY <2>9, <3>1 DEF PostCopy, Field
    <3> QED
      BY <2>9, <3>2, <3>3 DEF TypeOK, PostCopy, saveVars
  <2>10. CASE PowerCycle
    BY <2>0, <2>10 DEF TypeOK, PowerCycle, NoPost
  <2>11. CASE UNCHANGED vars
    BY <2>11 DEF TypeOK, vars, saveVars
  <2> QED
    BY <2>1, <2>2, <2>3, <2>4, <2>5, <2>6, <2>7, <2>8, <2>9, <2>10, <2>11, SaveCases
       DEF Next, Field
<1> QED
  BY <1>1, <1>2, PTL DEF Spec

-----------------------------------------------------------------------------
\* What makes LockHeldInSave inductive: after a leak no save gets past its lock.
LockInv ==
  /\ LockHeldInSave
  /\ leaked => mgr \in {"idle", "lock"}

\* The mutex is taken exactly during a save, unless Commit has leaked it: every
\* other way out of wifi_manager_save_sta_config gives it back.
THEOREM LockCorrect == Spec => []LockHeldInSave
<1>1. Init => LockInv
  BY DEF Init, LockInv, LockHeldInSave
<1>2. LockInv /\ [Next]_vars => LockInv'
  <2> SUFFICES ASSUME LockInv, [Next]_vars PROVE LockInv'
    OBVIOUS
  <2> USE DEF LockInv, LockHeldInSave
  <2>1. CASE Fetch
    BY <2>1 DEF Fetch
  <2>2. CASE StartSave
    BY <2>2 DEF StartSave
  <2>3. CASE LockAndOpen
    BY <2>3 DEF LockAndOpen, Lock, Return, Unlock
  <2>4. CASE SaveField("ssid", "password")
    BY <2>4 DEF SaveField, Return, Unlock
  <2>5. CASE SaveField("password", "settings")
    BY <2>5 DEF SaveField, Return, Unlock
  <2>6. CASE SaveSettings
    BY <2>6 DEF SaveSettings, Return, Unlock
  <2>7. CASE Commit
    BY <2>7 DEF Commit
  <2>8. CASE EndSave
    BY <2>8 DEF EndSave, Return, Unlock
  <2>9. CASE PostCopy \/ (\E n \in Network : PostStart(n))
    BY <2>9 DEF PostStart, PostCopy
  <2>10. CASE PowerCycle
    BY <2>10 DEF PowerCycle
  <2>11. CASE UNCHANGED vars
    BY <2>11 DEF vars
  <2> QED
    BY <2>1, <2>2, <2>3, <2>4, <2>5, <2>6, <2>7, <2>8, <2>9, <2>10, <2>11, SaveCases DEF Next
<1>3. LockInv => LockHeldInSave
  BY DEF LockInv
<1> QED
  BY <1>1, <1>2, <1>3, PTL DEF Spec

-----------------------------------------------------------------------------
\* A clean save has stored the fields that it has been through.
StoredSoFar ==
  clean =>
    /\ mgr \in {"password", "settings", "commit", "close"} => Holds("ssid")
    /\ mgr \in {"settings", "commit", "close"} => Holds("password")

\* A step that changes neither the configuration nor the flash's two fields
\* keeps what holds of them.
LEMMA HoldsKept ==
  ASSUME UNCHANGED config, NEW f \in Field, flash'[f] = flash[f]
  PROVE  Holds(f)' <=> Holds(f)
BY DEF Holds

\* A save that met no error and no POST ends with the configuration in the
\* flash, whole, whatever the flash held before.
THEOREM SaveCorrect == Spec => SaveStoresConfig
<1>1. Init => StoredSoFar
  BY DEF Init, StoredSoFar
<1>2. TypeOK /\ StoredSoFar /\ [Next]_vars => StoredSoFar'
  <2> SUFFICES ASSUME TypeOK, StoredSoFar, [Next]_vars PROVE StoredSoFar'
    OBVIOUS
  <2> USE DEF StoredSoFar
  <2>1. CASE Fetch
    BY <2>1 DEF Fetch
  <2>2. CASE StartSave
    BY <2>2 DEF StartSave
  <2>3. CASE LockAndOpen
    BY <2>3 DEF LockAndOpen, Return
  <2>4. CASE SaveField("ssid", "password")
    BY <2>4 DEF SaveField, Differs, Holds, Return, TypeOK, Field
  <2>5. CASE SaveField("password", "settings")
    BY <2>5 DEF SaveField, Differs, Holds, Return, TypeOK, Field
  <2>6. CASE SaveSettings
    BY <2>6 DEF SaveSettings, Holds, Return, TypeOK, Field
  <2>7. CASE Commit
    BY <2>7, HoldsKept DEF Commit, Field
  <2>8. CASE EndSave
    BY <2>8 DEF EndSave, Return
  <2>9. CASE PostCopy \/ (\E n \in Network : PostStart(n))
    BY <2>9 DEF PostStart, PostCopy
  <2>10. CASE PowerCycle
    BY <2>10 DEF PowerCycle
  <2>11. CASE UNCHANGED vars
    BY <2>11, HoldsKept DEF vars, Field
  <2> QED
    BY <2>1, <2>2, <2>3, <2>4, <2>5, <2>6, <2>7, <2>8, <2>9, <2>10, <2>11, SaveCases DEF Next
<1>3. StoredSoFar /\ EndSave => (clean => \A f \in Field : Holds(f))
  BY DEF StoredSoFar, EndSave, Field
<1>4. Spec => [](TypeOK /\ StoredSoFar)
  BY <1>1, <1>2, TypeCorrect, PTL DEF Spec
<1> QED
  BY <1>3, <1>4, PTL DEF SaveStoresConfig

-----------------------------------------------------------------------------
\* The two fields in the flash, as ConfigStore sees them, after a step.
LEMMA StoredAfter ==
  ASSUME TypeOK, NEW f \in Field, flash' = [flash EXCEPT ![f] = config[f]]
  PROVE  [g \in Field |-> flash'[g]] = [[g \in Field |-> flash[g]] EXCEPT ![f] = config[f]]
<1>1. \A g \in Field : g \in DOMAIN flash /\ flash'[g] = IF g = f THEN config[f] ELSE flash[g]
  BY DEF TypeOK
<1> QED
  BY <1>1

\* A step that leaves all that ConfigStore sees alone is a stutter of it.
LEMMA StoreStutters ==
  ASSUME UNCHANGED config, \A f \in Field : flash'[f] = flash[f],
         Unsaved' = Unsaved, (mgr # "fetch")' = (mgr # "fetch")
  PROVE  UNCHANGED Store!vars
BY DEF Store!vars

\* No request reaches the web server before the fetch.
NoPostInFetch == mgr = "fetch" => post = NoPost

\* Every step of the save, the fetch, the web server and a reset is a step of
\* ConfigStore, or changes nothing that it sees.
LEMMA StepsKeepStore ==
  ASSUME TypeOK, NoPostInFetch, [Next]_vars
  PROVE  [Store!Next]_(Store!vars)
<1> USE DEF Unsaved
<1>1. CASE Fetch
  <2>1. PICK fields \in {{}, {"ssid"}, Field} : HasAll(fields) /\ Loads(fields)
    <3>1. HasAll({})
      BY DEF HasAll
    <3> QED
      BY <1>1, <3>1 DEF Fetch
  <2>2. fields \subseteq Field
    BY DEF Field
  <2>3. Store!Load(fields)
    BY <1>1, <2>1, <2>2 DEF Fetch, Loads, HasAll, Store!Load, Store!Field, Field
  <2> QED
    BY <2>1, <2>3 DEF Store!Next, Store!Field, Field
<1>2. CASE StartSave
  <2>1. CASE UNCHANGED config
    BY <1>2, <2>1, StoreStutters DEF StartSave
  <2>2. CASE config' = AllOf(Empty)
    BY <1>2, <2>2 DEF StartSave, AllOf, Store!Erase, Store!Zeroed, Store!Field, Field, Store!Next
  <2> QED
    BY <1>2, <2>1, <2>2 DEF StartSave
<1>3. CASE LockAndOpen
  <2>1. CASE mgr' = "ssid"
    BY <1>3, <2>1 DEF LockAndOpen, Store!BeginSave, Store!Field, Field, Store!Next
  <2>2. CASE mgr' = "idle"
    BY <1>3, <2>2, StoreStutters DEF LockAndOpen
  <2> QED
    BY <1>3, <2>1, <2>2 DEF LockAndOpen, Return
<1>4. ASSUME NEW f \in Field, NEW next \in {"password", "settings"},
             f = "ssid" <=> next = "password", SaveField(f, next)
      PROVE  Store!Next
  <2>1. CASE mgr' = next
    <3>1. \/ flash' = flash
          \/ flash' = [flash EXCEPT ![f] = config[f]]
      BY <1>4, <2>1 DEF SaveField, Return
    <3>2. [g \in Field |-> flash[g]]'
            \in {[g \in Field |-> flash[g]], [[g \in Field |-> flash[g]] EXCEPT ![f] = config[f]]}
      BY <3>1, StoredAfter
    <3>3. Unsaved' = Unsaved \ {f} /\ f \in Unsaved /\ (f = "password" => "ssid" \notin Unsaved)
      BY <1>4, <2>1 DEF SaveField, Field
    <3>4. config' = config /\ (mgr # "fetch")' = (mgr # "fetch")
      BY <1>4, <2>1 DEF SaveField, Field
    <3>5. Store!SaveField(f)
      BY <3>2, <3>3, <3>4 DEF Store!SaveField
    <3> QED
      BY <3>5 DEF Store!Next, Store!Field, Field
  <2>2. CASE mgr' # next
    <3>1. mgr' = "idle" /\ UNCHANGED <<config, flash>> /\ mgr = f
      BY <1>4, <2>2 DEF SaveField, Return
    <3> QED
      BY <3>1 DEF Store!GiveUp, Store!Next, Field
  <2> QED
    BY <2>1, <2>2
<1>5. CASE SaveSettings
  <2>1. \A f \in Field : flash'[f] = flash[f]
    BY <1>5 DEF SaveSettings, TypeOK, Field
  <2> QED
    BY <1>5, <2>1, StoreStutters DEF SaveSettings, Return
<1>6. CASE Commit \/ EndSave
  BY <1>6, StoreStutters DEF Commit, EndSave, Return
<1>7. ASSUME NEW n \in Network, PostStart(n) PROVE Store!Next
  BY <1>7 DEF PostStart, AllOf, Store!Erase, Store!Zeroed, Store!Field, Field, Store!Next
<1>8. CASE PostCopy
  <2>1. post.next \in Field /\ post.network \in Network
    BY <1>8 DEF TypeOK, PostCopy
  <2>2. mgr # "fetch"
    BY <1>8 DEF PostCopy, NoPostInFetch
  <2>3. Store!Fill(post.next, post.network)
    BY <1>8, <2>2 DEF PostCopy, Store!Fill
  <2> QED
    BY <2>1, <2>3 DEF Store!Next, Store!Field, Field
<1>9. CASE PowerCycle
  BY <1>9 DEF PowerCycle, AllOf, Store!Reset, Store!Zeroed, Store!Field, Field, Store!Next
<1>10. CASE UNCHANGED vars
  BY <1>10, StoreStutters DEF vars
<1> QED
  BY <1>1, <1>2, <1>3, <1>4, <1>5, <1>6, <1>7, <1>8, <1>9, <1>10, SaveCases DEF Next, Field

\* NvsConfig implements ConfigStore: what the flash holds, after any number of
\* errors, requests and resets, came there field by field, in order, from RAM.
THEOREM StoreRefined == Spec => KeepsConfigStore
<1>1. Init => Store!Init
  BY DEF Init, AllOf, Unsaved, Field, Store!Init, Store!Zeroed, Store!Field
<1>2. Init => NoPostInFetch
  BY DEF Init, NoPostInFetch
<1>3. NoPostInFetch /\ [Next]_vars => NoPostInFetch'
  <2> SUFFICES ASSUME NoPostInFetch, [Next]_vars PROVE NoPostInFetch'
    OBVIOUS
  <2> USE DEF NoPostInFetch
  <2>1. CASE Fetch \/ StartSave \/ PowerCycle
    BY <2>1 DEF Fetch, StartSave, PowerCycle
  <2>2. CASE Save
    BY <2>2 DEF Save, LockAndOpen, SaveField, SaveSettings, Commit, EndSave, Return
  <2>3. CASE PostCopy \/ (\E n \in Network : PostStart(n))
    BY <2>3 DEF PostCopy, PostStart
  <2>4. CASE UNCHANGED vars
    BY <2>4 DEF vars
  <2> QED
    BY <2>1, <2>2, <2>3, <2>4 DEF Next
<1>4. Spec => [](TypeOK /\ NoPostInFetch)
  BY <1>2, <1>3, TypeCorrect, PTL DEF Spec
<1>5. TypeOK /\ NoPostInFetch /\ [Next]_vars => [Store!Next]_(Store!vars)
  BY StepsKeepStore
<1> QED
  BY <1>1, <1>4, <1>5, PTL DEF Spec, KeepsConfigStore, Store!Spec
=============================================================================
