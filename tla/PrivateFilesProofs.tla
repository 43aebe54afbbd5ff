------------------------- MODULE PrivateFilesProofs -------------------------
(***************************************************************************)
(* The two files of FileJournal implement UncertaintyJournal, for every    *)
(* set of actions a record may name.  ConfigLoads for every finite set of  *)
(* installers: a file is complete, on the disk and made of checked values  *)
(* before its rename, and nothing writes to it afterwards.                 *)
(***************************************************************************)
EXTENDS PrivateFiles, TLAPS

-----------------------------------------------------------------------------
(* What a directory reads as *)

\* What may be read of a directory whose files may hold d[f].
Readings(d) ==
    {AbstractState(content) : content \in
        {read_state(marker, snapshot) : marker \in d["marker"], snapshot \in d["snapshot"]}}

Directory == [Names -> SUBSET Contents]

\* A durable marker is read as Pending whatever the snapshot holds.
LEMMA MarkerReads ==
    ASSUME NEW d \in Directory, NEW a \in JournalAction,
           d["marker"] = {a}, d["snapshot"] # {}
    PROVE  Readings(d) = {"Pending"}
BY JournalActionAssumption DEF Readings, AbstractState, read_state

\* A pending snapshot without a marker, or next to one, is read as Pending.
LEMMA SnapshotReads ==
    ASSUME NEW d \in Directory, NEW a \in JournalAction,
           "Clean" \notin d["marker"], d["marker"] # {}, d["snapshot"] = {a}
    PROVE  Readings(d) = {"Pending"}
BY JournalActionAssumption DEF Readings, AbstractState, read_state, Directory, Names

\* A marker that is on its way to the disk adds Pending to what may be read.
LEMMA MarkerAdds ==
    ASSUME NEW d \in Directory, NEW a \in JournalAction, d["snapshot"] # {},
           NEW e, e = [d EXCEPT !["marker"] = @ \cup {a}]
    PROVE  Readings(e) = Readings(d) \cup {"Pending"}
<1>1. e["marker"] = d["marker"] \cup {a} /\ e["snapshot"] = d["snapshot"]
  BY Zenon DEF Directory, Names
<1>2. \A s \in d["snapshot"] : AbstractState(read_state(a, s)) = "Pending"
  BY JournalActionAssumption, Zenon DEF AbstractState, read_state
<1>3. QED
  BY <1>1, <1>2 DEF Readings

\* An unlink that is on its way to the disk, over a clean snapshot, adds Clean.
LEMMA UnlinkAdds ==
    ASSUME NEW d \in Directory, NEW a \in JournalAction,
           d["marker"] = {a}, d["snapshot"] = {"Clean"},
           NEW e, e = [d EXCEPT !["marker"] = @ \cup {"none"}]
    PROVE  Readings(e) = {"Pending", "Clean"}
<1>1. e["marker"] = {a, "none"} /\ e["snapshot"] = {"Clean"}
  BY Zenon DEF Directory, Names
<1>2. AbstractState(read_state(a, "Clean")) = "Pending"
  BY JournalActionAssumption, Zenon DEF AbstractState, read_state
<1>3. AbstractState(read_state("none", "Clean")) = "Clean"
  BY Zenon DEF AbstractState, read_state
<1>4. QED
  BY <1>1, <1>2, <1>3 DEF Readings

\* A synced directory reads as its files.
LEMMA SyncedReads ==
    ASSUME NEW f \in [Names -> Contents], NEW d, d = [n \in Names |-> {f[n]}]
    PROVE  Readings(d) = {AbstractState(read_state(f["marker"], f["snapshot"]))}
BY DEF Readings, Names

-----------------------------------------------------------------------------
(* The invariant *)

\* What each step of a call has already made durable, and that a pending
\* snapshot without a marker (a journal to migrate) is always on the disk.
FInv ==
    /\ FTypeOK
    /\ fpc \notin {"closed", "open", "migrate"} => state \in JournalAction
    /\ fpc \in {"remark", "marked", "clear", "unlink"} => onDisk["marker"] = {state}
    /\ fpc = "mark" /\ renamed => files["marker"] = state
    /\ fpc = "clear" /\ renamed => files["snapshot"] = "Clean"
    /\ fpc \in {"unlink", "unlinked"} => onDisk["snapshot"] = {"Clean"}
    /\ fpc = "unlinked" => files["marker"] = "none"
    /\ files["marker"] = "none" /\ files["snapshot"] \in JournalAction =>
          onDisk["snapshot"] = {files["snapshot"]}
    /\ fpc = "migrate" =>
          /\ files["snapshot"] \in JournalAction
          /\ onDisk["snapshot"] = {files["snapshot"]}
          /\ files["marker"] = IF renamed THEN files["snapshot"] ELSE "none"

\* What a sync, or a host crash, leaves on the disk.
LEMMA SyncedType ==
    ASSUME NEW f \in [Names -> Contents], NEW d, d = [n \in Names |-> {f[n]}]
    PROVE  /\ d \in [Names -> SUBSET Contents]
           /\ \A n \in Names : f[n] \in d[n]
           /\ d["marker"] = {f["marker"]} /\ d["snapshot"] = {f["snapshot"]}
<1>1. \A n \in Names : {f[n]} \in SUBSET Contents
  BY Zenon
<1>2. QED
  BY <1>1, Zenon DEF Names

\* A journal on disk before the first process satisfies the invariant.
LEMMA FInvInit == FInit => FInv
<1> SUFFICES ASSUME FInit
             PROVE  FInv
  BY Zenon
<1>1. files \in [Names -> Contents] /\ onDisk = [f \in Names |-> {files[f]}]
  BY Zenon DEF FInit
<1>2. /\ onDisk \in [Names -> SUBSET Contents]
      /\ \A n \in Names : files[n] \in onDisk[n]
      /\ onDisk["marker"] = {files["marker"]} /\ onDisk["snapshot"] = {files["snapshot"]}
  BY <1>1, SyncedType, Zenon
<1>3. QED
  BY <1>1, <1>2, Zenon DEF FInit, FInv, FTypeOK, JournalState, Commits

\* A rename or an unlink keeps what a process reads among what may survive.
LEMMA ReplaceType ==
    ASSUME FTypeOK, NEW f \in Names, NEW c \in Contents, f = "marker" => c # "Clean",
           Replace(f, c)
    PROVE  /\ files' \in [Names -> Contents]
           /\ onDisk' \in [Names -> SUBSET Contents]
           /\ \A n \in Names : files'[n] \in onDisk'[n]
           /\ "Clean" \notin onDisk'["marker"]
           /\ files'[f] = c /\ onDisk'[f] = onDisk[f] \cup {c}
           /\ \A n \in Names \ {f} : files'[n] = files[n] /\ onDisk'[n] = onDisk[n]
BY Zenon DEF FTypeOK, Replace, Names

\* Every call, failure and crash preserves the invariant.
LEMMA FInvStep == FInv /\ [FNext]_fvars => FInv'
<1> SUFFICES ASSUME FInv, [FNext]_fvars
             PROVE  FInv'
  BY Zenon
<1> USE JournalActionAssumption
<1>1. CASE open_under
  BY <1>1, Zenon DEF FInv, FTypeOK, open_under, read_state, Names, Contents, JournalState, Commits
<1>2. CASE open_migrating
  BY <1>2, Zenon DEF FInv, FTypeOK, open_migrating, IsPending, Names, Contents, JournalState, Commits
<1>3. ASSUME NEW action \in JournalAction, mark_pending(action)
      PROVE  FInv'
  BY <1>3, Zenon DEF FInv, FTypeOK, mark_pending, Names, Contents, JournalState, Commits
<1>4. CASE clear
  BY <1>4, Zenon DEF FInv, FTypeOK, clear, Names, Contents, JournalState, Commits
<1>5. CASE rename_entry
  <2>1. Target[fpc] \in Names /\ Payload \in Contents /\ (Target[fpc] = "marker" => Payload \in JournalAction)
    BY <1>5 DEF FInv, FTypeOK, rename_entry, Target, Payload, Names, Contents, JournalState, Commits
  <2>2. Replace(Target[fpc], Payload)
    BY <1>5, Zenon DEF rename_entry
  <2>3. /\ files' \in [Names -> Contents]
        /\ onDisk' \in [Names -> SUBSET Contents]
        /\ \A n \in Names : files'[n] \in onDisk'[n]
        /\ "Clean" \notin onDisk'["marker"]
        /\ files'[Target[fpc]] = Payload
        /\ onDisk'[Target[fpc]] = onDisk[Target[fpc]] \cup {Payload}
        /\ \A n \in Names \ {Target[fpc]} : files'[n] = files[n] /\ onDisk'[n] = onDisk[n]
    BY <2>1, <2>2, ReplaceType DEF FInv
  <2>4. FTypeOK'
    BY <1>5, <2>3, Zenon DEF FInv, FTypeOK, rename_entry
  <2>5. CASE fpc = "migrate"
    BY <1>5, <2>3, <2>4, <2>5, Zenon DEF FInv, FTypeOK, rename_entry, Target, Payload, Names
  <2>6. CASE fpc = "mark"
    BY <1>5, <2>3, <2>4, <2>6, Zenon DEF FInv, FTypeOK, rename_entry, Target, Payload, Names
  <2>7. CASE fpc = "remark"
    BY <1>5, <2>3, <2>4, <2>7, ZenonT(30) DEF FInv, FTypeOK, rename_entry, Target, Payload, Names
  <2>8. CASE fpc = "clear"
    BY <1>5, <2>3, <2>4, <2>8, Zenon DEF FInv, FTypeOK, rename_entry, Target, Payload, Names
  <2>9. QED
    BY <1>5, <2>5, <2>6, <2>7, <2>8, Zenon DEF rename_entry, Commits
<1>6. CASE sync_directory
  <2>1. files \in [Names -> Contents] /\ onDisk' = [f \in Names |-> {files[f]}]
    BY <1>6, Zenon DEF FInv, FTypeOK, sync_directory
  <2>2. /\ onDisk' \in [Names -> SUBSET Contents]
        /\ \A n \in Names : files[n] \in onDisk'[n]
        /\ onDisk'["marker"] = {files["marker"]} /\ onDisk'["snapshot"] = {files["snapshot"]}
    BY <2>1, SyncedType, Zenon
  <2>3. /\ files["marker"] \in onDisk["marker"] /\ files["snapshot"] \in onDisk["snapshot"]
        /\ files["marker"] # "Clean"
    BY Zenon DEF FInv, FTypeOK, Names
  <2>4. CASE fpc = "migrate"
    BY <1>6, <2>2, <2>3, <2>4, Zenon DEF FInv, FTypeOK, sync_directory, After, JournalState, Commits
  <2>5. CASE fpc = "mark"
    BY <1>6, <2>2, <2>3, <2>5, Zenon DEF FInv, FTypeOK, sync_directory, After, JournalState, Commits
  <2>6. CASE fpc = "remark"
    BY <1>6, <2>2, <2>3, <2>6, Zenon DEF FInv, FTypeOK, sync_directory, After, JournalState, Commits
  <2>7. CASE fpc = "clear"
    BY <1>6, <2>2, <2>3, <2>7, Zenon DEF FInv, FTypeOK, sync_directory, After, JournalState, Commits
  <2>8. QED
    BY <1>6, <2>4, <2>5, <2>6, <2>7, Zenon DEF sync_directory, Commits
<1>7. CASE commit_failed
  <2>1. fpc' \in {"closed", "open"}
    BY <1>7 DEF commit_failed, OnError, Commits
  <2>2. QED
    BY <1>7, <2>1, Zenon DEF FInv, FTypeOK, commit_failed
<1>8. CASE unlink_entry
  <2>1. Replace("marker", "none")
    BY <1>8, Zenon DEF unlink_entry
  <2>2. "marker" \in Names /\ "none" \in Contents
    BY Zenon DEF Names, Contents
  <2>3. /\ files' \in [Names -> Contents]
        /\ onDisk' \in [Names -> SUBSET Contents]
        /\ \A n \in Names : files'[n] \in onDisk'[n]
        /\ "Clean" \notin onDisk'["marker"]
        /\ files'["marker"] = "none"
        /\ files'["snapshot"] = files["snapshot"] /\ onDisk'["snapshot"] = onDisk["snapshot"]
    BY <2>1, <2>2, ReplaceType, Zenon DEF FInv, Names
  <2>4. QED
    BY <1>8, <2>3, Zenon DEF FInv, FTypeOK, unlink_entry, Names, Commits
<1>9. CASE unlink_failed
  BY <1>9, Zenon DEF FInv, FTypeOK, unlink_failed, Names, Contents, JournalState, Commits
<1>10. CASE cleared
  BY <1>10, Zenon DEF FInv, FTypeOK, cleared, Names, Contents, JournalState, Commits
<1>11. CASE process_end
  BY <1>11, Zenon DEF FInv, FTypeOK, process_end, Names, Contents, JournalState, Commits
<1>12. CASE host_crash
  <2>1. PICK marker \in onDisk["marker"], snapshot \in onDisk["snapshot"] :
            files' = [marker |-> marker, snapshot |-> snapshot]
    BY <1>12, Zenon DEF host_crash
  <2>2. marker \in Contents /\ snapshot \in Contents /\ marker # "Clean"
    BY Zenon DEF FInv, FTypeOK, Names
  <2>3. files' \in [Names -> Contents] /\ files'["marker"] = marker
    BY <2>1, <2>2 DEF Names
  <2>4. onDisk' = [f \in Names |-> {files'[f]}]
    BY <1>12, Zenon DEF host_crash
  <2>5. /\ onDisk' \in [Names -> SUBSET Contents]
        /\ \A n \in Names : files'[n] \in onDisk'[n]
        /\ onDisk'["marker"] = {files'["marker"]} /\ onDisk'["snapshot"] = {files'["snapshot"]}
    BY <2>3, <2>4, SyncedType, Zenon
  <2>6. QED
    BY <1>12, <2>2, <2>3, <2>5, Zenon DEF FInv, FTypeOK, host_crash
<1>13. CASE UNCHANGED fvars
  BY <1>13, Zenon DEF FInv, FTypeOK, fvars, Names, Contents, JournalState, Commits
<1>14. QED
  BY <1>1, <1>2, <1>3, <1>4, <1>5, <1>6, <1>7, <1>8, <1>9, <1>10, <1>11, <1>12, <1>13, Zenon DEF FNext

-----------------------------------------------------------------------------
(* The refinement *)

Reopened == AbstractState(read_state(files["marker"], files["snapshot"]))
Survivors == Readings(onDisk)

\* A step that leaves the four abstract variables alone is a stutter.
Stutter ==
    /\ UNCHANGED <<AbstractStep, AbstractState(state), Reopened, Survivors>>

\* Stutter speaks of exactly the variables the refinement maps to.
LEMMA StutterMaps == Stutter => [Journal!JNext]_(Journal!jvars)
BY DEF Stutter, Reopened, Survivors, Readings, AfterCrash, Journal!jvars

\* The facts about a directory with a durable marker that most steps need.
LEMMA MarkerDurable ==
    ASSUME FInv, NEW a \in JournalAction, onDisk["marker"] = {a}
    PROVE  Survivors = {"Pending"} /\ Reopened = "Pending"
<1>1. onDisk \in Directory /\ onDisk["snapshot"] # {} /\ files["marker"] = a
  BY Zenon DEF FInv, FTypeOK, Directory, Names
<1>2. Survivors = {"Pending"}
  BY <1>1, MarkerReads, Zenon DEF Survivors
<1>3. Reopened = "Pending"
  BY <1>1, JournalActionAssumption, Zenon DEF Reopened, AbstractState, read_state
<1>4. QED
  BY <1>2, <1>3, Zenon

\* While open_under migrates, every reading is Pending.
LEMMA MigrationPending ==
    ASSUME FInv, fpc = "migrate"
    PROVE  Survivors = {"Pending"} /\ Reopened = "Pending"
<1>1. /\ onDisk \in Directory /\ "Clean" \notin onDisk["marker"] /\ onDisk["marker"] # {}
      /\ files["snapshot"] \in JournalAction /\ onDisk["snapshot"] = {files["snapshot"]}
      /\ files["marker"] \in {"none", files["snapshot"]}
  BY Zenon DEF FInv, FTypeOK, Directory, Names
<1>2. Survivors = {"Pending"}
  BY <1>1, SnapshotReads, Zenon DEF Survivors
<1>3. Reopened = "Pending"
  BY <1>1, JournalActionAssumption, Zenon DEF Reopened, AbstractState, read_state
<1>4. QED
  BY <1>2, <1>3, Zenon


\* Every step of the two files is a step or a stutter of the one-bit journal.
LEMMA StepMaps ==
    ASSUME FInv, FInv', [FNext]_fvars
    PROVE  [Journal!JNext]_(Journal!jvars)
<1> USE JournalActionAssumption
<1>0. /\ onDisk \in Directory /\ onDisk' \in Directory
      /\ onDisk["snapshot"] # {} /\ onDisk'["snapshot"] # {}
  BY Zenon DEF FInv, FTypeOK, Directory, Names
<1>1. CASE open_under
  <2>1. AbstractStep = "closed" /\ AbstractStep' = "open"
    BY <1>1, Zenon DEF open_under, AbstractStep
  <2>2. AbstractState(state)' = Reopened /\ UNCHANGED <<Reopened, Survivors>>
    BY <1>1 DEF open_under, Reopened, Survivors, Readings, AbstractState
  <2>3. Journal!Open
    BY <2>1, <2>2 DEF Journal!Open, Reopened, Survivors, Readings, AfterCrash
  <2>4. QED
    BY <2>3, Zenon DEF Journal!JNext
<1>2. CASE open_migrating
  <2>1. Stutter
    BY <1>2 DEF open_migrating, Stutter, AbstractStep, AbstractState, Reopened, Survivors, Readings
  <2>2. QED
    BY <2>1, StutterMaps, Zenon
<1>3. ASSUME NEW action \in JournalAction, mark_pending(action)
      PROVE  Journal!JNext
  <2>1. AbstractStep = "open" /\ AbstractStep' = "mark"
    BY <1>3, Zenon DEF mark_pending, AbstractStep
  <2>2. AbstractState(state)' = "Pending" /\ UNCHANGED <<Reopened, Survivors>>
    BY <1>3 DEF mark_pending, Reopened, Survivors, Readings, AbstractState
  <2>3. Journal!MarkPending
    BY <2>1, <2>2 DEF Journal!MarkPending, Reopened, Survivors, Readings, AfterCrash
  <2>4. QED
    BY <2>3, Zenon DEF Journal!JNext
<1>4. CASE clear
  <2>1. AbstractStep = "open" /\ AbstractStep' = "clear"
    BY <1>4, Zenon DEF clear, AbstractStep
  <2>2. state \in JournalAction /\ onDisk["marker"] = {state}
    BY <1>4, Zenon DEF FInv, clear
  <2>3. Survivors = {"Pending"} /\ AbstractState(state) = "Pending"
    BY <2>2, MarkerDurable, Zenon DEF AbstractState
  <2>4. UNCHANGED <<AbstractState(state), Reopened, Survivors>>
    BY <1>4 DEF clear, Reopened, Survivors, Readings, AbstractState
  <2>5. Journal!BeginClear
    BY <2>1, <2>3, <2>4 DEF Journal!BeginClear, Reopened, Survivors, Readings, AfterCrash
  <2>6. QED
    BY <2>5, Zenon DEF Journal!JNext
<1>5. CASE rename_entry
  <2>0. UNCHANGED <<AbstractStep, AbstractState(state)>>
    BY <1>5, Zenon DEF rename_entry, AbstractStep, AbstractState
  <2>1. CASE fpc = "migrate"
    <3>1. Survivors = {"Pending"} /\ Reopened = "Pending"
      BY <2>1, MigrationPending, Zenon
    <3>2. /\ "Clean" \notin onDisk'["marker"] /\ onDisk'["marker"] # {}
          /\ files'["snapshot"] \in JournalAction /\ onDisk'["snapshot"] = {files'["snapshot"]}
          /\ files'["marker"] \in {"none", files'["snapshot"]}
      BY <1>5, <2>1, Zenon DEF FInv, FTypeOK, Names, rename_entry
    <3>3. Survivors' = {"Pending"}
      BY <1>0, <3>2, SnapshotReads, Zenon DEF Survivors
    <3>4. Reopened' = "Pending"
      BY <3>2, Zenon DEF Reopened, AbstractState, read_state
    <3>5. QED
      BY <2>0, <3>1, <3>3, <3>4, StutterMaps, Zenon DEF Stutter
  <2>2. CASE fpc = "mark"
    <3>1. /\ state \in JournalAction
          /\ files' = [files EXCEPT !["marker"] = state]
          /\ onDisk' = [onDisk EXCEPT !["marker"] = @ \cup {state}]
      BY <1>5, <2>2, Zenon DEF FInv, rename_entry, Replace, Target, Payload
    <3>2. Survivors' = Survivors \cup {"Pending"}
      BY <1>0, <3>1, MarkerAdds, Zenon DEF Survivors
    <3>3. Reopened' = "Pending"
      BY <3>1, Zenon DEF FInv, FTypeOK, Names, Reopened, AbstractState, read_state
    <3>4. AbstractStep = "mark"
      BY <2>2, Zenon DEF AbstractStep
    <3>5. Journal!Publish
      BY <2>0, <3>2, <3>3, <3>4 DEF Journal!Publish, Reopened, Survivors, Readings, AfterCrash
    <3>6. QED
      BY <3>5, Zenon DEF Journal!JNext
  <2>3. CASE fpc \in {"remark", "clear"}
    <3>1. /\ state \in JournalAction /\ onDisk["marker"] = {state}
          /\ onDisk'["marker"] = {state} /\ files'["marker"] = state
      BY <1>5, <2>3, Zenon DEF FInv, FTypeOK, Names, rename_entry
    <3>2. Survivors = {"Pending"} /\ Reopened = "Pending"
      BY <3>1, MarkerDurable, Zenon
    <3>3. Survivors' = {"Pending"}
      BY <1>0, <3>1, MarkerReads, Zenon DEF Survivors
    <3>4. Reopened' = "Pending"
      BY <3>1, Zenon DEF Reopened, AbstractState, read_state
    <3>5. QED
      BY <2>0, <3>2, <3>3, <3>4, StutterMaps, Zenon DEF Stutter
  <2>4. QED
    BY <1>5, <2>1, <2>2, <2>3, Zenon DEF rename_entry, Commits
<1>6. CASE sync_directory
  <2>1. files \in [Names -> Contents] /\ onDisk' = [f \in Names |-> {files[f]}]
    BY <1>6, Zenon DEF FInv, FTypeOK, sync_directory
  <2>2. Survivors' = {Reopened}
    BY <2>1, SyncedReads, Zenon DEF Survivors, Reopened
  <2>3. UNCHANGED Reopened
    BY <1>6, Zenon DEF sync_directory, Reopened, AbstractState, read_state
  <2>4. CASE fpc = "migrate"
    <3>1. Survivors = {"Pending"} /\ Reopened = "Pending"
      BY <2>4, MigrationPending, Zenon
    <3>2. AbstractStep = "closed" /\ AbstractStep' = "open"
      BY <1>6, <2>4, Zenon DEF sync_directory, After, AbstractStep
    <3>3. state' \in JournalAction
      BY <1>6, <2>4, Zenon DEF FInv, sync_directory
    <3>4. AbstractState(state)' = "Pending"
      BY <3>3, Zenon DEF AbstractState
    <3>5. Journal!Open
      BY <2>2, <2>3, <3>1, <3>2, <3>4 DEF Journal!Open, Reopened, Survivors, Readings, AfterCrash
    <3>6. QED
      BY <3>5, Zenon DEF Journal!JNext
  <2>5. CASE fpc = "mark"
    <3>1. Reopened = "Pending"
      BY <1>6, <2>5 DEF FInv, sync_directory, Reopened, AbstractState, read_state
    <3>2. AbstractStep = "mark" /\ AbstractStep' = "mark" /\ UNCHANGED AbstractState(state)
      BY <1>6, <2>5, Zenon DEF sync_directory, After, AbstractStep, AbstractState
    <3>3. Journal!Publish
      BY <2>2, <2>3, <3>1, <3>2, SMTT(30) DEF Journal!Publish, Reopened, Survivors, Readings, AfterCrash
    <3>4. QED
      BY <3>3, Zenon DEF Journal!JNext
  <2>6. CASE fpc \in {"remark", "clear"}
    <3>1. state \in JournalAction /\ onDisk["marker"] = {state}
      BY <2>6, Zenon DEF FInv
    <3>2. Survivors = {"Pending"} /\ Reopened = "Pending"
      BY <3>1, MarkerDurable, Zenon
    <3>3. UNCHANGED AbstractState(state)
      BY <1>6, <2>6, Zenon DEF sync_directory, AbstractState
    <3>4. CASE fpc = "remark"
      <4>1. AbstractStep = "mark" /\ AbstractStep' = "open"
        BY <1>6, <3>4, Zenon DEF sync_directory, After, AbstractStep
      <4>2. Journal!MarkOk
        BY <2>2, <2>3, <3>2, <3>3, <4>1
           DEF Journal!MarkOk, Reopened, Survivors, Readings, AfterCrash
      <4>3. QED
        BY <4>2, Zenon DEF Journal!JNext
    <3>5. CASE fpc = "clear"
      <4>1. UNCHANGED AbstractStep
        BY <1>6, <3>5, Zenon DEF sync_directory, After, AbstractStep
      <4>2. QED
        BY <2>2, <2>3, <3>2, <3>3, <4>1, StutterMaps, Zenon DEF Stutter
    <3>6. QED
      BY <2>6, <3>4, <3>5, Zenon
  <2>7. QED
    BY <1>6, <2>4, <2>5, <2>6, Zenon DEF sync_directory, Commits
<1>7. CASE commit_failed
  <2>1. UNCHANGED <<AbstractState(state), Reopened, Survivors>>
    BY <1>7 DEF commit_failed, Reopened, Survivors, Readings, AbstractState
  <2>2. CASE fpc = "migrate"
    <3>1. UNCHANGED AbstractStep
      BY <1>7, <2>2, Zenon DEF commit_failed, OnError, AbstractStep
    <3>2. QED
      BY <2>1, <3>1, StutterMaps, Zenon DEF Stutter
  <2>3. CASE fpc \in {"mark", "remark"}
    <3>1. AbstractStep = "mark" /\ AbstractStep' = "open"
      BY <1>7, <2>3 DEF commit_failed, OnError, AbstractStep
    <3>2. Journal!MarkErr
      BY <2>1, <3>1 DEF Journal!MarkErr, Reopened, Survivors, Readings, AfterCrash
    <3>3. QED
      BY <3>2, Zenon DEF Journal!JNext
  <2>4. CASE fpc = "clear"
    <3>1. AbstractStep = "clear" /\ AbstractStep' = "open"
      BY <1>7, <2>4, Zenon DEF commit_failed, OnError, AbstractStep
    <3>2. state \in JournalAction /\ onDisk["marker"] = {state}
      BY <2>4, Zenon DEF FInv
    <3>3. Reopened = "Pending"
      BY <3>2, MarkerDurable, Zenon
    <3>4. Journal!ClearErr
      BY <2>1, <3>1, <3>3 DEF Journal!ClearErr, Reopened, Survivors, Readings, AfterCrash
    <3>5. QED
      BY <3>4, Zenon DEF Journal!JNext
  <2>5. QED
    BY <1>7, <2>2, <2>3, <2>4, Zenon DEF commit_failed, Commits
<1>8. CASE unlink_entry
  <2>1. /\ state \in JournalAction /\ onDisk["marker"] = {state} /\ onDisk["snapshot"] = {"Clean"}
        /\ onDisk' = [onDisk EXCEPT !["marker"] = @ \cup {"none"}]
        /\ files'["marker"] = "none" /\ files'["snapshot"] = "Clean"
    BY <1>8, Zenon DEF FInv, FTypeOK, Names, unlink_entry, Replace
  <2>2. Survivors' = {"Pending", "Clean"}
    BY <1>0, <2>1, UnlinkAdds, Zenon DEF Survivors
  <2>3. Survivors = {"Pending"}
    BY <2>1, MarkerDurable, Zenon
  <2>4. Reopened' = "Clean"
    BY <2>1, Zenon DEF Reopened, AbstractState, read_state
  <2>5. AbstractStep = "clear" /\ AbstractStep' = "clear" /\ UNCHANGED AbstractState(state)
    BY <1>8, Zenon DEF unlink_entry, AbstractStep, AbstractState
  <2>6. Journal!Unpublish
    BY <2>2, <2>3, <2>4, <2>5 DEF Journal!Unpublish, Reopened, Survivors, Readings, AfterCrash
  <2>7. QED
    BY <2>6, Zenon DEF Journal!JNext
<1>9. CASE unlink_failed
  <2>1. AbstractStep = "clear" /\ AbstractStep' = "open"
    BY <1>9, Zenon DEF unlink_failed, AbstractStep
  <2>2. UNCHANGED <<AbstractState(state), Reopened, Survivors>>
    BY <1>9 DEF unlink_failed, Reopened, Survivors, Readings, AbstractState
  <2>3. state \in JournalAction /\ onDisk["marker"] = {state}
    BY <1>9, Zenon DEF FInv, unlink_failed
  <2>4. Reopened = "Pending"
    BY <2>3, MarkerDurable, Zenon
  <2>5. Journal!ClearErr
    BY <2>1, <2>2, <2>4 DEF Journal!ClearErr, Reopened, Survivors, Readings, AfterCrash
  <2>6. QED
    BY <2>5, Zenon DEF Journal!JNext
<1>10. CASE cleared
  <2>1. AbstractStep = "clear" /\ AbstractStep' = "open" /\ AbstractState(state)' = "Clean"
    BY <1>10, Zenon DEF cleared, AbstractStep, AbstractState
  <2>2. UNCHANGED <<Reopened, Survivors>>
    BY <1>10 DEF cleared, Reopened, Survivors, Readings, AbstractState
  <2>3. files["marker"] = "none" /\ files["snapshot"] = "Clean"
    BY <1>10, Zenon DEF FInv, FTypeOK, Names, cleared
  <2>4. Reopened = "Clean"
    BY <2>3, Zenon DEF Reopened, AbstractState, read_state
  <2>5. Journal!ClearOk
    BY <2>1, <2>2, <2>4 DEF Journal!ClearOk, Reopened, Survivors, Readings, AfterCrash
  <2>6. QED
    BY <2>5, Zenon DEF Journal!JNext
<1>11. CASE process_end
  <2>1. UNCHANGED <<AbstractState(state), Reopened, Survivors>>
    BY <1>11 DEF process_end, Reopened, Survivors, Readings, AbstractState
  <2>2. AbstractStep' = "closed"
    BY <1>11, Zenon DEF process_end, AbstractStep
  <2>3. CASE AbstractStep = "closed"
    BY <2>1, <2>2, <2>3, StutterMaps, Zenon DEF Stutter
  <2>4. CASE AbstractStep # "closed"
    <3>1. Journal!ProcessEnd
      BY <2>1, <2>2, <2>4 DEF Journal!ProcessEnd, Reopened, Survivors, Readings, AfterCrash
    <3>2. QED
      BY <3>1, Zenon DEF Journal!JNext
  <2>5. QED
    BY <2>3, <2>4, Zenon
<1>12. CASE host_crash
  <2>1. PICK marker \in onDisk["marker"], snapshot \in onDisk["snapshot"] :
            files' = [marker |-> marker, snapshot |-> snapshot]
    BY <1>12, Zenon DEF host_crash
  <2>2. Reopened' = AbstractState(read_state(marker, snapshot))
    BY <2>1, Zenon DEF Reopened, AbstractState, read_state
  <2>3. Reopened' \in Survivors
    BY <2>2 DEF Survivors, Readings
  <2>4. files' \in [Names -> Contents] /\ onDisk' = [f \in Names |-> {files'[f]}]
    BY <1>12, Zenon DEF FInv, FTypeOK, host_crash
  <2>5. Survivors' = {Reopened'}
    BY <2>4, SyncedReads, Zenon DEF Survivors, Reopened, AbstractState, read_state
  <2>6. AbstractStep' = "closed" /\ UNCHANGED AbstractState(state)
    BY <1>12, Zenon DEF host_crash, AbstractStep, AbstractState
  <2>7. Journal!HostCrash
    BY <2>3, <2>5, <2>6 DEF Journal!HostCrash, Reopened, Survivors, Readings, AfterCrash
  <2>8. QED
    BY <2>7, Zenon DEF Journal!JNext
<1>13. CASE UNCHANGED fvars
  <2>1. Stutter
    BY <1>13 DEF fvars, Stutter, AbstractStep, AbstractState, Reopened, Survivors, Readings
  <2>2. QED
    BY <2>1, StutterMaps, Zenon
<1>14. QED
  BY <1>1, <1>2, <1>3, <1>4, <1>5, <1>6, <1>7, <1>8, <1>9, <1>10, <1>11, <1>12, <1>13, Zenon DEF FNext

-----------------------------------------------------------------------------
(* The theorems *)

\* The inductive invariant holds in every reachable state of the two files.
THEOREM JournalInvariant == FSpec => []FInv
BY FInvInit, FInvStep, PTL DEF FSpec

\* Every variable stays in its domain, and what a process reads may survive a
\* crash, whatever set of actions the records of mark_pending name.
THEOREM JournalTypeCorrect == FSpec => []FTypeOK
<1>1. FInv => FTypeOK
  BY Zenon DEF FInv
<1>2. QED
  BY <1>1, JournalInvariant, PTL

\* After a mark_pending that answered Ok, and until clear unlinks the marker,
\* every reading of the directory names the action that is running.
THEOREM MarkIsDurable == FSpec => []MarkedNamesAction
<1>1. ASSUME FInv
      PROVE  MarkedNamesAction
  <2> SUFFICES ASSUME fpc \in {"marked", "clear", "unlink"}
               PROVE  IsPending(state) /\ AfterCrash = {state}
    BY Zenon DEF MarkedNamesAction
  <2>1. state \in JournalAction /\ onDisk["marker"] = {state} /\ onDisk["snapshot"] # {}
    BY <1>1, Zenon DEF FInv, FTypeOK, Names
  <2>2. QED
    BY <2>1, JournalActionAssumption DEF IsPending, AfterCrash, read_state
<1>2. QED
  BY <1>1, JournalInvariant, PTL

\* The marker and the snapshot of FileUncertaintyJournal, with their renames,
\* directory syncs and the unlink that is never synced, implement the one-bit
\* journal that the controller relies on.
THEOREM FilesImplementJournal == FSpec => ImplementsJournal
<1>1. ASSUME FInit
      PROVE  Journal!JInit
  <2>1. AbstractStep = "closed" /\ AbstractState(state) = "Clean"
    BY <1>1, Zenon DEF FInit, AbstractStep, AbstractState
  <2>2. files \in [Names -> Contents] /\ onDisk = [f \in Names |-> {files[f]}]
    BY <1>1, Zenon DEF FInit
  <2>3. Survivors = {Reopened}
    BY <2>2, SyncedReads, Zenon DEF Survivors, Reopened
  <2>4. Reopened \in Journal!JournalState
    BY Zenon DEF Reopened, AbstractState, Journal!JournalState
  <2>5. QED
    BY <2>1, <2>3, <2>4 DEF Journal!JInit, Reopened, Survivors, Readings, AfterCrash
<1>2. FInv /\ FInv' /\ [FNext]_fvars => [Journal!JNext]_(Journal!jvars)
  BY StepMaps, Zenon
<1>3. QED
  BY <1>1, <1>2, JournalInvariant, PTL DEF FSpec, ImplementsJournal, Journal!JSpec

-----------------------------------------------------------------------------
ISpec == IInit /\ [][INext]_ivars

-----------------------------------------------------------------------------
(* Domains *)

Texts == [from : Inodes, pad : BOOLEAN, quote : BOOLEAN, break : BOOLEAN]
Paths == Inodes \X {"absolute", "relative", "working"}
SettingsSet == [address : Texts, model : Texts, certificate : Paths]

Stages == {"idle", "check", "write", "sync", "rename", "directory", "ok", "failed", "killed"}

\* What install_private_default_from_environment hands to the writer for file
\* f: the address is trimmed, and no path is relative any more.
Resolved(f, settings) ==
    /\ settings \in SettingsSet
    /\ settings.address.pad = FALSE
    /\ settings.model.from = f
    /\ settings.certificate[2] \in {"absolute", "working"}

ITypeOK ==
    /\ ipc \in [Installers -> Stages]
    /\ isettings \in [Inodes -> SettingsSet]
    /\ \A f \in Inodes : Resolved(f, isettings[f])
    /\ idata \in [Inodes -> {"nothing", "part", "whole"}]
    /\ isynced \subseteq Inodes
    /\ rpc \in {"idle", "read"}

-----------------------------------------------------------------------------
(* The inductive invariant *)

\* A file that may be loaded: complete, on the disk, with values that passed
\* the check, and of an installer that will not set them again.
Fit(f) ==
    /\ f \in isynced
    /\ idata[f] = "whole"
    /\ Safe(isettings[f])
    /\ f = Old \/ (f \in Installers /\ ipc[f] # "idle")

\* What a load made of file f.
LoadedFrom(f) ==
    /\ rview.settings.address = isettings[f].address
    /\ rview.settings.model.from = f /\ ~rview.settings.model.break
    /\ rview.settings.certificate = isettings[f].certificate
    /\ rview.settings.certificate[2] # "beside the file"

InstallersInOrder ==
    \A i \in Installers :
        /\ ipc[i] \in {"write", "sync", "rename"} => Safe(isettings[i])
        /\ ipc[i] = "sync" => idata[i] = "whole"
        /\ ipc[i] = "rename" => Fit(i)

EntriesFit ==
    /\ ientry \in iondisk
    /\ \A f \in iondisk : f = None \/ Fit(f)

ReaderFit ==
    /\ rpc = "read" => Fit(rinode)
    /\ rview.kind # "damaged"
    /\ rview.kind = "loaded" =>
         \E f \in Inodes : /\ f = Old \/ (f \in Installers /\ ipc[f] # "idle")
                           /\ LoadedFrom(f)

\* Once a rename of this boot is done the entry is an installer's, and once
\* it is synced the disk knows no other.
NothingComesBack ==
    \A i \in Installers :
        /\ ipc[i] = "directory" => ientry \in Installers
        /\ ipc[i] = "ok" => iondisk \cap {None, Old} = {}

IInv == ITypeOK /\ InstallersInOrder /\ EntriesFit /\ ReaderFit /\ NothingComesBack

-----------------------------------------------------------------------------
(* Values *)

\* What load_from_source makes of an environment is resolved.
LEMMA EnvironmentResolved ==
  ASSUME NEW f \in Inodes, NEW e \in Environments(f)
  PROVE  Resolved(f, load_from_source(e, "working"))
<1>1. \A b, c, d \in BOOLEAN : Text(f, b, c, d) \in Texts /\ Text(f, b, c, d).from = f
  BY Zenon DEF Text, Texts
<1>2. e.address \in Texts /\ e.model \in Texts /\ e.model.from = f
      /\ e.certificate \in {<<f, "absolute">>, <<f, "relative">>}
  <2> DEFINE texts == {t \in [from : {f}, pad : BOOLEAN, quote : BOOLEAN, break : BOOLEAN] :
                          t.break => t = Text(f, FALSE, FALSE, TRUE)}
  <2>1. \A t \in texts : t \in Texts /\ t.from = f
    BY Zenon DEF Texts
  <2>2. Plain(f) \in Texts /\ Plain(f).from = f
    BY <1>1, Zenon DEF Plain
  <2>3. \/ \E t \in texts : e = Settings(t, Plain(f), <<f, "absolute">>)
        \/ \E t \in texts : e = Settings(Plain(f), t, <<f, "absolute">>)
        \/ e = Settings(Plain(f), Plain(f), <<f, "relative">>)
    BY Zenon DEF Environments
  <2> HIDE DEF texts
  <2> QED
    BY <2>1, <2>2, <2>3 DEF Settings
<1>3. trim(e.address) \in Texts /\ trim(e.address).pad = FALSE
  BY <1>2, Zenon DEF trim, Texts
<1>4. resolve_path(e.certificate, "working") \in Paths
      /\ resolve_path(e.certificate, "working")[2] \in {"absolute", "working"}
  BY <1>2 DEF resolve_path, Paths
<1> QED
  BY <1>2, <1>3, <1>4, Zenon DEF load_from_source, Settings, Resolved, SettingsSet

\* Loading undoes nothing and adds nothing to what was checked and written.
LEMMA LoadedAsWritten ==
  ASSUME NEW f \in Inodes, NEW s, Resolved(f, s), Safe(s)
  PROVE  LET r == load_from_source(parse_config_text(s), "beside the file")
         IN /\ r.address = s.address
            /\ r.model.from = f /\ ~r.model.break
            /\ r.certificate = s.certificate
            /\ r.certificate[2] # "beside the file"
<1> DEFINE p == parse_config_text(s)
<1>1. s \in SettingsSet /\ s.address \in Texts /\ s.model \in Texts
  BY Zenon DEF Resolved, SettingsSet
<1>2. ~s.address.pad /\ ~s.address.quote /\ ~s.model.break
  BY <1>1, Zenon DEF Resolved, Safe, safe_config_value, Texts
<1>3. p.address = parse_value(s.address) /\ p.model = parse_value(s.model) /\ p.certificate = s.certificate
  BY <1>1, Zenon DEF parse_config_text, SettingsSet
<1>4. trim(s.address) = s.address
  BY <1>1, <1>2, Zenon DEF trim, Texts
<1>5. unquote(s.address) = s.address
  BY <1>1, <1>2, Zenon DEF unquote, Texts
<1>6. parse_value(s.model).from = f /\ ~parse_value(s.model).break
  BY <1>1, <1>2, Zenon DEF parse_value, unquote, trim, Texts, Resolved
<1>7. resolve_path(s.certificate, "beside the file") = s.certificate
  BY Zenon DEF resolve_path, Resolved
<1>8. parse_value(s.address) = s.address
  BY <1>4, <1>5, Zenon DEF parse_value
<1> HIDE DEF p
<1> DEFINE r == load_from_source(p, "beside the file")
<1>9. r.address = trim(p.address) /\ r.model = p.model /\ r.certificate = resolve_path(p.certificate, "beside the file")
  BY Zenon DEF load_from_source, Settings
<1>10. s.certificate[2] # "beside the file"
  BY Zenon DEF Resolved
<1> HIDE DEF r
<1>11. r.address = s.address /\ r.model.from = f /\ ~r.model.break /\ r.certificate = s.certificate
  BY <1>3, <1>4, <1>6, <1>7, <1>8, <1>9, Zenon
<1> QED
  BY <1>10, <1>11, Zenon DEF p, r

-----------------------------------------------------------------------------
(* Steps *)

\* Before the first installer runs, the file is absent or whole.
LEMMA ConfigInitial == IInit => IInv
<1> SUFFICES ASSUME IInit PROVE IInv
  BY Zenon
<1> USE InstallersAssumption DEF Inodes
<1>1. \A f \in Inodes : Plain(f) \in Texts /\ Plain(f).from = f /\ Plain(f).pad = FALSE /\ safe_config_value(Plain(f))
  BY Zenon DEF Plain, Text, Texts, safe_config_value
<1>2. \A f \in Inodes : Resolved(f, isettings[f]) /\ Safe(isettings[f])
  BY <1>1, Zenon DEF IInit, Settings, Resolved, SettingsSet, Paths, Safe
<1>3. ITypeOK
  BY <1>2, Zenon DEF IInit, ITypeOK, Stages, Resolved
<1>4. Fit(Old)
  BY <1>2, Zenon DEF IInit, Fit
<1> QED
  BY <1>3, <1>4, Zenon DEF IInit, IInv, InstallersInOrder, EntriesFit, ReaderFit, NothingComesBack, NotLoaded, None, Old

\* No step turns an installer back or damages a file that may be loaded.
LEMMA NothingUndone ==
  ASSUME IInv, [INext]_ivars
  PROVE  /\ \A i \in Installers : ipc[i] # "idle" => ipc'[i] # "idle"
         /\ \A f : Fit(f) => Fit(f)' /\ isettings'[f] = isettings[f]
<1> USE InstallersAssumption DEF IInv, ITypeOK, Inodes
<1>1. ASSUME NEW i \in Installers, ipc[i] = "idle", NEW s, isettings' = [isettings EXCEPT ![i] = s],
             ipc' = [ipc EXCEPT ![i] = "check"], UNCHANGED <<idata, isynced>>
      PROVE  /\ \A j \in Installers : ipc[j] # "idle" => ipc'[j] # "idle"
             /\ \A f : Fit(f) => Fit(f)' /\ isettings'[f] = isettings[f]
  BY <1>1, Zenon DEF Fit, Safe
<1>2. ASSUME NEW i \in Installers, NEW stage \in Stages \ {"idle"}, ipc' = [ipc EXCEPT ![i] = stage],
             \/ UNCHANGED idata
             \/ idata[i] # "whole" /\ \E d : idata' = [idata EXCEPT ![i] = d],
             isynced \subseteq isynced', UNCHANGED isettings
      PROVE  /\ \A j \in Installers : ipc[j] # "idle" => ipc'[j] # "idle"
             /\ \A f : Fit(f) => Fit(f)' /\ isettings'[f] = isettings[f]
  <2>1. \A j \in Installers : ipc[j] # "idle" => ipc'[j] # "idle"
    BY <1>2, Zenon
  <2>2. ASSUME NEW f, Fit(f) PROVE Fit(f)' /\ isettings'[f] = isettings[f]
    <3>1. f \in Inodes /\ idata'[f] = "whole"
      BY <1>2, <2>2, Zenon DEF Fit
    <3> QED
      BY <1>2, <2>1, <2>2, <3>1, Zenon DEF Fit, Safe
  <2> QED
    BY <2>1, <2>2, Zenon
<1>3. ASSUME NEW i \in Installers, NEW e \in Environments(i), install_private_default_from_environment(i, e)
      PROVE  /\ \A j \in Installers : ipc[j] # "idle" => ipc'[j] # "idle"
             /\ \A f : Fit(f) => Fit(f)' /\ isettings'[f] = isettings[f]
  BY <1>3, <1>1, Zenon DEF install_private_default_from_environment
<1>4. ASSUME NEW i \in Installers, create_temporary(i) \/ refuse(i) \/ write_all(i) \/ sync_all(i) \/ rename(i)
                                      \/ sync_parent(i) \/ install_failed(i) \/ kill_installer(i)
      PROVE  /\ \A j \in Installers : ipc[j] # "idle" => ipc'[j] # "idle"
             /\ \A f : Fit(f) => Fit(f)' /\ isettings'[f] = isettings[f]
  <2>1. CASE write_all(i)
    BY <1>2, <2>1, Zenon DEF write_all, Steps, Stages
  <2>2. CASE sync_all(i)
    BY <1>2, <2>2, Zenon DEF sync_all, Steps, Stages
  <2>3. CASE create_temporary(i) \/ refuse(i)
    BY <1>2, <2>3, Zenon DEF create_temporary, refuse, Steps, Stages
  <2>4. CASE rename(i) \/ sync_parent(i)
    BY <1>2, <2>4, Zenon DEF rename, sync_parent, Steps, Stages
  <2>5. CASE install_failed(i) \/ kill_installer(i)
    BY <1>2, <2>5, Zenon DEF install_failed, kill_installer, Stages
  <2> QED
    BY <1>4, <2>1, <2>2, <2>3, <2>4, <2>5, Zenon
<1>5. CASE read_private_file \/ config_values \/ UNCHANGED ivars
  BY <1>5, Zenon DEF read_private_file, config_values, ivars, Fit, Safe
<1>6. CASE power_loss
  <2>1. \A j \in Installers : ipc[j] # "idle" => ipc'[j] # "idle"
    BY <1>6, Zenon DEF power_loss, Unfinished
  <2>2. isynced' = Inodes /\ isettings' = isettings /\ \A f \in isynced : idata'[f] = idata[f]
    BY <1>6, Zenon DEF power_loss
  <2> QED
    BY <2>1, <2>2, Zenon DEF Fit, Safe
<1> QED
  BY <1>3, <1>4, <1>5, <1>6, Zenon DEF INext

\* Every step keeps the order of the calls and the files fit.
LEMMA ConfigStep ==
  ASSUME IInv, [INext]_ivars
  PROVE  IInv'
<1> USE InstallersAssumption
<1>1. /\ \A i \in Installers : ipc[i] # "idle" => ipc'[i] # "idle"
      /\ \A f : Fit(f) => Fit(f)' /\ isettings'[f] = isettings[f]
  BY NothingUndone, Zenon
<1>2. CASE \E i \in Installers : \E e \in Environments(i) : install_private_default_from_environment(i, e)
  <2>0. PICK i \in Installers : \E e \in Environments(i) : install_private_default_from_environment(i, e)
    BY <1>2, Zenon
  <2>1. PICK e \in Environments(i) : install_private_default_from_environment(i, e)
    BY <2>0, Zenon
  <2>2. Resolved(i, load_from_source(e, "working"))
    BY EnvironmentResolved, Zenon DEF Inodes
  <2> USE <1>1, <2>1, <2>2 DEF IInv, install_private_default_from_environment, ReaderStays
  <2>3. ITypeOK'
    BY Zenon DEF ITypeOK, Stages, Inodes, Resolved
  <2>4. InstallersInOrder'
    BY Zenon DEF InstallersInOrder, ITypeOK, Inodes
  <2>5. EntriesFit' /\ NothingComesBack'
    BY Zenon DEF EntriesFit, NothingComesBack, ITypeOK
  <2>6. ReaderFit'
    BY Zenon DEF ReaderFit, LoadedFrom, ITypeOK, Inodes
  <2> QED
    BY <2>3, <2>4, <2>5, <2>6, Zenon
<1>3. CASE \E i \in Installers : create_temporary(i) \/ refuse(i) \/ install_failed(i) \/ kill_installer(i)
  <2>1. PICK i \in Installers :
          /\ \/ Steps(i, "check", "write") /\ Safe(isettings[i])
             \/ ipc[i] # "idle" /\ ipc' = [ipc EXCEPT ![i] = "failed"]
             \/ ipc[i] # "idle" /\ ipc' = [ipc EXCEPT ![i] = "killed"]
          /\ UNCHANGED <<isettings, idata, isynced, ientry, iondisk>> /\ ReaderStays
    BY <1>3, Zenon DEF create_temporary, refuse, install_failed, kill_installer, Steps, Unfinished
  <2> USE <1>1, <2>1 DEF IInv, Steps, ReaderStays
  <2>3. ITypeOK'
    BY ZenonT(30) DEF ITypeOK, Stages, Resolved
  <2>4. InstallersInOrder'
    BY Zenon DEF InstallersInOrder, ITypeOK
  <2>5. EntriesFit' /\ NothingComesBack'
    BY Zenon DEF EntriesFit, NothingComesBack, ITypeOK
  <2>6. ReaderFit'
    BY Zenon DEF ReaderFit, LoadedFrom
  <2> QED
    BY <2>3, <2>4, <2>5, <2>6, Zenon
<1>4. CASE \E i \in Installers : write_all(i) \/ sync_all(i)
  <2>1. PICK i \in Installers : write_all(i) \/ sync_all(i)
    BY <1>4, Zenon
  <2> USE <1>1, <2>1 DEF IInv, write_all, sync_all, Steps, ReaderStays
  <2>3. ITypeOK'
    BY DEF ITypeOK, Stages, Inodes, Resolved
  <2>4. InstallersInOrder'
    <3>1. ASSUME NEW j \in Installers, j # i
          PROVE  /\ ipc'[j] \in {"write", "sync", "rename"} => Safe(isettings[j])'
                 /\ ipc'[j] = "sync" => idata'[j] = "whole"
                 /\ ipc'[j] = "rename" => Fit(j)'
      <4>1. ipc'[j] = ipc[j] /\ isettings'[j] = isettings[j] /\ idata'[j] = idata[j]
        BY <3>1, Zenon DEF ITypeOK, Inodes
      <4> QED
        BY <4>1, Zenon DEF InstallersInOrder
    <3>2. /\ Safe(isettings[i])'
          /\ ipc'[i] = "sync" => idata'[i] = "whole"
          /\ ipc'[i] = "rename" => Fit(i)'
      BY Zenon DEF InstallersInOrder, ITypeOK, Inodes, Fit
    <3> QED
      BY <3>1, <3>2, Zenon DEF InstallersInOrder
  <2>5. EntriesFit' /\ NothingComesBack'
    BY ZenonT(30) DEF EntriesFit, NothingComesBack, ITypeOK
  <2>6. ReaderFit'
    BY ZenonT(30) DEF ReaderFit, LoadedFrom
  <2> QED
    BY <2>3, <2>4, <2>5, <2>6, Zenon
<1>5. CASE \E i \in Installers : rename(i) \/ sync_parent(i)
  <2>1. PICK i \in Installers : rename(i) \/ sync_parent(i)
    BY <1>5, Zenon
  <2> USE <1>1, <2>1 DEF IInv, rename, sync_parent, Steps, ReaderStays
  <2>3. ITypeOK'
    BY DEF ITypeOK, Stages, Resolved
  <2>4. InstallersInOrder'
    BY Zenon DEF InstallersInOrder, ITypeOK
  <2>5. EntriesFit'
    BY Zenon DEF EntriesFit, InstallersInOrder
  <2>6. NothingComesBack'
    BY ZenonT(30) DEF NothingComesBack, EntriesFit, ITypeOK
  <2>7. ReaderFit'
    BY ZenonT(30) DEF ReaderFit, LoadedFrom
  <2> QED
    BY <2>3, <2>4, <2>5, <2>6, <2>7, Zenon
<1>6. CASE read_private_file \/ UNCHANGED ivars
  <2> USE <1>1, <1>6 DEF IInv, read_private_file, ivars
  <2>1. ITypeOK' /\ InstallersInOrder' /\ NothingComesBack' /\ EntriesFit'
    BY DEF ITypeOK, InstallersInOrder, NothingComesBack, EntriesFit, Resolved
  <2>2. rpc' = "read" => Fit(rinode)'
    BY Zenon DEF EntriesFit, ReaderFit
  <2>3. CASE UNCHANGED rview
    BY <2>1, <2>2, <2>3, Zenon DEF ReaderFit, LoadedFrom
  <2>4. CASE rview' \in {NotLoaded("missing"), NotLoaded("unavailable")}
    <3>1. NotLoaded("missing").kind = "missing" /\ NotLoaded("unavailable").kind = "unavailable"
      BY Zenon DEF NotLoaded
    <3> QED
      BY <2>1, <2>2, <2>4, <3>1, Zenon DEF ReaderFit
  <2> QED
    BY <2>3, <2>4, Zenon
<1>7. CASE config_values
  <2> DEFINE r == load_from_source(parse_config_text(isettings[rinode]), "beside the file")
  <2> USE <1>1, <1>7 DEF IInv, config_values
  <2>1. ITypeOK' /\ InstallersInOrder' /\ NothingComesBack' /\ EntriesFit'
    BY Zenon DEF ITypeOK, InstallersInOrder, NothingComesBack, EntriesFit, Resolved
  <2>2. Fit(rinode) /\ rinode \in Inodes
    BY Zenon DEF ReaderFit, ITypeOK, Fit
  <2>3. rview' = Loaded(r) /\ rpc' = "idle" /\ UNCHANGED <<ipc, isettings, rinode>>
    BY <2>2, Zenon DEF Fit
  <2>4. /\ r.address = isettings[rinode].address
        /\ r.model.from = rinode /\ ~r.model.break
        /\ r.certificate = isettings[rinode].certificate
        /\ r.certificate[2] # "beside the file"
    BY <2>2, LoadedAsWritten, ZenonT(30) DEF Fit, ITypeOK
  <2> HIDE <1>7 DEF r, config_values
  <2>5. rview'.kind = "loaded" /\ rview'.settings = r
    BY <2>3, Zenon DEF Loaded
  <2>6. LoadedFrom(rinode)'
    BY <2>3, <2>4, <2>5, Zenon DEF LoadedFrom
  <2>7. ReaderFit'
    BY <2>2, <2>3, <2>5, <2>6, ZenonT(30) DEF ReaderFit, Fit, LoadedFrom
  <2> QED
    BY <2>1, <2>7, Zenon
<1>8. CASE power_loss
  <2> USE <1>1, <1>8 DEF IInv, power_loss
  <2>1. ITypeOK'
    BY Zenon DEF ITypeOK, Stages, Resolved
  <2>2. InstallersInOrder' /\ NothingComesBack'
    BY Zenon DEF InstallersInOrder, NothingComesBack, Unfinished, ITypeOK, Stages
  <2>3. EntriesFit' /\ ReaderFit'
    BY Zenon DEF EntriesFit, ReaderFit, LoadedFrom
  <2> QED
    BY <2>1, <2>2, <2>3, Zenon
<1> QED
  BY <1>2, <1>3, <1>4, <1>5, <1>6, <1>7, <1>8, Zenon DEF INext

\* However many installers of install_private_config run beside a loading
\* service, fail, are killed or lose power, what RuntimeConfig.load returns is
\* one whole configuration as it was checked, and an answered Ok lasts.
THEOREM ConfigAlwaysLoads == ISpec => []ConfigLoads
<1>1. IInit => IInv
  BY ConfigInitial, Zenon
<1>2. IInv /\ [INext]_ivars => IInv'
  BY ConfigStep, Zenon
<1>3. IInv => ConfigLoads
  BY Zenon DEF IInv, ReaderFit, LoadedFrom, NothingComesBack, ConfigLoads
<1> QED
  BY <1>1, <1>2, <1>3, PTL DEF ISpec
=============================================================================
