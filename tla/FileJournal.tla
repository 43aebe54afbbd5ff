---------------------------- MODULE FileJournal ----------------------------
(***************************************************************************)
(* FileUncertaintyJournal of rust/src/journal.rs: an authoritative pending *)
(* marker (uncertainty.pending) and a replaceable snapshot                 *)
(* (uncertainty.state) in one directory.  A rename or an unlink is visible *)
(* to the next process at once, and reaches the disk at the latest with    *)
(* the next successful fsync of the directory.  Calls may fail at every    *)
(* system call, and the process or the host may die between any two.       *)
(***************************************************************************)

CONSTANT JournalAction      \* the actions a pending record may name

ASSUME JournalActionAssumption == JournalAction \cap {"none", "Clean"} = {}

VARIABLES
    fpc,        \* "closed", "open", "marked" (open, after a mark_pending that answered
                \* Ok), or the step of the running call
    renamed,    \* the running commit has renamed its file and not yet synced
    state,      \* the state field of the open journal
    files,      \* what a process reads in each file, "none" if it is absent
    onDisk      \* what a host crash may leave in each file

fvars == <<fpc, renamed, state, files, onDisk>>

Names == {"marker", "snapshot"}
JournalState == {"Clean"} \cup JournalAction      \* Clean or Pending(action)
Contents == {"none"} \cup JournalState

IsPending(content) == content \notin {"none", "Clean"}

\* The commits the calls are made of: the file, and what follows success and
\* failure.  mark_pending is mark then remark; clear is clear then
\* unlink; migrate is the commit at the end of open_under.
Commits == {"migrate", "mark", "remark", "clear"}
TargetOneFile ==
    [migrate |-> "snapshot", mark |-> "snapshot", remark |-> "snapshot", clear |-> "snapshot"]
Target == [migrate |-> "marker", mark |-> "marker", remark |-> "snapshot", clear |-> "snapshot"]
After == [migrate |-> "open", mark |-> "remark", remark |-> "marked", clear |-> "unlink"]
OnError == [migrate |-> "closed", mark |-> "open", remark |-> "open", clear |-> "open"]

\* The marker decides, and it is never Clean; without it the snapshot does,
\* and no file at all reads as Clean.
read_state(marker, snapshot) ==
    IF marker # "none" THEN marker
    ELSE IF snapshot # "none" THEN snapshot ELSE "Clean"

Payload ==
    CASE fpc = "clear" -> "Clean"
      [] fpc = "migrate" -> files["snapshot"]
      [] OTHER -> state

\* A file named f may from now on hold c, at once for a process and at some
\* point for the disk.
Replace(f, c) ==
    /\ files' = [files EXCEPT ![f] = c]
    /\ onDisk' = [onDisk EXCEPT ![f] = @ \cup {c}]

FInit ==
    /\ fpc = "closed"
    /\ renamed = FALSE
    /\ state = "Clean"
    /\ files \in [Names -> Contents]
    /\ files["marker"] # "Clean"
    /\ onDisk = [f \in Names |-> {files[f]}]

\* open_under of a journal that needs no migration.
open_under ==
    /\ fpc = "closed"
    /\ ~(files["marker"] = "none" /\ IsPending(files["snapshot"]))
    /\ fpc' = "open"
    /\ state' = read_state(files["marker"], files["snapshot"])
    /\ UNCHANGED <<renamed, files, onDisk>>

\* open_under of a journal of the one-file implementation: commit the marker first.
open_migrating ==
    /\ fpc = "closed"
    /\ files["marker"] = "none" /\ IsPending(files["snapshot"])
    /\ fpc' = "migrate"
    /\ UNCHANGED <<renamed, state, files, onDisk>>

\* Latch memory first.
mark_pending(action) ==
    /\ fpc \in {"open", "marked"}
    /\ fpc' = "mark"
    /\ state' = action
    /\ UNCHANGED <<renamed, files, onDisk>>

\* The controller clears only what it marked for the same action.
clear ==
    /\ fpc = "marked"
    /\ fpc' = "clear"
    /\ UNCHANGED <<renamed, state, files, onDisk>>

\* commit: the synced temporary file takes the name of its target.
rename_entry ==
    /\ fpc \in Commits
    /\ ~renamed
    /\ Replace(Target[fpc], Payload)
    /\ renamed' = TRUE
    /\ UNCHANGED <<fpc, state>>

\* commit: the directory is synced, and so is every earlier change of it.
sync_directory ==
    /\ fpc \in Commits
    /\ renamed
    /\ onDisk' = [f \in Names |-> {files[f]}]
    /\ renamed' = FALSE
    /\ fpc' = After[fpc]
    /\ state' = IF fpc = "migrate" THEN files["marker"] ELSE state
    /\ UNCHANGED files

\* commit fails before its rename, at the rename, or at the directory sync.
commit_failed ==
    /\ fpc \in Commits
    /\ fpc' = OnError[fpc]
    /\ renamed' = FALSE
    /\ UNCHANGED <<state, files, onDisk>>

unlink_entry ==
    /\ fpc = "unlink"
    /\ Replace("marker", "none")
    /\ fpc' = "unlinked"
    /\ UNCHANGED <<renamed, state>>

SyncAfterUnlinkFailed ==
    /\ fpc \in {"unlink", "unlinked"}
    /\ fpc' = "open"
    /\ UNCHANGED <<renamed, state, files, onDisk>>

unlink_failed ==
    /\ fpc = "unlink"
    /\ fpc' = "open"
    /\ UNCHANGED <<renamed, state, files, onDisk>>

\* clear answers Ok; there is deliberately no directory sync after the unlink.
cleared ==
    /\ fpc = "unlinked"
    /\ fpc' = "open"
    /\ state' = "Clean"
    /\ UNCHANGED <<renamed, files, onDisk>>

process_end ==
    /\ fpc # "closed"
    /\ fpc' = "closed"
    /\ renamed' = FALSE
    /\ UNCHANGED <<state, files, onDisk>>

host_crash ==
    /\ fpc' = "closed"
    /\ renamed' = FALSE
    /\ \E marker \in onDisk["marker"], snapshot \in onDisk["snapshot"] :
          files' = [marker |-> marker, snapshot |-> snapshot]
    /\ onDisk' = [f \in Names |-> {files'[f]}]
    /\ UNCHANGED state

FNext ==
    \/ open_under \/ open_migrating
    \/ \E action \in JournalAction : mark_pending(action)
    \/ clear
    \/ rename_entry \/ sync_directory \/ commit_failed
    \/ unlink_entry \/ unlink_failed \/ cleared
    \/ process_end \/ host_crash

FSpec == FInit /\ [][FNext]_fvars

-----------------------------------------------------------------------------
(* Properties *)

\* Every variable of the journal and of its directory stays in its domain, and
\* what a process reads is among what a crash may leave.
FTypeOK ==
    /\ fpc \in {"closed", "open", "marked", "unlink", "unlinked"} \cup Commits
    /\ renamed \in BOOLEAN
    /\ renamed => fpc \in Commits
    /\ state \in JournalState
    /\ files \in [Names -> Contents]
    /\ onDisk \in [Names -> SUBSET Contents]
    /\ \A f \in Names : files[f] \in onDisk[f]
    /\ "Clean" \notin onDisk["marker"]

\* What a process may read after a host crash.
AfterCrash ==
    {read_state(marker, snapshot) : marker \in onDisk["marker"], snapshot \in onDisk["snapshot"]}

\* Once mark_pending answered Ok, and until clear unlinks the marker, this
\* process, a later one and one after a host crash all read the same pending
\* action, the one that is running; no older record shows through.
MarkedNamesAction ==
    fpc \in {"marked", "clear", "unlink"} => IsPending(state) /\ AfterCrash = {state}

\* The call an abstract journal is in, and the bit a record stands for.
AbstractStep ==
    CASE fpc \in {"closed", "migrate"} -> "closed"
      [] fpc \in {"open", "marked"} -> "open"
      [] fpc \in {"mark", "remark"} -> "mark"
      [] OTHER -> "clear"
AbstractState(content) == IF content = "Clean" THEN "Clean" ELSE "Pending"

Journal == INSTANCE UncertaintyJournal WITH
    jpc <- AbstractStep,
    jstate <- AbstractState(state),
    reopen <- AbstractState(read_state(files["marker"], files["snapshot"])),
    survivors <- {AbstractState(content) : content \in AfterCrash}

\* The two files implement the one-bit journal the controller relies on: a
\* mark_pending that answers Ok is read as Pending by every later process and
\* after every host crash, and clear "can never turn a reported failure into a
\* clean restart" (the comment at its end), whichever system call failed.
ImplementsJournal == Journal!JSpec
=============================================================================
