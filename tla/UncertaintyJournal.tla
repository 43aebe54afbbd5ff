------------------------- MODULE UncertaintyJournal -------------------------
(***************************************************************************)
(* What the controller relies on of the crash-persistent uncertainty       *)
(* journal (the trait UncertaintyJournal of rust/src/journal.rs): one bit, *)
(* Clean or Pending, that outlives the process and the host.  FileJournal  *)
(* models the two files behind it and implements this specification.       *)
(***************************************************************************)

VARIABLES
    jpc,        \* "closed": no process; "open": between calls; "mark", "clear": inside the call
    jstate,     \* the state field of the open journal
    reopen,     \* what the next open_under reads if the host stays up
    survivors   \* everything the next open_under may read after a host crash

jvars == <<jpc, jstate, reopen, survivors>>

JournalState == {"Clean", "Pending"}

\* The journal holds well-formed values in every state, and some content
\* always survives a crash.
JTypeOK ==
    /\ jpc \in {"closed", "open", "mark", "clear"}
    /\ jstate \in JournalState
    /\ reopen \in JournalState
    /\ survivors \in SUBSET JournalState
    /\ reopen \in survivors

JInit ==
    /\ jpc = "closed"
    /\ jstate = "Clean"
    /\ reopen \in JournalState
    /\ survivors = {reopen}

\* open_under: a new process reads what the files say.
Open ==
    /\ jpc = "closed"
    /\ jpc' = "open"
    /\ jstate' = reopen
    /\ UNCHANGED <<reopen, survivors>>

\* mark_pending latches memory before it touches a file.
MarkPending ==
    /\ jpc = "open"
    /\ jpc' = "mark"
    /\ jstate' = "Pending"
    /\ UNCHANGED <<reopen, survivors>>

\* The pending record becomes visible, and at some point durable, while
\* mark_pending is still running.
Publish ==
    /\ jpc = "mark"
    /\ reopen' = "Pending"
    /\ survivors' \in {survivors \cup {"Pending"}, {"Pending"}}
    /\ UNCHANGED <<jpc, jstate>>

\* mark_pending answers Ok only when every later open reads Pending.
MarkOk ==
    /\ jpc = "mark"
    /\ reopen = "Pending"
    /\ survivors = {"Pending"}
    /\ jpc' = "open"
    /\ UNCHANGED <<jstate, reopen, survivors>>

\* mark_pending may fail before, during or after the publication.
MarkErr ==
    /\ jpc = "mark"
    /\ jpc' = "open"
    /\ UNCHANGED <<jstate, reopen, survivors>>

\* clear is called only after a successful mark_pending of the same action.
BeginClear ==
    /\ jpc = "open"
    /\ jstate = "Pending"
    /\ survivors = {"Pending"}
    /\ jpc' = "clear"
    /\ UNCHANGED <<jstate, reopen, survivors>>

\* The unlink of the marker: the record is gone for a later process, but
\* the host may crash before the unlink reaches the disk.
Unpublish ==
    /\ jpc = "clear"
    /\ reopen' = "Clean"
    /\ survivors' = survivors \cup {"Clean"}
    /\ UNCHANGED <<jpc, jstate>>

ClearOk ==
    /\ jpc = "clear"
    /\ reopen = "Clean"
    /\ jpc' = "open"
    /\ jstate' = "Clean"
    /\ UNCHANGED <<reopen, survivors>>

\* A reported failure of clear leaves the record pending for every later open.
ClearErr ==
    /\ jpc = "clear"
    /\ reopen = "Pending"
    /\ jpc' = "open"
    /\ UNCHANGED <<jstate, reopen, survivors>>

\* The process ends (exit, panic, SIGKILL); the host stays up.
ProcessEnd ==
    /\ jpc # "closed"
    /\ jpc' = "closed"
    /\ UNCHANGED <<jstate, reopen, survivors>>

\* The host loses power: one of the surviving contents is what is left.
HostCrash ==
    /\ jpc' = "closed"
    /\ reopen' \in survivors
    /\ survivors' = {reopen'}
    /\ UNCHANGED jstate

JNext ==
    \/ Open \/ MarkPending \/ Publish \/ MarkOk \/ MarkErr
    \/ BeginClear \/ Unpublish \/ ClearOk \/ ClearErr
    \/ ProcessEnd \/ HostCrash

JSpec == JInit /\ [][JNext]_jvars
=============================================================================
