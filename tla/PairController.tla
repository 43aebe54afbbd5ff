--------------------------- MODULE PairController ---------------------------
(***************************************************************************)
(* The single in-process owner of the JBL + Aura pair:                     *)
(* rust/src/controller.rs over the journal of UncertaintyJournal and over  *)
(* any backend that keeps the PairActionResult contract of                 *)
(* rust/src/backend.rs.  One mutation is the sequence                      *)
(*    gates -> mark_pending -> backend -> reduce -> clear -> finish        *)
(* and the process or the host may die between any two of these steps.     *)
(***************************************************************************)
EXTENDS Naturals, PairBackend, UncertaintyJournal

CONSTANTS
    MaxFailures,    \* u8::MAX, where consecutive_failures saturates
    MaxRevision     \* u64::MAX, where revision saturates

ASSUME MaxFailuresAssumption == MaxFailures \in Nat /\ MaxFailures >= 2
ASSUME MaxRevisionAssumption == MaxRevision \in Nat

VARIABLES
    pc,             \* "down", "idle", or the step of the running mutation
    managed,        \* managed_state
    unresolved,     \* unresolved_action
    failures,       \* consecutive_failures
    revision,
    last,           \* last_action: the outcome finish recorded, or NoAction
    action,         \* the running mutation
    hadPending,     \* had_pending_uncertainty of the running mutation
    reply,          \* the PairActionResult being reduced
    wrote,          \* history: the running action attempted a role write
    exposed         \* history: an earlier action attempted a role write that no
                    \* accepted and verified action has resolved since

memory == <<managed, unresolved, failures, revision, last>>
call == <<action, hadPending, reply>>
history == <<wrote, exposed>>
vars == <<pc, memory, call, history, jvars>>

Outcomes == {"Accepted", "AcceptedUnconfirmed", "Idempotent", "RejectedBeforeSend",
             "OutcomeUnknown", "PostconditionFailed"}
ManagedLiveState == {"Unknown", "Offline", "Ready", "Linking", "Linked", "Unlinking",
                     "Recovering", "Degraded", "ShuttingDown"}
PairConfigurationState == {"Ready", "NotReady", "Unavailable"}
NoAction == [action |-> "None", outcome |-> "None", revision |-> 0]

-----------------------------------------------------------------------------
(* Reading state *)

\* saturating_add(1) on a counter whose largest value is max.
Bump(n, max) == IF n < max THEN n + 1 ELSE n

Running == pc \notin {"down", "idle"}

\* expected lifecycle of an accepted receipt, and the live state it becomes.
ExpectedLifecycle ==
    [Start |-> "Linked", Stop |-> "Ready", Shutdown |-> "ShuttingDown", RecoverStop |-> "Ready"]
LiveStateAfter ==
    [Start |-> "Linked", Stop |-> "Ready", Shutdown |-> "Offline", RecoverStop |-> "Ready"]
LiveStateDuring ==
    [Start |-> "Linking", Stop |-> "Unlinking", Shutdown |-> "ShuttingDown",
     RecoverStop |-> "Recovering"]

health_matches_managed_state(health) ==
    managed \in {"Linked", "Ready"} => Healthy(health) /\ health.lifecycle = managed

is_idempotent(a, health) ==
    /\ a # "RecoverStop"
    /\ managed = LiveStateAfter[a]
    /\ health.lifecycle = LiveStateAfter[a]
    /\ Healthy(health)
    /\ health.routed

-----------------------------------------------------------------------------
(* The process *)

\* with_journal over a freshly opened journal.
Boot ==
    /\ pc = "down"
    /\ Open
    /\ pc' = "idle"
    /\ managed' = "Unknown"
    /\ unresolved' = (reopen = "Pending")
    /\ failures' = IF reopen = "Pending" THEN 1 ELSE 0
    /\ revision' = 0
    /\ last' = NoAction
    /\ UNCHANGED <<call, history>>

\* The end of the process forgets everything in memory.
Forget ==
    /\ pc' = "down"
    /\ managed' = "Unknown"
    /\ unresolved' = FALSE
    /\ failures' = 0
    /\ revision' = 0
    /\ last' = NoAction
    /\ action' = "None"
    /\ hadPending' = FALSE
    /\ reply' = OutcomeUnknown
    /\ wrote' = FALSE
    /\ exposed' = (exposed \/ wrote)

Crash == pc # "down" /\ ProcessEnd /\ Forget

PowerLoss == HostCrash /\ Forget

-----------------------------------------------------------------------------
(* Status *)

StatusWithoutBump(config, health) ==
    /\ pc = "idle"
    /\ managed' \in {managed, "Unknown"}
    /\ UNCHANGED <<pc, revision, unresolved, failures, last, call, history, jvars>>

status(config, health) ==
    LET lost_backend == managed # "Offline" /\ health = NoHealth
        membership_not_confirmed == config # "Ready" /\ managed = "Linked"
        contradictory == ~health_matches_managed_state(health)
        now == IF lost_backend \/ membership_not_confirmed \/ contradictory
                 THEN "Unknown" ELSE managed
    IN /\ pc = "idle"
       /\ managed' = now
       /\ revision' = IF now = managed THEN revision ELSE Bump(revision, MaxRevision)
       /\ UNCHANGED <<pc, unresolved, failures, last, call, history, jvars>>

-----------------------------------------------------------------------------
(* The gates of mutate, in the order of the code *)

\* finish: every answer bumps the revision and is recorded.  What the action
\* wrote without being resolved moves to exposed, in the action that finishes.
finish(a, outcome) ==
    /\ pc' = "idle"
    /\ revision' = Bump(revision, MaxRevision)
    /\ last' = [action |-> a, outcome |-> outcome, revision |-> Bump(revision, MaxRevision)]
    /\ action' = "None"
    /\ hadPending' = FALSE
    /\ reply' = OutcomeUnknown
    /\ wrote' = FALSE

Fail == failures' = Bump(failures, MaxFailures)

\* One more failure, and the latch that only an accepted RecoverStop opens.
LatchUnknown == Fail /\ unresolved' = TRUE /\ managed' = "Unknown"

PassesAnyway(a) == TRUE
PassesLatch(a) == unresolved => a = "RecoverStop"
RecoveryByCountOnly(a) == a = "RecoverStop" => failures >= 2
RecoveryAllowed(a) == a = "RecoverStop" => unresolved \/ failures >= 2
AlreadyReleased(a) == a = "Shutdown" /\ managed = "Offline"

\* UnresolvedPriorAction and RecoveryNotAllowed: refused without any I/O.
RejectGated(a) ==
    /\ pc = "idle"
    /\ ~(PassesLatch(a) /\ RecoveryAllowed(a))
    /\ finish(a, "RejectedBeforeSend")
    /\ UNCHANGED <<managed, unresolved, failures, exposed, jvars>>

\* Shutdown after the backend was released is a local no-op.
ShutdownReleased(a) ==
    /\ pc = "idle"
    /\ PassesLatch(a) /\ RecoveryAllowed(a) /\ AlreadyReleased(a)
    /\ finish(a, "Idempotent")
    /\ UNCHANGED <<managed, unresolved, failures, exposed, jvars>>

Gated(a) ==
    /\ pc = "idle"
    /\ PassesLatch(a) /\ RecoveryAllowed(a) /\ ~AlreadyReleased(a)

\* reject_preflight: the membership probe is not Ready.
RejectPreflight(a, config) ==
    /\ Gated(a)
    /\ config # "Ready"
    /\ Fail
    /\ finish(a, "RejectedBeforeSend")
    /\ UNCHANGED <<managed, unresolved, exposed, jvars>>

AnswerIdempotent(a, config, health) ==
    /\ Gated(a)
    /\ config = "Ready"
    /\ is_idempotent(a, health)
    /\ failures' = 0
    /\ finish(a, "Idempotent")
    /\ UNCHANGED <<managed, unresolved, exposed, jvars>>

BeginMutation(a, config, health) ==
    /\ Gated(a)
    /\ config = "Ready"
    /\ ~is_idempotent(a, health)
    /\ MarkPending
    /\ pc' = "mark"
    /\ action' = a
    /\ hadPending' = unresolved
    /\ UNCHANGED <<memory, reply, history>>

-----------------------------------------------------------------------------
(* mark_pending and the backend transaction *)

PublishMark == Publish /\ UNCHANGED <<pc, memory, call, history>>

MarkFailedUnlatched ==
    /\ pc = "mark"
    /\ MarkErr
    /\ Fail
    /\ finish(action, "RejectedBeforeSend")
    /\ UNCHANGED <<managed, unresolved, exposed>>

\* journal.is_pending() decides whether the failed mark latches the process.
MarkFailed ==
    /\ pc = "mark"
    /\ MarkErr
    /\ IF jstate = "Pending" THEN LatchUnknown ELSE Fail /\ UNCHANGED <<managed, unresolved>>
    /\ finish(action, "RejectedBeforeSend")
    /\ UNCHANGED exposed

MarkCommitted ==
    /\ pc = "mark"
    /\ MarkOk
    /\ pc' = "backend"
    /\ managed' = LiveStateDuring[action]
    /\ revision' = Bump(revision, MaxRevision)
    /\ UNCHANGED <<unresolved, failures, last, call, history>>

\* The backend attempts a role write on one of the speakers.
BackendWrite ==
    /\ pc = "backend"
    /\ wrote' = TRUE
    /\ UNCHANGED <<pc, memory, call, exposed, jvars>>

Reply(attempted, pinned) ==
    /\ pc = "backend"
    /\ pc' = "reduce"
    /\ reply' = checked_action(attempted, pinned)
    /\ UNCHANGED <<memory, action, hadPending, history, jvars>>

\* The contract of PairActionResult: RejectedBeforeSend is reserved for
\* failures before the first attempted write.
BackendReply(attempted, pinned) ==
    /\ attempted.kind = "RejectedBeforeSend" => ~wrote
    /\ Reply(attempted, pinned)

-----------------------------------------------------------------------------
(* reduce_backend_result *)

MayAlwaysClear == TRUE
MayClear == action # "RecoverStop" \/ ~hadPending

ReduceRejectedForgetting ==
    /\ pc = "reduce"
    /\ reply.kind = "RejectedBeforeSend"
    /\ ~MayClear
    /\ unresolved' = FALSE
    /\ Fail
    /\ managed' = "Degraded"
    /\ finish(action, "RejectedBeforeSend")
    /\ exposed' = (exposed \/ wrote)
    /\ UNCHANGED jvars

\* A recovery rejection keeps the older uncertainty that authorized it.
ReduceRejected ==
    /\ pc = "reduce"
    /\ reply.kind = "RejectedBeforeSend"
    /\ ~MayClear
    /\ unresolved' = TRUE
    /\ Fail
    /\ managed' = "Degraded"
    /\ finish(action, "RejectedBeforeSend")
    /\ exposed' = (exposed \/ wrote)
    /\ UNCHANGED jvars

ReduceUnknown ==
    /\ pc = "reduce"
    /\ \/ reply.kind = "OutcomeUnknown"
       \/ reply.kind = "Accepted" /\ reply.lifecycle # ExpectedLifecycle[action]
    /\ LatchUnknown
    /\ finish(action, "OutcomeUnknown")
    /\ exposed' = (exposed \/ wrote)
    /\ UNCHANGED jvars

ReceiptExpected ==
    reply.kind = "Accepted" /\ reply.lifecycle = ExpectedLifecycle[action]

FailPostcondition(config) ==
    /\ pc = "reduce"
    /\ ReceiptExpected
    /\ config # "Ready"
    /\ LatchUnknown
    /\ finish(action, "PostconditionFailed")
    /\ exposed' = (exposed \/ wrote)
    /\ UNCHANGED jvars

\* journal.clear is called for a rejection that may clear, and for an
\* accepted receipt whose fresh membership probe is Ready.
CallClear(config) ==
    /\ pc = "reduce"
    /\ \/ reply.kind = "RejectedBeforeSend" /\ MayClear
       \/ ReceiptExpected /\ config = "Ready"
    /\ BeginClear
    /\ pc' = "clear"
    /\ UNCHANGED <<memory, call, history>>

\* The unlink commits the resolution of an accepted action.
CommitClear ==
    /\ pc = "clear"
    /\ reopen = "Pending"
    /\ Unpublish
    /\ IF reply.kind = "Accepted" THEN wrote' = FALSE /\ exposed' = FALSE
                                  ELSE UNCHANGED history
    /\ UNCHANGED <<pc, memory, call>>

\* journal_commit_failed.
ClearFailed ==
    /\ pc = "clear"
    /\ ClearErr
    /\ LatchUnknown
    /\ finish(action, "OutcomeUnknown")
    /\ exposed' = (exposed \/ wrote)

FinishRejected ==
    /\ pc = "clear"
    /\ reply.kind = "RejectedBeforeSend"
    /\ ClearOk
    /\ Fail
    /\ managed' = "Degraded"
    /\ finish(action, "RejectedBeforeSend")
    /\ UNCHANGED <<unresolved, exposed>>

FinishAccepted ==
    /\ pc = "clear"
    /\ reply.kind = "Accepted"
    /\ ClearOk
    /\ failures' = 0
    /\ unresolved' = FALSE
    /\ managed' = LiveStateAfter[action]
    /\ finish(action, IF reply.evidence = "BroadcastAcknowledgementOnly"
                        THEN "AcceptedUnconfirmed" ELSE "Accepted")
    /\ UNCHANGED exposed

-----------------------------------------------------------------------------
Init ==
    /\ JInit
    /\ pc = "down"
    /\ managed = "Unknown"
    /\ unresolved = FALSE
    /\ failures = 0
    /\ revision = 0
    /\ last = NoAction
    /\ action = "None"
    /\ hadPending = FALSE
    /\ reply = OutcomeUnknown
    /\ wrote = FALSE
    /\ exposed \in {FALSE, reopen = "Pending"}

\* The request loop between two mutations, and the gates of the next one.
Request ==
    \/ \E config \in PairConfigurationState, health \in PairHealth : status(config, health)
    \/ \E a \in Actions : RejectGated(a) \/ ShutdownReleased(a)
    \/ \E a \in Actions, config \in PairConfigurationState : RejectPreflight(a, config)
    \/ \E a \in Actions, config \in PairConfigurationState, health \in PairHealth :
          AnswerIdempotent(a, config, health) \/ BeginMutation(a, config, health)

\* The steps of a running mutation, those of the backend excepted.
ControllerStep ==
    \/ PublishMark \/ MarkFailed \/ MarkCommitted
    \/ ReduceRejected \/ ReduceUnknown
    \/ \E config \in PairConfigurationState : FailPostcondition(config) \/ CallClear(config)
    \/ CommitClear \/ ClearFailed \/ FinishRejected \/ FinishAccepted

BackendStep ==
    \/ BackendWrite
    \/ \E attempted \in PairActionResult, pinned \in BOOLEAN : BackendReply(attempted, pinned)

Next == Boot \/ Crash \/ PowerLoss \/ Request \/ ControllerStep \/ BackendStep

Spec == Init /\ [][Next]_vars

\* An operator keeps asking for recover-stop, and the probe, the journal and
\* the backend do not fail on every attempt.  Nothing is assumed of crashes.
Recoverable ==
    /\ WF_vars(Boot)
    /\ WF_vars(ControllerStep)
    /\ SF_vars(\E health \in PairHealth : BeginMutation("RecoverStop", "Ready", health))
    /\ SF_vars(PublishMark /\ survivors' = {"Pending"})
    /\ SF_vars(MarkCommitted)
    /\ SF_vars(\E evidence \in PairBackendEvidence :
                  BackendReply(Accepted("Ready", evidence), TRUE))
    /\ SF_vars(CallClear("Ready"))
    /\ SF_vars(CommitClear)
    /\ SF_vars(FinishAccepted)

RecoverySpec == Spec /\ Recoverable

-----------------------------------------------------------------------------
(* Properties *)

\* Every variable of PairController and of its journal stays in its domain;
\* the two saturating counters stay within their integer widths.
TypeOK ==
    /\ JTypeOK
    /\ pc \in {"down", "idle", "mark", "backend", "reduce", "clear"}
    /\ managed \in ManagedLiveState
    /\ unresolved \in BOOLEAN
    /\ failures \in 0..MaxFailures
    /\ revision \in 0..MaxRevision
    /\ last \in [action : Actions, outcome : Outcomes, revision : 0..MaxRevision]
                 \cup {NoAction}
    /\ action \in Actions \cup {"None"}
    /\ hadPending \in BOOLEAN
    /\ reply \in PairActionResult
    /\ wrote \in BOOLEAN
    /\ exposed \in BOOLEAN

\* From the call of the backend on, and for as long as a role write is not
\* resolved by an accepted and verified action, a pending record covers it, now
\* and after any crash: mutate calls the backend only between a durable
\* mark_pending and the clear that resolves the action.
WriteCovered ==
    pc \in {"backend", "reduce"} \/ wrote \/ exposed => reopen = "Pending" /\ survivors = {"Pending"}

\* While an earlier write is unresolved, in this process or in one that
\* crashed, only RecoverStop writes to the speakers: start, stop and shutdown
\* are never a blind retry.
NoBlindWrite ==
    wrote /\ exposed => action = "RecoverStop"

\* Between two requests the in-memory latch and the journal agree, and the
\* process is never more permissive than its own restart would be, also after
\* a mark_pending or a clear that failed half way.
LatchMatchesJournal ==
    pc = "idle" => /\ unresolved <=> jstate = "Pending"
                   /\ reopen = "Pending" => unresolved

\* The controller shows Linked, Ready or Offline only when no write is
\* unresolved and nothing is pending: a failed postcondition, an unexpected
\* lifecycle or a failed clear can not leave a trusted live state behind.
LiveStateTrusted ==
    pc = "idle" /\ managed \in {"Linked", "Ready", "Offline"} =>
        ~unresolved /\ ~exposed /\ reopen = "Clean"

\* Whatever a client can read of the controller changes together with the
\* revision (If-Match compares it), until the revision saturates.
RevisionTracksState ==
    [][/\ pc # "down" /\ pc' # "down"
       /\ <<managed, unresolved, failures, last>>' # <<managed, unresolved, failures, last>>
       => revision' > revision \/ revision = MaxRevision]_vars

\* While the process lives, the uncertainty latch is released only by an
\* accepted RecoverStop whose postcondition probe and journal clear succeeded.
LatchReleasedByRecovery ==
    [][/\ pc # "down" /\ pc' # "down"
       /\ unresolved /\ ~unresolved'
       => /\ action = "RecoverStop"
          /\ reply.kind = "Accepted"
          /\ jstate' = "Clean" /\ reopen = "Clean"]_vars

\* No sequence of failures, crashes and rejected recoveries locks the operator
\* out for ever: under Recoverable, an unresolved latch is eventually released.
RecoveryConverges == unresolved ~> pc = "idle" /\ ~unresolved

\* rust/README.md says the service clears the pending record "only after an
\* accepted lifecycle result and fresh retained-membership postcondition":
\* the record is gone during a clear only for an accepted reply.
ClearedOnlyAfterAccepted ==
    pc = "clear" /\ reopen = "Clean" => reply.kind = "Accepted"
=============================================================================
