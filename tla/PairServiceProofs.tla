-------------------------- MODULE PairServiceProofs -------------------------
(***************************************************************************)
(* Proofs about PairController, for every bound of its counters, and about *)
(* PairService: the controller over the native backend implements the      *)
(* controller over any backend that keeps the contract, what the           *)
(* composition tells of the speakers is true, a mutation has few steps and *)
(* a recovery that meets no failure heals the pair.                        *)
(***************************************************************************)
EXTENDS PairService, TLAPS

(* PairController: what a running mutation knows *)

\* The call the journal is in at each step of the controller.
JournalStep ==
    /\ pc = "down" => jpc = "closed"
    /\ pc \in {"idle", "backend", "reduce"} => jpc = "open"
    /\ pc = "mark" => jpc = "mark"
    /\ pc = "clear" => jpc = "clear"

\* What a running mutation knows: whether it started under the latch, that its
\* mark is in memory, and that a rejection wrote nothing.
CallInv ==
    /\ Running => /\ action \in Actions
                  /\ hadPending = unresolved
                  /\ unresolved => action = "RecoverStop"
                  /\ jstate = "Pending"
    /\ wrote => pc \in {"backend", "reduce", "clear"}
    /\ pc \in {"reduce", "clear"} /\ reply.kind = "RejectedBeforeSend" => ~wrote
    /\ pc = "clear" => /\ reply.kind \in {"Accepted", "RejectedBeforeSend"}
                       /\ reply.kind = "RejectedBeforeSend" =>
                             (action # "RecoverStop" \/ ~hadPending)
                       /\ reopen = "Pending" => survivors = {"Pending"}

\* The inductive strengthening of the safety properties: besides them, an
\* exposed write is latched in every live process.
SafeInv ==
    /\ JournalStep
    /\ CallInv
    /\ WriteCovered
    /\ LatchMatchesJournal
    /\ LiveStateTrusted
    /\ pc # "down" /\ exposed => unresolved

-----------------------------------------------------------------------------
(* Type correctness *)

\* saturating_add stays within the width of its counter.
LEMMA BumpType ==
    ASSUME NEW max \in Nat, NEW n \in 0..max
    PROVE  Bump(n, max) \in 0..max
BY DEF Bump

\* TypeOK alone is not inductive: the tables indexed by the running action
\* need it to be one of the four.
TInv == TypeOK /\ (Running => action \in Actions)

\* finish leaves well-typed counters, call and record behind.
LEMMA FinishType ==
    ASSUME TypeOK, NEW a \in Actions, NEW outcome \in Outcomes, finish(a, outcome)
    PROVE  /\ pc' = "idle"
           /\ revision' \in 0..MaxRevision
           /\ last' \in [action : Actions, outcome : Outcomes, revision : 0..MaxRevision]
           /\ action' = "None"
           /\ hadPending' \in BOOLEAN
           /\ reply' \in PairActionResult
           /\ wrote' \in BOOLEAN
<1>1. Bump(revision, MaxRevision) \in 0..MaxRevision
  BY BumpType, MaxRevisionAssumption DEF TypeOK
<1>2. QED
  BY <1>1 DEF finish, PairActionResult

\* One more failure stays within u8.
LEMMA FailType ==
    ASSUME TypeOK, Fail
    PROVE  failures' \in 0..MaxFailures
BY BumpType, MaxFailuresAssumption DEF TypeOK, Fail

\* Every step of the journal keeps the journal well typed.
LEMMA JournalType ==
    ASSUME JTypeOK, [JNext]_jvars
    PROVE  JTypeOK'
BY DEF JTypeOK, JNext, jvars, JournalState, Open, MarkPending, Publish, MarkOk, MarkErr,
       BeginClear, Unpublish, ClearOk, ClearErr, ProcessEnd, HostCrash

\* Actions that answer a request: finish, at most one failure, and the fields
\* that each of them names.
LEMMA AnswerType ==
    ASSUME TInv, NEW a \in Actions, NEW outcome \in Outcomes, finish(a, outcome),
           managed' \in ManagedLiveState, unresolved' \in BOOLEAN, exposed' \in BOOLEAN,
           failures' \in 0..MaxFailures, JTypeOK'
    PROVE  TInv'
<1>1. TypeOK
  BY DEF TInv
<1>2. TypeOK'
  BY <1>1, FinishType DEF TypeOK
<1>3. ~Running'
  BY <1>1, FinishType DEF Running
<1>4. QED
  BY <1>2, <1>3 DEF TInv

\* Every step of the controller preserves TInv.
LEMMA TypeStep == TInv /\ [Next]_vars => TInv'
<1> SUFFICES ASSUME TInv, [Next]_vars PROVE TInv'
  OBVIOUS
<1>0. TypeOK /\ JTypeOK /\ (Running => action \in Actions)
  BY DEF TInv, TypeOK
<1>j. ASSUME UNCHANGED jvars PROVE JTypeOK'
  BY <1>0, <1>j, JournalType
<1>f. failures \in 0..MaxFailures /\ 0 \in 0..MaxFailures
  BY <1>0, MaxFailuresAssumption DEF TypeOK
<1>r. Bump(revision, MaxRevision) \in 0..MaxRevision
  BY <1>0, BumpType, MaxRevisionAssumption DEF TypeOK
<1>1. CASE Boot
  <2>1. JTypeOK'
    BY <1>0, <1>1, JournalType DEF Boot, JNext
  <2>2. failures' \in 0..MaxFailures /\ revision' \in 0..MaxRevision
    BY <1>1, MaxFailuresAssumption, MaxRevisionAssumption DEF Boot
  <2>3. QED
    BY <1>0, <1>1, <2>1, <2>2 DEF TInv, TypeOK, Boot, call, history, ManagedLiveState, Running
<1>2. ASSUME Crash \/ PowerLoss PROVE TInv'
  <2>1. JTypeOK' /\ Forget
    BY <1>0, <1>2, JournalType DEF Crash, PowerLoss, JNext
  <2>2. failures' \in 0..MaxFailures /\ revision' \in 0..MaxRevision
    BY <2>1, MaxFailuresAssumption, MaxRevisionAssumption DEF Forget
  <2>3. QED
    BY <1>0, <2>1, <2>2 DEF TInv, TypeOK, Forget, ManagedLiveState, Running, PairActionResult
<1>3. ASSUME NEW config \in PairConfigurationState, NEW seen \in PairHealth, status(config, seen)
      PROVE TInv'
  BY <1>0, <1>3, <1>j, <1>r DEF TInv, TypeOK, status, call, history, ManagedLiveState, Running
<1>4. ASSUME NEW a \in Actions, RejectGated(a) \/ ShutdownReleased(a)
      PROVE TInv'
  BY <1>0, <1>4, <1>j, AnswerType DEF TypeOK, RejectGated, ShutdownReleased, Outcomes
<1>5. ASSUME NEW a \in Actions, NEW config \in PairConfigurationState, RejectPreflight(a, config)
      PROVE TInv'
  BY <1>0, <1>5, <1>j, AnswerType, FailType DEF TypeOK, RejectPreflight, Outcomes
<1>6. ASSUME NEW a \in Actions, NEW config \in PairConfigurationState, NEW seen \in PairHealth,
             AnswerIdempotent(a, config, seen)
      PROVE TInv'
  BY <1>0, <1>6, <1>j, <1>f, AnswerType DEF TypeOK, AnswerIdempotent, Outcomes
<1>7. ASSUME NEW a \in Actions, NEW config \in PairConfigurationState, NEW seen \in PairHealth,
             BeginMutation(a, config, seen)
      PROVE TInv'
  <2>1. JTypeOK'
    BY <1>0, <1>7, JournalType DEF BeginMutation, JNext
  <2>2. QED
    BY <1>0, <1>7, <2>1 DEF TInv, TypeOK, BeginMutation, memory, history
<1>8. CASE PublishMark
  <2>1. JTypeOK'
    BY <1>0, <1>8, JournalType DEF PublishMark, JNext
  <2>2. QED
    BY <1>0, <1>8, <2>1 DEF TInv, TypeOK, PublishMark, memory, call, history, Running
<1>9. CASE MarkFailed
  <2>1. JTypeOK'
    BY <1>0, <1>9, JournalType DEF MarkFailed, JNext
  <2>2. action \in Actions /\ finish(action, "RejectedBeforeSend")
    BY <1>0, <1>9 DEF MarkFailed, Running
  <2>3. failures' \in 0..MaxFailures
    BY <1>0, <1>9, FailType DEF MarkFailed, LatchUnknown
  <2>4. managed' \in ManagedLiveState /\ unresolved' \in BOOLEAN /\ exposed' \in BOOLEAN
    BY <1>0, <1>9 DEF MarkFailed, LatchUnknown, ManagedLiveState, TypeOK
  <2>5. QED
    BY <2>1, <2>2, <2>3, <2>4, AnswerType DEF Outcomes
<1>10. CASE MarkCommitted
  <2>1. JTypeOK'
    BY <1>0, <1>10, JournalType DEF MarkCommitted, JNext
  <2>2. action \in Actions
    BY <1>0, <1>10 DEF MarkCommitted, Running
  <2>3. managed' \in ManagedLiveState
    BY <1>10, <2>2 DEF MarkCommitted, LiveStateDuring, Actions, ManagedLiveState
  <2>4. QED
    BY <1>0, <1>10, <1>r, <2>1, <2>2, <2>3 DEF TInv, TypeOK, MarkCommitted, call, history
<1>11. CASE BackendWrite
  BY <1>0, <1>11, <1>j DEF TInv, TypeOK, BackendWrite, memory, call, Running
<1>12. ASSUME NEW attempted \in PairActionResult, NEW pinned \in BOOLEAN,
              BackendReply(attempted, pinned)
       PROVE TInv'
  <2>1. reply' \in PairActionResult
    BY <1>12 DEF BackendReply, Reply, checked_action, PairActionResult
  <2>2. QED
    BY <1>0, <1>12, <1>j, <2>1
    DEF TInv, TypeOK, BackendReply, Reply, memory, history, Running
<1>13. CASE ReduceRejected
  BY <1>0, <1>13, <1>j, AnswerType, FailType
  DEF TypeOK, ReduceRejected, Outcomes, ManagedLiveState, Running
<1>14. CASE ReduceUnknown
  BY <1>0, <1>14, <1>j, AnswerType, FailType
  DEF TypeOK, ReduceUnknown, LatchUnknown, Outcomes, ManagedLiveState, Running
<1>15. ASSUME NEW config \in PairConfigurationState, FailPostcondition(config)
       PROVE TInv'
  BY <1>0, <1>15, <1>j, AnswerType, FailType
  DEF TypeOK, FailPostcondition, LatchUnknown, Outcomes, ManagedLiveState, Running
<1>16. ASSUME NEW config \in PairConfigurationState, CallClear(config)
       PROVE TInv'
  <2>1. JTypeOK'
    BY <1>0, <1>16, JournalType DEF CallClear, JNext
  <2>2. QED
    BY <1>0, <1>16, <2>1 DEF TInv, TypeOK, CallClear, memory, call, history, Running
<1>17. CASE CommitClear
  <2>1. JTypeOK'
    BY <1>0, <1>17, JournalType DEF CommitClear, JNext
  <2>2. wrote' \in BOOLEAN /\ exposed' \in BOOLEAN
    BY <1>0, <1>17 DEF TypeOK, CommitClear, history
  <2>3. QED
    BY <1>0, <1>17, <2>1, <2>2 DEF TInv, TypeOK, CommitClear, memory, call, Running
<1>18. ASSUME ClearFailed \/ FinishRejected \/ FinishAccepted PROVE TInv'
  <2>1. JTypeOK'
    BY <1>0, <1>18, JournalType DEF ClearFailed, FinishRejected, FinishAccepted, JNext
  <2>2. action \in Actions
    BY <1>0, <1>18 DEF ClearFailed, FinishRejected, FinishAccepted, Running
  <2>3. failures' \in 0..MaxFailures
    BY <1>0, <1>f, <1>18, FailType DEF ClearFailed, FinishRejected, FinishAccepted, LatchUnknown
  <2>4. managed' \in ManagedLiveState
    BY <1>18, <2>2 DEF ClearFailed, FinishRejected, FinishAccepted, LatchUnknown,
                       LiveStateAfter, Actions, ManagedLiveState
  <2>5. unresolved' \in BOOLEAN /\ exposed' \in BOOLEAN
    BY <1>0, <1>18 DEF ClearFailed, FinishRejected, FinishAccepted, LatchUnknown, TypeOK
  <2>6. \E outcome \in Outcomes : finish(action, outcome)
    BY <1>18 DEF ClearFailed, FinishRejected, FinishAccepted, Outcomes
  <2>7. QED
    BY <2>1, <2>2, <2>3, <2>4, <2>5, <2>6, AnswerType
<1>19. CASE UNCHANGED vars
  BY <1>0, <1>19, <1>j DEF TInv, TypeOK, vars, memory, call, history, Running
<1>20. QED
  BY <1>1, <1>2, <1>3, <1>4, <1>5, <1>6, <1>7, <1>8, <1>9, <1>10, <1>11, <1>12, <1>13,
     <1>14, <1>15, <1>16, <1>17, <1>18, <1>19
  DEF Next, Request, ControllerStep, BackendStep

\* A process that has not started is well typed.
LEMMA InitType ==
    ASSUME Init
    PROVE  TInv
<1>1. JTypeOK
  BY DEF Init, JInit, JTypeOK, JournalState
<1>2. exposed = FALSE \/ exposed = (reopen = "Pending")
  BY DEF Init
<1>3. exposed \in BOOLEAN
  BY <1>2, Zenon
<1>4. failures \in 0..MaxFailures /\ revision \in 0..MaxRevision
  BY MaxFailuresAssumption, MaxRevisionAssumption DEF Init
<1>5. QED
  BY <1>1, <1>3, <1>4 DEF Init, TInv, TypeOK, ManagedLiveState, PairActionResult, Running

\* Every reachable state of the controller is well typed, for every width of
\* the counters; in particular the saturating counters never pass it.
THEOREM TypeCorrect == Spec => []TypeOK
<1>1. Init => TInv
  BY InitType
<1>2. TInv => TypeOK
  BY DEF TInv
<1>3. QED
  BY <1>1, <1>2, TypeStep, PTL DEF Spec

-----------------------------------------------------------------------------
(* Safety *)

\* Every step of the controller, of its journal and of a backend that keeps
\* the contract preserves SafeInv.
LEMMA SafeStep == TInv /\ SafeInv /\ [Next]_vars => SafeInv'
<1> SUFFICES ASSUME TInv, SafeInv, [Next]_vars PROVE SafeInv'
  OBVIOUS
<1> USE DEF SafeInv, JournalStep, CallInv, WriteCovered, LatchMatchesJournal, LiveStateTrusted,
            Running
<1>0. /\ TypeOK /\ JTypeOK
      /\ pc \in {"down", "idle", "mark", "backend", "reduce", "clear"}
      /\ jstate \in JournalState /\ reopen \in JournalState /\ survivors \in SUBSET JournalState
      /\ reopen \in survivors
      /\ unresolved \in BOOLEAN /\ exposed \in BOOLEAN /\ wrote \in BOOLEAN /\ hadPending \in BOOLEAN
  BY DEF TInv, TypeOK, JTypeOK
<1>1. CASE Boot
  <2>1. unresolved' <=> reopen = "Pending"
    BY <1>1, Zenon DEF Boot
  <2>2. /\ pc' = "idle" /\ pc = "down" /\ jpc' = "open" /\ jstate' = reopen
        /\ UNCHANGED <<reopen, survivors, action, hadPending, reply, wrote, exposed>>
        /\ managed' = "Unknown"
    BY <1>1 DEF Boot, Open, call, history
  <2>3. QED
    BY <1>0, <2>1, <2>2
<1>2. CASE Crash
  BY <1>0, <1>2 DEF Crash, Forget, ProcessEnd
<1>3. CASE PowerLoss
  BY <1>0, <1>3 DEF PowerLoss, Forget, HostCrash
<1>4. ASSUME NEW config \in PairConfigurationState, NEW seen \in PairHealth, status(config, seen)
      PROVE SafeInv'
  BY <1>0, <1>4 DEF status, call, history, jvars
<1>5. ASSUME NEW a \in Actions, RejectGated(a) \/ ShutdownReleased(a)
      PROVE SafeInv'
  BY <1>0, <1>5 DEF RejectGated, ShutdownReleased, finish, jvars
<1>6. ASSUME NEW a \in Actions, NEW config \in PairConfigurationState, RejectPreflight(a, config)
      PROVE SafeInv'
  BY <1>0, <1>6 DEF RejectPreflight, Gated, finish, jvars
<1>7. ASSUME NEW a \in Actions, NEW config \in PairConfigurationState, NEW seen \in PairHealth,
             AnswerIdempotent(a, config, seen)
      PROVE SafeInv'
  BY <1>0, <1>7 DEF AnswerIdempotent, Gated, finish, jvars
<1>8. ASSUME NEW a \in Actions, NEW config \in PairConfigurationState, NEW seen \in PairHealth,
             BeginMutation(a, config, seen)
      PROVE SafeInv'
  BY <1>0, <1>8 DEF BeginMutation, Gated, PassesLatch, MarkPending, memory, history
<1>9. CASE PublishMark
  BY <1>0, <1>9 DEF PublishMark, Publish, memory, call, history, JournalState
<1>10. CASE MarkFailed
  BY <1>0, <1>10 DEF MarkFailed, MarkErr, LatchUnknown, finish
<1>11. CASE MarkCommitted
  BY <1>0, <1>11 DEF MarkCommitted, MarkOk, LiveStateDuring, call, history
<1>12. CASE BackendWrite
  BY <1>0, <1>12 DEF BackendWrite, memory, call, jvars
<1>13. ASSUME NEW attempted \in PairActionResult, NEW pinned \in BOOLEAN,
              BackendReply(attempted, pinned)
       PROVE SafeInv'
  BY <1>0, <1>13 DEF BackendReply, Reply, checked_action, OutcomeUnknown, memory, history, jvars
<1>14. CASE ReduceRejected
  BY <1>0, <1>14 DEF ReduceRejected, finish, jvars
<1>15. CASE ReduceUnknown
  BY <1>0, <1>15 DEF ReduceUnknown, LatchUnknown, finish, jvars
<1>16. ASSUME NEW config \in PairConfigurationState, FailPostcondition(config)
       PROVE SafeInv'
  BY <1>0, <1>16 DEF FailPostcondition, LatchUnknown, finish, jvars
<1>17. ASSUME NEW config \in PairConfigurationState, CallClear(config)
       PROVE SafeInv'
  BY <1>0, <1>17 DEF CallClear, BeginClear, MayClear, ReceiptExpected, memory, call, history
<1>18. CASE CommitClear
  BY <1>0, <1>18 DEF CommitClear, Unpublish, memory, call, history
<1>19. CASE ClearFailed
  BY <1>0, <1>19 DEF ClearFailed, ClearErr, LatchUnknown, finish
<1>20. CASE FinishRejected
  BY <1>0, <1>20 DEF FinishRejected, ClearOk, finish
<1>21. CASE FinishAccepted
  BY <1>0, <1>21 DEF FinishAccepted, ClearOk, finish
<1>22. CASE UNCHANGED vars
  BY <1>0, <1>22 DEF vars, memory, call, history, jvars
<1>23. QED
  BY <1>1, <1>2, <1>3, <1>4, <1>5, <1>6, <1>7, <1>8, <1>9, <1>10, <1>11, <1>12, <1>13, <1>14, <1>15, <1>16, <1>17, <1>18, <1>19, <1>20, <1>21, <1>22
  DEF Next, Request, ControllerStep, BackendStep

\* A process that has not started satisfies the safety invariant: what an
\* earlier one exposed is on record.
LEMMA InitSafe ==
    ASSUME Init
    PROVE  TInv /\ SafeInv
<1>1. TInv
  BY InitType
<1>2. exposed => reopen = "Pending"
  BY DEF Init
<1>3. reopen \in {"Clean", "Pending"} /\ survivors = {reopen} /\ jpc = "closed"
  BY DEF Init, JInit, JournalState
<1>4. QED
  BY <1>1, <1>2, <1>3 DEF Init, SafeInv, JournalStep, CallInv, WriteCovered, LatchMatchesJournal,
     LiveStateTrusted, Running

\* The safety invariant holds of every behaviour.
THEOREM SafetyInvariant == Spec => [](TypeOK /\ SafeInv)
<1>1. Init => TInv /\ SafeInv
  BY InitSafe
<1>2. TInv /\ SafeInv => TypeOK /\ SafeInv
  BY DEF TInv
<1>3. QED
  BY <1>1, <1>2, TypeStep, SafeStep, PTL DEF Spec

\* From the call of the backend until an accepted and verified action resolves
\* it, a role write is covered by a record that every later process and every
\* host crash will still find pending.
THEOREM WritesAreCovered == Spec => []WriteCovered
<1>1. TypeOK /\ SafeInv => WriteCovered
  BY DEF SafeInv
<1>2. QED
  BY <1>1, SafetyInvariant, PTL

\* While an earlier write is unresolved, in this process or a crashed one, no
\* mutation other than RecoverStop writes to the speakers.
THEOREM NoWriteIsBlind == Spec => []NoBlindWrite
<1>1. TypeOK /\ SafeInv => NoBlindWrite
  BY DEF TypeOK, SafeInv, CallInv, NoBlindWrite, Running
<1>2. QED
  BY <1>1, SafetyInvariant, PTL

\* Between requests the in-memory latch agrees with the journal, and a process
\* is never more permissive than its restart.
THEOREM LatchIsTheJournal == Spec => []LatchMatchesJournal
<1>1. TypeOK /\ SafeInv => LatchMatchesJournal
  BY DEF SafeInv
<1>2. QED
  BY <1>1, SafetyInvariant, PTL

\* Linked, Ready and Offline are shown only with nothing unresolved.
THEOREM LiveStatesAreTrusted == Spec => []LiveStateTrusted
<1>1. TypeOK /\ SafeInv => LiveStateTrusted
  BY DEF SafeInv
<1>2. QED
  BY <1>1, SafetyInvariant, PTL

-----------------------------------------------------------------------------
(* Steps *)

\* The latch is released in a living process only by an accepted RecoverStop
\* after its postcondition probe and its journal clear.
THEOREM LatchReleased == Spec => LatchReleasedByRecovery
<1> DEFINE Released == /\ pc # "down" /\ pc' # "down"
                       /\ unresolved /\ ~unresolved'
           Recovered == /\ action = "RecoverStop"
                        /\ reply.kind = "Accepted"
                        /\ jstate' = "Clean" /\ reopen = "Clean"
<1>1. ASSUME TypeOK, SafeInv, [Next]_vars PROVE [Released => Recovered]_vars
  <2> SUFFICES ASSUME Next, Released PROVE Recovered
    BY <1>1
  <2>1. FinishAccepted
    BY DEF Next, Request, ControllerStep, BackendStep, Boot, Crash, PowerLoss, Forget, status,
           RejectGated, ShutdownReleased, RejectPreflight, AnswerIdempotent, BeginMutation,
           PublishMark, MarkFailed, LatchUnknown, MarkCommitted, BackendWrite, BackendReply, Reply,
           ReduceRejected, ReduceUnknown, FailPostcondition, CallClear, CommitClear, ClearFailed,
           FinishRejected, memory
  <2>2. QED
    BY <1>1, <2>1 DEF SafeInv, CallInv, Running, FinishAccepted, ClearOk
<1>2. QED
  BY <1>1, SafetyInvariant, PTL DEF Spec, LatchReleasedByRecovery

\* Every visible change of the controller is seen by the revision that If-Match
\* compares, until the revision saturates at its width.
THEOREM RevisionFollows == Spec => RevisionTracksState
<1> DEFINE Visible == <<managed, unresolved, failures, last>>
           Changed == pc # "down" /\ pc' # "down" /\ Visible' # Visible
           Seen == revision' > revision \/ revision = MaxRevision
<1>1. ASSUME TypeOK, [Next]_vars PROVE [Changed => Seen]_vars
  <2> SUFFICES ASSUME Next, Changed PROVE Seen
    BY <1>1
  <2>1. revision' = Bump(revision, MaxRevision)
    BY DEF Next, Request, ControllerStep, BackendStep, Boot, Crash, PowerLoss, Forget, status,
           RejectGated, ShutdownReleased, RejectPreflight, AnswerIdempotent, BeginMutation,
           PublishMark, MarkFailed, MarkCommitted, BackendWrite, BackendReply, Reply,
           ReduceRejected, ReduceUnknown, FailPostcondition, CallClear, CommitClear, ClearFailed,
           FinishRejected, FinishAccepted, finish, memory
  <2>2. QED
    BY <1>1, <2>1, MaxRevisionAssumption DEF TypeOK, Bump
<1>2. QED
  BY <1>1, TypeCorrect, PTL DEF Spec, RevisionTracksState

-----------------------------------------------------------------------------
(* PairService: the two halves of a call *)

\* The steps of a method between its call and its answer.
RoleSteps == {"enter", "execute", "aura_start", "aura_stop", "exit"}
MethodSteps == RoleSteps \cup {"recover", "release", "acquire", "arm"}

\* Every variable of the native backend stays in its domain, and an answer is
\* a PairActionResult because the broadcast leaves its evidence.
NTypeOK ==
    /\ confirmation \in {"Ack", "Gena"}
    /\ npc \in MethodSteps \cup {"down", "idle", "done", "leaving"}
    /\ naction \in Actions \cup {"None"}
    /\ lifecycle \in PairLifecycle
    /\ latched \in BOOLEAN /\ bearer \in BOOLEAN /\ auraLatched \in BOOLEAN
    /\ npc \in {"aura_start", "exit"} => evidence \in PairBackendEvidence
    /\ nreply \in PairActionResult
    /\ roles \in SUBSET Roles
    /\ nwrote \in BOOLEAN /\ touched \in BOOLEAN

\* Where the controller is while the backend is in one of its steps; the two
\* histories of role writes agree.
Coupled ==
    /\ pc = "down" <=> npc = "down"
    /\ npc \in MethodSteps \cup {"done"} => pc = "backend" /\ naction = action
    /\ npc = "leaving" => pc = "idle"
    /\ nwrote <=> wrote /\ pc = "backend"
    /\ wrote => touched
    /\ pc = "down" => ~touched

\* Which method passes through which step, and where its first write is behind it.
Placed ==
    /\ nwrote => npc \in {"execute", "aura_start", "exit", "release", "done"}
    /\ npc = "done" /\ nreply.kind = "RejectedBeforeSend" => ~nwrote
    /\ npc \in {"enter", "aura_start"} => Starting
    /\ npc \in {"aura_stop", "exit"} => ~Starting
    /\ npc = "recover" => naction = "RecoverStop"
    /\ npc = "release" => naction = "Shutdown"
    /\ npc \in RoleSteps \cup {"arm"} => lifecycle \in {"Linking", "Unlinking"}

\* Both speakers are in the roles an accepted receipt speaks for, or out of them.
Switched ==
    /\ "jbl" \in roles /\ "aura" \in roles
    /\ confirmation = "Gena" => "cast" \in roles
Released ==
    /\ "jbl" \notin roles /\ "aura" \notin roles
    /\ confirmation = "Gena" => "cast" \notin roles

\* How far the role writes of a method have got, and what a lifecycle between
\* two methods tells of the roles.
Ordered ==
    /\ npc = "execute" /\ Starting => "jbl" \in roles
    /\ npc = "execute" /\ ~Starting => "aura" \notin roles
    /\ npc = "aura_start" => "jbl" \in roles /\ (confirmation = "Gena" => "cast" \in roles)
    /\ npc = "exit" => "aura" \notin roles /\ (confirmation = "Gena" => "cast" \notin roles)
    /\ npc = "release" /\ touched => Released
    /\ lifecycle = "Linked" => Switched
    /\ lifecycle = "Ready" => Released
    /\ lifecycle = "Offline" /\ touched => Released

\* The roles an accepted method leaves behind; a shutdown may have found a pair
\* this process never touched.
RolesAfter(a) ==
    /\ a = "Start" => Switched
    /\ a \in {"Stop", "RecoverStop"} => Released
    /\ a = "Shutdown" /\ touched => Released

\* An accepted answer tells the roles, on its way from the backend to finish.
Reported ==
    /\ npc = "done" /\ nreply.kind = "Accepted" => RolesAfter(action)
    /\ pc \in {"reduce", "clear"} /\ reply.kind = "Accepted" => RolesAfter(action)

\* A half-switched pair is one that some unresolved action wrote to.
HalfRecorded == Switched \/ Released \/ wrote \/ exposed

ServiceInv ==
    NTypeOK /\ Coupled /\ Placed /\ Ordered /\ Reported /\ HalfRecorded /\ Nested /\ ManagedTrue

-----------------------------------------------------------------------------
(* The composition implements the controller *)

\* A reading of the Aura transport says whether a bearer is left.
LEMMA ReadingType ==
    ASSUME NTypeOK, NEW reading \in AuraReadings
    PROVE  reading[2] \in BOOLEAN
<1>1. reading \in {<<"OutcomeUnknown", bearer>>, <<"Offline", FALSE>>, <<"Ready", TRUE>>, <<"Unavailable", FALSE>>}
  BY Zenon DEF AuraReadings
<1>2. ASSUME NEW kind, NEW held \in BOOLEAN, reading = <<kind, held>> PROVE reading[2] \in BOOLEAN
  BY <1>2, Zenon
<1>3. QED
  BY <1>1, <1>2, Zenon DEF NTypeOK

\* A health snapshot of the backend is one the controller knows.
LEMMA HealthType ==
    ASSUME NTypeOK, NEW reading \in AuraReadings
    PROVE  core_health(reading) \in PairHealth
BY ReadingType, Zenon DEF NTypeOK, core_health, PairHealth, PairLifecycle

\* Every step of the service is a step of the controller over an abstract
\* backend, or leaves the controller alone.  Only the answer of the backend
\* needs the invariant: a rejection has attempted no role write.
LEMMA StepImplements ==
    ASSUME NTypeOK, Coupled, Placed, [SNext]_svars
    PROVE  [Next]_vars
<1>1. CASE SBoot \/ SCrash \/ SExit
  BY <1>1, Zenon DEF SBoot, SCrash, SExit, Next
<1>2. CASE STeardown \/ SCall
  BY <1>2, Zenon DEF STeardown, SCall
<1>3. CASE SRequest
  <2>1. CASE SStatus
    BY <2>1, HealthType, Zenon DEF SStatus, Next, Request
  <2>2. ASSUME NEW a \in Actions, SGates(a) PROVE Next
    BY <2>2, Zenon DEF SGates, Next, Request
  <2>3. ASSUME NEW a \in Actions, SBegin(a) PROVE Next
    <3>1. "Ready" \in PairConfigurationState /\ NoHealth \in PairHealth
      BY Zenon DEF PairConfigurationState, PairHealth
    <3>2. QED
      BY <2>3, <3>1, HealthType, Zenon DEF SBegin, Next, Request
  <2>4. QED
    BY <1>3, <2>1, <2>2, <2>3, Zenon DEF SRequest
<1>4. CASE SController
  BY <1>4, Zenon DEF SController, Next
<1>5. CASE SNative
  BY <1>5, Zenon DEF SNative, Next, BackendStep
<1>6. CASE SReply
  <2>1. nreply.kind = "RejectedBeforeSend" => ~wrote
    BY <1>6, Zenon DEF SReply, Coupled, Placed, MethodSteps
  <2>2. BackendReply(nreply, TRUE)
    BY <1>6, <2>1, Zenon DEF SReply, BackendReply
  <2>3. QED
    BY <2>2, Zenon DEF NTypeOK, Next, BackendStep
<1>7. CASE UNCHANGED svars
  BY <1>7, Zenon DEF svars
<1>8. QED
  BY <1>1, <1>2, <1>3, <1>4, <1>5, <1>6, <1>7, Zenon DEF SNext
-----------------------------------------------------------------------------
(* Role writes *)

\* The kinds of answer are what their names say.
LEMMA AnswerKinds ==
    /\ \A l \in PairLifecycle, e \in PairBackendEvidence :
          Accepted(l, e) \in PairActionResult /\ Accepted(l, e).kind = "Accepted"
    /\ RejectedBeforeSend \in PairActionResult /\ RejectedBeforeSend.kind = "RejectedBeforeSend"
    /\ OutcomeUnknown \in PairActionResult /\ OutcomeUnknown.kind = "OutcomeUnknown"
BY Zenon DEF Accepted, RejectedBeforeSend, OutcomeUnknown, PairActionResult

\* What a running method knows of the roles, apart from the domains.
MethodInv ==
    /\ Placed /\ Ordered /\ Nested
    /\ npc = "done" /\ nreply.kind = "Accepted" => RolesAfter(naction)
    /\ Switched \/ Released \/ nwrote \/ naction = "RecoverStop"
    /\ nwrote => touched

\* The two failures a method may answer.
LEMMA RejectedAnswer ==
    ASSUME rejected
    PROVE  /\ npc' = "done" /\ lifecycle' = "Degraded" /\ latched' = latched
           /\ nreply' \in PairActionResult /\ nreply'.kind = "RejectedBeforeSend"
BY AnswerKinds, Zenon DEF rejected, Answer

\* An unknown outcome latches the backend and degrades it.
LEMMA UnknownAnswer ==
    ASSUME latch_unknown
    PROVE  /\ npc' = "done" /\ lifecycle' = "Degraded" /\ latched'
           /\ nreply' \in PairActionResult /\ nreply'.kind = "OutcomeUnknown"
BY AnswerKinds, Zenon DEF latch_unknown, Answer

\* Every step of a running method keeps its place in the order of the role
\* writes: start puts Aura in last, stop takes it out first.
LEMMA MethodStep ==
    ASSUME NTypeOK, MethodInv, NStep, UNCHANGED confirmation, touched' <=> touched \/ nwrote'
    PROVE  /\ MethodInv' /\ npc' \in MethodSteps \cup {"done"}
           /\ naction' = naction /\ (nwrote => nwrote')
<1> USE AnswerKinds, RejectedAnswer, UnknownAnswer
    DEF NTypeOK, MethodInv, Placed, Ordered, Nested, RolesAfter, RoleSteps, MethodSteps, Starting, Switched, Released,
        Applied, WriteApplied, WriteUncertain
<1>1. CASE RecoverTeardown
  BY <1>1, Zenon DEF RecoverTeardown
<1>2. CASE TeardownFailed
  BY <1>2, Zenon DEF TeardownFailed
<1>3. CASE Release
  BY <1>3, Zenon DEF Release, Answer, PairLifecycle, PairBackendEvidence
<1>4. CASE AcquireFailed
  BY <1>4, Zenon DEF AcquireFailed
<1>5. CASE acquire_fresh_aura_bearer
  BY <1>5, Zenon DEF acquire_fresh_aura_bearer
<1>6. CASE ArmFailed
  BY <1>6, Zenon DEF ArmFailed
<1>7. CASE arm
  BY <1>7, Zenon DEF arm
<1>8. CASE enter_accepted
  BY <1>8, Zenon DEF enter_accepted
<1>9. CASE enter_uncertain
  BY <1>9, Zenon DEF enter_uncertain
<1>10. CASE enter_not_sent
  BY <1>10, Zenon DEF enter_not_sent
<1>11. CASE execute
  BY <1>11, Zenon DEF execute
<1>12. CASE execute_failed
  BY <1>12, Zenon DEF execute_failed
<1>13. CASE aura_accepted
  BY <1>13, Zenon DEF aura_accepted, Answer, PairLifecycle
<1>14. CASE aura_not_sent
  BY <1>14, Zenon DEF aura_not_sent
<1>15. CASE aura_uncertain
  BY <1>15, Zenon DEF aura_uncertain
<1>16. CASE exit_accepted
  BY <1>16, Zenon DEF exit_accepted, Answer, PairLifecycle
<1>17. CASE exit_failed
  BY <1>17, Zenon DEF exit_failed
<1>18. QED
  BY <1>1, <1>2, <1>3, <1>4, <1>5, <1>6, <1>7, <1>8, <1>9, <1>10, <1>11, <1>12, <1>13, <1>14, <1>15, <1>16, <1>17, Zenon DEF NStep

\* A step of a running method stays inside it, or answers.
LEMMA MethodMoves ==
    ASSUME NTypeOK, NStep
    PROVE  /\ npc' \in MethodSteps \cup {"done"} /\ naction' = naction
           /\ roles' \in SUBSET Roles /\ lifecycle' \in PairLifecycle
           /\ nwrote' \/ roles' = roles
<1>1. /\ npc' \in MethodSteps \cup {"done"} /\ naction' = naction
      /\ roles' \in SUBSET Roles /\ lifecycle' \in PairLifecycle
  <2> USE DEF NTypeOK, RoleSteps, MethodSteps, Applied, WriteApplied, WriteUncertain, PairLifecycle, Roles,
          rejected, latch_unknown, Answer
  <2>1. CASE RecoverTeardown \/ TeardownFailed \/ Release \/ AcquireFailed \/ acquire_fresh_aura_bearer
    BY <2>1, Zenon DEF RecoverTeardown, TeardownFailed, Release, AcquireFailed, acquire_fresh_aura_bearer
  <2>2. CASE ArmFailed \/ arm \/ enter_accepted \/ enter_uncertain \/ enter_not_sent \/ execute \/ execute_failed
    BY <2>2, Zenon DEF ArmFailed, arm, enter_accepted, enter_uncertain, enter_not_sent, execute, execute_failed
  <2>3. CASE aura_accepted \/ aura_not_sent \/ aura_uncertain \/ exit_accepted \/ exit_failed
    BY <2>3, Zenon DEF aura_accepted, aura_not_sent, aura_uncertain, exit_accepted, exit_failed
  <2>4. QED
    BY <2>1, <2>2, <2>3, Zenon DEF NStep
<1>2. nwrote' \/ roles' = roles
  <2> USE DEF WriteApplied, WriteUncertain
  <2>1. CASE RecoverTeardown \/ TeardownFailed \/ Release \/ AcquireFailed \/ acquire_fresh_aura_bearer
    BY <2>1, Zenon DEF RecoverTeardown, TeardownFailed, Release, AcquireFailed, acquire_fresh_aura_bearer
  <2>2. CASE ArmFailed \/ arm \/ enter_accepted \/ enter_uncertain \/ enter_not_sent \/ execute \/ execute_failed
    BY <2>2, Zenon DEF ArmFailed, arm, enter_accepted, enter_uncertain, enter_not_sent, execute, execute_failed
  <2>3. CASE aura_accepted \/ aura_not_sent \/ aura_uncertain \/ exit_accepted \/ exit_failed
    BY <2>3, Zenon DEF aura_accepted, aura_not_sent, aura_uncertain, exit_accepted, exit_failed
  <2>4. QED
    BY <2>1, <2>2, <2>3, Zenon DEF NStep
<1>3. QED
  BY <1>1, <1>2, Zenon

\* A step of a running method keeps every variable of the backend in its domain.
LEMMA MethodType ==
    ASSUME NTypeOK, Placed, NStep, UNCHANGED confirmation, touched' \in BOOLEAN
    PROVE  NTypeOK'
<1>1. /\ npc' \in MethodSteps \cup {"done"} /\ naction' = naction
      /\ roles' \in SUBSET Roles /\ lifecycle' \in PairLifecycle
  BY MethodMoves, Zenon
<1>2. npc' \in {"aura_start", "exit"} => evidence' \in PairBackendEvidence
  <2> USE DEF NTypeOK, PairBackendEvidence, rejected, latch_unknown, Answer
  <2>1. CASE RecoverTeardown \/ TeardownFailed \/ Release \/ AcquireFailed \/ acquire_fresh_aura_bearer
    BY <2>1, Zenon DEF RecoverTeardown, TeardownFailed, Release, AcquireFailed, acquire_fresh_aura_bearer
  <2>2. CASE ArmFailed \/ arm \/ enter_accepted \/ enter_uncertain \/ enter_not_sent \/ execute \/ execute_failed
    BY <2>2, Zenon DEF ArmFailed, arm, enter_accepted, enter_uncertain, enter_not_sent, execute, execute_failed
  <2>3. CASE aura_accepted \/ aura_not_sent \/ aura_uncertain \/ exit_accepted \/ exit_failed
    BY <2>3, Zenon DEF aura_accepted, aura_not_sent, aura_uncertain, exit_accepted, exit_failed
  <2>4. QED
    BY <2>1, <2>2, <2>3, Zenon DEF NStep
<1>3. nreply' \in PairActionResult
  <2> USE AnswerKinds, RejectedAnswer, UnknownAnswer DEF NTypeOK, Placed, Starting, Answer
  <2>1. CASE RecoverTeardown \/ TeardownFailed \/ Release \/ AcquireFailed \/ acquire_fresh_aura_bearer
    BY <2>1, Zenon DEF PairLifecycle, PairBackendEvidence, RecoverTeardown, TeardownFailed, Release, AcquireFailed, acquire_fresh_aura_bearer
  <2>2. CASE ArmFailed \/ arm \/ enter_accepted \/ enter_uncertain \/ enter_not_sent \/ execute \/ execute_failed
    BY <2>2, Zenon DEF ArmFailed, arm, enter_accepted, enter_uncertain, enter_not_sent, execute, execute_failed
  <2>3. CASE aura_accepted \/ aura_not_sent \/ aura_uncertain \/ exit_accepted \/ exit_failed
    BY <2>3, Zenon DEF PairLifecycle, aura_accepted, aura_not_sent, aura_uncertain, exit_accepted, exit_failed
  <2>4. QED
    BY <2>1, <2>2, <2>3, Zenon DEF NStep
<1>4. latched' \in BOOLEAN /\ bearer' \in BOOLEAN /\ auraLatched' \in BOOLEAN
  <2> USE DEF NTypeOK, aura, AuraShutdown, rejected, latch_unknown
  <2>1. \A reading \in AuraReadings : reading[2] \in BOOLEAN
    BY ReadingType, Zenon
  <2>2. CASE RecoverTeardown \/ TeardownFailed \/ Release \/ AcquireFailed \/ acquire_fresh_aura_bearer
    BY <2>2, Zenon DEF RecoverTeardown, TeardownFailed, Release, AcquireFailed, acquire_fresh_aura_bearer
  <2>3. CASE ArmFailed \/ arm \/ enter_accepted \/ enter_uncertain \/ enter_not_sent \/ execute \/ execute_failed
    BY <2>3, Zenon DEF ArmFailed, arm, enter_accepted, enter_uncertain, enter_not_sent, execute, execute_failed
  <2>4. CASE aura_accepted \/ aura_not_sent \/ aura_uncertain \/ exit_accepted \/ exit_failed
    BY <2>1, <2>4, Zenon DEF aura_accepted, aura_not_sent, aura_uncertain, exit_accepted, exit_failed
  <2>5. QED
    BY <2>2, <2>3, <2>4, Zenon DEF NStep
<1>5. nwrote' \in BOOLEAN
  <2> USE DEF NTypeOK, WriteApplied, WriteUncertain
  <2>1. CASE RecoverTeardown \/ TeardownFailed \/ Release \/ AcquireFailed \/ acquire_fresh_aura_bearer
    BY <2>1, Zenon DEF RecoverTeardown, TeardownFailed, Release, AcquireFailed, acquire_fresh_aura_bearer
  <2>2. CASE ArmFailed \/ arm \/ enter_accepted \/ enter_uncertain \/ enter_not_sent \/ execute \/ execute_failed
    BY <2>2, Zenon DEF ArmFailed, arm, enter_accepted, enter_uncertain, enter_not_sent, execute, execute_failed
  <2>3. CASE aura_accepted \/ aura_not_sent \/ aura_uncertain \/ exit_accepted \/ exit_failed
    BY <2>3, Zenon DEF aura_accepted, aura_not_sent, aura_uncertain, exit_accepted, exit_failed
  <2>4. QED
    BY <2>1, <2>2, <2>3, Zenon DEF NStep
<1>6. QED
  BY <1>1, <1>2, <1>3, <1>4, <1>5, Zenon DEF NTypeOK

-----------------------------------------------------------------------------
(* The steps of the service *)

\* The end of a process, in either model of it, forgets what is not on file.
LEMMA ProcessEnds ==
    ASSUME ServiceInv, SafeInv, Forget, Volatile("down"), touched' = FALSE, UNCHANGED confirmation
    PROVE  ServiceInv'
<1> USE DEF ServiceInv, Forget, Volatile
<1>1. NTypeOK'
  <2>1. lifecycle' \in PairLifecycle /\ nreply' \in PairActionResult /\ naction' = "None" /\ npc' = "down"
    BY AnswerKinds, Zenon DEF PairLifecycle
  <2>2. QED
    BY <2>1, Zenon DEF NTypeOK
<1>2. Coupled' /\ Placed' /\ Ordered' /\ Reported' /\ ManagedTrue'
  BY Zenon DEF Coupled, Placed, Ordered, Reported, ManagedTrue, MethodSteps, RoleSteps
<1>3. HalfRecorded' /\ Nested'
  BY Zenon DEF HalfRecorded, Nested, Switched, Released
<1>4. QED
  BY <1>1, <1>2, <1>3, Zenon

\* A request between two mutations, and its gates, leave the roles and what the
\* backend knows of them alone, and show no state that was not shown before.
LEMMA RequestStep ==
    ASSUME ServiceInv, SafeInv, SRequest, UNCHANGED confirmation
    PROVE  ServiceInv'
<1>1. /\ pc = "idle" /\ pc' \in {"idle", "mark"} /\ ~wrote /\ ~wrote' /\ exposed' = exposed
      /\ managed' \in {managed, "Unknown"}
  BY DEF SRequest, SStatus, SGates, SBegin, status, RejectGated, ShutdownReleased, RejectPreflight,
         AnswerIdempotent, BeginMutation, Gated, finish, memory, history, SafeInv, CallInv
<1>2. \/ UNCHANGED nvars
      \/ \E reading \in AuraReadings : health(reading)
  BY Zenon DEF SRequest, SStatus, SGates, SBegin
<1>3. /\ npc' = npc /\ naction' = naction /\ lifecycle' = lifecycle /\ nreply' = nreply
      /\ roles' = roles /\ nwrote' = nwrote /\ evidence' = evidence
      /\ latched' = latched /\ auraLatched' = auraLatched /\ bearer' \in BOOLEAN
  BY <1>2, ReadingType, Zenon DEF ServiceInv, NTypeOK, nvars, aura, health
<1>4. touched' = touched /\ npc = "idle"
  BY <1>1, Zenon DEF SRequest, SStatus, SGates, SBegin, ServiceInv, Coupled, NTypeOK, MethodSteps, RoleSteps
<1>5. NTypeOK'
  BY <1>3, <1>4, Zenon DEF ServiceInv, NTypeOK
<1>6. Coupled' /\ Placed' /\ Reported' /\ Ordered'
  BY <1>1, <1>3, <1>4, Zenon DEF ServiceInv, Coupled, Placed, Reported, Ordered, Starting, Switched, Released,
                        MethodSteps, RoleSteps
<1>7. HalfRecorded' /\ Nested' /\ ManagedTrue'
  BY <1>1, <1>3, <1>4, Zenon DEF ServiceInv, HalfRecorded, Nested, ManagedTrue, KnownRoles, Switched, Released
<1>8. QED
  BY <1>5, <1>6, <1>7, Zenon DEF ServiceInv

\* What the roles of an accepted receipt are, as sets.
LEMMA RolesTell ==
    ASSUME NTypeOK
    PROVE  /\ KnownRoles \subseteq roles <=> Switched
           /\ KnownRoles \cap roles = {} <=> Released
           /\ HalfSwitched <=> ~Switched /\ ~Released
<1>1. /\ KnownRoles \subseteq roles <=> Switched
      /\ KnownRoles \cap roles = {} <=> Released
  BY Zenon DEF NTypeOK, KnownRoles, Roles, Switched, Released
<1>2. KnownRoles \cap roles = KnownRoles <=> KnownRoles \subseteq roles
  BY Zenon
<1>3. KnownRoles \cap roles = roles \cap KnownRoles
  BY Zenon
<1>4. QED
  BY <1>1, <1>2, <1>3, Zenon DEF HalfSwitched

\* The steps of the controller around the backend.  An accepted and verified
\* action clears the record of its writes only when it has left the pair whole.
LEMMA ControllerKeeps ==
    ASSUME TInv, ServiceInv, SafeInv, SController, UNCHANGED confirmation
    PROVE  ServiceInv'
<1>1. /\ ControllerStep
      /\ npc' = npc /\ naction' = naction /\ lifecycle' = lifecycle /\ nreply' = nreply
      /\ roles' = roles /\ nwrote' = nwrote /\ evidence' = evidence /\ touched' = touched
      /\ latched' = latched /\ auraLatched' = auraLatched /\ bearer' = bearer
  BY Zenon DEF SController, nvars, aura
<1>2. /\ NTypeOK /\ Coupled /\ Placed /\ Ordered /\ Reported /\ HalfRecorded /\ Nested
      /\ TypeOK
  BY Zenon DEF ServiceInv, TInv
<1>3. pc \in {"mark", "reduce", "clear"} /\ npc = "idle" /\ ~nwrote
  <2>1. jpc = "mark" => pc = "mark"
    BY <1>2, Zenon DEF SafeInv, JournalStep, TypeOK
  <2>2. pc \in {"mark", "reduce", "clear"}
    BY <1>1, <2>1, Zenon DEF ControllerStep, PublishMark, Publish, MarkFailed, MarkCommitted, ReduceRejected, ReduceUnknown,
       FailPostcondition, CallClear, CommitClear, ClearFailed, FinishRejected, FinishAccepted
  <2>3. QED
    BY <1>2, <2>2, Zenon DEF Coupled, NTypeOK, MethodSteps, RoleSteps
<1>4. NTypeOK' /\ Placed' /\ Ordered' /\ Nested'
  <2>1. NTypeOK'
    BY <1>1, <1>2, Zenon DEF NTypeOK
  <2>2. QED
    BY <1>1, <1>2, <2>1 DEF Placed, Ordered, Nested, Starting, Switched, Released
<1>5. action \in Actions /\ (action = "RecoverStop" \/ ~exposed)
  BY <1>2, <1>3, Zenon DEF SafeInv, CallInv, Running, TypeOK
<1>6. RolesAfter(action) => Switched \/ Released
  BY <1>2, <1>5, Zenon DEF RolesAfter, Actions, HalfRecorded, Coupled
<1>7. /\ pc' \in {"idle", "mark", "backend", "clear"}
      /\ pc' = "backend" => ~wrote'
      /\ pc' = "clear" => action' = action /\ reply' = reply /\ pc \in {"reduce", "clear"}
      /\ wrote' => wrote
  <2> USE <1>3 DEF SafeInv, CallInv, finish, call, history
  <2>1. CASE PublishMark \/ MarkFailed \/ MarkCommitted
    BY <2>1 DEF PublishMark, Publish, MarkFailed, MarkCommitted, JournalStep
  <2>2. CASE ReduceRejected \/ ReduceUnknown
    BY <2>2, Zenon DEF ReduceRejected, ReduceUnknown
  <2>3. ASSUME NEW config \in PairConfigurationState, FailPostcondition(config) \/ CallClear(config)
        PROVE  <1>7!:
    BY <2>3 DEF FailPostcondition, CallClear
  <2>4. CASE CommitClear \/ ClearFailed \/ FinishRejected \/ FinishAccepted
    BY <2>4, Zenon DEF CommitClear, ClearFailed, FinishRejected, FinishAccepted
  <2>5. QED
    BY <1>1, <2>1, <2>2, <2>3, <2>4, Zenon DEF ControllerStep
<1>8. HalfRecorded'
  <2> USE <1>1, <1>2, <1>3 DEF HalfRecorded, Switched, Released, finish, history
  <2>1. CASE PublishMark \/ MarkFailed \/ MarkCommitted
    BY <2>1, Zenon DEF PublishMark, MarkFailed, MarkCommitted, SafeInv, CallInv
  <2>2. CASE ReduceRejected \/ ReduceUnknown
    BY <2>2, Zenon DEF ReduceRejected, ReduceUnknown
  <2>3. ASSUME NEW config \in PairConfigurationState, FailPostcondition(config) \/ CallClear(config)
        PROVE  HalfRecorded'
    BY <2>3, Zenon DEF FailPostcondition, CallClear
  <2>4. CASE CommitClear
    BY <1>6, <2>4, Zenon DEF CommitClear, Reported
  <2>5. CASE ClearFailed \/ FinishRejected
    BY <2>5, Zenon DEF ClearFailed, FinishRejected, SafeInv, CallInv
  <2>6. CASE FinishAccepted
    BY <1>6, <2>6, Zenon DEF FinishAccepted, Reported
  <2>7. QED
    BY <2>1, <2>2, <2>3, <2>4, <2>5, <2>6, Zenon DEF ControllerStep
<1>9. ManagedTrue'
  <2>1. CASE pc' # "idle"
    BY <2>1, Zenon DEF ManagedTrue
  <2>2. CASE FinishAccepted
    <3>1. RolesAfter(action) /\ managed' = LiveStateAfter[action]
      BY <1>2, <2>2, Zenon DEF FinishAccepted, Reported
    <3>2. /\ managed' = "Linked" => Switched
          /\ managed' = "Ready" => Released
          /\ managed' = "Offline" /\ touched => Released
      BY <1>5, <3>1 DEF LiveStateAfter, Actions, RolesAfter
    <3>3. QED
      BY <1>1, <1>2, <3>2, RolesTell, Zenon DEF ManagedTrue, KnownRoles
  <2>3. CASE pc' = "idle" /\ ~FinishAccepted
    <3>1. managed' \in {"Unknown", "Degraded"}
      BY <1>1, <1>3, <2>3, Zenon DEF ControllerStep, PublishMark, MarkFailed, MarkCommitted, ReduceRejected, ReduceUnknown,
         FailPostcondition, CallClear, CommitClear, ClearFailed, FinishRejected, LatchUnknown,
         SafeInv, CallInv, Running
    <3>2. QED
      BY <3>1, Zenon DEF ManagedTrue
  <2>4. QED
    BY <2>1, <2>2, <2>3, Zenon
<1>10. Coupled' /\ Reported'
  BY <1>1, <1>2, <1>3, <1>7, Zenon DEF Coupled, Reported, RolesAfter, Switched, Released, MethodSteps, RoleSteps
<1>11. QED
  BY <1>4, <1>8, <1>9, <1>10, Zenon DEF ServiceInv

\* While a method runs, what it knows of the roles is what the service knows.
LEMMA Within ==
    ASSUME ServiceInv, SafeInv, pc = "backend"
    PROVE  MethodInv \/ npc = "idle"
<1>1. npc \in MethodSteps \cup {"done", "idle"}
  BY Zenon DEF ServiceInv, NTypeOK, Coupled
<1>2. CASE npc \in MethodSteps \cup {"done"}
  <2>1. naction = action /\ (nwrote <=> wrote) /\ (action = "RecoverStop" \/ ~exposed)
    BY <1>2, Zenon DEF ServiceInv, Coupled, SafeInv, CallInv, Running
  <2>2. QED
    BY <2>1, Zenon DEF ServiceInv, MethodInv, HalfRecorded, Reported, Coupled
<1>3. QED
  BY <1>1, <1>2, Zenon

\* The call of a method.  An answer without a write relies on what the
\* lifecycle tells of the roles.
LEMMA CallKeeps ==
    ASSUME TInv, ServiceInv, SafeInv, SCall, UNCHANGED confirmation
    PROVE  ServiceInv'
<1>1. /\ pc = "backend" /\ npc = "idle" /\ naction' = action /\ action \in Actions
      /\ roles' = roles /\ nwrote' = nwrote /\ evidence' = evidence /\ touched' = touched
      /\ pc' = pc /\ action' = action /\ wrote' = wrote /\ exposed' = exposed /\ reply' = reply
      /\ managed' = managed /\ confirmation' = confirmation
  BY Zenon DEF SCall, Method, AnswerAtOnce, BeginTransaction, BeginRelease, BeginRecovery, Enter,
         vars, memory, call, history, TInv, Running
<1>2. ~nwrote
  BY <1>1, Zenon DEF ServiceInv, Placed
<1>3. latched' \in BOOLEAN /\ auraLatched' \in BOOLEAN /\ bearer' \in BOOLEAN
  <2>1. NTypeOK /\ \A reading \in AuraReadings : reading[2] \in BOOLEAN
    BY ReadingType, Zenon DEF ServiceInv
  <2>2. QED
    BY <2>1, Zenon DEF NTypeOK, SCall, Method, AnswerAtOnce, BeginTransaction, BeginRelease, BeginRecovery, aura
<1>4. Nested' /\ HalfRecorded' /\ ManagedTrue'
  BY <1>1, Zenon DEF ServiceInv, Nested, HalfRecorded, ManagedTrue, Switched, Released
<1>5. CASE AnswerAtOnce(action)
  <2>1. /\ npc' = "done" /\ lifecycle' = lifecycle
        /\ \/ nreply' = OutcomeUnknown
           \/ /\ nreply' = Accepted(lifecycle, "LocalSessionState")
              /\ action \in {"Start", "Stop"} /\ lifecycle = Target[action]
    BY <1>5, Zenon DEF AnswerAtOnce, Answer, Target
  <2>2. /\ nreply' \in PairActionResult /\ nreply'.kind # "RejectedBeforeSend"
        /\ nreply'.kind = "Accepted" => action \in {"Start", "Stop"} /\ lifecycle = Target[action]
    BY <2>1, AnswerKinds, Zenon DEF ServiceInv, NTypeOK, PairBackendEvidence
  <2>3. NTypeOK'
    BY <1>1, <1>3, <2>1, <2>2, Zenon DEF ServiceInv, NTypeOK
  <2>4. Coupled' /\ Placed' /\ Ordered'
    BY <1>1, <1>2, <2>1, <2>2, Zenon DEF ServiceInv, Coupled, Placed, Ordered, Switched, Released, MethodSteps, RoleSteps
  <2>5. Reported'
    BY <1>1, <2>1, <2>2 DEF ServiceInv, Ordered, Reported, RolesAfter, Target, Switched, Released
  <2>6. QED
    BY <1>4, <2>3, <2>4, <2>5, Zenon DEF ServiceInv
<1>6. CASE BeginTransaction(action) \/ BeginRelease(action) \/ BeginRecovery(action)
  <2>1. /\ nreply' = nreply
        /\ \/ npc' = "acquire" /\ lifecycle' = lifecycle
           \/ npc' = "release" /\ action = "Shutdown" /\ lifecycle \in {"Ready", "Offline"} /\ lifecycle' = "ShuttingDown"
           \/ npc' = "recover" /\ action = "RecoverStop" /\ lifecycle' = "Recovering"
    BY <1>6, Zenon DEF BeginTransaction, BeginRelease, BeginRecovery
  <2>2. NTypeOK'
    <3>1. npc' \in MethodSteps /\ lifecycle' \in PairLifecycle /\ npc' \notin {"aura_start", "exit"}
      BY <2>1, Zenon DEF ServiceInv, NTypeOK, MethodSteps, PairLifecycle
    <3>2. QED
      BY <1>1, <1>3, <2>1, <3>1, Zenon DEF ServiceInv, NTypeOK
  <2>3. Coupled' /\ Placed' /\ Ordered' /\ Reported'
    BY <1>1, <1>2, <2>1, Zenon DEF ServiceInv, Coupled, Placed, Ordered, Reported, RolesAfter, Starting, Switched, Released, MethodSteps, RoleSteps
  <2>4. QED
    BY <1>4, <2>2, <2>3, Zenon DEF ServiceInv
<1>7. QED
  BY <1>5, <1>6, Zenon DEF SCall, Method

\* A step of the running method, with the controller waiting for it.
LEMMA NativeKeeps ==
    ASSUME TInv, ServiceInv, SafeInv, SNative, UNCHANGED confirmation
    PROVE  ServiceInv'
<1>1. /\ NStep /\ pc = "backend" /\ pc' = "backend" /\ action' = action /\ exposed' = exposed
      /\ nwrote' => wrote'
      /\ ~nwrote' => wrote' = wrote
  BY Zenon DEF SNative, BackendWrite, vars, memory, call, history
<1>2. npc \in MethodSteps
  BY <1>1, Zenon DEF NStep, MethodSteps, RoleSteps, RecoverTeardown, TeardownFailed, Release, AcquireFailed,
     acquire_fresh_aura_bearer, ArmFailed, arm, enter_accepted, enter_uncertain, enter_not_sent, execute,
     execute_failed, aura_accepted, aura_not_sent, aura_uncertain, exit_accepted, exit_failed
<1>3. NTypeOK /\ MethodInv /\ Placed /\ naction = action /\ (nwrote <=> wrote) /\ HalfRecorded
  BY <1>1, <1>2, Within, Zenon DEF ServiceInv, Coupled, MethodSteps, RoleSteps
<1>4. touched' = (touched \/ nwrote')
  BY Zenon DEF SNative
<1>5. touched' \in BOOLEAN /\ (touched' <=> touched \/ nwrote')
  BY <1>4, Zenon
<1>6. /\ MethodInv' /\ npc' \in MethodSteps \cup {"done"}
      /\ naction' = naction /\ (nwrote => nwrote')
  BY <1>1, <1>3, <1>5, MethodStep, Zenon
<1>7. NTypeOK'
  BY <1>1, <1>3, <1>5, MethodType, Zenon
<1>8. Coupled' /\ Reported' /\ ManagedTrue'
  BY <1>1, <1>3, <1>5, <1>6, <1>7 DEF MethodInv, Coupled, Reported, ManagedTrue, MethodSteps, RoleSteps, RolesAfter, Switched, Released
<1>9. HalfRecorded'
  <2>1. nwrote' \/ roles' = roles
    BY <1>1, <1>3, MethodMoves, Zenon
  <2>2. QED
    BY <1>1, <1>3, <1>6, <2>1, Zenon DEF HalfRecorded, Switched, Released
<1>10. QED
  BY <1>6, <1>7, <1>8, <1>9, Zenon DEF ServiceInv, MethodInv

\* The answer of the backend reaches the controller as it was given.
LEMMA ReplyKeeps ==
    ASSUME ServiceInv, SafeInv, SReply, UNCHANGED confirmation
    PROVE  ServiceInv'
<1>1. /\ npc = "done" /\ npc' = "idle" /\ pc = "backend" /\ pc' = "reduce" /\ action' = action
      /\ reply' = nreply /\ roles' = roles /\ lifecycle' = lifecycle /\ touched' = touched
      /\ wrote' = wrote /\ exposed' = exposed /\ naction' = "None" /\ nwrote' = FALSE
      /\ nreply' \in PairActionResult
      /\ latched' = latched /\ auraLatched' = auraLatched /\ bearer' = bearer
  BY AnswerKinds, Zenon DEF SReply, Reply, Return, checked_action, memory, history, aura
<1>2. NTypeOK'
  BY <1>1, Zenon DEF ServiceInv, NTypeOK
<1>3. Coupled' /\ Placed' /\ Ordered' /\ Reported' /\ HalfRecorded' /\ Nested' /\ ManagedTrue'
  BY <1>1, Zenon DEF ServiceInv, Coupled, Placed, Ordered, Reported, RolesAfter, HalfRecorded, Nested, ManagedTrue, Switched, Released,
              MethodSteps, RoleSteps
<1>4. QED
  BY <1>2, <1>3, Zenon DEF ServiceInv

-----------------------------------------------------------------------------
(* Theorems *)

\* Every step of the service preserves ServiceInv.
LEMMA ServiceStep ==
    ASSUME TInv, SafeInv, ServiceInv, [SNext]_svars
    PROVE  ServiceInv'
<1>1. CASE SBoot /\ UNCHANGED confirmation
  <2>1. /\ pc = "down" /\ pc' = "idle" /\ npc' = "idle" /\ managed' = "Unknown" /\ lifecycle' = "Offline"
        /\ roles' = roles /\ touched' = touched /\ wrote' = wrote /\ exposed' = exposed
        /\ nwrote' = FALSE /\ naction' = "None" /\ nreply' = OutcomeUnknown
        /\ latched' = FALSE /\ bearer' = FALSE /\ auraLatched' = FALSE
    BY <1>1, Zenon DEF SBoot, Boot, NBoot, Volatile, call, history
  <2>2. NTypeOK'
    <3>1. lifecycle' \in PairLifecycle /\ nreply' \in PairActionResult
      BY <2>1, AnswerKinds, Zenon DEF PairLifecycle
    <3>2. QED
      BY <1>1, <2>1, <3>1, Zenon DEF ServiceInv, NTypeOK
  <2>3. ~wrote
    BY <2>1, Zenon DEF SafeInv, CallInv
  <2>4. QED
    BY <1>1, <2>1, <2>2, <2>3, Zenon DEF ServiceInv, Coupled, Placed, Ordered, Reported, HalfRecorded, Nested, ManagedTrue,
       Switched, Released, MethodSteps, RoleSteps
<1>2. CASE (SCrash \/ SExit) /\ UNCHANGED confirmation
  BY <1>2, ProcessEnds, Zenon DEF SCrash, SExit, Crash, PowerLoss
<1>3. CASE STeardown /\ UNCHANGED confirmation
  <2>1. /\ pc = "idle" /\ pc' = pc /\ npc' = "leaving" /\ managed' = managed /\ lifecycle' = lifecycle
        /\ roles' = roles /\ touched' = touched /\ wrote' = wrote /\ exposed' = exposed
        /\ nwrote' = nwrote /\ naction' = naction /\ nreply' = nreply /\ latched' = latched
        /\ reply' = reply /\ action' = action
    BY <1>3, Zenon DEF STeardown, teardown_transport, vars, memory, call, history
  <2>2. bearer' \in BOOLEAN /\ auraLatched' \in BOOLEAN
    BY <1>3, Zenon DEF STeardown, teardown_transport, AuraShutdown, aura, ServiceInv, NTypeOK
  <2>3. NTypeOK'
    BY <1>3, <2>1, <2>2, Zenon DEF ServiceInv, NTypeOK
  <2>4. QED
    BY <1>3, <2>1, <2>3, Zenon DEF ServiceInv, Coupled, Placed, Ordered, Reported, HalfRecorded, Nested, ManagedTrue, KnownRoles,
       Switched, Released, MethodSteps, RoleSteps
<1>4. CASE SRequest /\ UNCHANGED confirmation
  BY <1>4, RequestStep, Zenon
<1>5. CASE SController /\ UNCHANGED confirmation
  BY <1>5, ControllerKeeps, Zenon
<1>6. CASE SCall /\ UNCHANGED confirmation
  BY <1>6, CallKeeps, Zenon
<1>7. CASE SNative /\ UNCHANGED confirmation
  BY <1>7, NativeKeeps, Zenon
<1>8. CASE SReply /\ UNCHANGED confirmation
  BY <1>8, ReplyKeeps, Zenon
<1>9. CASE UNCHANGED svars
  <2>1. NTypeOK'
    BY <1>9, Zenon DEF svars, nvars, aura, ServiceInv, NTypeOK
  <2>2. QED
    BY <1>9, <2>1 DEF svars, nvars, vars, memory, call, history, ServiceInv, Coupled, Placed, Ordered, Reported, RolesAfter,
       HalfRecorded, Nested, ManagedTrue, KnownRoles, Starting, Switched, Released
<1>10. QED
  BY <1>1, <1>2, <1>3, <1>4, <1>5, <1>6, <1>7, <1>8, <1>9, Zenon DEF SNext

\* A service that has not started finds a half-switched pair on record.
LEMMA InitService ==
    ASSUME SInit
    PROVE  TInv /\ SafeInv /\ ServiceInv
<1>1. TInv /\ SafeInv
  BY InitSafe, Zenon DEF SInit
<1>2. NTypeOK
  <2>1. lifecycle \in PairLifecycle /\ nreply \in PairActionResult
    BY AnswerKinds, Zenon DEF SInit, NInit, PairLifecycle
  <2>2. QED
    BY <2>1, Zenon DEF SInit, NInit, NTypeOK
<1>3. HalfRecorded
  BY <1>2, RolesTell, Zenon DEF SInit, HalfRecorded
<1>4. Coupled /\ Placed /\ Ordered /\ Reported /\ Nested /\ ManagedTrue
  BY Zenon DEF SInit, Init, NInit, Coupled, Placed, Ordered, Reported, ManagedTrue, MethodSteps, RoleSteps
<1>5. QED
  BY <1>1, <1>2, <1>3, <1>4, Zenon DEF ServiceInv

\* The inductive invariant of the composition.  The controller's own invariant
\* carries over because every step of the service is one of the controller.
THEOREM ServiceInvariant == SSpec => [](TInv /\ SafeInv /\ ServiceInv)
<1>1. TInv /\ SafeInv /\ ServiceInv /\ [SNext]_svars => (TInv /\ SafeInv /\ ServiceInv)'
  <2> SUFFICES ASSUME TInv, SafeInv, ServiceInv, [SNext]_svars
               PROVE  (TInv /\ SafeInv /\ ServiceInv)'
    BY Zenon
  <2>1. [Next]_vars
    BY StepImplements, Zenon DEF ServiceInv
  <2>2. QED
    BY <2>1, TypeStep, SafeStep, ServiceStep, Zenon
<1>2. QED
  BY <1>1, InitService, PTL DEF SSpec

\* The native backend keeps the contract of PairActionResult: the composition
\* implements the controller over an abstract backend, so everything proved of
\* PairController holds of the service.
THEOREM ServiceImplementsController == SSpec => ImplementsController
<1>1. SInit => Init
  BY Zenon DEF SInit
<1>2. TInv /\ SafeInv /\ ServiceInv /\ [SNext]_svars => [Next]_vars
  BY StepImplements, Zenon DEF ServiceInv
<1>3. QED
  BY <1>1, <1>2, ServiceInvariant, PTL DEF SSpec, ImplementsController, Spec

\* Whatever fails or crashes between two role writes, the receiver is never in
\* its role without the speaker it listens to.
THEOREM ReceiverIsNested == SSpec => []ReceiverNested
<1>1. ServiceInv => ReceiverNested
  BY Zenon DEF ServiceInv, ReceiverNested
<1>2. QED
  BY <1>1, ServiceInvariant, PTL

\* Between requests the state the controller shows is true of the speakers.
THEOREM ManagedIsTrue == SSpec => []ManagedTrue
<1>1. ServiceInv => ManagedTrue
  BY Zenon DEF ServiceInv
<1>2. QED
  BY <1>1, ServiceInvariant, PTL

\* A half-switched pair is on record for every later process, also after the
\* host has lost power.
THEOREM HalfSwitchedIsPending == SSpec => []HalfSwitchedPending
<1>1. SafeInv /\ ServiceInv => HalfSwitchedPending
  <2> SUFFICES ASSUME SafeInv, ServiceInv, HalfSwitched PROVE reopen = "Pending" /\ survivors = {"Pending"}
    BY Zenon DEF HalfSwitchedPending
  <2>1. wrote \/ exposed
    BY RolesTell, Zenon DEF ServiceInv, HalfRecorded
  <2>2. QED
    BY <2>1, Zenon DEF SafeInv, WriteCovered
<1>2. QED
  BY <1>1, ServiceInvariant, PTL
\* What is promised of the controller over any backend that keeps the contract,
\* the service keeps: an unresolved role write of the native backend is covered
\* by a durable record and never retried blindly, and only a verified
\* RecoverStop releases its latch.
THEOREM ServiceIsSafe ==
    SSpec => /\ [](WriteCovered /\ NoBlindWrite /\ LatchMatchesJournal /\ LiveStateTrusted)
             /\ LatchReleasedByRecovery /\ RevisionTracksState
<1>1. Spec => [](WriteCovered /\ NoBlindWrite /\ LatchMatchesJournal /\ LiveStateTrusted)
  BY WritesAreCovered, NoWriteIsBlind, LatchIsTheJournal, LiveStatesAreTrusted, PTL
<1>2. SSpec => Spec
  BY ServiceImplementsController, PTL DEF ImplementsController
<1>3. QED
  BY <1>1, <1>2, LatchReleased, RevisionFollows, PTL

-----------------------------------------------------------------------------
(* How long a mutation may take *)

\* The steps of the methods of the native backend, from the last to the first.
MethodLeft ==
    [step \in MethodSteps \cup {"done", "idle"} |->
        CASE step = "done" -> 0
          [] step = "release" -> 1
          [] step \in {"exit", "aura_start"} -> 2
          [] step = "execute" -> 3
          [] step \in {"aura_stop", "enter"} -> 4
          [] step = "arm" -> 5
          [] step = "acquire" -> 6
          [] step = "recover" -> 7
          [] step = "idle" -> 8]

\* How far the pending record is from being visible and durable.
MarksLeft == IF survivors = {"Pending"} THEN 0 ELSE IF reopen = "Pending" THEN 1 ELSE 2

\* The steps a mutation may still make.
MutationLeft ==
    CASE pc \in {"down", "idle"} -> 0
      [] pc = "clear" -> IF reopen = "Pending" THEN 2 ELSE 1
      [] pc = "reduce" -> 3
      [] pc = "backend" -> 4 + MethodLeft[npc]
      [] pc = "mark" -> 13 + MarksLeft

\* A step of the running mutation, by the controller or by its backend.
Works == SController \/ SCall \/ SNative \/ SReply

\* What each step counts.
LEMMA MethodCount ==
    /\ MethodLeft["done"] = 0 /\ MethodLeft["release"] = 1 /\ MethodLeft["exit"] = 2
    /\ MethodLeft["aura_start"] = 2 /\ MethodLeft["execute"] = 3 /\ MethodLeft["aura_stop"] = 4
    /\ MethodLeft["enter"] = 4 /\ MethodLeft["arm"] = 5 /\ MethodLeft["acquire"] = 6
    /\ MethodLeft["recover"] = 7 /\ MethodLeft["idle"] = 8
BY DEF MethodLeft, MethodSteps, RoleSteps

\* What is left of a mutation, by its step.
LEMMA MutationCount ==
    /\ pc \in {"down", "idle"} => MutationLeft = 0
    /\ pc = "clear" /\ reopen = "Pending" => MutationLeft = 2
    /\ pc = "clear" /\ reopen # "Pending" => MutationLeft = 1
    /\ pc = "reduce" => MutationLeft = 3
    /\ pc = "backend" => MutationLeft = 4 + MethodLeft[npc]
    /\ pc = "mark" /\ survivors = {"Pending"} => MutationLeft = 13
    /\ pc = "mark" /\ survivors # {"Pending"} /\ reopen = "Pending" => MutationLeft = 14
    /\ pc = "mark" /\ survivors # {"Pending"} /\ reopen # "Pending" => MutationLeft = 15
BY DEF MutationLeft, MarksLeft

\* The same after a step.
LEMMA MutationCountNext ==
    /\ pc' \in {"down", "idle"} => MutationLeft' = 0
    /\ pc' = "clear" /\ reopen' = "Pending" => MutationLeft' = 2
    /\ pc' = "clear" /\ reopen' # "Pending" => MutationLeft' = 1
    /\ pc' = "reduce" => MutationLeft' = 3
    /\ pc' = "backend" => MutationLeft' = 4 + MethodLeft[npc']
    /\ pc' = "mark" /\ survivors' = {"Pending"} => MutationLeft' = 13
    /\ pc' = "mark" /\ survivors' # {"Pending"} /\ reopen' = "Pending" => MutationLeft' = 14
    /\ pc' = "mark" /\ survivors' # {"Pending"} /\ reopen' # "Pending" => MutationLeft' = 15
BY DEF MutationLeft, MarksLeft

\* A step of a method goes on to a later one; the way of start and the way of
\* stop share the broadcast, and no step of either comes back.
LEMMA MethodGoesOn ==
    ASSUME Placed, NStep
    PROVE  \/ npc \in MethodSteps /\ npc' = "done"
           \/ npc = "recover" /\ npc' = "acquire"
           \/ npc = "acquire" /\ npc' = "arm"
           \/ npc = "arm" /\ npc' \in {"enter", "aura_stop"}
           \/ npc \in {"enter", "aura_stop"} /\ npc' = "execute"
           \/ npc = "execute" /\ npc' \in {"aura_start", "exit"}
           \/ npc = "exit" /\ npc' = "release"
<1> USE DEF MethodSteps, RoleSteps, rejected, latch_unknown, Answer
<1>1. CASE RecoverTeardown \/ TeardownFailed \/ Release \/ AcquireFailed \/ acquire_fresh_aura_bearer
  BY <1>1, Zenon DEF RecoverTeardown, TeardownFailed, Release, AcquireFailed, acquire_fresh_aura_bearer
<1>2. CASE ArmFailed \/ arm \/ enter_accepted \/ enter_uncertain \/ enter_not_sent \/ execute \/ execute_failed
  BY <1>2, Zenon DEF ArmFailed, arm, enter_accepted, enter_uncertain, enter_not_sent, execute, execute_failed
<1>3. CASE aura_accepted \/ aura_not_sent \/ aura_uncertain \/ exit_accepted \/ exit_failed
  BY <1>3, Zenon DEF aura_accepted, aura_not_sent, aura_uncertain, exit_accepted, exit_failed, Placed
<1> QED
  BY <1>1, <1>2, <1>3, Zenon DEF NStep

\* A step of the controller goes on, or brings the record nearer to the disk or
\* away from it, or answers.
LEMMA ControllerGoesOn ==
    ASSUME TypeOK, JournalStep, ControllerStep
    PROVE  \/ pc \in {"mark", "reduce", "clear"} /\ pc' = "idle"
           \/ pc = "mark" /\ pc' = "mark" /\ Publish
           \/ pc = "mark" /\ pc' = "backend"
           \/ pc = "reduce" /\ pc' = "clear"
           \/ pc = "clear" /\ pc' = "clear" /\ reopen = "Pending" /\ reopen' = "Clean"
<1>1. CASE PublishMark
  BY <1>1, Zenon DEF PublishMark, Publish, TypeOK, JournalStep
<1>2. CASE MarkFailed \/ MarkCommitted \/ ReduceRejected \/ ReduceUnknown
  BY <1>2, Zenon DEF MarkFailed, MarkCommitted, ReduceRejected, ReduceUnknown, finish
<1>3. CASE \E config \in PairConfigurationState : FailPostcondition(config) \/ CallClear(config)
  BY <1>3, Zenon DEF FailPostcondition, CallClear, finish
<1>4. CASE CommitClear \/ ClearFailed \/ FinishRejected \/ FinishAccepted
  BY <1>4, Zenon DEF CommitClear, Unpublish, ClearFailed, FinishRejected, FinishAccepted, finish
<1> QED
  BY <1>1, <1>2, <1>3, <1>4, Zenon DEF ControllerStep

\* Every step of a running mutation that changes anything uses up one of the
\* steps it has left.
LEMMA WorkDescends ==
    ASSUME TInv, SafeInv, ServiceInv, Works, UNCHANGED confirmation, ~UNCHANGED svars
    PROVE  MutationLeft' < MutationLeft
<1>1. /\ TypeOK /\ JournalStep /\ Placed
      /\ pc = "mark" => npc = "idle"
      /\ reopen \in {"Clean", "Pending"} /\ reopen \in survivors
  BY Zenon DEF TInv, TypeOK, JTypeOK, JournalState, SafeInv, ServiceInv, NTypeOK, Coupled
<1>2. CASE SCall
  <2>1. pc = "backend" /\ pc' = "backend" /\ npc = "idle" /\ npc' \in {"done", "acquire", "release", "recover"}
    BY <1>2, Zenon DEF SCall, vars, Method, AnswerAtOnce, BeginTransaction, BeginRelease, BeginRecovery, Enter, Answer
  <2> QED
    BY <2>1, MethodCount, MutationCount, MutationCountNext
<1>3. CASE SNative
  <2>1. pc = "backend" /\ pc' = "backend" /\ NStep
    BY <1>3, Zenon DEF SNative, BackendWrite, vars
  <2> QED
    BY <1>1, <2>1, MethodGoesOn, MethodCount, MutationCount, MutationCountNext DEF MethodSteps, RoleSteps
<1>4. CASE SReply
  <2>1. pc = "backend" /\ npc = "done" /\ pc' = "reduce"
    BY <1>4, Zenon DEF SReply, Reply
  <2> QED
    BY <2>1, MethodCount, MutationCount, MutationCountNext
<1>5. CASE SController
  <2>1. ControllerStep /\ npc' = npc
    BY <1>5, Zenon DEF SController, nvars
  <2>2. CASE pc \in {"mark", "reduce", "clear"} /\ pc' = "idle"
    BY <1>1, <2>2, MutationCount, MutationCountNext
  <2>3. CASE pc = "mark" /\ pc' = "mark" /\ Publish
    <3>1. reopen' = "Pending" /\ survivors' \in {survivors \cup {"Pending"}, {"Pending"}}
      BY <2>3, Zenon DEF Publish
    <3>2. ~(survivors' = survivors /\ reopen' = reopen)
      <4> SUFFICES ASSUME survivors' = survivors, reopen' = reopen PROVE UNCHANGED svars
        OBVIOUS
      <4>1. UNCHANGED jvars
        BY <2>3, Zenon DEF Publish, jvars
      <4>2. PublishMark
        BY <1>1, <2>1, <2>3, Zenon DEF ControllerStep, MarkFailed, MarkCommitted, ReduceRejected, ReduceUnknown,
           FailPostcondition, CallClear, CommitClear, ClearFailed, FinishRejected, FinishAccepted, finish
      <4> QED
        BY <1>5, <4>1, <4>2, Zenon DEF PublishMark, SController, svars, vars
    <3>3. survivors # {"Pending"} /\ (survivors' # {"Pending"} => reopen # "Pending")
      BY <1>1, <3>1, <3>2
    <3> QED
      BY <2>3, <3>1, <3>3, MutationCount, MutationCountNext
  <2>4. CASE pc = "mark" /\ pc' = "backend"
    BY <1>1, <2>1, <2>4, MethodCount, MutationCount, MutationCountNext
  <2>5. CASE pc = "reduce" /\ pc' = "clear"
    BY <2>5, MutationCount, MutationCountNext
  <2>6. CASE pc = "clear" /\ pc' = "clear" /\ reopen = "Pending" /\ reopen' = "Clean"
    BY <2>6, MutationCount, MutationCountNext
  <2> QED
    BY <1>1, <2>1, <2>2, <2>3, <2>4, <2>5, <2>6, ControllerGoesOn, Zenon
<1> QED
  BY <1>2, <1>3, <1>4, <1>5, Zenon DEF Works

\* While a mutation runs, every step of the service uses up one of the steps it
\* has left; a crash uses up all of them.
MutationGoesOn == Running => MutationLeft' < MutationLeft

\* A mutation that runs has between one and fifteen steps left.
LEMMA MutationBound ==
    ASSUME TInv, ServiceInv
    PROVE  /\ MutationLeft \in 0..15
           /\ MutationLeft = 0 <=> ~Running
<1>1. /\ pc = "backend" => npc \in MethodSteps \cup {"done", "idle"}
      /\ pc \in {"down", "idle", "mark", "backend", "reduce", "clear"}
  BY Zenon DEF TInv, TypeOK, ServiceInv, NTypeOK, Coupled
<1>2. Running <=> pc \notin {"down", "idle"}
  BY Zenon DEF Running
<1>3. CASE pc = "backend"
  BY <1>1, <1>2, <1>3, MethodCount, MutationCount DEF MethodSteps, RoleSteps
<1>4. QED
  BY <1>1, <1>2, <1>3, MutationCount

\* Nothing but the mutation itself and a crash takes a step while it runs.
LEMMA MutationAlone ==
    ASSUME ServiceInv, SNext, Running
    PROVE  Works \/ SCrash
<1>1. npc # "leaving"
  BY Zenon DEF ServiceInv, Coupled, Running
<1>2. ~SBoot /\ ~STeardown /\ ~SExit
  BY <1>1, Zenon DEF SBoot, Boot, STeardown, SExit, Running
<1>3. ~SStatus
  BY Zenon DEF SStatus, status, Running
<1>4. ASSUME NEW a \in Actions PROVE ~SGates(a) /\ ~SBegin(a)
  BY Zenon DEF SGates, SBegin, RejectGated, ShutdownReleased, RejectPreflight, AnswerIdempotent,
     BeginMutation, Gated, Running
<1>5. QED
  BY <1>2, <1>3, <1>4, Zenon DEF SNext, SRequest, Works

\* Every change of the service while a mutation runs brings it nearer its end.
LEMMA MutationStep ==
    ASSUME TInv, SafeInv, ServiceInv, SNext, ~UNCHANGED svars, Running
    PROVE  MutationLeft' < MutationLeft
<1>1. CASE Works
  <2>1. UNCHANGED confirmation
    BY Zenon DEF SNext
  <2>2. QED
    BY <1>1, <2>1, WorkDescends, Zenon
<1>2. CASE SCrash
  <2>1. pc' = "down"
    BY <1>2, Zenon DEF SCrash, Crash, PowerLoss, Forget
  <2>2. MutationLeft' = 0
    BY <2>1, MutationCountNext, Zenon
  <2>3. MutationLeft \in 0..15 /\ MutationLeft # 0
    BY MutationBound, Zenon
  <2>4. QED
    BY <2>2, <2>3
<1>3. QED
  BY <1>1, <1>2, MutationAlone, Zenon

\* A mutation ends, whatever its backend and its journal answer: it has at most
\* fifteen steps from the pending record to the answer, every step of the
\* service uses up at least one of them, and none are left exactly when no
\* mutation runs.  That each step is taken is the fairness TLC assumes.
THEOREM MutationCountsDown ==
    SSpec => /\ [](MutationLeft \in 0..15 /\ (MutationLeft = 0 <=> ~Running))
             /\ [][MutationGoesOn]_svars
<1>1. TInv /\ ServiceInv => MutationLeft \in 0..15 /\ (MutationLeft = 0 <=> ~Running)
  BY MutationBound, Zenon
<1>2. TInv /\ SafeInv /\ ServiceInv /\ [SNext]_svars => [MutationGoesOn]_svars
  <2> SUFFICES ASSUME TInv, SafeInv, ServiceInv, SNext, ~UNCHANGED svars, Running
               PROVE  MutationLeft' < MutationLeft
    BY Zenon DEF MutationGoesOn
  <2>1. QED
    BY MutationStep, Zenon
<1>3. QED
  BY <1>1, <1>2, ServiceInvariant, PTL DEF SSpec

-----------------------------------------------------------------------------
(* The way of a recovery *)

\* A receipt recover_stop promises: accepted, and the pair stopped.
Stopped(result) == result.kind = "Accepted" /\ result.lifecycle = "Ready"

\* A recovery none of whose calls has failed so far.
OnCourse ==
    /\ action = "RecoverStop"
    /\ \/ pc = "mark"
       \/ pc = "backend" /\ npc \in {"idle", "recover", "acquire", "arm", "aura_stop", "execute", "exit"}
       \/ pc = "backend" /\ npc = "done" /\ Stopped(nreply)
       \/ pc \in {"reduce", "clear"} /\ Stopped(reply)

\* The latch is open, and both speakers are out of the roles a receipt tells.
Healed == pc = "idle" /\ managed = "Ready" /\ ~unresolved /\ KnownRoles \cap roles = {}

\* A RecoverStop that passes the gates is on course, and stays on course until
\* it has healed the pair, unless something fails.
RecoveryGoesOn ==
    /\ SBegin("RecoverStop") => OnCourse'
    /\ OnCourse /\ ~Disturbance => (OnCourse' /\ MutationLeft' < MutationLeft) \/ Healed'

\* An undisturbed method of a recovery ends in the receipt it promises.
LEMMA NativeOnCourse ==
    ASSUME naction = "RecoverStop", NStep, ~Disturbance,
           npc \in {"idle", "recover", "acquire", "arm", "aura_stop", "execute", "exit", "done"}
    PROVE  \/ npc' \in {"idle", "recover", "acquire", "arm", "aura_stop", "execute", "exit"}
           \/ npc' = "done" /\ Stopped(nreply')
<1>1. RecoverTeardown \/ acquire_fresh_aura_bearer \/ arm \/ execute \/ aura_accepted \/ exit_accepted
         \/ Release \/ enter_accepted
  BY Zenon DEF NStep, Disturbance
<1>2. CASE exit_accepted
  <2>1. npc' = "done" /\ nreply' = Accepted("Ready", evidence)
    BY <1>2, Zenon DEF exit_accepted, Answer
  <2>2. QED
    BY <2>1 DEF Accepted, Stopped
<1>3. CASE ~exit_accepted
  BY <1>1, <1>3, Zenon DEF RecoverTeardown, acquire_fresh_aura_bearer, arm, execute, aura_accepted, Release,
     enter_accepted, Starting
<1>4. QED
  BY <1>2, <1>3, Zenon

\* An undisturbed step of the controller keeps a recovery on course or ends it
\* with the receipt committed.
LEMMA ControllerOnCourse ==
    ASSUME TypeOK, JournalStep, ControllerStep, UNCHANGED npc, OnCourse, ~Disturbance,
           pc = "mark" => npc = "idle"
    PROVE  \/ OnCourse'
           \/ pc' = "idle" /\ managed' = "Ready" /\ ~unresolved'
<1>1. pc = "reduce" => Stopped(reply) /\ ~ReduceRejected /\ ~ReduceUnknown
  BY Zenon DEF OnCourse, Stopped, ReduceRejected, ReduceUnknown, ExpectedLifecycle
<1>2. CASE PublishMark
  <2>1. UNCHANGED <<pc, action>> /\ pc = "mark"
    BY <1>2, Zenon DEF PublishMark, call, Publish, TypeOK, JournalStep
  <2>2. QED
    BY <2>1, Zenon DEF OnCourse
<1>3. CASE MarkCommitted
  <2>1. pc = "mark" /\ pc' = "backend" /\ UNCHANGED action
    BY <1>3, Zenon DEF MarkCommitted, call
  <2>2. QED
    BY <2>1, Zenon DEF OnCourse
<1>4. CASE \E config \in PairConfigurationState : CallClear(config)
  <2>1. pc = "reduce" /\ pc' = "clear" /\ UNCHANGED <<action, reply>>
    BY <1>4, Zenon DEF CallClear, call
  <2>2. QED
    BY <1>1, <2>1, Zenon DEF OnCourse
<1>5. CASE CommitClear
  <2>1. pc = "clear" /\ pc' = "clear" /\ UNCHANGED <<action, reply>>
    BY <1>5, Zenon DEF CommitClear, call
  <2>2. QED
    BY <2>1, Zenon DEF OnCourse
<1>6. CASE FinishAccepted
  BY <1>6 DEF FinishAccepted, finish, OnCourse, LiveStateAfter
<1>7. ~FinishRejected
  BY Zenon DEF FinishRejected, OnCourse, Stopped
<1>8. ReduceRejected \/ ReduceUnknown => pc = "reduce"
  BY Zenon DEF ReduceRejected, ReduceUnknown
<1>9. QED
  BY <1>1, <1>2, <1>3, <1>4, <1>5, <1>6, <1>7, <1>8, Zenon DEF ControllerStep, Disturbance

\* An undisturbed step of the service keeps a recovery on course or heals.
LEMMA StaysOnCourse ==
    ASSUME TInv, SafeInv, ServiceInv, ManagedTrue', SNext, OnCourse, ~Disturbance
    PROVE  OnCourse' \/ Healed'
<1>1. /\ TypeOK /\ JournalStep
      /\ pc = "mark" => npc = "idle"
      /\ npc \in MethodSteps => naction = action
  BY Zenon DEF TInv, TypeOK, SafeInv, ServiceInv, NTypeOK, Coupled
<1>2. Works
  BY MutationAlone, Zenon DEF OnCourse, Running, Disturbance
<1>3. CASE SController
  <2>1. OnCourse' \/ (pc' = "idle" /\ managed' = "Ready" /\ ~unresolved')
    <3>1. ControllerStep /\ UNCHANGED npc
      BY <1>3, Zenon DEF SController, nvars
    <3>2. QED
      BY <1>1, <3>1, ControllerOnCourse, Zenon
  <2>2. QED
    BY <2>1, Zenon DEF Healed, ManagedTrue
<1>4. CASE SCall
  <2>1. pc = "backend" /\ UNCHANGED <<pc, action>> /\ Method("RecoverStop")
    BY <1>4, Zenon DEF SCall, vars, call, OnCourse
  <2>2. npc' = "recover"
    <3>1. "RecoverStop" \notin DOMAIN Target
      BY DEF Target
    <3>2. QED
      BY <2>1, <3>1, Zenon DEF Method, AnswerAtOnce, BeginTransaction, BeginRelease, BeginRecovery
  <2>3. QED
    BY <2>1, <2>2, Zenon DEF OnCourse
<1>5. CASE SNative
  <2>1. pc = "backend" /\ UNCHANGED <<pc, action>> /\ NStep
    BY <1>5, Zenon DEF SNative, BackendWrite, vars, call
  <2>2. npc \in MethodSteps
    BY <2>1, Zenon DEF NStep, RecoverTeardown, TeardownFailed, Release, AcquireFailed, acquire_fresh_aura_bearer,
       ArmFailed, arm, enter_accepted, enter_uncertain, enter_not_sent, execute, execute_failed, aura_accepted,
       aura_not_sent, aura_uncertain, exit_accepted, exit_failed, MethodSteps, RoleSteps
  <2>3. npc \in {"idle", "recover", "acquire", "arm", "aura_stop", "execute", "exit", "done"}
    BY <2>1, Zenon DEF OnCourse
  <2>4. naction = "RecoverStop"
    BY <1>1, <2>2, Zenon DEF OnCourse
  <2>5. QED
    BY <2>1, <2>3, <2>4, NativeOnCourse, Zenon DEF OnCourse
<1>6. CASE SReply
  <2>1. pc' = "reduce" /\ pc = "backend" /\ npc = "done" /\ UNCHANGED action /\ reply' = nreply
    BY <1>6, Zenon DEF SReply, Reply, checked_action
  <2>2. QED
    BY <2>1, Zenon DEF OnCourse
<1>7. QED
  BY <1>2, <1>3, <1>4, <1>5, <1>6, Zenon DEF Works

\* The recover_stop path has no dead end: from the request that passes the
\* gates, every step that does not fail brings the recovery nearer its end, in
\* a process that wrote as in one that only found the journal, and it ends with
\* the latch open and both speakers out of their roles.  Together with the
\* fairness of SRecoverable this is HalfSwitchedHeals, which TLC checks.
THEOREM RecoveryCountsDown == SSpec => [][RecoveryGoesOn]_svars
<1>1. TInv /\ SafeInv /\ ServiceInv /\ (TInv /\ SafeInv /\ ServiceInv)' /\ [SNext]_svars => [RecoveryGoesOn]_svars
  <2> SUFFICES ASSUME TInv, SafeInv, ServiceInv, ServiceInv', SNext, ~UNCHANGED svars
               PROVE  RecoveryGoesOn
    BY Zenon
  <2>1. ASSUME SBegin("RecoverStop") PROVE OnCourse'
    <3>1. pc' = "mark" /\ action' = "RecoverStop"
      BY <2>1, Zenon DEF SBegin, AsksHealth, BeginMutation
    <3>2. QED
      BY <3>1, Zenon DEF OnCourse
  <2>2. ASSUME OnCourse, ~Disturbance PROVE (OnCourse' /\ MutationLeft' < MutationLeft) \/ Healed'
    <3>1. Running
      BY <2>2, Zenon DEF OnCourse, Running
    <3>2. ManagedTrue'
      BY Zenon DEF ServiceInv
    <3>3. QED
      BY <2>2, <3>1, <3>2, StaysOnCourse, MutationStep, Zenon
  <2>3. QED
    BY <2>1, <2>2, Zenon DEF RecoveryGoesOn
<1>2. QED
  BY <1>1, ServiceInvariant, PTL DEF SSpec
=============================================================================
