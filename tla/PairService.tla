----------------------------- MODULE PairService -----------------------------
(***************************************************************************)
(* The service process: PairController over NativePair, as                 *)
(* build_native_service_actor of rust/src/service_runtime.rs composes      *)
(* them.  The controller calls one method of the backend per mutation and  *)
(* waits for it; both die together.                                        *)
(***************************************************************************)
EXTENDS PairController, NativePair

VARIABLE touched    \* history: this process attempted a role write

svars == <<vars, nvars, touched>>

\* The roles whose state an accepted receipt speaks for.
KnownRoles == IF confirmation = "Gena" THEN Roles ELSE {"jbl", "aura"}

HalfSwitched == roles \cap KnownRoles \notin {{}, KnownRoles}

SInit ==
    /\ Init
    /\ NInit
    /\ HalfSwitched => exposed
    /\ touched = FALSE

SBoot == Boot /\ NBoot /\ UNCHANGED touched

SCrash == (Crash \/ PowerLoss) /\ Volatile("down") /\ touched' = FALSE

SStatus ==
    \E config \in PairConfigurationState, reading \in AuraReadings :
        /\ status(config, core_health(reading))
        /\ health(reading)
        /\ UNCHANGED touched

SGates(a) ==
    /\ \/ RejectGated(a)
       \/ ShutdownReleased(a)
       \/ \E config \in PairConfigurationState : RejectPreflight(a, config)
    /\ UNCHANGED <<nvars, touched>>

\* is_idempotent asks the backend only when the managed state already matches.
AsksHealth(a) == a # "RecoverStop" /\ managed = LiveStateAfter[a]

SBegin(a) ==
    \/ /\ AsksHealth(a)
       /\ \E reading \in AuraReadings :
             /\ \/ AnswerIdempotent(a, "Ready", core_health(reading))
                \/ BeginMutation(a, "Ready", core_health(reading))
             /\ health(reading)
       /\ UNCHANGED touched
    \/ /\ ~AsksHealth(a)
       /\ BeginMutation(a, "Ready", NoHealth)
       /\ UNCHANGED <<nvars, touched>>

SController == ControllerStep /\ UNCHANGED <<nvars, touched>>

SCall ==
    /\ pc = "backend"
    /\ Method(action)
    /\ UNCHANGED <<vars, touched>>

SNative ==
    /\ pc = "backend"
    /\ NStep
    /\ IF nwrote' THEN BackendWrite ELSE UNCHANGED vars
    /\ touched' = (touched \/ nwrote')

SReply ==
    /\ npc = "done"
    /\ Reply(nreply, TRUE)
    /\ Return
    /\ UNCHANGED touched

\* teardown_transport_for_exit, after the last request, and the exit.
STeardown == pc = "idle" /\ teardown_transport /\ UNCHANGED <<vars, touched>>
SExit == npc = "leaving" /\ Crash /\ Volatile("down") /\ touched' = FALSE

SRequest == npc # "leaving" /\ (SStatus \/ \E a \in Actions : SGates(a) \/ SBegin(a))

SNext ==
    /\ \/ SBoot \/ SCrash \/ STeardown \/ SExit \/ SRequest
       \/ SController \/ SCall \/ SNative \/ SReply
    /\ UNCHANGED confirmation

SSpec == SInit /\ [][SNext]_svars

\* A crash, an exit, or a call to the journal, the probe or a speaker that fails.
Disturbance ==
    \/ SCrash \/ STeardown
    \/ \E config \in PairConfigurationState : RejectPreflight("RecoverStop", config)
    \/ PublishMark /\ survivors' # {"Pending"}
    \/ MarkFailed
    \/ TeardownFailed \/ AcquireFailed \/ ArmFailed
    \/ enter_uncertain \/ enter_not_sent \/ execute_failed
    \/ aura_not_sent \/ aura_uncertain \/ exit_failed
    \/ \E config \in PairConfigurationState : FailPostcondition(config)
    \/ ClearFailed

\* Disturbances come at any time but stop at some time, the process goes on,
\* and an operator asks for recover-stop once they have.
SRecoverable ==
    /\ <>[][~Disturbance]_svars
    /\ WF_svars((SExit \/ SBoot) /\ UNCHANGED confirmation)
    /\ WF_svars((SController \/ SCall \/ SNative \/ SReply) /\ UNCHANGED confirmation)
    /\ WF_svars(npc # "leaving" /\ SBegin("RecoverStop") /\ UNCHANGED confirmation)

SRecoverySpec == SSpec /\ SRecoverable

-----------------------------------------------------------------------------
(* Properties *)

\* The native backend keeps the contract the controller is specified against:
\* the composition implements PairController with its abstract backend, in
\* particular a rejection really precedes every role write.
ImplementsController == Spec

\* What the controller shows between requests is true of the speakers: Linked
\* and Ready tell the roles of both, across restarts, failed postconditions and
\* recoveries; and a process that has switched roles shows Offline only once
\* both are out of them, so shutdown skips stop only for a pair it never
\* touched or has already stopped.
ManagedTrue ==
    pc = "idle" => /\ managed = "Linked" => KnownRoles \subseteq roles
                   /\ managed = "Ready" => KnownRoles \cap roles = {}
                   /\ managed = "Offline" /\ touched => KnownRoles \cap roles = {}

\* A half-switched pair is never forgotten: whichever write failed, timed out
\* or was cut by a crash of the process or of the host, every later process
\* opens a pending journal until a verified action has made the pair whole.
HalfSwitchedPending ==
    HalfSwitched => reopen = "Pending" /\ survivors = {"Pending"}

\* No sequence of failures and crashes leaves the pair half switched for ever:
\* under SRecoverable the recover_stop path gets through every gate and latch,
\* in a process that wrote as well as in one that only found the journal.
HalfSwitchedHeals == HalfSwitched ~> ~HalfSwitched /\ ~unresolved
=============================================================================
