----------------------------- MODULE NativePair -----------------------------
(***************************************************************************)
(* NativePairCore of rust/src/backend_native.rs, the backend that owns     *)
(* both speakers: JBL Play Together over HTTPS, the JBL broadcaster over   *)
(* GATT (with or without the GENA confirmation) and the Aura receiver over *)
(* an ATT bearer.  Start enters from the broadcaster to the receiver, stop *)
(* leaves from the receiver to the broadcaster, and a crash may come       *)
(* between any two role writes.                                            *)
(***************************************************************************)
EXTENDS PairBackend

VARIABLES
    confirmation,   \* BroadcastConfirmation of the configuration, "Ack" or "Gena"
    npc,            \* "down", "idle", "done", "leaving", or the step of the running method
    naction,        \* the running method
    lifecycle,
    latched,        \* unresolved is Some
    bearer,         \* the Aura transport holds a bearer
    auraLatched,    \* AuraControlCore.unresolved is Some
    armed,          \* what the broadcast observer holds: the GATT bearer, the GENA subscription
    evidence,       \* the broadcast evidence of the running method
    nreply,         \* the result the method is about to return
    roles,          \* the speakers: the roles that are really on
    nwrote          \* history: the running method attempted a role write

aura == <<bearer, auraLatched>>
nvars == <<confirmation, npc, naction, lifecycle, latched, aura, armed, evidence, nreply, roles, nwrote>>

Roles == {"jbl", "cast", "aura"}

\* No receiver without the speaker it listens to.  A GATT acknowledgement
\* alone does not show that the broadcaster really started.
Nested ==
    "aura" \in roles => /\ "jbl" \in roles
                        /\ confirmation = "Gena" => "cast" \in roles

Target == [Start |-> "Linked", Stop |-> "Ready"]

-----------------------------------------------------------------------------
(* The Aura transport *)

\* AuraControlCore.health: what it may report, and whether a bearer is left.
\* A dead or unreadable socket is dropped by the read.
AuraReadings ==
    IF auraLatched THEN {<<"OutcomeUnknown", bearer>>}
    ELSE IF ~bearer THEN {<<"Offline", FALSE>>}
    ELSE {<<"Ready", TRUE>>, <<"Offline", FALSE>>, <<"Unavailable", FALSE>>}

\* AuraControlCore.shutdown that answered Ok.
AuraShutdown == bearer' = FALSE /\ auraLatched' = FALSE

\* NativePairCore.health for one Aura reading.
core_health(reading) ==
    LET healthy == /\ ~latched
                   /\ lifecycle \in {"Ready", "Linked"}
                   /\ reading[1] \in {"Ready", "Offline"}
        offline == ~latched /\ reading[1] = "Offline" /\ lifecycle = "Offline"
    IN [lifecycle |-> IF healthy \/ offline THEN lifecycle ELSE "Degraded",
        reported_error |-> ~healthy /\ ~offline,
        routed |-> reading[2]]

health(reading) ==
    /\ npc = "idle"
    /\ reading \in AuraReadings
    /\ bearer' = reading[2]
    /\ UNCHANGED <<npc, naction, lifecycle, latched, auraLatched, armed, evidence, nreply,
                   roles, nwrote>>

-----------------------------------------------------------------------------
(* Results *)

Answer(result) == npc' = "done" /\ nreply' = result

\* rejected, with the Degraded lifecycle every rejection sets first.
rejected ==
    /\ lifecycle' = "Degraded"
    /\ Answer(RejectedBeforeSend)
    /\ UNCHANGED latched

latch_unknown ==
    /\ latched' = TRUE
    /\ lifecycle' = "Degraded"
    /\ Answer(OutcomeUnknown)

-----------------------------------------------------------------------------
(* The entry of the four methods *)

Enter(a) ==
    /\ npc = "idle"
    /\ naction' = a
    /\ UNCHANGED <<armed, evidence, roles, nwrote>>

\* A latched backend refuses everything but recover_stop; a start or stop that
\* finds its state is accepted without a write.
AnswerAtOnce(a) ==
    /\ Enter(a)
    /\ IF latched
       THEN a # "RecoverStop" /\ Answer(OutcomeUnknown)
       ELSE /\ a \in DOMAIN Target
            /\ lifecycle = Target[a]
            /\ <<"Ready", TRUE>> \in AuraReadings
            /\ Answer(Accepted(lifecycle, "LocalSessionState"))
    /\ UNCHANGED <<lifecycle, latched, aura>>

\* start or stop that has work to do; shutdown of a pair that is not stopped.
BeginTransaction(a) ==
    /\ Enter(a)
    /\ ~latched
    /\ \/ /\ a \in DOMAIN Target
          /\ IF lifecycle = Target[a]
               THEN \E reading \in AuraReadings : reading[1] # "Ready" /\ bearer' = reading[2]
               ELSE UNCHANGED bearer
       \/ a = "Shutdown" /\ lifecycle \notin {"Ready", "Offline"} /\ UNCHANGED bearer
    /\ npc' = "acquire"
    /\ UNCHANGED <<lifecycle, latched, auraLatched, nreply>>

BeginReleaseAnyway(a) ==
    /\ Enter(a)
    /\ ~latched
    /\ a = "Shutdown"
    /\ npc' = "release"
    /\ lifecycle' = "ShuttingDown"
    /\ UNCHANGED <<latched, aura, nreply>>

BeginRelease(a) ==
    /\ Enter(a)
    /\ ~latched
    /\ a = "Shutdown" /\ lifecycle \in {"Ready", "Offline"}
    /\ npc' = "release"
    /\ lifecycle' = "ShuttingDown"
    /\ UNCHANGED <<latched, aura, nreply>>

BeginRecovery(a) ==
    /\ Enter(a)
    /\ a = "RecoverStop"
    /\ npc' = "recover"
    /\ lifecycle' = "Recovering"
    /\ UNCHANGED <<latched, aura, nreply>>

-----------------------------------------------------------------------------
(* recover_stop and shutdown around the transaction *)

\* Only a successful teardown crosses the latch and permits stop.
RecoverTeardown ==
    /\ npc = "recover"
    /\ AuraShutdown
    /\ latched' = FALSE
    /\ lifecycle' = "Degraded"
    /\ npc' = "acquire"
    /\ UNCHANGED <<naction, armed, evidence, nreply, roles, nwrote>>

\* AuraRoleControl.shutdown may fail; the production transport never does.
TeardownFailed ==
    /\ npc \in {"recover", "release"}
    /\ latch_unknown
    /\ UNCHANGED <<naction, aura, armed, evidence, roles, nwrote>>

Release ==
    /\ npc = "release"
    /\ AuraShutdown
    /\ lifecycle' = "Offline"
    /\ Answer(Accepted("ShuttingDown", "LifecycleAcknowledgement"))
    /\ UNCHANGED <<naction, latched, armed, evidence, roles, nwrote>>

-----------------------------------------------------------------------------
(* Before the first role write: a fresh Aura bearer, an armed observer *)

Starting == naction = "Start"

AcquireFailed ==
    /\ npc = "acquire"
    /\ \/ UNCHANGED aura                          \* the teardown failed
       \/ AuraShutdown                            \* the verified connect failed
    /\ rejected
    /\ UNCHANGED <<naction, armed, evidence, roles, nwrote>>

acquire_fresh_aura_bearer ==
    /\ npc = "acquire"
    /\ bearer' = TRUE
    /\ auraLatched' = FALSE
    /\ lifecycle' = IF Starting THEN "Linking" ELSE "Unlinking"
    /\ npc' = "arm"
    /\ UNCHANGED <<naction, latched, armed, evidence, nreply, roles, nwrote>>

ArmFailed ==
    /\ npc = "arm"
    /\ rejected
    /\ armed' = {}
    /\ UNCHANGED <<naction, aura, evidence, roles, nwrote>>

ArmReceiverFirst ==
    /\ npc = "arm"
    /\ armed' = {"gatt"} \cup (IF confirmation = "Gena" THEN {"gena"} ELSE {})
    /\ npc' = IF Starting THEN "aura_start" ELSE "aura_stop"
    /\ UNCHANGED <<naction, lifecycle, latched, aura, evidence, nreply, roles, nwrote>>

arm ==
    /\ npc = "arm"
    /\ armed' = {"gatt"} \cup (IF confirmation = "Gena" THEN {"gena"} ELSE {})
    /\ npc' = IF Starting THEN "enter" ELSE "aura_stop"
    /\ UNCHANGED <<naction, lifecycle, latched, aura, evidence, nreply, roles, nwrote>>

-----------------------------------------------------------------------------
(* The role writes *)

Applied(role) == IF Starting THEN roles \cup {role} ELSE roles \ {role}

\* A role write that was attempted: known to be applied, or not known.
WriteApplied(role) == nwrote' = TRUE /\ roles' = Applied(role)
WriteUncertain(role) == nwrote' = TRUE /\ roles' \in {roles, Applied(role)}

enter_accepted ==
    /\ npc = "enter"
    /\ WriteApplied("jbl")
    /\ npc' = "execute"
    /\ UNCHANGED <<naction, lifecycle, latched, aura, armed, evidence, nreply>>

\* ControlCommandRejected, or any failure after the form may have been sent.
enter_uncertain ==
    /\ npc = "enter"
    /\ WriteUncertain("jbl")
    /\ armed' = {}
    /\ latch_unknown
    /\ UNCHANGED <<naction, aura, evidence>>

\* classify_write_transport: the form was definitely not sent.
enter_not_sent ==
    /\ npc = "enter"
    /\ armed' = {}
    /\ rejected
    /\ UNCHANGED <<naction, aura, evidence, roles, nwrote>>

\* execute consumes the GATT bearer and cancels the GENA subscription.
execute ==
    /\ npc = "execute"
    /\ IF confirmation = "Gena"
         THEN WriteApplied("cast") /\ evidence' = "BroadcastBusinessNotification"
         ELSE WriteUncertain("cast") /\ evidence' = "BroadcastAcknowledgementOnly"
    /\ armed' = {}
    /\ npc' = IF Starting THEN "aura_start" ELSE "exit"
    /\ UNCHANGED <<naction, lifecycle, latched, aura, nreply>>

execute_failed ==
    /\ npc = "execute"
    /\ WriteUncertain("cast")
    /\ armed' = {}
    /\ latch_unknown
    /\ UNCHANGED <<naction, aura, evidence>>

\* AuraControlCore.command with the expected acknowledgement.
aura_accepted ==
    /\ npc \in {"aura_start", "aura_stop"}
    /\ <<"Ready", TRUE>> \in AuraReadings
    /\ WriteApplied("aura")
    /\ IF Starting
         THEN lifecycle' = "Linked" /\ Answer(Accepted("Linked", evidence))
         ELSE npc' = "execute" /\ UNCHANGED <<lifecycle, nreply>>
    /\ UNCHANGED <<naction, latched, aura, armed, evidence>>

AuraNotSentRejected ==
    /\ npc \in {"aura_start", "aura_stop"}
    /\ \E reading \in AuraReadings : bearer' = reading[2]
    /\ armed' = {}
    /\ rejected
    /\ UNCHANGED <<naction, auraLatched, evidence, roles, nwrote>>

\* command is refused before begin_write: the bearer is not Ready, or the
\* packets that are waiting on it can not be drained.  After the JBL writes
\* of start this is an unknown outcome; before those of stop a rejection.
aura_not_sent ==
    /\ npc \in {"aura_start", "aura_stop"}
    /\ \E reading \in AuraReadings : bearer' = reading[2]
    /\ armed' = {}
    /\ IF Starting THEN latch_unknown ELSE rejected
    /\ UNCHANGED <<naction, auraLatched, evidence, roles, nwrote>>

\* begin_write failed, or no acknowledgement, or an unexpected one.
aura_uncertain ==
    /\ npc \in {"aura_start", "aura_stop"}
    /\ <<"Ready", TRUE>> \in AuraReadings
    /\ WriteUncertain("aura")
    /\ auraLatched' = TRUE
    /\ armed' = {}
    /\ latch_unknown
    /\ UNCHANGED <<naction, bearer, evidence>>

exit_accepted ==
    /\ npc = "exit"
    /\ WriteApplied("jbl")
    /\ IF naction = "Shutdown"
         THEN npc' = "release" /\ lifecycle' = "ShuttingDown" /\ UNCHANGED nreply
         ELSE lifecycle' = "Ready" /\ Answer(Accepted("Ready", evidence))
    /\ UNCHANGED <<naction, latched, aura, armed, evidence>>

ExitAssumedAccepted ==
    /\ npc = "exit"
    /\ WriteUncertain("jbl")
    /\ lifecycle' = "Ready"
    /\ Answer(Accepted("Ready", evidence))
    /\ UNCHANGED <<naction, latched, aura, armed, evidence>>

exit_failed ==
    /\ npc = "exit"
    /\ WriteUncertain("jbl")
    /\ latch_unknown
    /\ UNCHANGED <<naction, aura, armed, evidence>>

-----------------------------------------------------------------------------
(* The process *)

Return ==
    /\ npc = "done"
    /\ npc' = "idle"
    /\ naction' = "None"
    /\ nreply' = OutcomeUnknown
    /\ evidence' = "None"
    /\ nwrote' = FALSE
    /\ UNCHANGED <<lifecycle, latched, aura, armed, roles>>

\* teardown_transport on the way out of the process, once more if it failed.
teardown_transport ==
    /\ npc \in {"idle", "leaving"}
    /\ npc' = "leaving"
    /\ AuraShutdown \/ UNCHANGED aura
    /\ UNCHANGED <<naction, lifecycle, latched, armed, evidence, nreply, roles, nwrote>>

Volatile(step) ==
    /\ npc' = step
    /\ naction' = "None"
    /\ lifecycle' = "Offline"
    /\ latched' = FALSE
    /\ bearer' = FALSE
    /\ auraLatched' = FALSE
    /\ armed' = {}
    /\ evidence' = "None"
    /\ nreply' = OutcomeUnknown
    /\ nwrote' = FALSE
    /\ UNCHANGED roles

NBoot == npc = "down" /\ Volatile("idle")

NInit ==
    /\ confirmation \in {"Ack", "Gena"}
    /\ npc = "down"
    /\ naction = "None"
    /\ lifecycle = "Offline"
    /\ latched = FALSE
    /\ bearer = FALSE
    /\ auraLatched = FALSE
    /\ armed = {}
    /\ evidence = "None"
    /\ nreply = OutcomeUnknown
    /\ roles \in SUBSET Roles /\ Nested
    /\ nwrote = FALSE

Method(a) ==
    AnswerAtOnce(a) \/ BeginTransaction(a) \/ BeginRelease(a) \/ BeginRecovery(a)

NStep ==
    \/ RecoverTeardown \/ TeardownFailed \/ Release
    \/ AcquireFailed \/ acquire_fresh_aura_bearer \/ ArmFailed \/ arm
    \/ enter_accepted \/ enter_uncertain \/ enter_not_sent
    \/ execute \/ execute_failed
    \/ aura_accepted \/ aura_not_sent \/ aura_uncertain
    \/ exit_accepted \/ exit_failed

-----------------------------------------------------------------------------
(* Properties *)

\* The receiver is never left in its role without the speaker it listens to,
\* whatever fails or crashes between the writes: start puts Aura in last, and
\* stop, shutdown and recover_stop take it out first.
ReceiverNested == Nested
=============================================================================
