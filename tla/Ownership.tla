----------------------------- MODULE Ownership -----------------------------
(***************************************************************************)
(* Who may drive the speakers: the public operations of the v0.4 launcher  *)
(* bin/jbl-aura-link, its systemd unit with the ExecStartPre,              *)
(* ExecStartPost and ExecStopPost hooks, and the Rust service              *)
(* (ControllerProcessLock of service_runtime.rs).  They share two locks,   *)
(* operation.lock and session.lock, and a launch reservation: a directory  *)
(* that may hold the claim of one service invocation.                      *)
(***************************************************************************)

CONSTANTS
    Clients,        \* processes that run a public operation
    Invocations     \* INVOCATION_IDs; a new one differs from every claim on disk

ASSUME NamesAssumption == Clients \cap {"nobody", "unit", "rust"} = {}

VARIABLES
    opLock,         \* the holder of operation.lock
    sessionLock,    \* the holder of session.lock: "nobody", "daemon" or "rust"
    reserved,       \* the reservation directory exists
    claims,         \* the invocations that have a claim in it
    unit,           \* the state of the unit and the step of its running hook
    invocation,     \* the INVOCATION_ID of the current runtime cycle
    failed,         \* the cycle ends in failure: Restart=on-failure applies
    cpc,            \* the step of each client
    rpc             \* the step of the Rust service

ovars == <<opLock, sessionLock, reserved, claims, unit, invocation, failed, cpc, rpc>>

OInit ==
    /\ opLock = "nobody" /\ sessionLock = "nobody"
    /\ reserved = FALSE /\ claims = {}
    /\ unit = "inactive" /\ invocation \in Invocations /\ failed = FALSE
    /\ cpc = [c \in Clients |-> "idle"] /\ rpc = "idle"

NoUnit == UNCHANGED <<sessionLock, unit, invocation, failed>>
NoClient == UNCHANGED cpc
NoRust == UNCHANGED rpc

-----------------------------------------------------------------------------
(* The unit *)

\* A new cycle: at boot, by systemctl start, or by Restart=on-failure.
BeginCycle ==
    /\ unit \in {"inactive", "restart"}
    /\ unit' = "pre"
    /\ invocation' \in Invocations \ (claims \cup {invocation})
    /\ failed' = FALSE

StartUnit ==
    /\ BeginCycle
    /\ UNCHANGED <<opLock, sessionLock, reserved, claims>> /\ NoClient /\ NoRust

\* A hook or the daemon fails; ExecStopPost runs next.
FailCycle == unit' = "stop" /\ failed' = TRUE /\ UNCHANGED invocation

\* service_preflight: acquire_lock ...
PreflightLock ==
    /\ unit = "pre"
    /\ IF opLock = "nobody"
       THEN opLock' = "unit" /\ unit' = "adopt" /\ UNCHANGED <<invocation, failed>>
       ELSE FailCycle /\ UNCHANGED opLock
    /\ UNCHANGED <<sessionLock, reserved, claims>> /\ NoClient /\ NoRust

\* ... adopt_or_create_launch_reservation ...
PreflightAdopt ==
    /\ unit = "adopt"
    /\ reserved' = TRUE
    /\ unit' = "claim"
    /\ UNCHANGED <<opLock, sessionLock, claims, invocation, failed>> /\ NoClient /\ NoRust

\* ... claim_launch_reservation_for_service: never over the claim of another
\* cycle; its EXIT trap then finds no claim of its own to clear ...
PreflightClaim ==
    /\ unit = "claim"
    /\ IF claims \subseteq {invocation}
       THEN /\ claims' = {invocation} /\ unit' = "guard"
            /\ UNCHANGED <<opLock, invocation, failed>>
       ELSE /\ FailCycle /\ opLock' = "nobody" /\ UNCHANGED claims
    /\ UNCHANGED <<sessionLock, reserved>> /\ NoClient /\ NoRust

\* ... and the Bluetooth guards; the end of the process releases the lock.
PreflightEnd ==
    /\ unit = "guard"
    /\ opLock' = "nobody" /\ unit' = "spawn"
    /\ UNCHANGED <<sessionLock, reserved, claims, invocation, failed>> /\ NoClient /\ NoRust

\* A guard fails: the EXIT trap clears claim and reservation under the lock.
PreflightRollback ==
    /\ unit = "guard"
    /\ claims' = claims \ {invocation} /\ reserved' = FALSE
    /\ opLock' = "nobody" /\ FailCycle
    /\ UNCHANGED sessionLock /\ NoClient /\ NoRust

\* The preflight is killed, and its trap with it.
PreflightKilled ==
    /\ unit \in {"adopt", "claim", "guard"}
    /\ opLock' = "nobody" /\ FailCycle
    /\ UNCHANGED <<sessionLock, reserved, claims>> /\ NoClient /\ NoRust

\* ExecStart: the supervisor takes the session lock or exits.
DaemonLock ==
    /\ unit = "spawn"
    /\ IF sessionLock = "nobody"
       THEN sessionLock' = "daemon" /\ unit' = "connect" /\ UNCHANGED <<invocation, failed>>
       ELSE FailCycle /\ UNCHANGED sessionLock
    /\ UNCHANGED <<opLock, reserved, claims>> /\ NoClient /\ NoRust

\* It answers on its socket, which service_post_start polls.
DaemonReady ==
    /\ unit = "connect"
    /\ unit' = "ready"
    /\ UNCHANGED <<opLock, sessionLock, reserved, claims, invocation, failed>> /\ NoClient /\ NoRust

\* The daemon or the wait for it fails, it exits nonzero later, or it is killed.
DaemonFailed ==
    /\ unit \in {"connect", "ready", "postclear", "active"}
    /\ sessionLock' = "nobody" /\ FailCycle
    /\ UNCHANGED <<opLock, reserved, claims>> /\ NoClient /\ NoRust

\* systemctl stop, also by install_user_service before it reserves and starts the
\* unit anew, or a shutdown command: the cycle ends without a restart.
StopUnit ==
    /\ unit \in {"connect", "ready", "postclear", "active"}
    /\ sessionLock' = "nobody"
    /\ unit' = "stop"
    /\ UNCHANGED <<opLock, reserved, claims, invocation, failed>> /\ NoClient /\ NoRust

\* clear_service_launch_reservation, from service_post_start and from
\* service_cleanup: the own claim first, then the directory; nothing without it.
ClearsReservation(here, between, done) ==
    \/ /\ unit = here
       /\ IF invocation \in claims
          THEN claims' = claims \ {invocation} /\ unit' = between
          ELSE unit' = done /\ UNCHANGED claims
       /\ UNCHANGED reserved
    \/ /\ unit = between
       /\ reserved' = (claims # {})         \* rmdir refuses a directory with entries
       /\ unit' = done
       /\ UNCHANGED claims

PostStart ==
    /\ ClearsReservation("ready", "postclear", "active")
    /\ UNCHANGED <<opLock, sessionLock, invocation, failed>> /\ NoClient /\ NoRust

StopPostForgetting ==
    /\ unit = "stop"
    /\ unit' = IF failed THEN "restart" ELSE "inactive"
    /\ UNCHANGED <<opLock, sessionLock, reserved, claims, invocation, failed>> /\ NoClient /\ NoRust
StopPost ==
    /\ ClearsReservation("stop", "stopclear", IF failed THEN "restart" ELSE "inactive")
    /\ UNCHANGED <<opLock, sessionLock, invocation, failed>> /\ NoClient /\ NoRust

Unit ==
    \/ PreflightLock \/ PreflightAdopt \/ PreflightClaim \/ PreflightEnd
    \/ DaemonLock \/ DaemonReady \/ PostStart \/ StopPost
UnitFails == PreflightRollback \/ PreflightKilled \/ DaemonFailed \/ StopUnit

-----------------------------------------------------------------------------
(* The public operations *)

At(c, step) == cpc[c] = step
Goto(c, step) == cpc' = [cpc EXCEPT ![c] = step]

\* acquire_public_operation_lock
AcquireLock(c) ==
    /\ At(c, "idle") /\ opLock = "nobody"
    /\ opLock' = c /\ Goto(c, "check")
    /\ UNCHANGED <<reserved, claims>> /\ NoUnit /\ NoRust

RejectNothing(c) ==
    /\ At(c, "check")
    /\ Goto(c, "admitted") /\ UNCHANGED opLock
    /\ UNCHANGED <<reserved, claims>> /\ NoUnit /\ NoRust
RejectLaunchInProgress(c) ==
    /\ At(c, "check")
    /\ IF reserved THEN opLock' = "nobody" /\ Goto(c, "idle")
                   ELSE Goto(c, "admitted") /\ UNCHANGED opLock
    /\ UNCHANGED <<reserved, claims>> /\ NoUnit /\ NoRust

\* recover_stop_link writes to the speakers itself; start, stop and shutdown
\* talk to a session that answers.
Operate(c) ==
    /\ At(c, "admitted")
    /\ Goto(c, "operate")
    /\ UNCHANGED <<opLock, reserved, claims>> /\ NoUnit /\ NoRust

Finish(c) ==
    /\ At(c, "operate")
    /\ opLock' = "nobody" /\ Goto(c, "idle")
    /\ UNCHANGED <<reserved, claims>> /\ NoUnit /\ NoRust

\* launch_session_daemon over the installed unit, when no session answered in
\* time, and install_user_service: reserve, release the lock, start the unit.
Reserve(c) ==
    /\ At(c, "admitted") /\ ~reserved
    /\ reserved' = TRUE
    /\ opLock' = "nobody" /\ Goto(c, "call")
    /\ UNCHANGED claims /\ NoUnit /\ NoRust

\* systemctl start begins a cycle, or joins the one that runs.
SystemctlStart(c) ==
    /\ At(c, "call")
    /\ \/ BeginCycle
       \/ unit \notin {"inactive", "restart", "stop", "stopclear"} /\ UNCHANGED <<unit, invocation, failed>>
    /\ Goto(c, "wait")
    /\ UNCHANGED <<opLock, sessionLock, reserved, claims>> /\ NoRust

\* It returns 0 once the unit is active; it fails with the cycle, or because
\* the answer of systemd was lost.
SystemctlReturns(c) ==
    /\ At(c, "wait")
    /\ \/ unit = "active" /\ Goto(c, "relock")
       \/ Goto(c, "relockfailed")
    /\ UNCHANGED <<opLock, reserved, claims>> /\ NoUnit /\ NoRust

Relock(c) ==
    /\ cpc[c] \in {"relock", "relockfailed"}
    /\ IF opLock = "nobody"
       THEN opLock' = c /\ Goto(c, IF At(c, "relock") THEN "settle" ELSE "settlefailed")
       ELSE Goto(c, "idle") /\ UNCHANGED opLock
    /\ UNCHANGED <<reserved, claims>> /\ NoUnit /\ NoRust

\* The start failed: clear only a reservation no unit can still be using.
\* systemd shows a unit that waits for its restart as activating.
SettleFailed(c) ==
    /\ At(c, "settlefailed")
    /\ IF reserved /\ unit = "inactive"
       THEN Goto(c, "clearfailed") /\ UNCHANGED opLock
       ELSE Goto(c, "idle") /\ opLock' = "nobody"
    /\ UNCHANGED <<reserved, claims>> /\ NoUnit /\ NoRust

\* The start succeeded: a reservation that is still there is this client's own,
\* if a session answers.
Settle(c) ==
    /\ At(c, "settle")
    /\ \/ ~reserved /\ Goto(c, "operate") /\ UNCHANGED opLock
       \/ reserved /\ unit \in {"ready", "postclear", "active"} /\ Goto(c, "clear") /\ UNCHANGED opLock
       \/ reserved /\ Goto(c, "idle") /\ opLock' = "nobody"
    /\ UNCHANGED <<reserved, claims>> /\ NoUnit /\ NoRust

\* clear_launch_reservation: rmdir of an empty directory only.
ClearWithClaims(c) ==
    /\ cpc[c] \in {"clear", "clearfailed"}
    /\ reserved' = FALSE /\ claims' = {}
    /\ IF At(c, "clear") THEN Goto(c, "operate") /\ UNCHANGED opLock
                         ELSE Goto(c, "idle") /\ opLock' = "nobody"
    /\ NoUnit /\ NoRust
ClearReservation(c) ==
    /\ cpc[c] \in {"clear", "clearfailed"}
    /\ reserved' = (claims # {})
    /\ IF At(c, "clear") /\ claims = {}
       THEN Goto(c, "operate") /\ UNCHANGED opLock
       ELSE Goto(c, "idle") /\ opLock' = "nobody"
    /\ UNCHANGED claims /\ NoUnit /\ NoRust

\* A client may be interrupted anywhere; its lock goes with it.
Interrupted(c) ==
    /\ ~At(c, "idle")
    /\ opLock' = IF opLock = c THEN "nobody" ELSE opLock
    /\ Goto(c, "idle")
    /\ UNCHANGED <<reserved, claims>> /\ NoUnit /\ NoRust

Client(c) ==
    \/ AcquireLock(c) \/ RejectLaunchInProgress(c) \/ Operate(c) \/ Finish(c)
    \/ Reserve(c) \/ SystemctlStart(c) \/ SystemctlReturns(c) \/ Relock(c)
    \/ SettleFailed(c) \/ Settle(c) \/ ClearReservation(c) \/ Interrupted(c)

-----------------------------------------------------------------------------
(* The Rust service: ControllerProcessLock::acquire_at *)

RustLockOperation ==
    /\ rpc = "idle" /\ opLock = "nobody"
    /\ opLock' = "rust" /\ rpc' = "gate"
    /\ UNCHANGED <<reserved, claims>> /\ NoUnit /\ NoClient

RustGateMissing ==
    /\ rpc = "gate"
    /\ rpc' = "session" /\ UNCHANGED opLock
    /\ UNCHANGED <<reserved, claims>> /\ NoUnit /\ NoClient
RustGate ==
    /\ rpc = "gate"
    /\ IF reserved THEN opLock' = "nobody" /\ rpc' = "idle"
                   ELSE rpc' = "session" /\ UNCHANGED opLock
    /\ UNCHANGED <<reserved, claims>> /\ NoUnit /\ NoClient

RustLockSession ==
    /\ rpc = "session"
    /\ IF sessionLock = "nobody"
       THEN sessionLock' = "rust" /\ rpc' = "owner" /\ UNCHANGED opLock
       ELSE opLock' = "nobody" /\ rpc' = "idle" /\ UNCHANGED sessionLock
    /\ UNCHANGED <<reserved, claims, unit, invocation, failed>> /\ NoClient

\* The drop of the lock: session.lock first, then operation.lock.
RustReleaseSession ==
    /\ rpc = "owner"
    /\ sessionLock' = "nobody" /\ rpc' = "leaving"
    /\ UNCHANGED <<opLock, reserved, claims, unit, invocation, failed>> /\ NoClient
RustReleaseOperation ==
    /\ rpc = "leaving"
    /\ opLock' = "nobody" /\ rpc' = "idle"
    /\ UNCHANGED <<reserved, claims>> /\ NoUnit /\ NoClient

RustCrash ==
    /\ rpc # "idle"
    /\ rpc' = "idle" /\ opLock' = "nobody"
    /\ sessionLock' = IF sessionLock = "rust" THEN "nobody" ELSE sessionLock
    /\ UNCHANGED <<reserved, claims, unit, invocation, failed>> /\ NoClient

Rust ==
    \/ RustLockOperation \/ RustGate \/ RustLockSession
    \/ RustReleaseSession \/ RustReleaseOperation \/ RustCrash

ONext == StartUnit \/ Unit \/ UnitFails \/ Rust \/ \E c \in Clients : Client(c)

OSpec == OInit /\ [][ONext]_ovars

\* systemd runs every hook it began to its end, and restarts a failed unit.
OLive == OSpec /\ WF_ovars(Unit)

-----------------------------------------------------------------------------
(* Properties *)

\* A launch is under way: from the preflight's exit, when nobody holds the
\* operation lock, to the first answer of the daemon that ExecStartPost saw.
InGap == unit \in {"spawn", "connect", "ready"}

\* "Public writers that enter after ExecStartPre exits therefore still fail
\* closed instead of writing during the launch gap" (launch_session_daemon).
LaunchGapClosed == InGap => \A c \in Clients : ~At(c, "operate")

\* The Rust service, which "cannot cross the deliberate lock hand-off window"
\* (rust/README.md), never owns the pair while a v0.4 launch is under way, a
\* v0.4 daemon lives or a public operation runs.
RustOwnsAlone == rpc = "owner" => ~InGap /\ sessionLock # "daemon" /\ opLock = "rust"

\* The hooks release every claim they made, however the launch ends.
ClaimReleased == claims # {} ~> claims = {}
=============================================================================
