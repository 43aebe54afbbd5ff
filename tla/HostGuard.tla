----------------------------- MODULE HostGuard -----------------------------
(***************************************************************************)
(* What the v0.4 launcher bin/jbl-aura-link takes away from the host while *)
(* it works on the speakers, and gives back: the Bluetooth modules of      *)
(* PulseAudio, recorded in a file, and the A2DP profile of the Aura,       *)
(* recorded in a marker.  The processes, their locks and the hooks of the  *)
(* unit are those of Ownership.  Every call may fail, the writes of the    *)
(* record and of the marker included, every process may be interrupted or  *)
(* killed, and the stop hook works without the lock.                       *)
(***************************************************************************)
EXTENDS Ownership, Sequences, TLC

CONSTANT Modules            \* module-bluetooth-policy and module-bluetooth-discover

VARIABLES
    loaded,         \* the modules PulseAudio has loaded
    record,         \* the modules PULSE_GUARD_STATE restores: {} for no file, or a refused one
    profile,        \* the A2DP profile is active
    marker,         \* A2DP_MARKER exists
    script,         \* per process: the calls it has still to make
    trap,           \* the calls of its EXIT trap
    at,             \* "call", or the step inside the first call of the script
    todo,           \* the modules the loop of that call has still to visit
    unloaded,       \* PULSE_BT_MODULE_UNLOADED
    active,         \* PULSE_BT_GUARD_ACTIVE, and whether its modules were on record
    bad,            \* the process ends with an error
    cut,            \* history: a process ended without a full record of what it had unloaded
    unmarked,       \* history: the last disconnection went on without its marker
    overlapped      \* history: the stop hook restored beside the guard of a client

host == <<loaded, record, profile, marker, unmarked>>
guard == <<todo, unloaded, active, cut>>
hvars == <<host, guard, script, trap, at, bad>>
allvars == <<ovars, hvars, overlapped>>

Processes == Clients \cup {"unit"}

HInit ==
    /\ OInit
    /\ loaded = Modules /\ record = {} /\ profile = TRUE /\ marker = FALSE
    /\ script = [p \in Processes |-> <<>>] /\ trap = [p \in Processes |-> <<>>]
    /\ at = [p \in Processes |-> "call"] /\ todo = [p \in Processes |-> {}]
    /\ unloaded = [p \in Processes |-> {}] /\ active = [p \in Processes |-> "no"]
    /\ bad = [p \in Processes |-> FALSE]
    /\ cut = FALSE /\ unmarked = FALSE /\ overlapped = FALSE

-----------------------------------------------------------------------------
(* Processes *)

\* exit_with_stop_restore, and the EXIT trap of service_preflight
exit_with_stop_restore == <<"restore", "reconnect">>

recover_stop_link == <<"disconnect", "repair", "suspend", "write">> \o exit_with_stop_restore
shutdown_session == <<"release", "reconnect">>
service_preflight == <<"disconnect", "repair", "suspend">>
service_post_start == <<"restore">>

\* The A2DP profile stays down while systemd is about to restart the unit.
service_cleanup(failure) == IF failure THEN <<"restore">> ELSE exit_with_stop_restore

\* A process ends, and what it remembers with it; another one takes its place.
Begins(p, calls, exit) ==
    /\ script' = [script EXCEPT ![p] = calls] /\ trap' = [trap EXCEPT ![p] = exit]
    /\ at' = [at EXCEPT ![p] = "call"] /\ todo' = [todo EXCEPT ![p] = {}]
    /\ unloaded' = [unloaded EXCEPT ![p] = {}] /\ active' = [active EXCEPT ![p] = "no"]
    /\ bad' = [bad EXCEPT ![p] = FALSE]
    /\ cut' = (cut \/ (active[p] = "unrecorded" /\ unloaded[p] # {}))
    /\ UNCHANGED host

Calls(p, calls, step) == script[p] # <<>> /\ Head(script[p]) \in calls /\ at[p] = step
Step(p, step) == at' = [at EXCEPT ![p] = step] /\ UNCHANGED <<script, trap, bad>>

Return(p) ==
    /\ script' = [script EXCEPT ![p] = Tail(@)] /\ at' = [at EXCEPT ![p] = "call"]
    /\ UNCHANGED <<trap, bad>>

\* The process goes on with these calls, and with its trap, once.
Leave(p, calls) ==
    /\ script' = [script EXCEPT ![p] = calls \o trap[p]] /\ trap' = [trap EXCEPT ![p] = <<>>]
    /\ at' = [at EXCEPT ![p] = "call"] /\ bad' = [bad EXCEPT ![p] = TRUE]

\* A call fails: on the way in it ends the process, on the way out the rest of
\* the calls is made first.
Fail(p) ==
    Leave(p, IF Head(script[p]) \in {"disconnect", "repair", "suspend", "release"}
             THEN <<>> ELSE Tail(script[p]))

\* SIGINT or SIGTERM, wherever the process is: its trap runs.
Signalled(p) ==
    /\ script[p] # <<>> /\ trap[p] # <<>>
    /\ Leave(p, <<>>)
    /\ todo' = [todo EXCEPT ![p] = {}]
    /\ UNCHANGED <<host, unloaded, active, cut>>

-----------------------------------------------------------------------------
(* The A2DP profile *)

\* The marker is written before BlueZ is asked.  A failed write ends a client;
\* the "if !" of service_preflight suspends that, and the call goes on.  The
\* answer of BlueZ is not trusted.
disconnect_aura_a2dp(p) ==
    /\ \/ /\ Calls(p, {"disconnect"}, "call")
          /\ \/ ~profile /\ Return(p) /\ UNCHANGED <<marker, unmarked>>
             \/ /\ profile /\ Step(p, "asked")
                /\ marker' \in {TRUE} \cup (IF p = "unit" THEN {marker} ELSE {})
                /\ unmarked' = ~marker'
             \/ profile /\ marker' \in {marker, TRUE} /\ Fail(p) /\ UNCHANGED unmarked
          /\ UNCHANGED profile
       \/ /\ Calls(p, {"disconnect"}, "asked")
          /\ \/ profile' = FALSE /\ Return(p)
             \/ profile' \in {profile, FALSE} /\ Fail(p)
          /\ UNCHANGED <<marker, unmarked>>
    /\ UNCHANGED <<loaded, record, guard>>

\* The marker goes once the profile is seen active or BlueZ connected it; rm may
\* fail unnoticed.
restore_aura_a2dp(p) ==
    /\ \/ /\ Calls(p, {"reconnect"}, "call")
          /\ \/ ~marker /\ Return(p) /\ UNCHANGED profile
             \/ marker /\ profile' = TRUE /\ Step(p, "restored")
             \/ marker /\ profile' \in {profile, TRUE} /\ Fail(p)
          /\ UNCHANGED marker
       \/ /\ Calls(p, {"reconnect"}, "restored")
          /\ marker' \in {FALSE, marker} /\ Return(p)
          /\ UNCHANGED profile
    /\ UNCHANGED <<loaded, record, guard, unmarked>>

-----------------------------------------------------------------------------
(* The modules of PulseAudio *)

Visits(p, m) == m \in todo[p] /\ todo' = [todo EXCEPT ![p] = @ \ {m}]

\* suspend_pulse_bluetooth_modules lists the modules ...
ListModules(p) ==
    /\ Calls(p, {"suspend"}, "call")
    /\ \/ /\ loaded = {} /\ Return(p)
          /\ UNCHANGED guard
       \/ /\ loaded # {} /\ Step(p, "unload")
          /\ todo' = [todo EXCEPT ![p] = loaded]
          /\ unloaded' = [unloaded EXCEPT ![p] = {}]
          /\ active' = [active EXCEPT ![p] = "unrecorded"]
          /\ UNCHANGED cut
       \/ Fail(p) /\ UNCHANGED guard
    /\ UNCHANGED host

\* ... unloads them one by one, and rolls back when one stays; a signal during
\* pactl reaches the trap before the unload is noted ...
UnloadModule(p) ==
    /\ Calls(p, {"suspend"}, "unload")
    /\ \E m \in Modules :
         /\ Visits(p, m)
         /\ \/ /\ loaded' = loaded \ {m} /\ unloaded' = [unloaded EXCEPT ![p] = @ \cup {m}]
               /\ Step(p, "unload") /\ UNCHANGED cut
            \/ Leave(p, <<"restore">>) /\ UNCHANGED <<loaded, unloaded, cut>>
            \/ loaded' = loaded \ {m} /\ Leave(p, <<>>) /\ cut' = TRUE /\ UNCHANGED unloaded
    /\ UNCHANGED <<record, profile, marker, unmarked, active>>

\* ... and only then records them.  A line that cannot be written goes unnoticed:
\* the record that is moved into place may restore less than was unloaded.
persist_pulse_bluetooth_guard(p) ==
    /\ Calls(p, {"suspend"}, "unload") /\ todo[p] = {}
    /\ \/ /\ record' \in SUBSET unloaded[p] /\ Return(p)
          /\ active' = [active EXCEPT ![p] = IF record' = unloaded[p] THEN "recorded" ELSE "unrecorded"]
       \/ Leave(p, <<"restore">>) /\ UNCHANGED <<record, active>>
    /\ UNCHANGED <<loaded, profile, marker, unmarked, todo, unloaded, cut>>

\* restore_pulse_bluetooth_modules, also as the first step ("repair") of
\* begin_pulse_bluetooth_guard: the modules this process unloaded, or those of
\* the record an earlier one left.  A record that load refuses is passed over by
\* every caller, as if there were none ...
load_pulse_bluetooth_guard(p) ==
    /\ Calls(p, {"restore", "repair"}, "call")
    /\ IF active[p] = "no" /\ record = {}
       THEN Return(p) /\ UNCHANGED guard
       ELSE LET modules == IF active[p] = "no" THEN record ELSE unloaded[p] IN
            /\ Step(p, "load")
            /\ todo' = [todo EXCEPT ![p] = modules]
            /\ unloaded' = [unloaded EXCEPT ![p] = modules]
            /\ active' = [active EXCEPT ![p] = IF @ = "no" THEN "recorded" ELSE @]
            /\ UNCHANGED cut
    /\ UNCHANGED host

\* ... are loaded unless they are there ...
LoadModule(p) ==
    /\ Calls(p, {"restore", "repair"}, "load")
    /\ \E m \in Modules :
         /\ Visits(p, m)
         /\ \/ loaded' = loaded \cup {m} /\ unloaded' = [unloaded EXCEPT ![p] = @ \ {m}]
            \/ UNCHANGED <<loaded, unloaded>>
    /\ UNCHANGED <<record, profile, marker, unmarked, script, trap, at, bad, active, cut>>

\* ... and the record goes when all of them are back; rm may fail unnoticed.
RestoredAnyway(p) ==
    /\ Calls(p, {"restore", "repair"}, "load") /\ todo[p] = {}
    /\ record' \in {{}, record} /\ active' = [active EXCEPT ![p] = "no"] /\ Return(p)
    /\ UNCHANGED <<loaded, profile, marker, unmarked, todo, unloaded, cut>>
restore_pulse_bluetooth_modules(p) ==
    /\ Calls(p, {"restore", "repair"}, "load") /\ todo[p] = {}
    /\ IF unloaded[p] = {}
       THEN record' \in {{}, record} /\ active' = [active EXCEPT ![p] = "no"] /\ Return(p)
       ELSE Fail(p) /\ UNCHANGED <<record, active>>
    /\ UNCHANGED <<loaded, profile, marker, unmarked, todo, unloaded, cut>>

-----------------------------------------------------------------------------
(* The processes of Ownership with their calls *)

\* The role writes of recover-stop, a failure of which is only noted; the end
\* of the session that shutdown waits for.
Speakers(p) ==
    /\ \/ Calls(p, {"write"}, "call") /\ (Return(p) \/ Fail(p))
       \/ Calls(p, {"release"}, "call") /\ ((sessionLock # "daemon" /\ Return(p)) \/ Fail(p))
    /\ UNCHANGED <<host, guard>>

GuardStep(p) ==
    /\ \/ disconnect_aura_a2dp(p) \/ restore_aura_a2dp(p)
       \/ ListModules(p) \/ UnloadModule(p) \/ persist_pulse_bluetooth_guard(p)
       \/ load_pulse_bluetooth_guard(p) \/ LoadModule(p) \/ restore_pulse_bluetooth_modules(p)
       \/ Speakers(p) \/ Signalled(p)
    /\ UNCHANGED ovars

\* service_post_start gives up waiting for the session: it restores and fails.
PostTimeout ==
    /\ unit = "connect" /\ script["unit"] = <<>> /\ ~bad["unit"]
    /\ script' = [script EXCEPT !["unit"] = service_post_start]
    /\ bad' = [bad EXCEPT !["unit"] = TRUE]
    /\ UNCHANGED <<host, guard, trap, at, ovars>>

\* systemd runs the hook of the state the unit enters.
RunsHook ==
    Begins("unit",
           CASE unit' = "guard" -> service_preflight
             [] unit' = "ready" -> service_post_start
             [] unit' = "stop" -> service_cleanup(failed')
             [] OTHER -> <<>>,
           IF unit' = "guard" THEN exit_with_stop_restore ELSE <<>>)

HookEnds ==
    /\ script["unit"] = <<>>
    /\ \/ StopPost
       \/ bad["unit"] /\ PreflightRollback
       \/ /\ ~bad["unit"]
          /\ \/ PreflightLock \/ PreflightAdopt \/ PreflightClaim \/ PreflightEnd
             \/ DaemonLock \/ DaemonReady \/ PostStart
    /\ RunsHook
UnitFailsOrStops == (StartUnit \/ PreflightKilled \/ DaemonFailed \/ StopUnit) /\ RunsHook

HClient(c) ==
    \/ /\ \/ AcquireLock(c) \/ RejectLaunchInProgress(c)
          \/ Reserve(c) \/ SystemctlStart(c) \/ SystemctlReturns(c) \/ Relock(c)
          \/ SettleFailed(c) \/ Settle(c) \/ ClearReservation(c)
       /\ UNCHANGED hvars
    \/ Operate(c) /\ Begins(c, recover_stop_link, exit_with_stop_restore)
    \/ Operate(c) /\ Begins(c, shutdown_session, <<>>)
    \/ Operate(c) /\ Begins(c, <<>>, <<>>)      \* a command for the session
    \/ script[c] = <<>> /\ Finish(c) /\ Begins(c, <<>>, <<>>)
    \/ Interrupted(c) /\ Begins(c, <<>>, <<>>)

\* The stop hook is inside a restore while a client is inside its guard.
Overlap ==
    /\ unit = "stop" /\ at["unit"] # "call"
    /\ \E c \in Clients : trap[c] # <<>> \/ active[c] # "no"

HNext ==
    /\ \/ HookEnds \/ UnitFailsOrStops \/ PostTimeout
       \/ \E c \in Clients : HClient(c)
       \/ \E p \in Processes : GuardStep(p)
       \/ Rust /\ UNCHANGED hvars
    /\ overlapped' = (overlapped \/ Overlap')

HSpec == HInit /\ [][HNext]_allvars

\* Clients, invocations and modules are interchangeable.
Symmetric == Permutations(Clients) \cup Permutations(Invocations) \cup Permutations(Modules)

-----------------------------------------------------------------------------
(* Properties *)

\* No PulseAudio Bluetooth module is loaded while the daemon connects to the
\* speakers, whatever the clients do, nor while recover-stop writes to them,
\* unless the stop hook restored the modules meanwhile (service_preflight,
\* service_post_start, recover_stop_link).
GuardHolds ==
    /\ unit \in {"spawn", "connect"} /\ script["unit"] = <<>> /\ ~bad["unit"] => loaded = {}
    /\ \A c \in Clients : Calls(c, {"write"}, "call") /\ ~overlapped => loaded = {}

\* What the launcher took from the host is never forgotten: a missing module is
\* on record or in the memory of the process that unloaded it, and a missing
\* profile has its marker, through failures, kills and restarts in any order.
\* The exceptions are a process that ends with modules unloaded and no full
\* record of them (before it writes the record, or after a write that failed
\* unnoticed), a preflight that goes on without its marker, and a stop hook
\* that restores beside a recover-stop.
HostOnRecord ==
    ~overlapped =>
        /\ ~cut => Modules \ loaded \subseteq record \cup UNION {unloaded[p] : p \in Processes}
        /\ ~profile => marker \/ unmarked
=============================================================================
