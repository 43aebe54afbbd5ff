-------------------------- MODULE HostGuardProofs --------------------------
(***************************************************************************)
(* Who owns the speakers: LaunchGapClosed and RustOwnsAlone for any number *)
(* of public operations and of service invocations.  The locks alone do    *)
(* not give them: nobody holds operation.lock in the launch gap.  The      *)
(* argument is that a claim keeps the reservation in place from the        *)
(* preflight to ExecStartPost, and that whoever was admitted saw no        *)
(* reservation under a lock it holds.  A claim goes within a few steps of  *)
(* the unit.                                                               *)
(*                                                                         *)
(* What the guards leave on the host: GuardHolds and HostOnRecord, for any *)
(* number of operations.  First what one call of the guards does to its    *)
(* own process, then that the calls of two processes meet only where one   *)
(* of them is the stop hook, then the record that each call keeps.         *)
(***************************************************************************)
EXTENDS HostGuard, Integers, TLAPS

\* One sequence behind another.
LEMMA Joined ==
  ASSUME NEW S, NEW s \in Seq(S), NEW t \in Seq(S)
  PROVE  /\ s \o t \in Seq(S) /\ Len(s \o t) = Len(s) + Len(t)
         /\ \A i \in 1 .. Len(s) + Len(t) : (s \o t)[i] = IF i <= Len(s) THEN s[i] ELSE t[i - Len(s)]
BY SMT

\* Nothing behind a sequence.
LEMMA JoinedEmpty ==
  ASSUME NEW S, NEW s \in Seq(S)
  PROVE  s \o <<>> = s
BY SMT

\* Sequences with the same elements in the same places are the same.
LEMMA SameSequence ==
  ASSUME NEW S, NEW s \in Seq(S), NEW t \in Seq(S), Len(s) = Len(t), \A i \in 1 .. Len(s) : s[i] = t[i]
  PROVE  s = t
BY SMT

UnitStates == {"inactive", "restart", "pre", "adopt", "claim", "guard", "spawn", "connect", "ready",
               "postclear", "active", "stop", "stopclear"}
ClientSteps == {"idle", "check", "admitted", "operate", "call", "wait", "relock", "relockfailed",
                "settle", "settlefailed", "clear", "clearfailed"}
RustSteps == {"idle", "gate", "session", "owner", "leaving"}

OwnTypeOK ==
    /\ opLock \in Clients \cup {"nobody", "unit", "rust"}
    /\ sessionLock \in {"nobody", "daemon", "rust"}
    /\ reserved \in BOOLEAN
    /\ unit \in UnitStates
    /\ cpc \in [Clients -> ClientSteps]
    /\ rpc \in RustSteps

-----------------------------------------------------------------------------
(* The inductive invariant *)

\* Between these steps a process holds operation.lock.
Locking(c) == cpc[c] \in {"check", "admitted", "operate", "settle", "settlefailed", "clear", "clearfailed"}

LocksHeld ==
    /\ \A c \in Clients : Locking(c) => opLock = c
    /\ opLock \in Clients => Locking(opLock)
    /\ opLock = "unit" <=> unit \in {"adopt", "claim", "guard"}
    /\ opLock = "rust" <=> rpc # "idle"
    /\ sessionLock = "rust" <=> rpc = "owner"
    /\ sessionLock = "daemon" <=> unit \in {"connect", "ready", "postclear", "active"}

\* The claim of the running cycle is there from the preflight to the hook
\* that clears it, no other is, and with it the directory.
ClaimKept ==
    /\ unit \in {"guard", "spawn", "connect", "ready"} => claims = {invocation} /\ reserved
    /\ unit = "claim" => reserved
    /\ unit = "stop" => claims \subseteq {invocation}
    /\ unit \notin {"guard", "spawn", "connect", "ready", "stop"} => claims = {}

\* Whoever was admitted, was so outside a launch.
AdmittedOutside ==
    /\ InGap => \A c \in Clients : cpc[c] \notin {"admitted", "operate"}
    /\ InGap => rpc \notin {"session", "owner"}

OwnInv == OwnTypeOK /\ LocksHeld /\ ClaimKept /\ AdmittedOutside

\* At the start nobody holds a lock and nothing is reserved.
LEMMA OwnershipInitial == OInit => OwnInv
  BY NamesAssumption, ZenonT(30) DEF OInit, OwnInv, OwnTypeOK, LocksHeld, ClaimKept, AdmittedOutside, InGap, Locking,
     UnitStates, ClientSteps, RustSteps

\* The hooks of the unit and its daemon.
LEMMA UnitStep ==
  ASSUME OwnInv, StartUnit \/ Unit \/ UnitFails
  PROVE  OwnInv'
<1> USE NamesAssumption DEF OwnInv, OwnTypeOK, LocksHeld, ClaimKept, AdmittedOutside, InGap, Locking,
        UnitStates, NoClient, NoRust
<1>1. CASE StartUnit
  BY <1>1, ZenonT(30) DEF StartUnit, BeginCycle
<1>2. CASE PreflightLock
  BY <1>2, Zenon DEF PreflightLock, FailCycle
<1>3. CASE PreflightAdopt
  BY <1>3, Zenon DEF PreflightAdopt
<1>4. CASE PreflightClaim
  BY <1>4, Zenon DEF PreflightClaim, FailCycle
<1>5. CASE PreflightEnd
  BY <1>5, Zenon DEF PreflightEnd
<1>6. CASE PreflightRollback
  BY <1>6, ZenonT(30) DEF PreflightRollback, FailCycle
<1>7. CASE PreflightKilled
  BY <1>7, Zenon DEF PreflightKilled, FailCycle
<1>8. CASE DaemonLock
  BY <1>8, Zenon DEF DaemonLock, FailCycle
<1>9. CASE DaemonReady
  BY <1>9, Zenon DEF DaemonReady
<1>10. CASE DaemonFailed
  BY <1>10, Zenon DEF DaemonFailed, FailCycle
<1>11. CASE StopUnit
  BY <1>11, Zenon DEF StopUnit
<1>12. CASE PostStart
  BY <1>12, ZenonT(30) DEF PostStart, ClearsReservation
<1>13. CASE StopPost
  BY <1>13, ZenonT(30) DEF StopPost, ClearsReservation
<1> QED
  BY <1>1, <1>2, <1>3, <1>4, <1>5, <1>6, <1>7, <1>8, <1>9, <1>10, <1>11, <1>12, <1>13, ZenonT(30) DEF Unit, UnitFails

\* The public operations.
LEMMA ClientStep ==
  ASSUME OwnInv, NEW c \in Clients, Client(c)
  PROVE  OwnInv'
<1> USE NamesAssumption DEF OwnInv, OwnTypeOK, LocksHeld, ClaimKept, AdmittedOutside, InGap, Locking,
        ClientSteps, NoUnit, NoRust, At, Goto
<1>1. CASE AcquireLock(c)
  BY <1>1, ZenonT(30) DEF AcquireLock
<1>2. CASE RejectLaunchInProgress(c)
  BY <1>2 DEF RejectLaunchInProgress
<1>3. CASE Operate(c)
  BY <1>3, Zenon DEF Operate
<1>4. CASE Finish(c)
  BY <1>4, Zenon DEF Finish
<1>5. CASE Reserve(c)
  BY <1>5, Zenon DEF Reserve
<1>6. CASE SystemctlStart(c)
  BY <1>6, ZenonT(30) DEF SystemctlStart, BeginCycle, UnitStates
<1>7. CASE SystemctlReturns(c)
  BY <1>7, ZenonT(30) DEF SystemctlReturns
<1>8. CASE Relock(c)
  BY <1>8 DEF Relock
<1>9. CASE SettleFailed(c)
  BY <1>9 DEF SettleFailed
<1>10. CASE Settle(c)
  BY <1>10, ZenonT(30) DEF Settle
<1>11. CASE ClearReservation(c)
  BY <1>11 DEF ClearReservation
<1>12. CASE Interrupted(c)
  BY <1>12, Zenon DEF Interrupted
<1> QED
  BY <1>1, <1>2, <1>3, <1>4, <1>5, <1>6, <1>7, <1>8, <1>9, <1>10, <1>11, <1>12, ZenonT(30) DEF Client

\* The Rust service.
LEMMA RustStep ==
  ASSUME OwnInv, Rust
  PROVE  OwnInv'
<1> USE NamesAssumption DEF OwnInv, OwnTypeOK, LocksHeld, ClaimKept, AdmittedOutside, InGap, Locking,
        RustSteps, NoUnit, NoClient
<1>1. CASE RustLockOperation
  BY <1>1, Zenon DEF RustLockOperation
<1>2. CASE RustGate
  BY <1>2, Zenon DEF RustGate
<1>3. CASE RustLockSession
  BY <1>3, Zenon DEF RustLockSession
<1>4. CASE RustReleaseSession
  BY <1>4, Zenon DEF RustReleaseSession
<1>5. CASE RustReleaseOperation
  BY <1>5, Zenon DEF RustReleaseOperation
<1>6. CASE RustCrash
  BY <1>6, Zenon DEF RustCrash
<1> QED
  BY <1>1, <1>2, <1>3, <1>4, <1>5, <1>6, Zenon DEF Rust

\* Every step of the unit, of a client and of the Rust service keeps the claim.
LEMMA OwnershipStep ==
  ASSUME OwnInv, [ONext]_ovars
  PROVE  OwnInv'
<1>1. CASE UNCHANGED ovars
  BY <1>1 DEF ovars, OwnInv, OwnTypeOK, LocksHeld, ClaimKept, AdmittedOutside, InGap, Locking
<1> QED
  BY <1>1, UnitStep, ClientStep, RustStep, Zenon DEF ONext

\* The invariant of the ownership protocol.
LEMMA OwnershipInvariant == OSpec => []OwnInv
  BY OwnershipInitial, OwnershipStep, PTL DEF OSpec

-----------------------------------------------------------------------------
(* The theorems *)

\* However many operations of the launcher run beside the unit, none of them
\* writes to the speakers between the end of service_preflight and
\* service_post_start.
THEOREM GapIsClosed == OSpec => []LaunchGapClosed
<1>1. OwnInv => LaunchGapClosed
  BY ZenonT(30) DEF OwnInv, AdmittedOutside, LaunchGapClosed, At
<1> QED
  BY <1>1, OwnershipInvariant, PTL

\* ControllerProcessLock, once acquired, excludes every operation and every
\* launch of the v0.4 side.
THEOREM RustIsAlone == OSpec => []RustOwnsAlone
<1>1. OwnInv => RustOwnsAlone
  BY Zenon DEF OwnInv, LocksHeld, AdmittedOutside, RustOwnsAlone
<1> QED
  BY <1>1, OwnershipInvariant, PTL

-----------------------------------------------------------------------------
(* The guards: the inductive invariant *)

\* What is left of the calls of recover-stop and of the preflight, and the calls
\* of a process that has no trap or is already in it.
RecoverRest == {recover_stop_link, <<"repair", "suspend", "write", "restore", "reconnect">>,
                <<"suspend", "write", "restore", "reconnect">>, <<"write", "restore", "reconnect">>,
                <<"restore", "reconnect">>, <<"reconnect">>, <<>>}
PreflightRest == {service_preflight, <<"repair", "suspend">>, <<"suspend">>, <<>>}
HookRest == {<<"restore", "reconnect">>, <<"restore">>, <<"reconnect">>, <<>>}
WayOut == {"restore", "reconnect", "release"}
CallNames == WayOut \cup {"disconnect", "repair", "suspend", "write"}

AtSteps == {"call", "asked", "restored", "unload", "load"}

\* Every variable of the guards stays in its domain.
HTypeOK ==
    /\ loaded \in SUBSET Modules /\ record \in SUBSET Modules
    /\ profile \in BOOLEAN /\ marker \in BOOLEAN
    /\ script \in [Processes -> Seq(CallNames)]
    /\ trap \in [Processes -> {<<>>, exit_with_stop_restore}]
    /\ at \in [Processes -> AtSteps]
    /\ todo \in [Processes -> SUBSET Modules] /\ unloaded \in [Processes -> SUBSET Modules]
    /\ active \in [Processes -> {"no", "unrecorded", "recorded"}]
    /\ bad \in [Processes -> BOOLEAN]
    /\ cut \in BOOLEAN /\ unmarked \in BOOLEAN /\ overlapped \in BOOLEAN

\* What a process has still to do ...
Rest(p) == IF p = "unit" THEN PreflightRest ELSE RecoverRest
Rests(p) ==
    /\ trap[p] # <<>> => script[p] \in Rest(p)
    /\ trap[p] = <<>> => script[p] \in Seq(WayOut)

\* ... and the call it is in.
Within(p) ==
    /\ at[p] # "call" => script[p] # <<>>
    /\ at[p] = "asked" => Head(script[p]) = "disconnect"
    /\ at[p] = "restored" => Head(script[p]) = "reconnect"
    /\ at[p] = "unload" => Head(script[p]) = "suspend" /\ active[p] = "unrecorded"
    /\ at[p] = "load" => Head(script[p]) \in {"restore", "repair"} /\ active[p] # "no"

Idle(p) == script[p] = <<>> /\ trap[p] = <<>> /\ active[p] = "no" /\ at[p] = "call"

\* A client has calls to make only under the operation lock, and the unit only
\* in its hooks.
Placed ==
    /\ \A c \in Clients : cpc[c] # "operate" => Idle(c)
    /\ unit \notin {"guard", "connect", "ready", "stop"} => Idle("unit") /\ ~bad["unit"]
    /\ unit # "guard" =>
          /\ trap["unit"] = <<>> /\ active["unit"] # "unrecorded"
          /\ script["unit"] \in HookRest
          /\ active["unit"] # "no" /\ at["unit"] = "call" => script["unit"] \in {<<"reconnect">>, <<>>}
    /\ unit = "guard" /\ ~bad["unit"] => trap["unit"] # <<>>
    /\ unit = "connect" /\ ~bad["unit"] => script["unit"] = <<>> /\ active["unit"] = "no"

\* The guard goes up with the unloads and stays up.
GuardUp ==
    /\ unit \in {"guard", "spawn", "connect"} /\ ~bad["unit"] /\ script["unit"] = <<>> => loaded = {}
    /\ \A p \in Processes : (p = "unit" \/ ~overlapped) /\ at[p] = "unload" => loaded \subseteq todo[p]
    /\ \A c \in Clients : ~overlapped /\ Calls(c, {"write"}, "call") => loaded = {}

\* How the record and the memory of the processes share the missing modules.  A
\* record that could not be removed lists modules that are loaded.  A stop hook
\* that failed to restore remembers modules it will not load again.
Shares(p) ==
    /\ Calls(p, {"suspend"}, "call") => record \subseteq loaded /\ active[p] = "no"
    /\ active[p] # "no" /\ (p = "unit" => unit # "stop" \/ at["unit"] = "load") =>
          record \ loaded \subseteq unloaded[p]
Recorded ==
    ~cut =>
        /\ \A p \in Processes : Shares(p)
        /\ \A m \in Modules \ loaded :
              m \in record \/ \E p \in Processes : active[p] = "unrecorded" /\ m \in unloaded[p]

\* How the marker and the steps of the processes share a missing profile.
Marked ==
    /\ ~profile => marker \/ unmarked
    /\ \A p \in Processes : (at[p] = "asked" => marker \/ unmarked) /\ (at[p] = "restored" => profile)

HostInv ==
    /\ HTypeOK /\ (\A p \in Processes : Rests(p) /\ Within(p)) /\ Placed /\ GuardUp
    /\ ~overlapped => ~Overlap /\ Recorded /\ Marked

-----------------------------------------------------------------------------
(* Scripts *)

\* The calls a trap makes.
LEMMA TrapCalls ==
    /\ <<>> \in Seq(WayOut) /\ <<"reconnect">> \in Seq(WayOut)
    /\ <<"restore", "reconnect">> \in Seq(WayOut) /\ exit_with_stop_restore \in Seq(WayOut)
    /\ exit_with_stop_restore # <<>>
BY DEF exit_with_stop_restore, WayOut

\* The calls of recover-stop, with those of its exit.
LEMMA RecoverIs == recover_stop_link = <<"disconnect", "repair", "suspend", "write", "restore", "reconnect">>
<1> DEFINE work == <<"disconnect", "repair", "suspend", "write">>
           exit == <<"restore", "reconnect">>
           all == <<"disconnect", "repair", "suspend", "write", "restore", "reconnect">>
<1>1. work \in Seq(CallNames) /\ exit \in Seq(CallNames) /\ Len(work) = 4 /\ Len(exit) = 2
  BY DEF CallNames, WayOut
<1>2. work \o exit \in Seq(CallNames) /\ Len(work \o exit) = 6
  BY <1>1
<1>3. \A i \in 1 .. 6 : (work \o exit)[i] = all[i]
  <2>1. \A i \in 1 .. 4 : (work \o exit)[i] = work[i]
    BY ONLY <1>1
  <2>2. \A i \in 5 .. 6 : (work \o exit)[i] = exit[i - 4]
    BY ONLY <1>1
  <2>3. /\ (work \o exit)[1] = all[1] /\ (work \o exit)[2] = all[2] /\ (work \o exit)[3] = all[3]
        /\ (work \o exit)[4] = all[4]
    BY <2>1
  <2>4. (work \o exit)[5] = all[5] /\ (work \o exit)[6] = all[6]
    BY <2>2
  <2>5. QED
    BY <2>3, <2>4
<1>4. all \in Seq(CallNames) /\ Len(all) = 6
  BY DEF CallNames, WayOut
<1>5. work \o exit = all
  BY ONLY <1>2, <1>3, <1>4, SameSequence, ZenonT(30)
<1>6. QED
  BY <1>5, Zenon DEF recover_stop_link, exit_with_stop_restore

\* The rest of recover-stop, after its first call.
LEMMA RecoverCalls ==
    ASSUME NEW s \in RecoverRest, s # <<>>
    PROVE  /\ Tail(s) \in RecoverRest
           /\ Head(s) \in {"disconnect", "repair", "suspend", "write", "restore", "reconnect"}
           /\ Head(s) \in {"write", "restore", "reconnect"} => Tail(s) \in Seq(WayOut)
           /\ Tail(s) # <<>> /\ Head(Tail(s)) = "suspend" => Head(s) = "repair"
           /\ Tail(s) # <<>> /\ Head(Tail(s)) = "write" => Head(s) = "suspend"
<1>1. CASE s = <<"disconnect", "repair", "suspend", "write", "restore", "reconnect">>
  <2>1. Head(s) = "disconnect" /\ Tail(s) = <<"repair", "suspend", "write", "restore", "reconnect">>
    BY <1>1
  <2> QED
    BY <2>1, RecoverIs DEF RecoverRest
<1>2. CASE s = <<"repair", "suspend", "write", "restore", "reconnect">>
  <2>1. Head(s) = "repair" /\ Tail(s) = <<"suspend", "write", "restore", "reconnect">>
    BY <1>2
  <2> QED
    BY <2>1, RecoverIs DEF RecoverRest
<1>3. CASE s = <<"suspend", "write", "restore", "reconnect">>
  <2>1. Head(s) = "suspend" /\ Tail(s) = <<"write", "restore", "reconnect">>
    BY <1>3
  <2> QED
    BY <2>1, RecoverIs DEF RecoverRest
<1>4. CASE s = <<"write", "restore", "reconnect">>
  <2>1. Head(s) = "write" /\ Tail(s) = <<"restore", "reconnect">>
    BY <1>4
  <2>2. Tail(s) \in Seq(WayOut)
    BY <2>1, TrapCalls, ZenonT(30)
  <2> QED
    BY <2>1, <2>2, RecoverIs DEF RecoverRest
<1>5. CASE s = <<"restore", "reconnect">>
  <2>1. Head(s) = "restore" /\ Tail(s) = <<"reconnect">>
    BY <1>5
  <2>2. Tail(s) \in Seq(WayOut)
    BY <2>1, TrapCalls, ZenonT(30)
  <2> QED
    BY <2>1, <2>2, RecoverIs DEF RecoverRest
<1>6. CASE s = <<"reconnect">>
  <2>1. Head(s) = "reconnect" /\ Tail(s) = <<>>
    BY <1>6
  <2>2. Tail(s) \in Seq(WayOut)
    BY <2>1, TrapCalls, ZenonT(30)
  <2> QED
    BY <2>1, <2>2, RecoverIs, Zenon DEF RecoverRest
<1>7. QED
  BY <1>1, <1>2, <1>3, <1>4, <1>5, <1>6, RecoverIs, Zenon DEF RecoverRest

\* The rest of the preflight, after its first call.
LEMMA PreflightCalls ==
    ASSUME NEW s \in PreflightRest, s # <<>>
    PROVE  /\ Tail(s) \in PreflightRest
           /\ Head(s) \in {"disconnect", "repair", "suspend"}
           /\ Tail(s) = <<>> => Head(s) = "suspend"
           /\ Tail(s) # <<>> /\ Head(Tail(s)) = "suspend" => Head(s) = "repair"
<1>1. CASE s = <<"disconnect", "repair", "suspend">>
  <2>1. Head(s) = "disconnect" /\ Tail(s) = <<"repair", "suspend">>
    BY <1>1
  <2> QED
    BY <2>1 DEF PreflightRest, service_preflight
<1>2. CASE s = <<"repair", "suspend">>
  <2>1. Head(s) = "repair" /\ Tail(s) = <<"suspend">>
    BY <1>2
  <2> QED
    BY <2>1 DEF PreflightRest, service_preflight
<1>3. CASE s = <<"suspend">>
  <2>1. Head(s) = "suspend" /\ Tail(s) = <<>>
    BY <1>3
  <2> QED
    BY <2>1, Zenon DEF PreflightRest, service_preflight
<1>4. QED
  BY <1>1, <1>2, <1>3, Zenon DEF PreflightRest, service_preflight

\* The rest of either, after its first call.
LEMMA RestCalls ==
    ASSUME NEW p, NEW s \in Rest(p), s # <<>>
    PROVE  /\ Tail(s) \in Rest(p)
           /\ Head(s) \in CallNames \ {"release"}
           /\ Head(s) \notin {"disconnect", "repair", "suspend"} => Tail(s) \in Seq(WayOut)
           /\ Tail(s) # <<>> /\ Head(Tail(s)) = "suspend" => Head(s) = "repair"
           /\ Tail(s) # <<>> /\ Head(Tail(s)) = "write" => Head(s) = "suspend"
           /\ p = "unit" /\ Tail(s) = <<>> => Head(s) = "suspend"
<1>1. CASE p = "unit"
  <2>1. s \in PreflightRest
    BY <1>1, Zenon DEF Rest
  <2>2. Tail(s) \in PreflightRest /\ Head(s) \in {"disconnect", "repair", "suspend"}
    BY <2>1, PreflightCalls, Zenon
  <2>3. Tail(s) # <<>> => Head(Tail(s)) # "write"
    BY <2>2, PreflightCalls, ZenonT(30)
  <2>4. QED
    BY <1>1, <2>1, <2>2, <2>3, PreflightCalls, Zenon DEF Rest, CallNames
<1>2. CASE p # "unit"
  <2>1. s \in RecoverRest
    BY <1>2, Zenon DEF Rest
  <2>2. QED
    BY <1>2, <2>1, RecoverCalls, Zenon DEF Rest, CallNames, WayOut
<1>3. QED
  BY <1>1, <1>2, Zenon

-----------------------------------------------------------------------------
(* How a process moves through its script *)

\* Only this process moves.
Goes(p) ==
    /\ script' \in [Processes -> Seq(CallNames)] /\ trap' \in [Processes -> {<<>>, exit_with_stop_restore}]
    /\ at' \in [Processes -> AtSteps] /\ bad' \in [Processes -> BOOLEAN]
    /\ \A q \in Processes \ {p} :
         at'[q] = at[q] /\ script'[q] = script[q] /\ trap'[q] = trap[q] /\ (bad'[q] <=> bad[q])

\* It stays in its call, returns from it, or leaves the rest of its script.
Stays(p, step) == at'[p] = step /\ script'[p] = script[p] /\ trap'[p] = trap[p] /\ (bad'[p] <=> bad[p])
Returns(p) == at'[p] = "call" /\ script'[p] = Tail(script[p]) /\ trap'[p] = trap[p] /\ (bad'[p] <=> bad[p])
Leaves(p) ==
    /\ at'[p] = "call" /\ trap'[p] = <<>> /\ bad'[p]
    /\ script'[p] \in Seq(WayOut)
    /\ trap[p] = <<>> => script'[p] = Tail(script[p]) \/ script'[p] = <<>>

\* A call that goes on to its next step stays the head of the script.
LEMMA StepMoves ==
    ASSUME HTypeOK, NEW p \in Processes, NEW step \in AtSteps, Step(p, step)
    PROVE  Goes(p) /\ Stays(p, step)
BY Zenon DEF HTypeOK, Step, Goes, Stays

\* A call that returns leaves the rest of the script.
LEMMA ReturnMoves ==
    ASSUME HTypeOK, NEW p \in Processes, script[p] # <<>>, Return(p)
    PROVE  Goes(p) /\ Returns(p)
<1>1. script[p] \in Seq(CallNames) /\ Tail(script[p]) \in Seq(CallNames)
  BY DEF HTypeOK
<1>2. QED
  BY <1>1, Zenon DEF HTypeOK, Return, Goes, Returns, AtSteps

\* A script that ends early leaves its way out, and then its trap.
LEMMA LeaveMoves ==
    ASSUME HTypeOK, NEW p \in Processes, NEW calls \in Seq(WayOut), Leave(p, calls),
           trap[p] = <<>> => calls = Tail(script[p]) \/ calls = <<>>
    PROVE  Goes(p) /\ Leaves(p)
<1>1. trap[p] \in Seq(WayOut)
  BY TrapCalls, ZenonT(30) DEF HTypeOK
<1>2. calls \o trap[p] \in Seq(WayOut)
  BY <1>1, Joined, Zenon
<1>3. trap[p] = <<>> => calls \o trap[p] = calls
  BY JoinedEmpty, Zenon
<1>4. \A s \in Seq(WayOut) : s \in Seq(CallNames)
  BY DEF CallNames
<1>5. script' = [script EXCEPT ![p] = calls \o trap[p]] /\ trap' = [trap EXCEPT ![p] = <<>>]
  BY Zenon DEF Leave
<1>6. at' = [at EXCEPT ![p] = "call"] /\ bad' = [bad EXCEPT ![p] = TRUE]
  BY Zenon DEF Leave
<1>7. bad' \in [Processes -> BOOLEAN] /\ bad'[p] /\ \A q \in Processes \ {p} : bad'[q] <=> bad[q]
  BY <1>6, Zenon DEF HTypeOK
<1>8. at' \in [Processes -> AtSteps] /\ at'[p] = "call" /\ \A q \in Processes \ {p} : at'[q] = at[q]
  BY <1>6, Zenon DEF HTypeOK, AtSteps
<1>9. /\ script' \in [Processes -> Seq(CallNames)] /\ script'[p] = calls \o trap[p]
      /\ \A q \in Processes \ {p} : script'[q] = script[q]
  BY <1>2, <1>4, <1>5, Zenon DEF HTypeOK
<1>10. /\ trap' \in [Processes -> {<<>>, exit_with_stop_restore}] /\ trap'[p] = <<>>
       /\ \A q \in Processes \ {p} : trap'[q] = trap[q]
  BY <1>5, Zenon DEF HTypeOK
<1>11. Goes(p)
  BY <1>7, <1>8, <1>9, <1>10, Zenon DEF Goes
<1>12. QED
  BY <1>2, <1>3, <1>7, <1>8, <1>9, <1>10, <1>11, ZenonT(30) DEF Leaves

\* A call that fails leaves the script the same way.
LEMMA FailMoves ==
    ASSUME HTypeOK, NEW p \in Processes, script[p] # <<>>, Rests(p), Fail(p)
    PROVE  Goes(p) /\ Leaves(p)
<1> DEFINE calls == IF Head(script[p]) \in {"disconnect", "repair", "suspend", "release"}
                    THEN <<>> ELSE Tail(script[p])
<1>1. Leave(p, calls)
  BY Zenon DEF Fail
<1>2. script[p] \in Seq(WayOut) => Tail(script[p]) \in Seq(WayOut)
  OBVIOUS
<1>3. calls \in Seq(WayOut)
  BY <1>2, RestCalls, TrapCalls, ZenonT(30) DEF Rests
<1>4. QED
  BY <1>1, <1>3, LeaveMoves, ZenonT(30)

-----------------------------------------------------------------------------
(* What a call of a process does, seen from that process *)

\* Only this process's memory of the modules changes.
Remembers(p) ==
    /\ todo' \in [Processes -> SUBSET Modules] /\ unloaded' \in [Processes -> SUBSET Modules]
    /\ active' \in [Processes -> {"no", "unrecorded", "recorded"}]
    /\ \A q \in Processes \ {p} :
         todo'[q] = todo[q] /\ unloaded'[q] = unloaded[q] /\ active'[q] = active[q]

\* disconnect_aura_a2dp writes the marker before it drops the profile, or goes
\* on without it.
LEMMA DisconnectTells ==
    ASSUME HTypeOK, NEW p \in Processes, Rests(p), disconnect_aura_a2dp(p)
    PROVE  /\ script[p] # <<>> /\ Head(script[p]) = "disconnect" /\ Goes(p)
           /\ marker' \in BOOLEAN /\ profile' \in BOOLEAN /\ unmarked' \in BOOLEAN
           /\ UNCHANGED <<loaded, record, guard>>
           /\ marker \/ unmarked => marker' \/ unmarked'
           /\ \/ at[p] = "call" /\ Stays(p, "asked") /\ (marker' \/ unmarked') /\ (profile' <=> profile)
              \/ at[p] = "call" /\ (Returns(p) \/ Leaves(p)) /\ (profile' <=> profile)
              \/ at[p] = "asked" /\ (Returns(p) \/ Leaves(p))
<1>1. /\ script[p] # <<>> /\ Head(script[p]) = "disconnect" /\ UNCHANGED <<loaded, record, guard>>
  BY Zenon DEF disconnect_aura_a2dp, Calls
<1>2. "asked" \in AtSteps
  BY Zenon DEF AtSteps
<1>3. CASE /\ Calls(p, {"disconnect"}, "call") /\ Step(p, "asked") /\ UNCHANGED profile
           /\ marker' \in {TRUE} \cup (IF p = "unit" THEN {marker} ELSE {}) /\ unmarked' = ~marker'
  <2>1. marker' \in BOOLEAN /\ unmarked' \in BOOLEAN /\ (marker' \/ unmarked')
    BY <1>3, Zenon DEF HTypeOK
  <2>2. profile' \in BOOLEAN /\ (profile' <=> profile)
    BY <1>3, Zenon DEF HTypeOK
  <2>3. QED
    BY <1>1, <1>2, <1>3, <2>1, <2>2, StepMoves, Zenon DEF Calls
<1>4. CASE Calls(p, {"disconnect"}, "call") /\ Return(p) /\ UNCHANGED <<marker, unmarked, profile>>
  BY <1>1, <1>4, ReturnMoves, Zenon DEF Calls, HTypeOK
<1>5. CASE Calls(p, {"disconnect"}, "call") /\ marker' \in {marker, TRUE} /\ Fail(p) /\ UNCHANGED <<unmarked, profile>>
  <2>1. marker' \in BOOLEAN /\ (marker => marker')
    <3>1. marker \in BOOLEAN /\ (marker' = marker \/ marker' = TRUE)
      BY <1>5, Zenon DEF HTypeOK
    <3>2. CASE marker' = marker
      BY ONLY <3>1, <3>2, Zenon
    <3>3. CASE marker' = TRUE
      BY ONLY <3>3, Zenon
    <3>4. QED
      BY <3>1, <3>2, <3>3, Zenon
  <2>4. unmarked' \in BOOLEAN /\ (unmarked' <=> unmarked)
    BY <1>5, Zenon DEF HTypeOK
  <2>2. profile' \in BOOLEAN /\ (profile' <=> profile)
    BY <1>5, Zenon DEF HTypeOK
  <2>3. QED
    BY <1>1, <1>5, <2>1, <2>2, <2>4, FailMoves, Zenon DEF Calls
<1>6. CASE /\ Calls(p, {"disconnect"}, "asked") /\ (Return(p) \/ Fail(p)) /\ UNCHANGED <<marker, unmarked>>
           /\ profile' \in {profile, FALSE}
  <2>1. profile' \in BOOLEAN
    BY <1>6, Zenon DEF HTypeOK
  <2>2. QED
    BY <1>1, <1>6, <2>1, ReturnMoves, FailMoves, Zenon DEF Calls, HTypeOK
<1>7. QED
  BY <1>3, <1>4, <1>5, <1>6, ZenonT(30) DEF disconnect_aura_a2dp

\* restore_aura_a2dp removes the marker only once the profile is back.
LEMMA ReconnectTells ==
    ASSUME HTypeOK, NEW p \in Processes, Rests(p), restore_aura_a2dp(p)
    PROVE  /\ script[p] # <<>> /\ Head(script[p]) = "reconnect" /\ Goes(p)
           /\ marker' \in BOOLEAN /\ profile' \in BOOLEAN /\ UNCHANGED unmarked
           /\ UNCHANGED <<loaded, record, guard>> /\ (profile => profile')
           /\ \/ at[p] = "call" /\ Returns(p) /\ (marker' <=> marker)
              \/ at[p] = "call" /\ Stays(p, "restored") /\ (marker' <=> marker) /\ profile'
              \/ at[p] = "call" /\ Leaves(p) /\ (marker' <=> marker)
              \/ at[p] = "restored" /\ Returns(p)
<1>1. /\ script[p] # <<>> /\ Head(script[p]) = "reconnect" /\ UNCHANGED <<loaded, record, guard, unmarked>>
  BY Zenon DEF restore_aura_a2dp, Calls
<1>2. "restored" \in AtSteps
  BY Zenon DEF AtSteps
<1>3. CASE Calls(p, {"reconnect"}, "call") /\ Return(p) /\ UNCHANGED <<marker, profile>>
  BY <1>1, <1>3, ReturnMoves, Zenon DEF Calls, HTypeOK
<1>4. CASE Calls(p, {"reconnect"}, "call") /\ profile' = TRUE /\ Step(p, "restored") /\ UNCHANGED marker
  <2>1. profile' \in BOOLEAN /\ profile' /\ marker' \in BOOLEAN /\ (marker' <=> marker)
    BY <1>4, ZenonT(30) DEF HTypeOK
  <2>2. QED
    BY <1>1, <1>2, <1>4, <2>1, StepMoves, Zenon DEF Calls
<1>5. CASE Calls(p, {"reconnect"}, "call") /\ profile' \in {profile, TRUE} /\ Fail(p) /\ UNCHANGED marker
  <2>1. profile' \in BOOLEAN /\ (profile => profile')
    <3>1. profile \in BOOLEAN /\ (profile' = profile \/ profile' = TRUE)
      BY <1>5, Zenon DEF HTypeOK
    <3>2. CASE profile' = profile
      BY ONLY <3>1, <3>2, Zenon
    <3>3. CASE profile' = TRUE
      BY ONLY <3>3, Zenon
    <3>4. QED
      BY <3>1, <3>2, <3>3, Zenon
  <2>2. marker' \in BOOLEAN /\ (marker' <=> marker)
    BY <1>5, Zenon DEF HTypeOK
  <2>3. QED
    BY <1>1, <1>5, <2>1, <2>2, FailMoves, Zenon DEF Calls
<1>6. CASE Calls(p, {"reconnect"}, "restored") /\ marker' \in {FALSE, marker} /\ Return(p) /\ UNCHANGED profile
  <2>1. marker' \in BOOLEAN /\ profile' \in BOOLEAN /\ (profile' <=> profile)
    BY <1>6, ZenonT(30) DEF HTypeOK
  <2>2. QED
    BY <1>1, <1>6, <2>1, ReturnMoves, Zenon DEF Calls
<1>7. QED
  BY <1>3, <1>4, <1>5, <1>6, ZenonT(30) DEF restore_aura_a2dp

\* suspend: the list, the unloads and the record.
LEMMA SuspendTells ==
    ASSUME HTypeOK, NEW p \in Processes, Rests(p),
           ListModules(p) \/ UnloadModule(p) \/ persist_pulse_bluetooth_guard(p)
    PROVE  /\ script[p] # <<>> /\ Head(script[p]) = "suspend" /\ Goes(p) /\ Remembers(p)
           /\ cut' \in BOOLEAN /\ (cut => cut') /\ UNCHANGED <<profile, marker, unmarked>>
           /\ loaded' \in SUBSET Modules /\ record' \in SUBSET Modules
           /\ \/ /\ at[p] = "call" /\ loaded = {} /\ Returns(p)
                 /\ UNCHANGED <<loaded, record, todo, unloaded, active, cut>>
              \/ /\ at[p] = "call" /\ Stays(p, "unload") /\ todo'[p] = loaded
                 /\ unloaded'[p] = {} /\ active'[p] = "unrecorded" /\ UNCHANGED <<loaded, record, cut>>
              \/ Leaves(p) /\ at[p] = "call" /\ UNCHANGED <<loaded, record, todo, unloaded, active, cut>>
              \/ /\ at[p] = "unload" /\ Stays(p, "unload") /\ UNCHANGED <<record, active, cut>>
                 /\ \E m \in todo[p] :
                      /\ todo'[p] = todo[p] \ {m} /\ loaded' = loaded \ {m}
                      /\ unloaded'[p] = unloaded[p] \cup {m}
              \/ Leaves(p) /\ at[p] = "unload" /\ UNCHANGED <<loaded, record, unloaded, active, cut>>
              \/ /\ at[p] = "unload" /\ Leaves(p) /\ cut' /\ loaded' \subseteq loaded
                 /\ UNCHANGED <<record, unloaded, active>>
              \/ /\ at[p] = "unload" /\ todo[p] = {} /\ Returns(p)
                 /\ record' \subseteq unloaded[p] /\ active'[p] # "no"
                 /\ active'[p] # "unrecorded" => record' = unloaded[p]
                 /\ UNCHANGED <<loaded, unloaded, cut>>
<1>out. <<"restore">> \in Seq(WayOut) /\ <<>> \in Seq(WayOut) /\ "unload" \in AtSteps
  BY TrapCalls, SMTT(30) DEF WayOut, AtSteps
<1>1. /\ script[p] # <<>> /\ Head(script[p]) = "suspend" /\ UNCHANGED <<profile, marker, unmarked>>
  BY ZenonT(30) DEF ListModules, UnloadModule, persist_pulse_bluetooth_guard, Calls, host
<1>2. trap[p] # <<>>
  BY <1>1 DEF Rests, WayOut
<1>3. CASE ListModules(p)
  <2>1. at[p] = "call" /\ UNCHANGED <<loaded, record>>
    BY <1>3, ZenonT(30) DEF ListModules, Calls, host
  <2>2. CASE loaded = {} /\ Return(p) /\ UNCHANGED guard
    BY <1>1, <2>1, <2>2, ReturnMoves, Zenon DEF guard, HTypeOK, Remembers
  <2>3. CASE /\ Step(p, "unload") /\ todo' = [todo EXCEPT ![p] = loaded]
             /\ unloaded' = [unloaded EXCEPT ![p] = {}]
             /\ active' = [active EXCEPT ![p] = "unrecorded"] /\ UNCHANGED cut
    <3>1. Remembers(p) /\ todo'[p] = loaded /\ unloaded'[p] = {} /\ active'[p] = "unrecorded"
      BY <2>3, Zenon DEF HTypeOK, Remembers
    <3>2. QED
      BY <1>1, <1>out, <2>1, <2>3, <3>1, StepMoves, Zenon DEF HTypeOK
  <2>4. CASE Fail(p) /\ UNCHANGED guard
    BY <1>1, <2>1, <2>4, FailMoves, Zenon DEF guard, HTypeOK, Remembers
  <2>5. QED
    BY <1>3, <2>2, <2>3, <2>4, ZenonT(30) DEF ListModules
<1>4. CASE UnloadModule(p)
  <2>1. at[p] = "unload" /\ UNCHANGED <<record, active>>
    BY <1>4, ZenonT(30) DEF UnloadModule, Calls
  <2>2. PICK m \in Modules :
          /\ Visits(p, m)
          /\ \/ /\ loaded' = loaded \ {m} /\ unloaded' = [unloaded EXCEPT ![p] = @ \cup {m}]
                /\ Step(p, "unload") /\ UNCHANGED cut
             \/ Leave(p, <<"restore">>) /\ UNCHANGED <<loaded, unloaded, cut>>
             \/ loaded' = loaded \ {m} /\ Leave(p, <<>>) /\ cut' = TRUE /\ UNCHANGED unloaded
    BY <1>4, ZenonT(30) DEF UnloadModule
  <2>3. m \in todo[p] /\ todo'[p] = todo[p] \ {m} /\ todo' \in [Processes -> SUBSET Modules]
        /\ \A q \in Processes \ {p} : todo'[q] = todo[q]
    BY <2>2, Zenon DEF Visits, HTypeOK
  <2>4. CASE /\ loaded' = loaded \ {m} /\ unloaded' = [unloaded EXCEPT ![p] = @ \cup {m}]
             /\ Step(p, "unload") /\ UNCHANGED cut
    <3>1. Remembers(p) /\ unloaded'[p] = unloaded[p] \cup {m}
      BY <2>1, <2>3, <2>4, Zenon DEF HTypeOK, Remembers
    <3>2. Goes(p) /\ Stays(p, "unload")
      BY <1>out, <2>4, StepMoves, Zenon
    <3>3. loaded' \in SUBSET Modules /\ record' \in SUBSET Modules /\ cut' \in BOOLEAN
      BY <2>1, <2>4, Zenon DEF HTypeOK
    <3>4. QED
      BY <1>1, <2>1, <2>3, <2>4, <3>1, <3>2, <3>3, Zenon
  <2>5. CASE Leave(p, <<"restore">>) /\ UNCHANGED <<loaded, unloaded, cut>>
    BY <1>1, <1>2, <1>out, <2>1, <2>3, <2>5, LeaveMoves, ZenonT(30) DEF HTypeOK, Remembers
  <2>6. CASE loaded' = loaded \ {m} /\ Leave(p, <<>>) /\ cut' = TRUE /\ UNCHANGED unloaded
    <3>1. cut' \in BOOLEAN /\ cut'
      BY <2>6, Zenon
    <3>2. Goes(p) /\ Leaves(p)
      BY <1>2, <1>out, <2>6, LeaveMoves, ZenonT(30)
    <3>3. loaded' \in SUBSET Modules /\ record' \in SUBSET Modules /\ loaded' \subseteq loaded /\ Remembers(p)
      BY <2>1, <2>3, <2>6, Zenon DEF HTypeOK, Remembers
    <3>4. QED
      BY <1>1, <2>1, <2>6, <3>1, <3>2, <3>3, ZenonT(30)
  <2>7. QED
    BY <2>2, <2>4, <2>5, <2>6, ZenonT(30)
<1>5. CASE persist_pulse_bluetooth_guard(p)
  <2>1. at[p] = "unload" /\ todo[p] = {} /\ UNCHANGED <<loaded, todo, unloaded, cut>>
    BY <1>5, Zenon DEF persist_pulse_bluetooth_guard, Calls
  <2>2. CASE /\ record' \in SUBSET unloaded[p] /\ Return(p)
             /\ active' = [active EXCEPT ![p] = IF record' = unloaded[p] THEN "recorded" ELSE "unrecorded"]
    <3>1. /\ Remembers(p) /\ active'[p] # "no" /\ (active'[p] # "unrecorded" => record' = unloaded[p])
          /\ record' \subseteq unloaded[p]
      BY <2>1, <2>2, Zenon DEF HTypeOK, Remembers
    <3>2. loaded' \in SUBSET Modules /\ record' \in SUBSET Modules /\ cut' \in BOOLEAN
      BY <2>1, <3>1, Zenon DEF HTypeOK
    <3>3. QED
      BY <1>1, <2>1, <2>2, <3>1, <3>2, ReturnMoves, Zenon
  <2>3. CASE Leave(p, <<"restore">>) /\ UNCHANGED <<record, active>>
    BY <1>1, <1>2, <1>out, <2>1, <2>3, LeaveMoves, ZenonT(30) DEF HTypeOK, Remembers
  <2>4. QED
    BY <1>5, <2>2, <2>3, ZenonT(30) DEF persist_pulse_bluetooth_guard
<1>6. QED
  BY <1>3, <1>4, <1>5, ZenonT(30)

\* restore and repair: the modules to load, the loads and the end of the record.
LEMMA RestoreTells ==
    ASSUME HTypeOK, NEW p \in Processes, Rests(p),
           load_pulse_bluetooth_guard(p) \/ LoadModule(p) \/ restore_pulse_bluetooth_modules(p)
    PROVE  /\ script[p] # <<>> /\ Head(script[p]) \in {"restore", "repair"} /\ Goes(p) /\ Remembers(p)
           /\ UNCHANGED <<profile, marker, unmarked, cut>>
           /\ loaded' \in SUBSET Modules /\ record' \in SUBSET Modules
           /\ \/ /\ at[p] = "call" /\ active[p] = "no" /\ record = {} /\ Returns(p)
                 /\ UNCHANGED <<loaded, record, todo, unloaded, active>>
              \/ /\ at[p] = "call" /\ active[p] = "no" /\ Stays(p, "load")
                 /\ unloaded'[p] = record /\ active'[p] = "recorded" /\ UNCHANGED <<loaded, record>>
              \/ /\ at[p] = "call" /\ active[p] # "no" /\ Stays(p, "load")
                 /\ unloaded'[p] = unloaded[p] /\ active'[p] = active[p] /\ UNCHANGED <<loaded, record>>
              \/ /\ at[p] = "load" /\ Stays(p, "load") /\ UNCHANGED <<record, active>>
                 /\ \E m \in Modules : loaded' = loaded \cup {m} /\ unloaded'[p] = unloaded[p] \ {m}
              \/ at[p] = "load" /\ Stays(p, "load") /\ UNCHANGED <<loaded, record, unloaded, active>>
              \/ /\ at[p] = "load" /\ Returns(p) /\ unloaded[p] = {}
                 /\ record' \subseteq record /\ active'[p] = "no" /\ UNCHANGED <<loaded, unloaded>>
              \/ at[p] = "load" /\ Leaves(p) /\ UNCHANGED <<loaded, record, todo, unloaded, active>>
<1>ld. "load" \in AtSteps
  BY Zenon DEF AtSteps
<1>1. /\ script[p] # <<>> /\ Head(script[p]) \in {"restore", "repair"} /\ UNCHANGED <<profile, marker, unmarked>>
  BY ZenonT(30) DEF load_pulse_bluetooth_guard, LoadModule, restore_pulse_bluetooth_modules, Calls, host
<1>2. UNCHANGED cut
  BY Zenon DEF load_pulse_bluetooth_guard, LoadModule, restore_pulse_bluetooth_modules, guard
<1>3. CASE load_pulse_bluetooth_guard(p)
  <2>1. at[p] = "call" /\ UNCHANGED <<loaded, record>>
    BY <1>3, ZenonT(30) DEF load_pulse_bluetooth_guard, Calls, host
  <2>2. CASE active[p] = "no" /\ record = {}
    <3>1. Return(p) /\ UNCHANGED guard
      BY <1>3, <2>2, ZenonT(30) DEF load_pulse_bluetooth_guard
    <3>2. QED
      BY <1>1, <1>2, <2>1, <2>2, <3>1, ReturnMoves, Zenon DEF guard, HTypeOK, Remembers
  <2>3. CASE ~(active[p] = "no" /\ record = {})
    <3> DEFINE modules == IF active[p] = "no" THEN record ELSE unloaded[p]
    <3>1. /\ Step(p, "load")
          /\ todo' = [todo EXCEPT ![p] = modules] /\ unloaded' = [unloaded EXCEPT ![p] = modules]
          /\ active' = [active EXCEPT ![p] = IF active[p] = "no" THEN "recorded" ELSE active[p]]
      BY <1>3, <2>3, Zenon DEF load_pulse_bluetooth_guard
    <3>2. modules \in SUBSET Modules
      BY Zenon DEF HTypeOK
    <3>3. /\ Remembers(p) /\ unloaded'[p] = modules
          /\ active'[p] = IF active[p] = "no" THEN "recorded" ELSE active[p]
      BY <3>1, <3>2, Zenon DEF HTypeOK, Remembers
    <3>4. Goes(p) /\ Stays(p, "load")
      BY <1>ld, <3>1, StepMoves, Zenon
    <3>5. loaded' \in SUBSET Modules /\ record' \in SUBSET Modules
      BY <2>1, Zenon DEF HTypeOK
    <3>6. QED
      BY <1>1, <1>2, <2>1, <3>3, <3>4, <3>5, Zenon
  <2>4. QED
    BY <2>2, <2>3, ZenonT(30)
<1>4. CASE LoadModule(p)
  <2>1. at[p] = "load" /\ UNCHANGED <<record, active, script, trap, at, bad>>
    BY <1>4, ZenonT(30) DEF LoadModule, Calls
  <2>2. PICK m \in Modules :
          /\ Visits(p, m)
          /\ \/ loaded' = loaded \cup {m} /\ unloaded' = [unloaded EXCEPT ![p] = @ \ {m}]
             \/ UNCHANGED <<loaded, unloaded>>
    BY <1>4, Zenon DEF LoadModule
  <2>3. todo' \in [Processes -> SUBSET Modules] /\ \A q \in Processes \ {p} : todo'[q] = todo[q]
    BY <2>2, Zenon DEF Visits, HTypeOK
  <2>4. Goes(p) /\ Stays(p, "load")
    BY <2>1, Zenon DEF HTypeOK, Goes, Stays
  <2>5. CASE loaded' = loaded \cup {m} /\ unloaded' = [unloaded EXCEPT ![p] = @ \ {m}]
    <3>1. Remembers(p) /\ unloaded'[p] = unloaded[p] \ {m}
      BY <2>1, <2>3, <2>5, Zenon DEF HTypeOK, Remembers
    <3>2. loaded' \in SUBSET Modules /\ record' \in SUBSET Modules
      BY <2>1, <2>5, Zenon DEF HTypeOK
    <3>3. QED
      BY <1>1, <1>2, <2>1, <2>4, <2>5, <3>1, <3>2, Zenon
  <2>6. CASE UNCHANGED <<loaded, unloaded>>
    BY <1>1, <1>2, <2>1, <2>3, <2>4, <2>6, Zenon DEF HTypeOK, Remembers
  <2>7. QED
    BY <2>2, <2>5, <2>6, ZenonT(30)
<1>5. CASE restore_pulse_bluetooth_modules(p)
  <2>1. at[p] = "load" /\ UNCHANGED <<loaded, todo, unloaded>>
    BY <1>5, ZenonT(30) DEF restore_pulse_bluetooth_modules, Calls
  <2>2. CASE /\ unloaded[p] = {} /\ record' \in {{}, record} /\ active' = [active EXCEPT ![p] = "no"] /\ Return(p)
    <3>1. record' \subseteq record /\ record' \in SUBSET Modules
      BY <2>2, Zenon DEF HTypeOK
    <3>2. QED
      BY <1>1, <1>2, <2>1, <2>2, <3>1, ReturnMoves, Zenon DEF HTypeOK, Remembers
  <2>3. CASE Fail(p) /\ UNCHANGED <<record, active>>
    BY <1>1, <1>2, <2>1, <2>3, FailMoves, Zenon DEF HTypeOK, Remembers
  <2>4. QED
    BY <1>5, <2>2, <2>3, ZenonT(30) DEF restore_pulse_bluetooth_modules
<1>6. QED
  BY <1>3, <1>4, <1>5, ZenonT(30)

\* The speakers, the session and the signals do not touch the host.
LEMMA OtherTells ==
    ASSUME HTypeOK, NEW p \in Processes, Rests(p), Speakers(p) \/ Signalled(p)
    PROVE  /\ script[p] # <<>> /\ Goes(p) /\ Remembers(p)
           /\ UNCHANGED <<loaded, record, profile, marker, unmarked, unloaded, active, cut>>
           /\ \/ at[p] = "call" /\ Head(script[p]) \in {"write", "release"} /\ (Returns(p) \/ Leaves(p))
              \/ trap[p] # <<>> /\ Leaves(p)
<1>1. CASE Speakers(p)
  <2>1. /\ script[p] # <<>> /\ Head(script[p]) \in {"write", "release"} /\ at[p] = "call"
        /\ Return(p) \/ Fail(p)
    BY <1>1, Zenon DEF Speakers, Calls
  <2>2. UNCHANGED <<loaded, record, profile, marker, unmarked, todo, unloaded, active, cut>>
    BY <1>1, Zenon DEF Speakers, host, guard
  <2>3. QED
    BY <2>1, <2>2, ReturnMoves, FailMoves, Zenon DEF HTypeOK, Remembers
<1>2. CASE Signalled(p)
  <2>1. script[p] # <<>> /\ trap[p] # <<>> /\ Leave(p, <<>>) /\ todo' = [todo EXCEPT ![p] = {}]
    BY <1>2, Zenon DEF Signalled
  <2>2. UNCHANGED <<loaded, record, profile, marker, unmarked, unloaded, active, cut>>
    BY <1>2, Zenon DEF Signalled, host
  <2>3. QED
    BY <2>1, <2>2, LeaveMoves, TrapCalls, ZenonT(30) DEF HTypeOK, Remembers
<1>3. QED
  BY <1>1, <1>2, ZenonT(30)

\* The hooks other than the preflight only restore and reconnect.
LEMMA HookCalls ==
    ASSUME NEW s \in HookRest, s # <<>>
    PROVE  Head(s) \in {"restore", "reconnect"} /\ Tail(s) \in {<<"reconnect">>, <<>>}
<1>1. CASE s = <<"restore", "reconnect">>
  <2>1. Head(s) = "restore" /\ Tail(s) = <<"reconnect">>
    BY <1>1
  <2>2. QED
    BY <2>1, Zenon
<1>2. CASE s = <<"restore">>
  <2>1. Head(s) = "restore" /\ Tail(s) = <<>>
    BY <1>2
  <2>2. QED
    BY <2>1, Zenon
<1>3. CASE s = <<"reconnect">>
  <2>1. Head(s) = "reconnect" /\ Tail(s) = <<>>
    BY <1>3
  <2>2. QED
    BY <2>1, Zenon
<1>4. QED
  BY <1>1, <1>2, <1>3, Zenon DEF HookRest

-----------------------------------------------------------------------------
(* A step of one process *)

\* Any call: the process moves, and nothing of the launch does.
LEMMA GuardMoves ==
    ASSUME HTypeOK, NEW p \in Processes, Rests(p), GuardStep(p)
    PROVE  /\ UNCHANGED ovars /\ script[p] # <<>> /\ Goes(p) /\ Remembers(p)
           /\ (\E step \in AtSteps \ {"call"} : Stays(p, step)) \/ Returns(p) \/ Leaves(p)
<1> USE DEF AtSteps
<1>1. CASE disconnect_aura_a2dp(p)
  BY <1>1, DisconnectTells, Zenon DEF GuardStep, guard, HTypeOK, Remembers
<1>2. CASE restore_aura_a2dp(p)
  BY <1>2, ReconnectTells, Zenon DEF GuardStep, guard, HTypeOK, Remembers
<1>3. CASE ListModules(p) \/ UnloadModule(p) \/ persist_pulse_bluetooth_guard(p)
  BY <1>3, SuspendTells, Zenon DEF GuardStep
<1>4. CASE load_pulse_bluetooth_guard(p) \/ LoadModule(p) \/ restore_pulse_bluetooth_modules(p)
  BY <1>4, RestoreTells, ZenonT(30) DEF GuardStep
<1>5. CASE Speakers(p) \/ Signalled(p)
  BY <1>5, OtherTells, ZenonT(30) DEF GuardStep
<1>6. QED
  BY <1>1, <1>2, <1>3, <1>4, <1>5, ZenonT(30) DEF GuardStep

\* Every call leaves the process with a rest of its script ...
LEMMA GuardRests ==
    ASSUME HTypeOK, \A q \in Processes : Rests(q), NEW p \in Processes, GuardStep(p)
    PROVE  \A q \in Processes : Rests(q)'
<1>1. /\ script[p] # <<>> /\ Goes(p)
      /\ (\E step \in AtSteps \ {"call"} : Stays(p, step)) \/ Returns(p) \/ Leaves(p)
  BY GuardMoves, Zenon
<1>2. ASSUME NEW q \in Processes \ {p} PROVE Rests(q)'
  BY <1>1, ZenonT(30) DEF Goes, Rests
<1>3. Rests(p)'
  <2>1. CASE \E step \in AtSteps : Stays(p, step)
    BY <2>1, Zenon DEF Rests, Stays
  <2>2. CASE Returns(p)
    <3>1. trap[p] # <<>> => Tail(script[p]) \in Rest(p)
      BY <1>1, RestCalls, Zenon DEF Rests
    <3>2. trap[p] = <<>> => Tail(script[p]) \in Seq(WayOut)
      BY <1>1 DEF Rests
    <3>3. QED
      BY <2>2, <3>1, <3>2, Zenon DEF Rests, Returns
  <2>3. CASE Leaves(p)
    BY <2>3, Zenon DEF Rests, Leaves
  <2>4. QED
    BY <1>1, <2>1, <2>2, <2>3, Zenon
<1>4. QED
  BY <1>2, <1>3, Zenon

\* ... and inside the call it stays in.
LEMMA GuardWithin ==
    ASSUME HTypeOK, \A q \in Processes : Rests(q) /\ Within(q), NEW p \in Processes, GuardStep(p)
    PROVE  \A q \in Processes : Within(q)'
<1>1. script[p] # <<>> /\ Goes(p) /\ Remembers(p) /\ Rests(p)
  BY GuardMoves, Zenon
<1>2. ASSUME NEW q \in Processes \ {p} PROVE Within(q)'
  BY <1>1, ZenonT(30) DEF Goes, Remembers, Within
<1>3. Within(p)'
  <2>1. CASE disconnect_aura_a2dp(p)
    BY <1>1, <2>1, DisconnectTells, Zenon DEF Within, Stays, Returns, Leaves
  <2>2. CASE restore_aura_a2dp(p)
    BY <1>1, <2>2, ReconnectTells, Zenon DEF Within, Stays, Returns, Leaves
  <2>3. CASE ListModules(p) \/ UnloadModule(p) \/ persist_pulse_bluetooth_guard(p)
    BY <1>1, <2>3, SuspendTells, ZenonT(30) DEF Within, Stays, Returns, Leaves
  <2>4. CASE load_pulse_bluetooth_guard(p) \/ LoadModule(p) \/ restore_pulse_bluetooth_modules(p)
    BY <1>1, <2>4, RestoreTells, ZenonT(30) DEF Within, Stays, Returns, Leaves
  <2>5. CASE Speakers(p) \/ Signalled(p)
    BY <1>1, <2>5, OtherTells, ZenonT(30) DEF Within, Stays, Returns, Leaves
  <2>6. QED
    BY <2>1, <2>2, <2>3, <2>4, <2>5, Zenon DEF GuardStep
<1>4. QED
  BY <1>2, <1>3, Zenon

\* Two processes have calls to make at the same time only if one is the stop hook.
LEMMA Alone ==
    ASSUME OwnInv, Placed, NEW p \in Processes, NEW q \in Processes, p # q, ~Idle(p), ~Idle(q)
    PROVE  unit = "stop" /\ (p = "unit" \/ q = "unit")
<1>1. \A c \in Clients : ~Idle(c) => cpc[c] = "operate" /\ opLock = c
  BY ZenonT(30) DEF Placed, OwnInv, LocksHeld, Locking
<1>2. \A c \in Clients : ~Idle(c) /\ ~Idle("unit") => unit = "stop"
  <2> SUFFICES ASSUME NEW c \in Clients, ~Idle(c), ~Idle("unit") PROVE unit = "stop"
    BY Zenon
  <2>1. unit \in {"guard", "connect", "ready", "stop"}
    BY ZenonT(30) DEF Placed
  <2>2. ~InGap
    BY <1>1, Zenon DEF OwnInv, AdmittedOutside
  <2>3. unit # "guard"
    BY <1>1, NamesAssumption, Zenon DEF OwnInv, LocksHeld
  <2>4. QED
    BY <2>1, <2>2, <2>3, Zenon DEF InGap
<1>3. p = "unit" \/ q = "unit"
  BY <1>1, Zenon DEF Processes
<1>4. QED
  BY <1>2, <1>3, Zenon DEF Processes

\* The calls of the clients stay under the lock, those of the unit in its hooks.
LEMMA GuardPlaced ==
    ASSUME HTypeOK, \A q \in Processes : Rests(q) /\ Within(q), Placed, NEW p \in Processes, GuardStep(p)
    PROVE  Placed'
<1>1. /\ UNCHANGED ovars /\ script[p] # <<>> /\ Goes(p) /\ Remembers(p)
      /\ (\E step \in AtSteps \ {"call"} : Stays(p, step)) \/ Returns(p) \/ Leaves(p)
  BY GuardMoves, Zenon
<1>2. UNCHANGED <<cpc, unit>>
  BY <1>1, Zenon DEF ovars
<1>3. \A c \in Clients : cpc'[c] # "operate" => Idle(c)'
  <2> SUFFICES ASSUME NEW c \in Clients, cpc'[c] # "operate" PROVE Idle(c)'
    BY Zenon
  <2>1. Idle(c)
    BY <1>2, Zenon DEF Placed
  <2>2. c # p /\ c \in Processes
    BY <1>1, <2>1, Zenon DEF Idle, Processes
  <2>3. QED
    BY <1>1, <2>1, <2>2, Zenon DEF Goes, Remembers, Idle
<1>4. CASE p # "unit"
  <2>1. "unit" \in Processes \ {p}
    BY <1>4, Zenon DEF Processes
  <2>2. /\ script'["unit"] = script["unit"] /\ trap'["unit"] = trap["unit"] /\ at'["unit"] = at["unit"]
        /\ (bad'["unit"] <=> bad["unit"]) /\ active'["unit"] = active["unit"]
    BY <1>1, <2>1, Zenon DEF Goes, Remembers
  <2>3. QED
    BY <1>2, <1>3, <2>2, Zenon DEF Placed, Idle
<1>5. CASE p = "unit"
  <2>1. unit \in {"guard", "connect", "ready", "stop"}
    BY <1>1, <1>5, Zenon DEF Placed, Idle
  <2>2. unit = "connect" => bad["unit"] /\ bad'["unit"]
    BY <1>1, <1>5, Zenon DEF Placed, Stays, Returns, Leaves
  <2>3. unit = "guard" /\ ~bad'["unit"] => trap'["unit"] # <<>>
    BY <1>1, <1>5, Zenon DEF Placed, Stays, Returns, Leaves
  <2>4. ASSUME unit # "guard"
        PROVE  /\ trap'["unit"] = <<>> /\ active'["unit"] # "unrecorded"
               /\ script'["unit"] \in HookRest
               /\ at'["unit"] = "call" => script'["unit"] \in {<<"reconnect">>, <<>>}
    <3>1. trap["unit"] = <<>> /\ script["unit"] \in HookRest /\ active["unit"] # "unrecorded"
      BY <2>4, Zenon DEF Placed
    <3>2. Head(script["unit"]) \in {"restore", "reconnect"} /\ Tail(script["unit"]) \in {<<"reconnect">>, <<>>}
      BY <1>1, <1>5, <3>1, HookCalls, Zenon
    <3>3. trap'["unit"] = <<>>
      BY <1>1, <1>5, <3>1, Zenon DEF Stays, Returns, Leaves
    <3>4. at'["unit"] = "call" => script'["unit"] \in {<<"reconnect">>, <<>>}
      BY <1>1, <1>5, <3>1, <3>2, Zenon DEF Stays, Returns, Leaves
    <3>5. script'["unit"] \in HookRest
      BY <1>1, <1>5, <3>1, <3>2, Zenon DEF Stays, Returns, Leaves, HookRest
    <3>6. active'["unit"] # "unrecorded"
      <4>1. CASE disconnect_aura_a2dp(p) \/ restore_aura_a2dp(p)
        BY <1>5, <3>1, <4>1, DisconnectTells, ReconnectTells, Zenon DEF guard
      <4>2. CASE ListModules(p) \/ UnloadModule(p) \/ persist_pulse_bluetooth_guard(p)
        BY <1>5, <3>2, <4>2, SuspendTells, Zenon
      <4>3. CASE load_pulse_bluetooth_guard(p) \/ LoadModule(p) \/ restore_pulse_bluetooth_modules(p)
        BY <1>5, <3>1, <4>3, RestoreTells, Zenon
      <4>4. CASE Speakers(p) \/ Signalled(p)
        BY <1>5, <3>1, <4>4, OtherTells, Zenon
      <4>5. QED
        BY <4>1, <4>2, <4>3, <4>4, ZenonT(30) DEF GuardStep
    <3>7. QED
      BY <3>3, <3>4, <3>5, <3>6, Zenon
  <2>5. QED
    BY <1>2, <1>3, <2>1, <2>2, <2>3, <2>4, ZenonT(30) DEF Placed
<1>6. QED
  BY <1>4, <1>5, Zenon

\* A process with a guard or inside a call, which another one may disturb.
Holds(q) == IF q = "unit" THEN at["unit"] # "call" ELSE trap[q] # <<>> \/ active[q] # "no"

\* A process that works beside it without an overlap leaves it what it relies on.
LEMMA Beside ==
    ASSUME OwnInv, HTypeOK, \A r \in Processes : Rests(r) /\ Within(r), Placed,
           NEW p \in Processes, GuardStep(p), NEW q \in Processes \ {p}, Holds(q), ~Overlap, ~Overlap'
    PROVE  /\ UNCHANGED <<loaded, record>>
           /\ at[q] = "asked" /\ (marker \/ unmarked) => marker' \/ unmarked'
           /\ at[q] = "restored" /\ profile => profile'
<1>1. UNCHANGED ovars /\ script[p] # <<>> /\ Goes(p) /\ Remembers(p)
  BY GuardMoves, Zenon
<1>2. ~Idle(p) /\ ~Idle(q)
  BY <1>1, Zenon DEF Idle, Holds
<1>3. unit = "stop" /\ unit' = "stop" /\ (p = "unit" \/ q = "unit")
  BY <1>1, <1>2, Alone, Zenon DEF ovars
<1>4. /\ at'[q] = at[q] /\ script'[q] = script[q] /\ trap'[q] = trap[q] /\ active'[q] = active[q]
  BY <1>1, Zenon DEF Goes, Remembers
<1>5. "unit" \notin Clients
  BY NamesAssumption, Zenon
<1>6. script["unit"] \in HookRest /\ trap["unit"] = <<>>
  BY <1>3, Zenon DEF Placed
<1>7. CASE q = "unit"
  <2>1. p \in Clients /\ at["unit"] # "call" /\ at'["unit"] # "call"
    BY <1>3, <1>4, <1>7, Zenon DEF Processes, Holds
  <2>2. trap[p] = <<>> /\ active[p] = "no"
    BY <1>3, <2>1, Zenon DEF Overlap
  <2>3. Head(script[p]) \in WayOut
    BY <1>1, <2>2, SMTT(30) DEF Rests
  <2>4. at[p] # "load" /\ Within(q)
    BY <2>2, Zenon DEF Within
  <2>5. at[q] # "asked"
    BY <1>6, <1>7, <2>4, HookCalls, Zenon DEF Within
  <2>6. CASE disconnect_aura_a2dp(p) \/ ListModules(p) \/ UnloadModule(p) \/ persist_pulse_bluetooth_guard(p)
    BY <2>3, <2>6, DisconnectTells, SuspendTells, ZenonT(30) DEF WayOut
  <2>7. CASE restore_aura_a2dp(p)
    BY <2>5, <2>7, ReconnectTells, ZenonT(30)
  <2>8. CASE load_pulse_bluetooth_guard(p) \/ LoadModule(p) \/ restore_pulse_bluetooth_modules(p)
    BY <2>4, <2>8, RestoreTells, ZenonT(30)
  <2>9. CASE Speakers(p) \/ Signalled(p)
    BY <2>9, OtherTells, ZenonT(30)
  <2>10. QED
    BY <2>6, <2>7, <2>8, <2>9, ZenonT(30) DEF GuardStep
<1>8. CASE p = "unit"
  <2>1. q \in Clients /\ (trap[q] # <<>> \/ active[q] # "no") /\ (trap'[q] # <<>> \/ active'[q] # "no")
    BY <1>4, <1>8, ZenonT(30) DEF Processes, Holds
  <2>2. at[p] = "call" /\ at'[p] = "call"
    BY <1>3, <1>8, <2>1, Zenon DEF Overlap
  <2>3. Head(script[p]) \in {"restore", "reconnect"} /\ trap[p] = <<>>
    BY <1>1, <1>6, <1>8, HookCalls, Zenon
  <2>6. CASE disconnect_aura_a2dp(p) \/ ListModules(p) \/ UnloadModule(p) \/ persist_pulse_bluetooth_guard(p)
    BY <2>3, <2>6, DisconnectTells, SuspendTells, ZenonT(30)
  <2>7. CASE restore_aura_a2dp(p)
    BY <2>2, <2>7, ReconnectTells, ZenonT(30) DEF Stays
  <2>8. CASE load_pulse_bluetooth_guard(p) \/ LoadModule(p) \/ restore_pulse_bluetooth_modules(p)
    BY <2>2, <2>8, RestoreTells, ZenonT(30)
  <2>9. CASE Speakers(p) \/ Signalled(p)
    BY <2>3, <2>9, OtherTells, ZenonT(30)
  <2>10. QED
    BY <2>6, <2>7, <2>8, <2>9, ZenonT(30) DEF GuardStep
<1>9. QED
  BY <1>3, <1>7, <1>8, Zenon
-----------------------------------------------------------------------------
(* A step of the guards *)

\* A call keeps the guards up that are up, and ends a suspend only with all modules out.
LEMMA GuardStaysUp ==
    ASSUME OwnInv, HostInv, NEW p \in Processes, GuardStep(p), overlapped' <=> overlapped \/ Overlap'
    PROVE  GuardUp'
<1>i. HTypeOK /\ (\A r \in Processes : Rests(r) /\ Within(r)) /\ Placed /\ GuardUp /\ (~overlapped => ~Overlap)
  BY Zenon DEF HostInv
<1>1. /\ UNCHANGED ovars /\ script[p] # <<>> /\ Goes(p) /\ Remembers(p)
      /\ (\E step \in AtSteps \ {"call"} : Stays(p, step)) \/ Returns(p) \/ Leaves(p)
  BY <1>i, GuardMoves, Zenon
<1>2. unit' = unit /\ ~Idle(p) /\ "unit" \in Processes /\ (p # "unit" => p \in Clients) /\ "unit" \notin Clients
  BY <1>1, NamesAssumption, Zenon DEF ovars, Idle, Processes
<1>3. p # "unit" => unit \notin {"guard", "spawn", "connect"}
  <2> SUFFICES ASSUME p # "unit" PROVE unit \notin {"guard", "spawn", "connect"}
    BY Zenon
  <2>1. cpc[p] = "operate" /\ opLock = p
    BY <1>i, <1>2, Zenon DEF Placed, OwnInv, LocksHeld, Locking
  <2>2. QED
    BY <1>2, <2>1, NamesAssumption, Zenon DEF OwnInv, LocksHeld, AdmittedOutside, InGap
<1>4. ASSUME Returns(p), Head(script[p]) = "suspend", p = "unit" \/ ~overlapped
      PROVE  loaded' = {}
  <2>1. at[p] = "unload" => loaded \subseteq todo[p]
    BY <1>i, <1>4, Zenon DEF GuardUp
  <2>2. CASE ListModules(p) \/ UnloadModule(p) \/ persist_pulse_bluetooth_guard(p)
    <3>1. ~Leaves(p) \/ trap[p] = <<>>
      BY <1>4, Zenon DEF Returns, Leaves
    <3>2. trap[p] # <<>>
      BY <1>i, <1>1, <1>4 DEF Rests, WayOut
    <3>3. \A step \in AtSteps \ {"call"} : ~Stays(p, step)
      BY <1>4, Zenon DEF Returns, Stays
    <3>4. QED
      BY <1>i, <2>1, <2>2, <3>1, <3>2, <3>3, SuspendTells, Zenon DEF AtSteps
  <2>3. CASE \/ disconnect_aura_a2dp(p) \/ restore_aura_a2dp(p) \/ Speakers(p)
             \/ load_pulse_bluetooth_guard(p) \/ LoadModule(p) \/ restore_pulse_bluetooth_modules(p)
    BY <1>4, <2>3, Zenon DEF disconnect_aura_a2dp, restore_aura_a2dp, Speakers, load_pulse_bluetooth_guard,
                      LoadModule, restore_pulse_bluetooth_modules, Calls
  <2>4. CASE Signalled(p)
    <3>1. trap[p] # <<>> /\ Leaves(p)
      BY <1>4, <2>4, <1>i, OtherTells, Zenon
    <3>2. QED
      BY <1>4, <3>1, Zenon DEF Returns, Leaves
  <2>5. QED
    BY <2>2, <2>3, <2>4, Zenon DEF GuardStep
<1>5. ASSUME unit' \in {"guard", "spawn", "connect"}, ~bad'["unit"], script'["unit"] = <<>>
      PROVE  loaded' = {}
  <2>1. p = "unit"
    BY <1>2, <1>3, <1>5, Zenon
  <2>2. Returns(p)
    BY <1>1, <1>5, <2>1, Zenon DEF Stays, Leaves
  <2>3. unit = "guard" /\ ~bad["unit"]
    BY <1>i, <1>1, <1>2, <1>5, <2>1, <2>2, Zenon DEF Placed, Returns
  <2>4. script[p] \in Rest(p) /\ Tail(script[p]) = <<>>
    BY <1>i, <1>5, <2>1, <2>2, <2>3, ZenonT(30) DEF Placed, Rests, Returns
  <2>5. Head(script[p]) = "suspend"
    BY <1>1, <2>1, <2>4, RestCalls, Zenon
  <2>6. QED
    BY <1>4, <2>1, <2>2, <2>5, Zenon
<1>6. ASSUME NEW q \in Processes, q = "unit" \/ ~overlapped', at'[q] = "unload"
      PROVE  loaded' \subseteq todo'[q]
  <2>1. CASE q = p
    <3>1. Stays(p, "unload")
      BY <1>1, <1>6, <2>1, Zenon DEF Stays, Returns, Leaves
    <3>2. CASE ListModules(p) \/ UnloadModule(p) \/ persist_pulse_bluetooth_guard(p)
      <4>1. ~Returns(p) /\ ~Leaves(p)
        BY <3>1, Zenon DEF Stays, Returns, Leaves
      <4>2. at[p] = "unload" => loaded \subseteq todo[p]
        BY <1>i, <1>6, <2>1, Zenon DEF GuardUp
      <4>3. QED
        BY <1>i, <2>1, <3>2, <4>1, <4>2, SuspendTells, Zenon
    <3>3. CASE ~(ListModules(p) \/ UnloadModule(p) \/ persist_pulse_bluetooth_guard(p))
      <4>1. ~Returns(p) /\ ~Leaves(p) /\ \A step \in {"asked", "restored", "load"} : ~Stays(p, step)
        BY <3>1, Zenon DEF Stays, Returns, Leaves
      <4>2. QED
        BY <1>i, <3>3, <4>1, DisconnectTells, ReconnectTells, RestoreTells, OtherTells, Zenon DEF GuardStep
    <3>4. QED
      BY <3>2, <3>3, Zenon
  <2>2. CASE q # p
    <3>1. at[q] = "unload" /\ todo'[q] = todo[q]
      BY <1>1, <1>6, <2>2, Zenon DEF Goes, Remembers
    <3>2. active[q] = "unrecorded" /\ ~Idle(q)
      BY <1>i, <3>1, Zenon DEF Within, Idle
    <3>3. unit = "stop"
      BY <1>i, <1>2, <2>2, <3>2, Alone, Zenon
    <3>4. q # "unit" /\ ~overlapped'
      BY <1>i, <1>6, <3>2, <3>3, Zenon DEF Placed
    <3>5. ~overlapped /\ ~Overlap /\ ~Overlap'
      BY <1>i, <3>4, Zenon
    <3>6. Holds(q)
      BY <3>2, <3>4, Zenon DEF Holds
    <3>7. UNCHANGED loaded
      BY <1>i, <2>2, <3>5, <3>6, Beside, Zenon
    <3>8. QED
      BY <1>i, <3>1, <3>5, <3>7, Zenon DEF GuardUp
  <2>3. QED
    BY <2>1, <2>2, Zenon
<1>7. ASSUME NEW c \in Clients, ~overlapped', Calls(c, {"write"}, "call")'
      PROVE  loaded' = {}
  <2>1. c \in Processes /\ c # "unit" /\ script'[c] # <<>> /\ Head(script'[c]) = "write" /\ at'[c] = "call"
    BY <1>2, <1>7, Zenon DEF Processes, Calls
  <2>2. ~overlapped /\ ~Overlap /\ ~Overlap'
    BY <1>i, <1>7, Zenon
  <2>3. CASE c = p
    <3>1. Returns(p)
      BY <1>1, <2>1, <2>3 DEF Stays, Leaves, WayOut
    <3>2. trap[p] # <<>>
      BY <1>i, <1>1, <2>1, <2>3, <3>1 DEF Rests, Returns, WayOut
    <3>3. Head(script[p]) = "suspend"
      BY <1>i, <1>1, <2>1, <2>3, <3>1, <3>2, RestCalls, Zenon DEF Rests, Returns
    <3>4. QED
      BY <1>4, <2>2, <3>1, <3>3, Zenon
  <2>4. CASE c # p
    <3>1. Calls(c, {"write"}, "call")
      BY <1>1, <2>1, <2>4, Zenon DEF Goes, Calls
    <3>2. trap[c] # <<>>
      BY <1>i, <2>1, <3>1 DEF Rests, WayOut, Calls
    <3>3. UNCHANGED loaded
      BY <1>i, <2>1, <2>2, <2>4, <3>2, Beside, Zenon DEF Holds
    <3>4. QED
      BY <1>i, <2>2, <3>1, <3>3, Zenon DEF GuardUp
  <2>5. QED
    BY <2>3, <2>4, Zenon
<1>8. QED
  BY <1>5, <1>6, <1>7, Zenon DEF GuardUp

\* A call that overlaps nothing keeps every missing module on record or in memory.
LEMMA GuardRecords ==
    ASSUME OwnInv, HostInv, NEW p \in Processes, GuardStep(p), ~overlapped, ~Overlap'
    PROVE  Recorded'
<1> SUFFICES ASSUME ~cut' PROVE Recorded'
  BY Zenon DEF Recorded
<1>i. /\ HTypeOK /\ (\A r \in Processes : Rests(r) /\ Within(r)) /\ Placed /\ ~Overlap /\ Recorded
  BY Zenon DEF HostInv
<1>1. /\ UNCHANGED ovars /\ script[p] # <<>> /\ Goes(p) /\ Remembers(p) /\ ~Idle(p)
      /\ (\E step \in AtSteps \ {"call"} : Stays(p, step)) \/ Returns(p) \/ Leaves(p)
  BY <1>i, GuardMoves, Zenon DEF Idle
<1>2. unit' = unit /\ "unit" \notin Clients
  BY <1>1, NamesAssumption, Zenon DEF ovars
<1>3. ASSUME NEW q \in Processes \ {p}, trap[q] # <<>> \/ active[q] = "unrecorded"
      PROVE  Holds(q) /\ UNCHANGED record /\ UNCHANGED loaded
  <2>1. unit = "stop"
    BY <1>i, <1>1, <1>3, Alone, Zenon DEF Idle
  <2>2. q # "unit"
    BY <1>i, <1>3, <2>1, Zenon DEF Placed
  <2>3. Holds(q)
    BY <1>3, <2>2, Zenon DEF Holds
  <2>4. QED
    BY <1>i, <2>3, Beside, Zenon
<1>c. ~cut
  <2>1. CASE disconnect_aura_a2dp(p) \/ restore_aura_a2dp(p)
    BY <1>i, <2>1, DisconnectTells, ReconnectTells, Zenon DEF guard
  <2>2. CASE ListModules(p) \/ UnloadModule(p) \/ persist_pulse_bluetooth_guard(p)
    BY <1>i, <2>2, SuspendTells, ZenonT(30)
  <2>3. CASE load_pulse_bluetooth_guard(p) \/ LoadModule(p) \/ restore_pulse_bluetooth_modules(p)
    BY <1>i, <2>3, RestoreTells, ZenonT(30)
  <2>4. CASE Speakers(p) \/ Signalled(p)
    BY <1>i, <2>4, OtherTells, Zenon
  <2>5. QED
    BY <2>1, <2>2, <2>3, <2>4, ZenonT(30) DEF GuardStep
<1>own. /\ Calls(p, {"suspend"}, "call") => record \subseteq loaded /\ active[p] = "no"
        /\ active[p] # "no" /\ (p = "unit" => unit # "stop" \/ at["unit"] = "load") =>
              record \ loaded \subseteq unloaded[p]
        /\ at[p] = "unload" => active[p] = "unrecorded" /\ record \ loaded \subseteq unloaded[p]
        /\ at[p] = "load" => active[p] # "no" /\ record \ loaded \subseteq unloaded[p]
  <2>1. Shares(p) /\ Within(p)
    BY <1>i, <1>c, Zenon DEF Recorded
  <2>2. active[p] = "unrecorded" /\ p = "unit" => unit # "stop"
    BY <1>i, Zenon DEF Placed
  <2>3. QED
    BY <2>1, <2>2, Zenon DEF Shares, Within
<1>4. ASSUME NEW q \in Processes, Calls(q, {"suspend"}, "call")'
      PROVE  record' \subseteq loaded' /\ active'[q] = "no"
  <2>1. script'[q] # <<>> /\ Head(script'[q]) = "suspend" /\ at'[q] = "call"
    BY <1>4, Zenon DEF Calls
  <2>2. CASE q = p
    <3>1. Returns(p)
      BY <1>1, <2>1, <2>2, SMTT(30) DEF Stays, Leaves, WayOut
    <3>2. trap[p] # <<>>
      BY <1>i, <1>1, <2>1, <2>2, <3>1, SMTT(30) DEF Rests, Returns, WayOut
    <3>3. Head(script[p]) = "repair"
      BY <1>i, <1>1, <2>1, <2>2, <3>1, <3>2, RestCalls, Zenon DEF Rests, Returns
    <3>4. ~Leaves(p) /\ \A step \in {"load"} : ~Stays(p, step)
      BY <3>1, <3>2, Zenon DEF Returns, Leaves, Stays
    <3>5. CASE load_pulse_bluetooth_guard(p) \/ LoadModule(p) \/ restore_pulse_bluetooth_modules(p)
      BY <1>i, <1>own, <2>2, <3>4, <3>5, RestoreTells, ZenonT(30)
    <3>6. ~disconnect_aura_a2dp(p) /\ ~restore_aura_a2dp(p)
      BY <1>i, <3>3, DisconnectTells, ReconnectTells, Zenon
    <3>7. ~ListModules(p) /\ ~UnloadModule(p) /\ ~persist_pulse_bluetooth_guard(p)
      BY <1>i, <3>3, SuspendTells, Zenon
    <3>8. CASE Speakers(p) \/ Signalled(p)
      BY <1>i, <3>3, <3>4, <3>8, OtherTells, ZenonT(30)
    <3>9. QED
      BY <3>5, <3>6, <3>7, <3>8, ZenonT(30) DEF GuardStep
  <2>3. CASE q # p
    <3>1. Calls(q, {"suspend"}, "call") /\ active'[q] = active[q]
      BY <1>1, <2>1, <2>3, Zenon DEF Goes, Remembers, Calls
    <3>2. trap[q] # <<>>
      BY <1>i, <3>1 DEF Rests, WayOut, Calls
    <3>3. QED
      BY <1>i, <1>c, <1>3, <2>3, <3>1, <3>2, Zenon DEF Recorded, Shares
  <2>4. QED
    BY <2>2, <2>3, Zenon
<1>6. ASSUME NEW q \in Processes, active'[q] # "no", q = "unit" => unit' # "stop" \/ at'["unit"] = "load"
      PROVE  record' \ loaded' \subseteq unloaded'[q]
  <2>1. CASE q = p
    <3>1. CASE disconnect_aura_a2dp(p)
      BY <1>i, <1>2, <1>own, <1>6, <2>1, <3>1, DisconnectTells, Zenon DEF guard, Stays, Returns, Leaves
    <3>2. CASE restore_aura_a2dp(p)
      BY <1>i, <1>2, <1>own, <1>6, <2>1, <3>2, ReconnectTells, Zenon DEF guard, Stays, Returns, Leaves
    <3>3. CASE ListModules(p) \/ UnloadModule(p) \/ persist_pulse_bluetooth_guard(p)
      BY <1>i, <1>own, <1>6, <2>1, <3>3, SuspendTells, Zenon DEF Calls
    <3>4. CASE load_pulse_bluetooth_guard(p) \/ LoadModule(p) \/ restore_pulse_bluetooth_modules(p)
      <4>1. active[p] # "no" /\ at[p] = "call" /\ p = "unit" => unit # "stop"
        <5> SUFFICES ASSUME active[p] # "no", at[p] = "call", p = "unit", unit = "stop" PROVE FALSE
          BY Zenon
        <5>1. script[p] = <<"reconnect">>
          BY <1>i, <1>1, Zenon DEF Placed
        <5>2. Head(script[p]) = "reconnect"
          BY <5>1
        <5>3. QED
          BY <1>i, <3>4, <5>2, RestoreTells, Zenon
      <4>2. QED
        BY <1>i, <1>2, <1>own, <1>6, <2>1, <3>4, <4>1, RestoreTells, Zenon DEF Leaves
    <3>5. CASE Speakers(p) \/ Signalled(p)
      BY <1>i, <1>2, <1>own, <1>6, <2>1, <3>5, OtherTells, Zenon DEF Returns, Leaves
    <3>6. QED
      BY <3>1, <3>2, <3>3, <3>4, <3>5, ZenonT(30) DEF GuardStep
  <2>2. CASE q # p
    <3>1. active[q] # "no" /\ unloaded'[q] = unloaded[q] /\ at'[q] = at[q]
      BY <1>1, <1>6, <2>2, Zenon DEF Goes, Remembers
    <3>2. unit = "stop" /\ (q = "unit" => at["unit"] = "load")
      BY <1>i, <1>1, <1>2, <1>6, <2>2, <3>1, Alone, Zenon DEF Idle
    <3>3. Holds(q)
      BY <3>1, <3>2, Zenon DEF Holds
    <3>4. UNCHANGED <<loaded, record>>
      BY <1>i, <2>2, <3>3, Beside, Zenon
    <3>5. QED
      BY <1>i, <1>c, <3>1, <3>2, <3>4, Zenon DEF Recorded, Shares
  <2>3. QED
    BY <2>1, <2>2, Zenon
<1>7. ASSUME NEW m \in Modules \ loaded'
      PROVE  m \in record' \/ \E q \in Processes : active'[q] = "unrecorded" /\ m \in unloaded'[q]
  <2>0. \A q \in Processes \ {p} : active'[q] = active[q] /\ unloaded'[q] = unloaded[q]
    BY <1>1, Zenon DEF Remembers
  <2>old. m \notin loaded =>
             m \in record \/ \E q \in Processes : active[q] = "unrecorded" /\ m \in unloaded[q]
    BY <1>i, <1>c, <1>7, Zenon DEF Recorded
  <2>1. CASE disconnect_aura_a2dp(p) \/ restore_aura_a2dp(p)
    BY <1>i, <1>7, <2>old, <2>1, DisconnectTells, ReconnectTells, Zenon DEF guard
  <2>2. CASE ListModules(p) \/ UnloadModule(p) \/ persist_pulse_bluetooth_guard(p)
    <3>1. \A q \in Processes \ {p} : active[q] = "unrecorded" => active[p] # "unrecorded"
      <4> SUFFICES ASSUME NEW q \in Processes \ {p}, active[q] = "unrecorded", active[p] = "unrecorded" PROVE FALSE
        BY Zenon
      <4>1. unit = "stop" /\ (p = "unit" \/ q = "unit")
        BY <1>i, <1>1, Alone, Zenon DEF Idle
      <4>2. QED
        BY <1>i, <4>1, Zenon DEF Placed
    <3>2. QED
      BY <1>i, <1>own, <1>7, <2>0, <2>old, <2>2, <3>1, SuspendTells, ZenonT(30) DEF Calls
  <2>3. CASE load_pulse_bluetooth_guard(p) \/ LoadModule(p) \/ restore_pulse_bluetooth_modules(p)
    <3>1. Remembers(p)
      BY <1>1
    <3>2. CASE /\ UNCHANGED <<loaded, record>>
               /\ active[p] = "no" \/ (active'[p] = active[p] /\ unloaded'[p] = unloaded[p])
      BY <1>7, <2>0, <2>old, <3>1, <3>2, Zenon
    <3>3. CASE /\ UNCHANGED <<record, active>>
               /\ \E n \in Modules : loaded' = loaded \cup {n} /\ unloaded'[p] = unloaded[p] \ {n}
      BY <1>7, <2>0, <2>old, <3>1, <3>3, Zenon
    <3>4. CASE at[p] = "load" /\ unloaded[p] = {} /\ UNCHANGED loaded
      <4>1. m \notin record
        BY <1>i, <1>7, <1>own, <3>4, Zenon DEF HTypeOK
      <4>2. QED
        BY <1>7, <2>0, <2>old, <3>1, <3>4, <4>1, Zenon
    <3>5. QED
      BY <1>i, <2>3, <3>2, <3>3, <3>4, RestoreTells, ZenonT(30)
  <2>4. CASE Speakers(p) \/ Signalled(p)
    BY <1>i, <1>7, <2>old, <2>4, OtherTells, Zenon
  <2>5. QED
    BY <2>1, <2>2, <2>3, <2>4, ZenonT(30) DEF GuardStep
<1>8. QED
  BY <1>4, <1>6, <1>7, Zenon DEF Recorded, Shares

\* A call that overlaps nothing keeps a missing profile marked.
LEMMA GuardMarks ==
    ASSUME OwnInv, HostInv, NEW p \in Processes, GuardStep(p), ~overlapped, ~Overlap'
    PROVE  Marked'
<1>i. /\ HTypeOK /\ (\A r \in Processes : Rests(r) /\ Within(r)) /\ Placed /\ ~Overlap /\ Marked
  BY Zenon DEF HostInv
<1>1. /\ script[p] # <<>> /\ Goes(p) /\ ~Idle(p)
      /\ (\E step \in AtSteps \ {"call"} : Stays(p, step)) \/ Returns(p) \/ Leaves(p)
  BY <1>i, GuardMoves, Zenon DEF Idle
<1>2. ASSUME NEW q \in Processes \ {p}
      PROVE  (at'[q] = "asked" => marker' \/ unmarked') /\ (at'[q] = "restored" => profile')
  <2>1. /\ at'[q] = at[q] /\ Within(q) /\ Rests(q)
        /\ (at[q] = "asked" => marker \/ unmarked) /\ (at[q] = "restored" => profile)
    BY <1>i, <1>1, Zenon DEF Goes, Marked
  <2>2. CASE Holds(q)
    BY <1>i, <2>1, <2>2, Beside, Zenon
  <2>3. CASE ~Holds(q)
    <3>1. at[q] # "call" => q # "unit" /\ trap[q] = <<>> /\ ~Idle(q)
      BY <2>3, Zenon DEF Holds, Idle
    <3>2. at[q] # "asked"
      BY <2>1, <3>1, SMTT(30) DEF Within, Rests, WayOut
    <3>3. at[q] = "restored" => p = "unit" /\ script["unit"] \in HookRest
      BY <1>i, <1>1, <3>1, Alone, Zenon DEF Placed
    <3>4. ASSUME at[q] = "restored" PROVE profile'
      <4>1. Head(script[p]) \in {"restore", "reconnect"} /\ profile
        BY <1>1, <2>1, <3>3, <3>4, HookCalls, Zenon
      <4>2. CASE disconnect_aura_a2dp(p) \/ ListModules(p) \/ UnloadModule(p) \/ persist_pulse_bluetooth_guard(p)
        BY <1>i, <4>1, <4>2, DisconnectTells, SuspendTells, ZenonT(30)
      <4>3. CASE restore_aura_a2dp(p)
        BY <1>i, <4>1, <4>3, ReconnectTells, Zenon
      <4>4. CASE load_pulse_bluetooth_guard(p) \/ LoadModule(p) \/ restore_pulse_bluetooth_modules(p)
        BY <1>i, <4>1, <4>4, RestoreTells, Zenon
      <4>5. CASE Speakers(p) \/ Signalled(p)
        BY <1>i, <4>1, <4>5, OtherTells, ZenonT(30)
      <4>6. QED
        BY <4>2, <4>3, <4>4, <4>5, ZenonT(30) DEF GuardStep
    <3>5. QED
      BY <2>1, <3>2, <3>4, Zenon
  <2>4. QED
    BY <2>2, <2>3, Zenon
<1>3. /\ (~profile' => marker' \/ unmarked')
      /\ (at'[p] = "asked" => marker' \/ unmarked') /\ (at'[p] = "restored" => profile')
  <2>0. /\ (~profile => marker \/ unmarked)
        /\ (at[p] = "asked" => marker \/ unmarked) /\ (at[p] = "restored" => profile)
    BY <1>i, Zenon DEF Marked
  <2>1. CASE disconnect_aura_a2dp(p)
    BY <1>i, <2>0, <2>1, DisconnectTells, Zenon DEF Stays, Returns, Leaves
  <2>2. CASE restore_aura_a2dp(p)
    BY <1>i, <2>0, <2>2, ReconnectTells, Zenon DEF Stays, Returns, Leaves
  <2>3. CASE ListModules(p) \/ UnloadModule(p) \/ persist_pulse_bluetooth_guard(p)
    <3>1. UNCHANGED <<profile, marker, unmarked>> /\ (Stays(p, "unload") \/ Returns(p) \/ Leaves(p))
      BY <1>i, <2>3, SuspendTells, Zenon
    <3>2. QED
      BY <2>0, <3>1, Zenon DEF Stays, Returns, Leaves
  <2>4. CASE load_pulse_bluetooth_guard(p) \/ LoadModule(p) \/ restore_pulse_bluetooth_modules(p)
    <3>1. UNCHANGED <<profile, marker, unmarked>> /\ (Stays(p, "load") \/ Returns(p) \/ Leaves(p))
      BY <1>i, <2>4, RestoreTells, Zenon
    <3>2. QED
      BY <2>0, <3>1, Zenon DEF Stays, Returns, Leaves
  <2>5. CASE Speakers(p) \/ Signalled(p)
    BY <1>i, <2>0, <2>5, OtherTells, ZenonT(30) DEF Stays, Returns, Leaves
  <2>6. QED
    BY <2>1, <2>2, <2>3, <2>4, <2>5, ZenonT(30) DEF GuardStep
<1>4. QED
  BY <1>2, <1>3, Zenon DEF Marked

\* A step of the guards preserves the invariant.
LEMMA GuardKeeps ==
    ASSUME OwnInv, HostInv, NEW p \in Processes, GuardStep(p),
           overlapped' \in BOOLEAN, overlapped' <=> overlapped \/ Overlap'
    PROVE  HostInv'
<1>i. HTypeOK /\ (\A q \in Processes : Rests(q) /\ Within(q)) /\ Placed
  BY Zenon DEF HostInv
<1>1. HTypeOK'
  <2>1. Goes(p) /\ Remembers(p)
    BY <1>i, GuardMoves, Zenon
  <2>2. loaded' \in SUBSET Modules /\ record' \in SUBSET Modules /\ profile' \in BOOLEAN /\ marker' \in BOOLEAN
        /\ cut' \in BOOLEAN /\ unmarked' \in BOOLEAN
    <3>1. CASE disconnect_aura_a2dp(p)
      BY <1>i, <3>1, DisconnectTells, Zenon DEF HTypeOK, guard
    <3>2. CASE restore_aura_a2dp(p)
      BY <1>i, <3>2, ReconnectTells, Zenon DEF HTypeOK, guard
    <3>3. CASE ListModules(p) \/ UnloadModule(p) \/ persist_pulse_bluetooth_guard(p)
      BY <1>i, <3>3, SuspendTells, Zenon DEF HTypeOK
    <3>4. CASE load_pulse_bluetooth_guard(p) \/ LoadModule(p) \/ restore_pulse_bluetooth_modules(p)
      BY <1>i, <3>4, RestoreTells, Zenon DEF HTypeOK
    <3>5. CASE Speakers(p) \/ Signalled(p)
      BY <1>i, <3>5, OtherTells, Zenon DEF HTypeOK
    <3>6. QED
      BY <3>1, <3>2, <3>3, <3>4, <3>5, ZenonT(30) DEF GuardStep
  <2>3. QED
    BY <2>1, <2>2, Zenon DEF HTypeOK, Goes, Remembers
<1>2. (\A q \in Processes : Rests(q)' /\ Within(q)') /\ Placed' /\ GuardUp'
  BY <1>i, GuardRests, GuardWithin, GuardPlaced, GuardStaysUp, Zenon
<1>3. ~overlapped' => ~Overlap' /\ Recorded' /\ Marked'
  BY GuardRecords, GuardMarks, Zenon
<1>4. QED
  BY <1>1, <1>2, <1>3, ZenonT(30) DEF HostInv

-----------------------------------------------------------------------------
(* Processes that end and begin *)

\* What the end of a process leaves to the host and to the other processes.
LEMMA BeginsTells ==
    ASSUME HTypeOK, NEW p \in Processes, NEW calls \in Seq(CallNames),
           NEW exit \in {<<>>, exit_with_stop_restore}, Begins(p, calls, exit)
    PROVE  /\ Goes(p) /\ Remembers(p) /\ UNCHANGED <<loaded, record, profile, marker, unmarked>>
           /\ script'[p] = calls /\ trap'[p] = exit /\ at'[p] = "call" /\ active'[p] = "no" /\ ~bad'[p]
           /\ cut' \in BOOLEAN /\ (cut' <=> cut \/ (active[p] = "unrecorded" /\ unloaded[p] # {}))
<1>1. /\ script' = [script EXCEPT ![p] = calls] /\ trap' = [trap EXCEPT ![p] = exit]
      /\ at' = [at EXCEPT ![p] = "call"] /\ todo' = [todo EXCEPT ![p] = {}]
      /\ unloaded' = [unloaded EXCEPT ![p] = {}] /\ active' = [active EXCEPT ![p] = "no"]
      /\ UNCHANGED <<loaded, record, profile, marker, unmarked>>
  BY Zenon DEF Begins, host
<1>2. /\ script' \in [Processes -> Seq(CallNames)] /\ trap' \in [Processes -> {<<>>, exit_with_stop_restore}]
      /\ at' \in [Processes -> AtSteps]
      /\ script'[p] = calls /\ trap'[p] = exit /\ at'[p] = "call" /\ active'[p] = "no"
      /\ \A q \in Processes \ {p} : at'[q] = at[q] /\ script'[q] = script[q] /\ trap'[q] = trap[q]
  BY <1>1, Zenon DEF HTypeOK, AtSteps
<1>3. Remembers(p)
  BY <1>1, Zenon DEF HTypeOK, Remembers
<1>4. bad' \in [Processes -> BOOLEAN] /\ ~bad'[p] /\ \A q \in Processes \ {p} : bad'[q] <=> bad[q]
  <2>1. bad \in [Processes -> BOOLEAN] /\ bad' = [bad EXCEPT ![p] = FALSE]
    BY Zenon DEF HTypeOK, Begins
  <2>2. QED
    BY <2>1, ZenonT(30)
<1>5. cut' \in BOOLEAN
  <2>1. cut' = (cut \/ (active[p] = "unrecorded" /\ unloaded[p] # {}))
    BY Zenon DEF Begins
  <2>2. QED
    BY ONLY <2>1, Zenon
<1>6. cut' <=> cut \/ (active[p] = "unrecorded" /\ unloaded[p] # {})
  BY ZenonT(30) DEF Begins
<1>7. QED
  BY <1>1, <1>2, <1>3, <1>4, <1>5, <1>6, Zenon DEF Goes

\* The part of the invariant that does not depend on whose turn it is.
LEMMA BeginsKeeps ==
    ASSUME OwnInv, HostInv, NEW p \in Processes, NEW calls \in Seq(CallNames),
           NEW exit \in {<<>>, exit_with_stop_restore}, Begins(p, calls, exit),
           exit # <<>> => calls \in Rest(p), exit = <<>> => calls \in Seq(WayOut),
           calls # <<>> => Head(calls) \notin {"suspend", "write"}, p = "unit" \/ UNCHANGED unit,
           overlapped' \in BOOLEAN, overlapped' <=> overlapped \/ Overlap'
    PROVE  /\ HTypeOK' /\ (\A q \in Processes : Rests(q)' /\ Within(q)')
           /\ ~overlapped' => ~Overlap' /\ Recorded' /\ Marked'
           /\ \A q \in Processes : (q = "unit" \/ ~overlapped') /\ at'[q] = "unload" => loaded' \subseteq todo'[q]
           /\ \A c \in Clients : ~overlapped' /\ Calls(c, {"write"}, "call")' => loaded' = {}
<1>i. HTypeOK /\ (\A q \in Processes : Rests(q) /\ Within(q)) /\ GuardUp
  BY Zenon DEF HostInv
<1>1. /\ Goes(p) /\ Remembers(p) /\ UNCHANGED <<loaded, record, profile, marker, unmarked>>
      /\ script'[p] = calls /\ trap'[p] = exit /\ at'[p] = "call" /\ active'[p] = "no" /\ ~bad'[p]
      /\ cut' \in BOOLEAN /\ (cut' <=> cut \/ (active[p] = "unrecorded" /\ unloaded[p] # {}))
  BY <1>i, BeginsTells, Zenon
<1>2. HTypeOK'
  BY <1>i, <1>1, Zenon DEF HTypeOK, Goes, Remembers
<1>3. ASSUME NEW q \in Processes PROVE Rests(q)' /\ Within(q)'
  <2>1. CASE q = p
    BY <1>1, <2>1, Zenon DEF Rests, Within
  <2>2. CASE q # p
    BY <1>i, <1>1, <2>2, ZenonT(30) DEF Rests, Within, Goes, Remembers
  <2>3. QED
    BY <2>1, <2>2, Zenon
<1>4. \A q \in Processes : (q = "unit" \/ ~overlapped') /\ at'[q] = "unload" => loaded' \subseteq todo'[q]
  BY <1>i, <1>1, Zenon DEF GuardUp, Goes, Remembers
<1>5. \A c \in Clients : ~overlapped' /\ Calls(c, {"write"}, "call")' => loaded' = {}
  BY <1>i, <1>1, Zenon DEF GuardUp, Goes, Calls, Processes
<1>6. ASSUME ~overlapped PROVE Recorded' /\ Marked'
  <2>i. Recorded /\ Marked
    BY <1>6, Zenon DEF HostInv
  <2>1. Marked'
    BY <1>1, <2>i, ZenonT(30) DEF Marked, Goes
  <2>2. ASSUME ~cut', NEW q \in Processes
        PROVE  Shares(q)'
    <3>1. CASE q = p
      BY <1>1, <3>1, Zenon DEF Shares, Calls
    <3>2. CASE q # p
      BY <1>1, <2>i, <2>2, <3>2, ZenonT(30) DEF Recorded, Shares, Calls, Goes, Remembers
    <3>3. QED
      BY <3>1, <3>2, Zenon
  <2>3. ASSUME ~cut', NEW m \in Modules \ loaded'
        PROVE  m \in record' \/ \E q \in Processes : active'[q] = "unrecorded" /\ m \in unloaded'[q]
    <3>1. ~cut /\ ~(active[p] = "unrecorded" /\ unloaded[p] # {})
      BY <1>1, <2>3, Zenon
    <3>2. m \in record \/ \E q \in Processes : active[q] = "unrecorded" /\ m \in unloaded[q]
      BY <1>1, <2>i, <2>3, <3>1, Zenon DEF Recorded
    <3>3. QED
      BY <1>1, <3>1, <3>2, Zenon DEF Remembers
  <2>4. QED
    BY <2>1, <2>2, <2>3, Zenon DEF Recorded
<1>7. QED
  BY <1>2, <1>3, <1>4, <1>5, <1>6, Zenon

\* A hook of the unit is reached with the guard as the step before left it.
LEMMA HookTells ==
    ASSUME OwnInv, Placed, GuardUp, HookEnds \/ UnitFailsOrStops
    PROVE  /\ RunsHook /\ UNCHANGED cpc /\ [ONext]_ovars
           /\ unit' \in {"spawn", "connect"} => loaded = {}
<1>1. CASE UnitFailsOrStops
  <2>1. RunsHook /\ (StartUnit \/ UnitFails)
    BY <1>1, ZenonT(30) DEF UnitFailsOrStops, UnitFails
  <2>2. UNCHANGED cpc /\ unit' \notin {"spawn", "connect"}
    BY <1>1, Zenon DEF UnitFailsOrStops, StartUnit, BeginCycle, PreflightKilled, DaemonFailed, StopUnit, FailCycle, NoClient
  <2>3. QED
    BY <2>1, <2>2, Zenon DEF ONext
<1>2. CASE HookEnds
  <2>1. RunsHook /\ (Unit \/ UnitFails)
    BY <1>2, Zenon DEF HookEnds, Unit, UnitFails
  <2>2. UNCHANGED cpc /\ (unit' \in {"spawn", "connect"} => loaded = {})
    <3>1. CASE StopPost \/ PreflightRollback
      BY <3>1, Zenon DEF StopPost, ClearsReservation, PreflightRollback, FailCycle, NoClient
    <3>2. CASE PreflightLock \/ PreflightAdopt \/ PreflightClaim \/ DaemonReady \/ PostStart
      BY <3>2, Zenon DEF PreflightLock, PreflightAdopt, PreflightClaim, DaemonReady, PostStart, ClearsReservation,
                  FailCycle, NoClient
    <3>3. CASE PreflightEnd /\ script["unit"] = <<>> /\ ~bad["unit"]
      BY <3>3, Zenon DEF PreflightEnd, NoClient, GuardUp
    <3>4. CASE DaemonLock
      BY <3>4, Zenon DEF DaemonLock, NoClient, GuardUp, Placed, Idle
    <3>5. QED
      BY <1>2, <3>1, <3>2, <3>3, <3>4, ZenonT(30) DEF HookEnds
  <2>3. QED
    BY <2>1, <2>2, Zenon DEF ONext
<1>3. QED
  BY <1>1, <1>2, Zenon

\* The calls of the hooks and of the operations.
LEMMA ScriptCalls ==
    /\ service_preflight \in Seq(CallNames) /\ Head(service_preflight) = "disconnect"
    /\ service_preflight # <<>>
    /\ service_post_start \in Seq(WayOut) /\ shutdown_session \in Seq(WayOut)
    /\ Head(service_post_start) = "restore" /\ Head(shutdown_session) = "release"
    /\ recover_stop_link \in Seq(CallNames) /\ Head(recover_stop_link) = "disconnect"
    /\ \A s \in Seq(WayOut) : s \in Seq(CallNames)
<1>1. recover_stop_link \in Seq(CallNames) /\ Head(recover_stop_link) = "disconnect"
  BY RecoverIs DEF CallNames, WayOut
<1>2. /\ service_preflight \in Seq(CallNames) /\ Head(service_preflight) = "disconnect"
      /\ service_preflight # <<>>
  BY DEF service_preflight, CallNames, WayOut
<1>3. /\ service_post_start \in Seq(WayOut) /\ shutdown_session \in Seq(WayOut)
      /\ Head(service_post_start) = "restore" /\ Head(shutdown_session) = "release"
  BY DEF service_post_start, shutdown_session, WayOut
<1>4. \A s \in Seq(WayOut) : s \in Seq(CallNames)
  BY DEF CallNames
<1>5. QED
  BY <1>1, <1>2, <1>3, <1>4, Zenon

\* The hook that systemd runs.
LEMMA HookRuns ==
    ASSUME RunsHook
    PROVE  \E calls \in Seq(CallNames), exit \in {<<>>, exit_with_stop_restore} :
             /\ Begins("unit", calls, exit)
             /\ unit' = "guard" => calls = service_preflight /\ exit = exit_with_stop_restore
             /\ unit' # "guard" => exit = <<>> /\ calls \in HookRest
             /\ unit' \notin {"guard", "ready", "stop"} => calls = <<>>
<1>1. CASE unit' = "guard"
  <2>1. Begins("unit", service_preflight, exit_with_stop_restore)
    BY <1>1, Zenon DEF RunsHook
  <2>2. QED
    BY <1>1, <2>1, ScriptCalls, Zenon
<1>2. CASE unit' = "ready"
  <2>1. Begins("unit", service_post_start, <<>>)
    BY <1>2, Zenon DEF RunsHook
  <2>2. service_post_start \in HookRest /\ service_post_start \in Seq(CallNames)
    BY ScriptCalls, Zenon DEF service_post_start, HookRest
  <2>3. QED
    BY <1>2, <2>1, <2>2, Zenon
<1>3. CASE unit' = "stop"
  <2>1. Begins("unit", service_cleanup(failed'), <<>>)
    BY <1>3, Zenon DEF RunsHook
  <2>2. service_cleanup(failed') \in {<<"restore">>, <<"restore", "reconnect">>}
    BY Zenon DEF service_cleanup, exit_with_stop_restore
  <2>3. service_cleanup(failed') \in HookRest
    BY <2>2, Zenon DEF HookRest
  <2>4. service_cleanup(failed') \in Seq(CallNames)
    BY <2>2, ScriptCalls, TrapCalls, Zenon DEF service_post_start
  <2>5. QED
    BY <1>3, <2>1, <2>3, <2>4, Zenon
<1>4. CASE unit' \notin {"guard", "ready", "stop"}
  <2>1. Begins("unit", <<>>, <<>>)
    BY <1>4, Zenon DEF RunsHook
  <2>2. QED
    BY <1>4, <2>1, TrapCalls, ScriptCalls, Zenon DEF HookRest
<1>5. QED
  BY <1>1, <1>2, <1>3, <1>4, Zenon

\* The rest of a hook is a way out.
LEMMA HookRestCalls ==
    ASSUME NEW s \in HookRest
    PROVE  s \in Seq(WayOut) /\ (s # <<>> => Head(s) \notin {"suspend", "write"})
<1>1. s \in Seq(WayOut)
  BY TrapCalls, ScriptCalls, Zenon DEF HookRest, service_post_start
<1>2. QED
  BY <1>1, HookCalls, Zenon

\* A hook that ends, fails or begins preserves the invariant.
LEMMA HookKeeps ==
    ASSUME OwnInv, HostInv, HookEnds \/ UnitFailsOrStops,
           overlapped' \in BOOLEAN, overlapped' <=> overlapped \/ Overlap'
    PROVE  HostInv'
<1>i. HTypeOK /\ Placed /\ GuardUp /\ "unit" \in Processes
  BY Zenon DEF HostInv, Processes
<1>1. RunsHook /\ UNCHANGED cpc /\ (unit' \in {"spawn", "connect"} => loaded = {})
  BY <1>i, HookTells, Zenon
<1>2. PICK calls \in Seq(CallNames), exit \in {<<>>, exit_with_stop_restore} :
             /\ Begins("unit", calls, exit)
             /\ unit' = "guard" => calls = service_preflight /\ exit = exit_with_stop_restore
             /\ unit' # "guard" => exit = <<>> /\ calls \in HookRest
             /\ unit' \notin {"guard", "ready", "stop"} => calls = <<>>
  BY <1>1, HookRuns, Zenon
<1>3. /\ exit # <<>> => calls \in Rest("unit")
      /\ exit = <<>> => calls \in Seq(WayOut)
      /\ calls # <<>> => Head(calls) \notin {"suspend", "write"}
  <2>1. CASE unit' = "guard"
    BY <1>2, <2>1, ScriptCalls, TrapCalls, Zenon DEF Rest, PreflightRest
  <2>2. CASE unit' # "guard"
    BY <1>2, <2>2, HookRestCalls, Zenon
  <2>3. QED
    BY <2>1, <2>2, Zenon
<1>4. /\ HTypeOK' /\ (\A q \in Processes : Rests(q)' /\ Within(q)')
      /\ ~overlapped' => ~Overlap' /\ Recorded' /\ Marked'
      /\ \A q \in Processes : (q = "unit" \/ ~overlapped') /\ at'[q] = "unload" => loaded' \subseteq todo'[q]
      /\ \A c \in Clients : ~overlapped' /\ Calls(c, {"write"}, "call")' => loaded' = {}
  BY <1>i, <1>2, <1>3, BeginsKeeps, Zenon
<1>5. /\ Goes("unit") /\ Remembers("unit") /\ UNCHANGED loaded
      /\ script'["unit"] = calls /\ trap'["unit"] = exit /\ at'["unit"] = "call"
      /\ active'["unit"] = "no" /\ ~bad'["unit"]
  BY <1>i, <1>2, BeginsTells, Zenon
<1>6. Placed'
  <2>1. \A c \in Clients : c \in Processes \ {"unit"}
    BY NamesAssumption, Zenon DEF Processes
  <2>2. ASSUME NEW c \in Clients, cpc'[c] # "operate" PROVE Idle(c)'
    <3>1. Idle(c)
      BY <1>i, <1>1, <2>2, Zenon DEF Placed
    <3>2. QED
      BY <1>5, <2>1, <3>1, Zenon DEF Idle, Goes, Remembers
  <2>3. unit' \notin {"guard", "connect", "ready", "stop"} => Idle("unit")' /\ ~bad'["unit"]
    BY <1>2, <1>5, Zenon DEF Idle
  <2>4. exit_with_stop_restore # <<>>
    BY TrapCalls, Zenon
  <2>5. QED
    BY <1>2, <1>5, <2>2, <2>3, <2>4, Zenon DEF Placed
<1>7. GuardUp'
  BY <1>1, <1>2, <1>4, <1>5, ScriptCalls, Zenon DEF GuardUp
<1>8. QED
  BY <1>4, <1>6, <1>7, Zenon DEF HostInv

\* So does the wait of service_post_start that runs out.
LEMMA PostTimeoutKeeps ==
    ASSUME HostInv, PostTimeout, overlapped' \in BOOLEAN, overlapped' <=> overlapped \/ Overlap'
    PROVE  HostInv'
<1>i. HTypeOK /\ (\A q \in Processes : Rests(q) /\ Within(q)) /\ Placed /\ GuardUp /\ "unit" \in Processes
  BY Zenon DEF HostInv, Processes
<1>1. /\ unit = "connect" /\ script["unit"] = <<>> /\ ~bad["unit"]
      /\ script' = [script EXCEPT !["unit"] = service_post_start]
      /\ bad' = [bad EXCEPT !["unit"] = TRUE]
      /\ UNCHANGED <<loaded, record, profile, marker, unmarked, todo, unloaded, active, cut, trap, at, unit, cpc>>
  BY Zenon DEF PostTimeout, host, guard, ovars
<1>2. bad' \in [Processes -> BOOLEAN] /\ bad'["unit"] /\ \A q \in Processes \ {"unit"} : bad'[q] <=> bad[q]
  <2>1. bad \in [Processes -> BOOLEAN] /\ bad' = [bad EXCEPT !["unit"] = TRUE]
    BY <1>i, <1>1, Zenon DEF HTypeOK
  <2>2. QED
    BY <1>i, <2>1, ZenonT(30)
<1>3. /\ script' \in [Processes -> Seq(CallNames)] /\ script'["unit"] = service_post_start
      /\ \A q \in Processes \ {"unit"} : script'[q] = script[q]
  BY <1>i, <1>1, ScriptCalls, Zenon DEF HTypeOK
<1>4. at["unit"] = "call" /\ trap["unit"] = <<>> /\ active["unit"] = "no"
  BY <1>i, <1>1, Zenon DEF Within, Placed, HTypeOK
<1>5. HTypeOK'
  BY <1>i, <1>1, <1>2, <1>3, Zenon DEF HTypeOK
<1>6. \A q \in Processes : Rests(q)' /\ Within(q)'
  BY <1>i, <1>1, <1>3, <1>4, ScriptCalls, ZenonT(30) DEF Rests, Within
<1>7. Placed'
  <2>1. \A c \in Clients : c \in Processes \ {"unit"}
    BY NamesAssumption, Zenon DEF Processes
  <2>2. \A c \in Clients : cpc'[c] # "operate" => Idle(c)'
    BY <1>i, <1>1, <1>3, <2>1, Zenon DEF Placed, Idle
  <2>3. script'["unit"] \in HookRest
    BY <1>3, Zenon DEF HookRest, service_post_start
  <2>4. QED
    BY <1>1, <1>2, <1>4, <2>2, <2>3, Zenon DEF Placed
<1>8. GuardUp'
  <2>1. ASSUME NEW c \in Clients, ~overlapped', Calls(c, {"write"}, "call")' PROVE loaded' = {}
    <3>1. Calls(c, {"write"}, "call")
      BY <1>1, <1>3, <2>1, NamesAssumption, Zenon DEF Calls, Processes
    <3>2. QED
      BY <1>i, <1>1, <2>1, <3>1, Zenon DEF GuardUp
  <2>2. QED
    BY <1>i, <1>1, <1>2, <2>1, Zenon DEF GuardUp
<1>9. ASSUME ~overlapped PROVE Recorded' /\ Marked'
  <2>1. Recorded /\ Marked
    BY <1>9, Zenon DEF HostInv
  <2>2. \A q \in Processes : Calls(q, {"suspend"}, "call")' => Calls(q, {"suspend"}, "call")
    BY <1>1, <1>3, ScriptCalls, Zenon DEF Calls
  <2>3. QED
    BY <1>1, <2>1, <2>2, Zenon DEF Recorded, Shares, Marked
<1>10. QED
  BY <1>5, <1>6, <1>7, <1>8, <1>9, ZenonT(30) DEF HostInv

\* A step that concerns no guard.
LEMMA OthersKeep ==
    ASSUME HostInv, UNCHANGED hvars, \A c \in Clients : cpc'[c] # "operate" => Idle(c),
           UNCHANGED unit \/ (unit \in {"inactive", "restart"} /\ unit' = "pre"),
           overlapped' \in BOOLEAN, overlapped' <=> overlapped \/ Overlap'
    PROVE  HostInv'
<1>i. HTypeOK /\ (\A q \in Processes : Rests(q) /\ Within(q)) /\ Placed /\ GuardUp
  BY Zenon DEF HostInv
<1>1. UNCHANGED <<loaded, record, profile, marker, unmarked, todo, unloaded, active, cut, script, trap, at, bad>>
  BY Zenon DEF hvars, host, guard
<1>2. HTypeOK' /\ (\A q \in Processes : Rests(q)' /\ Within(q)')
  BY <1>i, <1>1, Zenon DEF HTypeOK, Rests, Within
<1>3. Placed'
  BY <1>i, <1>1, Zenon DEF Placed, Idle
<1>4. GuardUp'
  BY <1>i, <1>1, ZenonT(30) DEF GuardUp, Calls
<1>5. ASSUME ~overlapped PROVE Recorded' /\ Marked'
  <2>1. Recorded /\ Marked
    BY <1>5, Zenon DEF HostInv
  <2>2. QED
    BY <1>1, <2>1, Zenon DEF Recorded, Shares, Marked, Calls
<1>6. QED
  BY <1>2, <1>3, <1>4, <1>5, ZenonT(30) DEF HostInv

\* A client that begins its operation, ends it or is interrupted.
LEMMA OperationKeeps ==
    ASSUME OwnInv, HostInv, NEW c \in Clients, NEW calls \in Seq(CallNames),
           NEW exit \in {<<>>, exit_with_stop_restore}, Begins(c, calls, exit),
           exit # <<>> => calls \in Rest(c), exit = <<>> => calls \in Seq(WayOut),
           calls # <<>> => Head(calls) \notin {"suspend", "write"}, UNCHANGED unit,
           (calls = <<>> /\ exit = <<>>) \/ cpc'[c] = "operate",
           \A d \in Clients \ {c} : cpc'[d] = cpc[d],
           overlapped' \in BOOLEAN, overlapped' <=> overlapped \/ Overlap'
    PROVE  HostInv'
<1>i. HTypeOK /\ Placed /\ GuardUp /\ c \in Processes /\ "unit" \in Processes \ {c}
  BY NamesAssumption, Zenon DEF HostInv, Processes
<1>1. /\ HTypeOK' /\ (\A q \in Processes : Rests(q)' /\ Within(q)')
      /\ ~overlapped' => ~Overlap' /\ Recorded' /\ Marked'
      /\ \A q \in Processes : (q = "unit" \/ ~overlapped') /\ at'[q] = "unload" => loaded' \subseteq todo'[q]
      /\ \A d \in Clients : ~overlapped' /\ Calls(d, {"write"}, "call")' => loaded' = {}
  BY <1>i, BeginsKeeps, Zenon
<1>2. /\ Goes(c) /\ Remembers(c) /\ UNCHANGED loaded
      /\ script'[c] = calls /\ trap'[c] = exit /\ at'[c] = "call" /\ active'[c] = "no" /\ ~bad'[c]
  BY <1>i, BeginsTells, ZenonT(30)
<1>3. /\ script'["unit"] = script["unit"] /\ trap'["unit"] = trap["unit"] /\ at'["unit"] = at["unit"]
      /\ active'["unit"] = active["unit"] /\ (bad'["unit"] <=> bad["unit"])
  BY <1>i, <1>2, Zenon DEF Goes, Remembers
<1>4. ASSUME NEW d \in Clients, cpc'[d] # "operate" PROVE Idle(d)'
  <2>1. CASE d = c
    BY <1>2, <1>4, <2>1, Zenon DEF Idle
  <2>2. CASE d # c
    <3>1. Idle(d) /\ d \in Processes \ {c}
      BY <1>i, <1>4, <2>2, Zenon DEF Placed, Processes
    <3>2. QED
      BY <1>2, <3>1, Zenon DEF Idle, Goes, Remembers
  <2>3. QED
    BY <2>1, <2>2, Zenon
<1>5. Placed'
  BY <1>i, <1>3, <1>4, Zenon DEF Placed, Idle
<1>6. GuardUp'
  BY <1>i, <1>1, <1>2, <1>3, ZenonT(30) DEF GuardUp
<1>7. QED
  BY <1>1, <1>5, <1>6, ZenonT(30) DEF HostInv

\* The step of a client is one of Ownership.
LEMMA ClientTells ==
    ASSUME NEW c \in Clients, HClient(c)
    PROVE  Client(c)
BY Zenon DEF HClient, Client

\* The step of a client preserves the invariant.
LEMMA ClientKeeps ==
    ASSUME OwnInv, HostInv, NEW c \in Clients, HClient(c),
           overlapped' \in BOOLEAN, overlapped' <=> overlapped \/ Overlap'
    PROVE  HostInv'
<1>i. Placed /\ cpc \in [Clients -> ClientSteps]
  BY Zenon DEF HostInv, OwnInv, OwnTypeOK
<1>0. <<>> \in Seq(CallNames) /\ <<>> \in Seq(WayOut)
  BY TrapCalls, ScriptCalls, Zenon
<1>1. ASSUME \/ AcquireLock(c) \/ RejectLaunchInProgress(c)
             \/ Reserve(c) \/ SystemctlStart(c) \/ SystemctlReturns(c) \/ Relock(c)
             \/ SettleFailed(c) \/ Settle(c) \/ ClearReservation(c),
             UNCHANGED hvars
      PROVE  HostInv'
  <2>1. /\ cpc[c] # "operate" /\ \A d \in Clients \ {c} : cpc'[d] = cpc[d]
        /\ UNCHANGED unit \/ (unit \in {"inactive", "restart"} /\ unit' = "pre")
    <3> USE <1>i DEF At, Goto, NoUnit
    <3>1. CASE AcquireLock(c) \/ RejectLaunchInProgress(c) \/ Reserve(c)
      BY <3>1, Zenon DEF AcquireLock, RejectLaunchInProgress, Reserve
    <3>2. CASE SystemctlStart(c) \/ SystemctlReturns(c) \/ Relock(c)
      BY <3>2, Zenon DEF SystemctlStart, SystemctlReturns, Relock, BeginCycle
    <3>3. CASE SettleFailed(c) \/ Settle(c) \/ ClearReservation(c)
      BY <3>3, Zenon DEF SettleFailed, Settle, ClearReservation
    <3>4. QED
      BY <1>1, <3>1, <3>2, <3>3, Zenon
  <2>2. \A d \in Clients : cpc'[d] # "operate" => Idle(d)
    BY <1>i, <2>1, Zenon DEF Placed
  <2>3. QED
    BY <1>1, <2>1, <2>2, OthersKeep, ZenonT(30)
<1>2. ASSUME Operate(c) PROVE UNCHANGED unit /\ cpc'[c] = "operate" /\ \A d \in Clients \ {c} : cpc'[d] = cpc[d]
  BY <1>i, <1>2, Zenon DEF Operate, At, Goto, NoUnit
<1>3. CASE Operate(c) /\ Begins(c, recover_stop_link, exit_with_stop_restore)
  <2>1. recover_stop_link \in Rest(c) /\ exit_with_stop_restore # <<>> /\ recover_stop_link \in Seq(CallNames)
        /\ Head(recover_stop_link) \notin {"suspend", "write"}
    BY NamesAssumption, TrapCalls, ScriptCalls, Zenon DEF Rest, RecoverRest
  <2>2. QED
    BY <1>2, <1>3, <2>1, OperationKeeps, Zenon
<1>4. CASE Operate(c) /\ Begins(c, shutdown_session, <<>>)
  <2>1. shutdown_session \in Seq(WayOut) /\ shutdown_session \in Seq(CallNames)
        /\ Head(shutdown_session) \notin {"suspend", "write"}
    BY ScriptCalls, Zenon
  <2>2. QED
    BY <1>2, <1>4, <2>1, OperationKeeps, Zenon
<1>5. CASE (Operate(c) \/ Finish(c) \/ Interrupted(c)) /\ Begins(c, <<>>, <<>>)
  <2>1. UNCHANGED unit /\ \A d \in Clients \ {c} : cpc'[d] = cpc[d]
    BY <1>i, <1>5, Zenon DEF Operate, Finish, Interrupted, At, Goto, NoUnit
  <2>2. QED
    BY <1>0, <1>5, <2>1, OperationKeeps, ZenonT(30)
<1>6. QED
  BY <1>1, <1>3, <1>4, <1>5, ZenonT(30) DEF HClient

-----------------------------------------------------------------------------
(* The guards: the theorems *)

\* The processes with their guards take no step that the locks do not allow.
LEMMA HostOwns ==
    ASSUME OwnInv, HostInv, [HNext]_allvars
    PROVE  [ONext]_ovars
<1>1. CASE UNCHANGED allvars
  BY <1>1, Zenon DEF allvars
<1>2. CASE HookEnds \/ UnitFailsOrStops
  BY <1>2, HookTells, Zenon DEF HostInv
<1>3. CASE PostTimeout \/ \E p \in Processes : GuardStep(p)
  BY <1>3, Zenon DEF PostTimeout, GuardStep, ovars
<1>4. CASE \E c \in Clients : HClient(c)
  BY <1>4, ClientTells, Zenon DEF ONext
<1>5. CASE Rust
  BY <1>5, Zenon DEF ONext
<1>6. QED
  BY <1>1, <1>2, <1>3, <1>4, <1>5, ZenonT(30) DEF HNext

\* Every step preserves the invariant.
LEMMA HostStep ==
    ASSUME OwnInv, HostInv, [HNext]_allvars
    PROVE  HostInv'
<1>1. CASE UNCHANGED allvars
  <2>1. UNCHANGED <<ovars, hvars, overlapped>>
    BY <1>1, Zenon DEF allvars
  <2>2. UNCHANGED <<unit, cpc, at, trap, active>> /\ overlapped \in BOOLEAN /\ Placed /\ (~overlapped => ~Overlap)
    BY <2>1, Zenon DEF ovars, hvars, guard, HostInv, HTypeOK
  <2>3. (overlapped' \in BOOLEAN) /\ (overlapped' <=> overlapped)
    BY <2>1, <2>2, ZenonT(30)
  <2>4. Overlap' <=> Overlap
    BY <2>2, Zenon DEF Overlap
  <2>5. \A c \in Clients : cpc'[c] # "operate" => Idle(c)
    BY <2>2, Zenon DEF Placed
  <2>6. QED
    BY <2>1, <2>2, <2>3, <2>4, <2>5, OthersKeep, Zenon
<1>2. CASE HNext
  <2>1. overlapped' = (overlapped \/ Overlap')
    BY <1>2, Zenon DEF HNext
  <2>2. overlapped' \in BOOLEAN
    BY ONLY <2>1, Zenon
  <2>3. overlapped' <=> overlapped \/ Overlap'
    BY <2>1, ZenonT(30)
  <2>4. CASE Rust /\ UNCHANGED hvars
    <3>1. UNCHANGED <<unit, cpc>>
      BY <2>4, Zenon DEF Rust, RustLockOperation, RustGate, RustLockSession, RustReleaseSession,
                            RustReleaseOperation, RustCrash, NoUnit, NoClient
    <3>2. \A c \in Clients : cpc'[c] # "operate" => Idle(c)
      BY <3>1, Zenon DEF HostInv, Placed
    <3>3. QED
      BY <2>2, <2>3, <2>4, <3>1, <3>2, OthersKeep, Zenon
  <2>5. CASE \E p \in Processes : GuardStep(p)
    BY <2>2, <2>3, <2>5, GuardKeeps, Zenon
  <2>6. CASE \E c \in Clients : HClient(c)
    BY <2>2, <2>3, <2>6, ClientKeeps, Zenon
  <2>7. CASE HookEnds \/ UnitFailsOrStops
    BY <2>2, <2>3, <2>7, HookKeeps, Zenon
  <2>8. CASE PostTimeout
    BY <2>2, <2>3, <2>8, PostTimeoutKeeps, Zenon
  <2>9. QED
    BY <1>2, <2>4, <2>5, <2>6, <2>7, <2>8, ZenonT(30) DEF HNext
<1>3. QED
  BY <1>1, <1>2, Zenon

\* It holds at first.
LEMMA HostInitial == HInit => OwnInv /\ HostInv
<1> SUFFICES ASSUME HInit PROVE OwnInv /\ HostInv
  BY Zenon
<1>1. OwnInv /\ unit = "inactive"
  BY OwnershipInitial, Zenon DEF HInit, OInit
<1>2. HTypeOK /\ ~overlapped /\ ~cut /\ profile /\ ~marker /\ ~unmarked /\ \A p \in Processes : ~bad[p]
  BY TrapCalls, ScriptCalls, ZenonT(30) DEF HInit, HTypeOK, AtSteps
<1>3. \A p \in Processes : script[p] = <<>> /\ trap[p] = <<>> /\ at[p] = "call" /\ active[p] = "no" /\ Idle(p)
  BY Zenon DEF HInit, Idle
<1>4. \A p \in Processes : Rests(p) /\ Within(p)
  BY <1>3, TrapCalls, ZenonT(30) DEF Rests, Within
<1>5. Placed
  BY <1>1, <1>2, <1>3, Zenon DEF Placed, Processes, HookRest
<1>6. GuardUp
  BY <1>1, <1>3, Zenon DEF GuardUp, Calls, Processes
<1>7. ~Overlap /\ Recorded /\ Marked
  BY <1>1, <1>2, <1>3, Zenon DEF Overlap, Recorded, Shares, Marked, Calls, HInit
<1>8. QED
  BY <1>1, <1>2, <1>4, <1>5, <1>6, <1>7, ZenonT(30) DEF HostInv

\* The invariant of the locks and that of the guards hold together: the first
\* keeps two processes out of their guards at once, except beside the stop hook.
THEOREM HostInvariant == HSpec => [](OwnInv /\ HostInv)
<1>1. HInit => OwnInv /\ HostInv
  BY HostInitial, Zenon
<1>2. OwnInv /\ HostInv /\ [HNext]_allvars => (OwnInv /\ HostInv)'
  BY HostOwns, HostStep, OwnershipStep, Zenon
<1>3. QED
  BY <1>1, <1>2, PTL DEF HSpec

\* Processes that make the calls of the guards between the steps of Ownership
\* still implement it: they cross no lock.
THEOREM HostImplementsOwnership == HSpec => OSpec
<1>1. HInit => OInit
  BY Zenon DEF HInit
<1>2. OwnInv /\ HostInv /\ [HNext]_allvars => [ONext]_ovars
  BY HostOwns, Zenon
<1>3. QED
  BY <1>1, <1>2, HostInvariant, PTL DEF HSpec, OSpec

\* GuardHolds for any set of modules, clients and invocations: the daemon
\* connects, and recover-stop writes, with no Bluetooth module loaded.
THEOREM GuardIsUp == HSpec => []GuardHolds
<1>1. HostInv => GuardHolds
  BY Zenon DEF HostInv, GuardUp, GuardHolds
<1>2. QED
  BY <1>1, HostInvariant, PTL

\* HostOnRecord for any set of modules, clients and invocations: a missing
\* module is on record or remembered unless a process ended without a full
\* record, and a missing profile has its marker unless the write of the marker
\* failed unnoticed in the preflight.
THEOREM HostIsOnRecord == HSpec => []HostOnRecord
<1>1. HostInv => HostOnRecord
  <2>1. SUFFICES ASSUME HostInv, ~overlapped
                 PROVE  /\ ~cut => Modules \ loaded \subseteq record \cup UNION {unloaded[p] : p \in Processes}
                        /\ ~profile => marker \/ unmarked
    BY Zenon DEF HostOnRecord
  <2>2. Recorded /\ Marked
    BY <2>1, Zenon DEF HostInv
  <2>3. QED
    BY <2>2, Zenon DEF Recorded, Marked
<1>2. QED
  BY <1>1, HostInvariant, PTL

\* The guards leave the ownership protocol as safe as it was: nobody else writes
\* in the launch gap, and the Rust service is alone.
THEOREM HostIsSafe == HSpec => [](LaunchGapClosed /\ RustOwnsAlone)
  BY HostImplementsOwnership, GapIsClosed, RustIsAlone, PTL

-----------------------------------------------------------------------------
(* How long a claim may stay *)

\* The steps of the unit before the hook that clears its claim.
ClaimLeft ==
    CASE unit = "stop" -> 1
      [] unit = "ready" -> 2
      [] unit = "connect" -> 3
      [] unit = "spawn" -> 4
      [] unit = "guard" -> 5
      [] OTHER -> 0

\* A claim is cleared, or it stays as it is and its hook gets nearer with every
\* step of the unit, a failing one included; nobody else touches either.
ClaimGoes ==
    claims # {} => \/ claims' = {}
                   \/ /\ claims' = claims
                      /\ IF Unit \/ UnitFails THEN ClaimLeft' < ClaimLeft ELSE ClaimLeft' = ClaimLeft

\* What is left of a claim, by the state of the unit.
LEMMA ClaimLeftBy ==
    /\ unit = "stop" => ClaimLeft = 1
    /\ unit = "ready" => ClaimLeft = 2
    /\ unit = "connect" => ClaimLeft = 3
    /\ unit = "spawn" => ClaimLeft = 4
    /\ unit = "guard" => ClaimLeft = 5
BY DEF ClaimLeft

\* The same after a step.
LEMMA ClaimLeftNext ==
    /\ unit' = "stop" => ClaimLeft' = 1
    /\ unit' = "ready" => ClaimLeft' = 2
    /\ unit' = "connect" => ClaimLeft' = 3
    /\ unit' = "spawn" => ClaimLeft' = 4
    /\ unit' = "guard" => ClaimLeft' = 5
BY DEF ClaimLeft

\* With a claim on disk the unit goes on to its end, and clears it on the way.
LEMMA UnitMoves ==
    ASSUME OwnInv, claims # {}, Unit \/ UnitFails
    PROVE  \/ claims' = {}
           \/ /\ claims' = claims
              /\ \/ unit = "guard" /\ unit' \in {"spawn", "stop"}
                 \/ unit = "spawn" /\ unit' \in {"connect", "stop"}
                 \/ unit = "connect" /\ unit' \in {"ready", "stop"}
                 \/ unit = "ready" /\ unit' = "stop"
<1>1. unit \in {"guard", "spawn", "connect", "ready", "stop"} /\ claims = {invocation}
  BY Zenon DEF OwnInv, ClaimKept
<1>2. CASE PreflightLock \/ PreflightAdopt \/ PreflightClaim
  BY <1>1, <1>2, Zenon DEF PreflightLock, PreflightAdopt, PreflightClaim
<1>3. CASE PreflightEnd \/ PreflightKilled
  BY <1>1, <1>3, Zenon DEF PreflightEnd, PreflightKilled, FailCycle
<1>4. CASE PreflightRollback
  BY <1>1, <1>4, Zenon DEF PreflightRollback
<1>5. CASE DaemonLock \/ DaemonReady \/ DaemonFailed \/ StopUnit
  BY <1>1, <1>5, Zenon DEF DaemonLock, DaemonReady, DaemonFailed, StopUnit, FailCycle
<1>6. CASE PostStart \/ StopPost
  BY <1>1, <1>6, Zenon DEF PostStart, StopPost, ClearsReservation
<1> QED
  BY <1>2, <1>3, <1>4, <1>5, <1>6, Zenon DEF Unit, UnitFails

\* Nobody else touches the claim or the unit while there is one.
LEMMA OthersLeaveClaim ==
    ASSUME OwnInv, claims # {}, [ONext]_ovars, ~(Unit \/ UnitFails)
    PROVE  UNCHANGED <<claims, unit>>
<1>1. unit \in {"guard", "spawn", "connect", "ready", "stop"}
  BY Zenon DEF OwnInv, ClaimKept
<1>2. ~StartUnit
  BY <1>1, Zenon DEF StartUnit, BeginCycle
<1>3. CASE Rust
  BY <1>3, Zenon DEF Rust, RustLockOperation, RustGate, RustLockSession, RustReleaseSession,
     RustReleaseOperation, RustCrash, NoUnit
<1>4. ASSUME NEW c \in Clients, Client(c) PROVE UNCHANGED <<claims, unit>>
  <2>1. CASE SystemctlStart(c)
    BY <1>1, <2>1, Zenon DEF SystemctlStart, BeginCycle
  <2>2. CASE ~SystemctlStart(c)
    BY <1>4, <2>2, Zenon DEF Client, AcquireLock, RejectLaunchInProgress, Operate, Finish, Reserve,
       SystemctlReturns, Relock, SettleFailed, Settle, ClearReservation, Interrupted, NoUnit
  <2> QED
    BY <2>1, <2>2
<1>5. CASE UNCHANGED ovars
  BY <1>5, Zenon DEF ovars
<1> QED
  BY <1>2, <1>3, <1>4, <1>5, Zenon DEF ONext

\* The safety core of ClaimReleased: at most one claim is on disk, that of the
\* running cycle, and at most five steps of its unit, in whatever order they
\* fail, lie before the hook that clears it.
THEOREM ClaimCountsDown == OSpec => [](claims \subseteq {invocation}) /\ [][ClaimGoes]_ovars
<1>1. OwnInv => claims \subseteq {invocation}
  BY Zenon DEF OwnInv, ClaimKept
<1>2. OwnInv /\ [ONext]_ovars => [ClaimGoes]_ovars
  <2> SUFFICES ASSUME OwnInv, [ONext]_ovars, claims # {}, claims' # {}
               PROVE  /\ claims' = claims
                      /\ IF Unit \/ UnitFails THEN ClaimLeft' < ClaimLeft ELSE ClaimLeft' = ClaimLeft
    BY Zenon DEF ClaimGoes
  <2>1. CASE Unit \/ UnitFails
    <3>1. /\ claims' = claims
          /\ \/ unit = "guard" /\ unit' \in {"spawn", "stop"}
             \/ unit = "spawn" /\ unit' \in {"connect", "stop"}
             \/ unit = "connect" /\ unit' \in {"ready", "stop"}
             \/ unit = "ready" /\ unit' = "stop"
      BY <2>1, UnitMoves, Zenon
    <3>2. ClaimLeft' < ClaimLeft
      BY <3>1, ClaimLeftBy, ClaimLeftNext
    <3> QED
      BY <2>1, <3>1, <3>2, Zenon
  <2>2. CASE ~(Unit \/ UnitFails)
    <3>1. UNCHANGED <<claims, unit>>
      BY <2>2, OthersLeaveClaim, Zenon
    <3>2. ClaimLeft' = ClaimLeft
      BY <3>1, Zenon DEF ClaimLeft
    <3> QED
      BY <2>2, <3>1, <3>2, Zenon
  <2> QED
    BY <2>1, <2>2, Zenon
<1> QED
  BY <1>1, <1>2, OwnershipInvariant, PTL DEF OSpec

\* So it is beside the guards.
THEOREM HostClaimCountsDown == HSpec => [](claims \subseteq {invocation}) /\ [][ClaimGoes]_ovars
BY HostImplementsOwnership, ClaimCountsDown, PTL
=============================================================================
