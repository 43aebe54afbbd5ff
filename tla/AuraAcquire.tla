----------------------------- MODULE AuraAcquire -----------------------------
(***************************************************************************)
(* How BluezIo of rust/src/aura_bluez.rs acquires a bearer to a speaker    *)
(* that may be asleep: one raw ATT attempt at its stable address, one      *)
(* temporary A2DP connection to wake it (rust/src/aura_wake.rs), one more  *)
(* stable attempt, and attempts at a fresh random address, all before one  *)
(* deadline.  BlueZ may finish a ConnectProfile its caller gave up on.     *)
(***************************************************************************)
EXTENDS Naturals

CONSTANTS                   \* durations, in one unit of time
    StableTimeout,          \* STABLE_CONNECT_TIMEOUT + gatt_setup_timeout
    InspectTimeout,         \* STABLE_CONNECT_TIMEOUT
    ConnectTimeout, FddfTimeout, ReleaseTimeout,    \* AuraWakeTimings
    ScanWindow, DeviceTimeout, SetupTimeout, RetryDelay, ScanAttempts,
    TotalTimeout            \* total_connect_timeout

Durations == {StableTimeout, InspectTimeout, ConnectTimeout, FddfTimeout, ReleaseTimeout,
              ScanWindow, DeviceTimeout, SetupTimeout, RetryDelay, TotalTimeout}

\* What the release of the profile may have to wait for fits into the deadline.
ASSUME TimingsAssumption ==
    /\ Durations \subseteq Nat \ {0}
    /\ ScanAttempts \in Nat \ {0}
    /\ StableTimeout + InspectTimeout + ConnectTimeout + FddfTimeout + ReleaseTimeout < TotalTimeout

VARIABLES
    apc,        \* the running phase; "idle", "bearer" and "failed" are outside an acquisition
    now,        \* time since the acquisition began
    failure,    \* the reason to report: of the wake or the fallback so far, then the last one
    primary,    \* the wake found its fresh advertisement
    woken,      \* ConnectProfile was called in this acquisition
    attempt,    \* attempts at a random address so far
    a2dp,       \* the profile in BlueZ: "off", "connecting", "on"
    slipped     \* history: the release was confirmed while BlueZ was still connecting

avars == <<apc, now, failure, primary, woken, attempt, a2dp, slipped>>

Earlier(a, b) == IF a <= b THEN a ELSE b
\* An operation with this timeout ends at some time up to its deadline ...
Ends(timeout) == now' \in now .. Earlier(now + timeout, TotalTimeout)
\* ... or is not even tried once the overall deadline has passed.
Expired == now >= TotalTimeout

Eligible == {"setup"}       \* raw_att_retry_eligible: connection and setup failures
Ineligible == {"adapter"}
WakeStage == {"connect", "fddf", "release"}
Ended == {"idle", "bearer", "failed"}

Fail(reason) == apc' = "failed" /\ failure' = reason

AInit ==
    /\ apc = "idle" /\ now = 0 /\ failure = "none" /\ primary = FALSE
    /\ woken = FALSE /\ attempt = 0 /\ a2dp = "off" /\ slipped = FALSE

\* No healthy bearer for this identity: the old one, if any, is closed.
connect_verified ==
    /\ apc = "idle"
    /\ apc' = "stable" /\ now' = 0 /\ failure' = "none" /\ primary' = FALSE
    /\ woken' = FALSE /\ attempt' = 0 /\ slipped' = FALSE
    /\ UNCHANGED a2dp

\* connect_stable, before or after the wake.
connect_raw_att ==
    /\ apc \in {"stable", "stable_again"}
    /\ Ends(StableTimeout)
    /\ \/ ~Expired /\ apc' = "bearer" /\ UNCHANGED failure
       \/ \E reason \in Ineligible : Fail(reason)
       \/ \E reason \in Eligible :
             /\ apc' = IF apc = "stable" THEN "inspect" ELSE "le"
             /\ failure' = reason
    /\ UNCHANGED <<primary, woken, attempt, a2dp, slipped>>

\* Not available, or not paired, trusted and public: no profile is connected,
\* nothing is to be released, and the fallback may follow.
inspect_stable_device ==
    /\ apc = "inspect"
    /\ Ends(InspectTimeout)
    /\ \/ apc' = "le" /\ failure' = "setup"
       \/ ~Expired /\ apc' = "profile" /\ UNCHANGED failure
    /\ UNCHANGED <<primary, woken, attempt, a2dp, slipped>>

connect_profile_unreleased ==
    /\ apc = "profile"
    /\ Ends(ConnectTimeout)
    /\ woken' = TRUE
    /\ \/ ~Expired /\ a2dp' = "on" /\ apc' = "fddf" /\ UNCHANGED failure
       \/ a2dp' \in {a2dp, "off", "connecting", "on"} /\ apc' = "le" /\ failure' = "connect"
    /\ UNCHANGED <<primary, attempt, slipped>>
\* The call fails before it reaches BlueZ, BlueZ answers, or its answer comes
\* too late; every failure is followed by the release.
connect_profile ==
    /\ apc = "profile"
    /\ Ends(ConnectTimeout)
    /\ woken' = TRUE
    /\ \/ ~Expired /\ a2dp' = "on" /\ apc' = "fddf" /\ UNCHANGED failure
       \/ /\ IF Expired THEN UNCHANGED a2dp ELSE a2dp' \in {a2dp, "off", "connecting", "on"}
          /\ apc' = "disconnect" /\ failure' = "connect"
    /\ UNCHANGED <<primary, attempt, slipped>>

fddf_until_overall ==
    /\ apc = "fddf"
    /\ now' \in now .. TotalTimeout
    /\ \/ ~Expired /\ primary' = TRUE /\ UNCHANGED failure
       \/ primary' = FALSE /\ failure' = "fddf"
    /\ apc' = "disconnect"
    /\ UNCHANGED <<woken, attempt, a2dp, slipped>>
\* A fresh advertisement that passes validate_fddf, another one, none or an error.
wait_for_fresh_fddf ==
    /\ apc = "fddf"
    /\ Ends(FddfTimeout)
    /\ \/ ~Expired /\ primary' = TRUE /\ UNCHANGED failure
       \/ primary' = FALSE /\ failure' = "fddf"
    /\ apc' = "disconnect"
    /\ UNCHANGED <<woken, attempt, a2dp, slipped>>

\* The reply does not matter.  A call that reaches BlueZ also ends a connection
\* it is still making.
disconnect_profile ==
    /\ apc = "disconnect"
    /\ Ends(ReleaseTimeout)
    /\ IF Expired THEN UNCHANGED a2dp ELSE a2dp' \in {a2dp, "off"}
    /\ apc' = "release"
    /\ UNCHANGED <<failure, primary, woken, attempt, slipped>>

release_reporting_first ==
    /\ apc = "release"
    /\ Ends(ReleaseTimeout)
    /\ \/ /\ ~Expired /\ a2dp # "on"
          /\ slipped' = (a2dp = "connecting")
          /\ apc' = IF primary THEN "stable_again" ELSE "le"
          /\ UNCHANGED failure
       \/ Fail(IF primary THEN "release" ELSE failure) /\ UNCHANGED slipped
    /\ UNCHANGED <<primary, woken, attempt, a2dp>>
release_polled_on ==
    /\ apc = "release"
    /\ Ends(ReleaseTimeout)
    /\ \/ /\ ~Expired /\ a2dp # "on"
          /\ slipped' = (a2dp = "connecting")
          /\ apc' = IF primary THEN "stable_again" ELSE "le"
       \/ a2dp = "on" /\ UNCHANGED <<apc, slipped>>
    /\ UNCHANGED <<failure, primary, woken, attempt, a2dp>>
\* Released only if BlueZ says so; map_wake_error puts a failed release first.
wait_profile_released ==
    /\ apc = "release"
    /\ Ends(ReleaseTimeout)
    /\ \/ /\ ~Expired /\ a2dp # "on"
          /\ slipped' = (a2dp = "connecting")
          /\ apc' = IF primary THEN "stable_again" ELSE "le"
          /\ UNCHANGED failure
       \/ Fail("release") /\ UNCHANGED slipped
    /\ UNCHANGED <<primary, woken, attempt, a2dp>>

\* How connect_cold_bearer reports a failure of the last fallback.
Reported(reason) == IF failure \in WakeStage \/ reason = "absent" THEN failure ELSE reason

\* connect_le_raw up to its first attempt: adapter, address and filter.
connect_le_raw ==
    /\ apc = "le"
    /\ Ends(TotalTimeout)
    /\ \/ apc' = "attempt" /\ UNCHANGED failure
       \/ Fail(Reported("adapter"))
    /\ UNCHANGED <<primary, woken, attempt, a2dp, slipped>>

\* One scan, socket and setup; any failure is retried after a delay while
\* attempts and time are left.
connect_le_raw_attempt ==
    /\ apc = "attempt"
    /\ Ends(ScanWindow + DeviceTimeout + SetupTimeout)
    /\ attempt' = attempt + 1
    /\ \/ ~Expired /\ apc' = "bearer" /\ UNCHANGED failure
       \/ \E reason \in {"absent", "adapter"} \cup Eligible :
             IF attempt + 1 < ScanAttempts /\ now' < TotalTimeout
             THEN apc' = "delay" /\ UNCHANGED failure
             ELSE Fail(Reported(reason))
    /\ UNCHANGED <<primary, woken, a2dp, slipped>>

retry_uncapped ==
    /\ apc = "delay"
    /\ now' = now + RetryDelay
    /\ \/ apc' = "attempt" /\ UNCHANGED failure
       \/ \E reason \in {"absent", "adapter"} \cup Eligible : Fail(Reported(reason))
    /\ UNCHANGED <<primary, woken, attempt, a2dp, slipped>>
retry_connect_attempts ==
    /\ apc = "delay"
    /\ now' = Earlier(now + RetryDelay, TotalTimeout)
    /\ \/ now' < TotalTimeout /\ apc' = "attempt" /\ UNCHANGED failure
       \/ /\ now' >= TotalTimeout
          /\ \E reason \in {"absent", "adapter"} \cup Eligible : Fail(Reported(reason))
    /\ UNCHANGED <<primary, woken, attempt, a2dp, slipped>>

\* BlueZ ends a connection attempt, or the speaker drops the profile.
ProfileSettles ==
    /\ \/ a2dp = "connecting" /\ a2dp' \in {"on", "off"}
       \/ a2dp = "on" /\ a2dp' = "off"
    /\ UNCHANGED <<apc, now, failure, primary, woken, attempt, slipped>>

Acquisition ==
    \/ connect_raw_att
    \/ inspect_stable_device \/ connect_profile \/ wait_for_fresh_fddf
    \/ disconnect_profile \/ wait_profile_released
    \/ connect_le_raw \/ connect_le_raw_attempt \/ retry_connect_attempts

\* The caller has its answer; only the profile is left behind.
Return ==
    /\ apc \in {"bearer", "failed"}
    /\ apc' = "idle" /\ now' = 0 /\ failure' = "none" /\ primary' = FALSE
    /\ woken' = FALSE /\ attempt' = 0 /\ slipped' = FALSE
    /\ UNCHANGED a2dp

ANext == connect_verified \/ Acquisition \/ Return \/ ProfileSettles

ASpec == AInit /\ [][ANext]_avars

-----------------------------------------------------------------------------
(* Properties *)

\* Every variable of the acquisition stays in its domain; ConnectProfile is
\* called at most once, and before the phases that follow it.
ATypeOK ==
    /\ apc \in Ended \cup {"stable", "inspect", "profile", "fddf", "disconnect", "release",
                           "stable_again", "le", "attempt", "delay"}
    /\ now \in Nat /\ attempt \in 0 .. ScanAttempts
    /\ failure \in {"none", "absent"} \cup Eligible \cup Ineligible \cup WakeStage
    /\ primary \in BOOLEAN /\ woken \in BOOLEAN /\ slipped \in BOOLEAN
    /\ a2dp \in {"off", "connecting", "on"}
    /\ apc \in {"fddf", "disconnect", "release", "stable_again"} => woken
    /\ apc \in {"stable", "inspect", "profile"} => ~woken

\* "All acquisition phases share one hard deadline" (connect_verified): no
\* sequence of phases, retries and delays runs past it.
DeadlineKept == now <= TotalTimeout

\* The deadline of the acquisition never expires on a wake whose profile may be
\* held: DisconnectProfile is always sent, and the release is always awaited.
ReleaseInTime == apc \in {"disconnect", "release"} => ~Expired

\* "An unconfirmed A2DP release forbids every raw ATT fallback"
\* (connect_cold_bearer): after a wake, an ATT socket is tried only with the
\* profile off, unless BlueZ was still connecting it when it said otherwise.
FallbackReleased ==
    woken /\ apc \in {"stable_again", "le", "attempt", "delay"} => a2dp = "off" \/ slipped

\* An acquisition that ends with its own wake profile held says so: release is
\* the failure it reports, whatever failed before and after.
HeldReported ==
    woken /\ apc \in {"bearer", "failed"} /\ a2dp # "off" => failure = "release" \/ slipped

\* Every acquisition ends with a bearer or a failure.
AcquisitionEnds == apc \notin Ended ~> apc \in Ended
=============================================================================
