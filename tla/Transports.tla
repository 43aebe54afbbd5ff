----------------------------- MODULE Transports -----------------------------
(***************************************************************************)
(* The exchanges at the edge of the service, each with its own fault       *)
(* model: commands and requests, the scan for the Aura speaker, and the    *)
(* two reports that leave the service.  They share no state of the         *)
(* program: a behaviour exercises one of them.                             *)
(***************************************************************************)
EXTENDS JblHttps, JblGatt, LegacyBackend, LoopbackRequest, StatusProjection, FailureReport, FreshScan

VARIABLE exercised      \* the exchange of this behaviour

vars == <<exercised, ovars, hvars, gvars, lvars, qvars, pvars, fvars, cvars>>

Exchanges == {"https", "gatt", "legacy", "loopback", "status", "failure", "scan"}

\* The exchanges that are not exercised rest in one initial state.
QRest == CHOOSE msg \in Messages : TRUE
PRest == CHOOSE reply \in GroupReplies : TRUE
FRest == CHOOSE cause \in Causes : TRUE
CRest == [a \in Addresses |-> "absent"]

TInit ==
    /\ exercised \in Exchanges
    /\ hholder \in IF exercised = "https" THEN Peers ELSE {"speaker"}
    /\ qmessage \in IF exercised = "loopback" THEN Messages ELSE {QRest}
    /\ preply \in IF exercised = "status" THEN GroupReplies ELSE {PRest}
    /\ fcause \in IF exercised = "failure" THEN Causes ELSE {FRest}
    /\ OInit /\ HInit /\ GInit /\ LInit /\ QInit /\ PInit /\ FInit /\ CInit
    /\ exercised # "scan" => object = CRest

Https == exercised = "https" /\ HNext /\ UNCHANGED <<gvars, lvars, qvars, pvars, fvars, cvars>>
Gatt == exercised = "gatt" /\ GNext /\ UNCHANGED <<hvars, lvars, qvars, pvars, fvars, cvars>>
Legacy == exercised = "legacy" /\ LNext /\ UNCHANGED <<hvars, gvars, qvars, pvars, fvars, cvars>>
Loopback == exercised = "loopback" /\ QNext /\ UNCHANGED <<ovars, hvars, gvars, lvars, pvars, fvars, cvars>>
Status == exercised = "status" /\ PNext /\ UNCHANGED <<ovars, hvars, gvars, lvars, qvars, fvars, cvars>>
Report == exercised = "failure" /\ FNext /\ UNCHANGED <<ovars, hvars, gvars, lvars, qvars, pvars, cvars>>
Scan == exercised = "scan" /\ CNext /\ UNCHANGED <<ovars, hvars, gvars, lvars, qvars, pvars, fvars>>

TNext == (Https \/ Gatt \/ Legacy \/ Loopback \/ Status \/ Report \/ Scan) /\ UNCHANGED exercised

\* The steps the service takes by itself, the ones its timeouts force included.
ServiceStep ==
    /\ \/ exercised = "https" /\ HClient /\ UNCHANGED <<gvars, lvars>>
       \/ exercised = "gatt" /\ GClient /\ UNCHANGED <<hvars, lvars>>
       \/ exercised = "legacy" /\ LClient /\ UNCHANGED <<hvars, gvars>>
    /\ UNCHANGED <<exercised, qvars, pvars, fvars, cvars>>

TSpec == TInit /\ [][TNext]_vars /\ WF_vars(ServiceStep)

-----------------------------------------------------------------------------
(* Properties *)

\* send_play_together, arm with execute or cancel, and the requests of the
\* v0.4 adapter each keep the promise of OneShot: one attempt per call, to the
\* right device, with an answer that stays true when the device acts late, and
\* every call ends.
OneShotKept == OSpec
=============================================================================
