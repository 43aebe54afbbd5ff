---------------------------- MODULE PairBackend ----------------------------
(***************************************************************************)
(* The vocabulary between the controller and a whole-pair backend          *)
(* (rust/src/backend.rs): lifecycles, action results, health snapshots and *)
(* the transaction that pins the backend for one action.                   *)
(***************************************************************************)

\* The mutating methods of PairBackend.
Actions == {"Start", "Stop", "Shutdown", "RecoverStop"}
PairLifecycle == {"Offline", "Initializing", "Connecting", "Ready", "Linking", "Linked",
                  "Unlinking", "Degraded", "Recovering", "ShuttingDown", "Failed"}
PairBackendEvidence == {"LocalSessionState", "LifecycleAcknowledgement",
                        "BroadcastAcknowledgementOnly", "BroadcastBusinessNotification"}

\* The receipt of an accepted action, or one of the two failures.
Accepted(lifecycle, evidence) ==
    [kind |-> "Accepted", lifecycle |-> lifecycle, evidence |-> evidence]
RejectedBeforeSend == [kind |-> "RejectedBeforeSend"]
OutcomeUnknown == [kind |-> "OutcomeUnknown"]
PairActionResult ==
    [kind : {"Accepted"}, lifecycle : PairLifecycle, evidence : PairBackendEvidence]
        \cup {RejectedBeforeSend, OutcomeUnknown}

\* A PairHealth snapshot: its lifecycle, its reported_error and whether the
\* Aura transport is known.  NoHealth stands for a health call that failed.
NoHealth == [lifecycle |-> "None", reported_error |-> TRUE, routed |-> FALSE]
PairHealth ==
    [lifecycle : PairLifecycle, reported_error : BOOLEAN, routed : BOOLEAN] \cup {NoHealth}

\* level() is Healthy: new_with_route degrades Ready and Linked on an error.
Healthy(health) ==
    /\ health.lifecycle \in {"Ready", "Linked"}
    /\ ~health.reported_error

\* checked_action: a backend that changed under the transaction turns every
\* result that may have written into OutcomeUnknown.
checked_action(attempted, pinned) ==
    IF pinned \/ attempted.kind = "RejectedBeforeSend" THEN attempted ELSE OutcomeUnknown
=============================================================================
