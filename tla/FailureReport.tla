---------------------------- MODULE FailureReport ---------------------------
(***************************************************************************)
(* One failed action, from the step where it failed to the word the jblctl *)
(* client reads.  The native backend names the failure and says whether a  *)
(* role write may have happened, the controller reduces the name by that   *)
(* verdict, WebApp spells it, and the client parses the spelling into its  *)
(* own list of failures.  Four tables, in four files, that no type ties    *)
(* together.                                                               *)
(***************************************************************************)
VARIABLES
    fpc,        \* "backend", "controller", "web", "client", "shown"
    fcause,     \* the step that failed and how, fixed
    fanswer     \* the outcome and the failure, as the stage reached names them

fvars == <<fpc, fcause, fanswer>>

Failure(outcome, reason) == [outcome |-> outcome, reason |-> reason]

-----------------------------------------------------------------------------
(* Causes *)

\* The reasons of an acquisition that keep their name to the end.
AcquisitionReasons ==
    {"AdapterUnavailable", "DiscoveryUnavailable", "VerifiedAdvertisementNotFound", "DeviceConnectionFailed",
     "WakeProfileConnectFailed", "WakeFddfTimedOut", "WakeFddfInvalid", "WakeFddfUnavailable",
     "WakeProfileReleaseFailed", "GattProfileInvalid", "NotificationSetupFailed"}
WriteReasons == {"WriteFailed", "AcknowledgementTimedOut", "AcknowledgementChannelClosed", "UnexpectedAcknowledgement"}
OtherReasons == {"InvalidConfiguration", "RuntimeUnavailable", "TransportNotReady", "NotificationQueueInvalid",
                 "DisconnectFailed"}
AuraFailureReason == AcquisitionReasons \cup {"AdapterPoweredOff"} \cup WriteReasons \cup OtherReasons

JblGattFailure == {"WriteResponseTimedOut", "RuntimeUnavailable", "AdapterUnavailable", "AdapterPoweredOff",
                   "DeviceConnectionFailed", "MtuExchangeFailed", "TransportNotReady", "FrameTooLarge",
                   "WriteFailed", "ChannelClosed", "UnexpectedResponse"}
GenaFailure == {"CallbackTimedOut", "BusinessRejected", "InvalidConfiguration", "RouteUnavailable",
                "ListenerUnavailable", "SubscriptionUnavailable", "InvalidSubscription", "InvalidCallback",
                "CleanupFailed"}

Cause(step, how) == [step |-> step, how |-> how]

\* The steps of NativePairCore in the order of its code, with the answers
\* that end the method there, and the exits of mutate outside the backend.
Causes ==
    {Cause("shutdown_bearer", "DisconnectFailed"), Cause("release", "DisconnectFailed")}
        \cup {Cause("connect_verified", how) : how \in AuraFailureReason}
        \cup {Cause(step, how) : step \in {"arm", "execute"}, how \in JblGattFailure \cup GenaFailure}
        \cup {Cause(step, how) : step \in {"jbl_enter", "jbl_exit"},
                                 how \in {"NotSent", "ControlCommandRejected", "OutcomeUnknown"}}
        \cup {Cause(step, how) : step \in {"aura_start", "aura_stop"}, how \in {"TransportNotReady"} \cup WriteReasons}
        \cup {Cause("gate", how) : how \in {"UnresolvedPriorAction", "RecoveryNotAllowed", "ExpectedPairNotConfigured",
                                            "PairConfigurationUnavailable", "JournalUnavailable"}}
        \cup {Cause("accepted", how) : how \in {"UnexpectedBackendLifecycle", "MembershipPostconditionFailed",
                                                "JournalCommitFailed"}}

-----------------------------------------------------------------------------
(* rust/src/backend_native.rs *)

map_aura_transport_error(reason) ==
    CASE reason = "AdapterPoweredOff" -> "AdapterUnavailable"
      [] reason \in AcquisitionReasons -> reason
      [] OTHER -> "Unavailable"

map_aura_action_unknown(reason) ==
    CASE reason = "WriteFailed" -> "AuraWriteUnknown"
      [] reason \in WriteReasons \ {"WriteFailed"} -> reason
      [] OTHER -> "Unavailable"

\* map_jbl_gatt_failure or map_gena_failure, then map_broadcast_result_failure.
map_broadcast_result_failure(how) ==
    CASE how \in {"WriteResponseTimedOut", "CallbackTimedOut"} -> "JblBroadcastResultTimedOut"
      [] how = "BusinessRejected" -> "JblBroadcastResultRejected"
      [] OTHER -> "JblBroadcastResultUnavailable"

Rejected(reason) == Failure("RejectedBeforeSend", reason)
Unknown(reason) == Failure("OutcomeUnknown", reason)

\* The answer of start, stop, shutdown or recover_stop that ends at the cause.
BackendAnswer(step, how) ==
    CASE step = "shutdown_bearer" -> Rejected("Unavailable")
      [] step = "connect_verified" -> Rejected(map_aura_transport_error(how))
      [] step = "arm" -> Rejected(map_broadcast_result_failure(how))
      [] step = "jbl_enter" /\ how = "NotSent" -> Rejected("BackendReportedFailure")
      [] step = "jbl_enter" /\ how # "NotSent" -> Unknown("JblEnterOutcomeUnknown")
      [] step = "execute" -> Unknown(map_broadcast_result_failure(how))
      [] step = "aura_start" /\ how \notin WriteReasons -> Unknown("AuraStartOutcomeUnknown")
      [] step = "aura_stop" /\ how \notin WriteReasons -> Rejected("BackendReportedFailure")
      [] step \in {"aura_start", "aura_stop"} /\ how \in WriteReasons -> Unknown(map_aura_action_unknown(how))
      [] step = "jbl_exit" -> Unknown("JblExitOutcomeUnknown")
      [] step = "release" -> Unknown("Unavailable")

Backend ==
    /\ fpc = "backend" /\ fpc' = "controller"
    /\ fcause.step \notin {"gate", "accepted"}
    /\ fanswer' = BackendAnswer(fcause.step, fcause.how)
    /\ UNCHANGED fcause

-----------------------------------------------------------------------------
(* rust/src/controller.rs *)

\* A reduction that passes every name of the backend on.
KeepEveryName(error) == IF error \in {"Unavailable", "BackendReportedFailure"} THEN "BackendRejectedBeforeSend" ELSE error

controller_failure_from_backend(error) ==
    IF error \in AcquisitionReasons THEN error ELSE "BackendRejectedBeforeSend"

controller_failure_from_unknown_backend(error) ==
    CASE error = "AcknowledgementTimedOut" -> "AuraAckTimeout"
      [] error = "AcknowledgementChannelClosed" -> "AuraAckChannelClosed"
      [] error = "UnexpectedAcknowledgement" -> "AuraUnexpectedAck"
      [] error \in AcquisitionReasons \cup {"Unavailable", "BackendReportedFailure"} -> "BackendOutcomeUnknown"
      [] OTHER -> error

\* reduce_backend_result for an answer that is not an acceptance.  The journal
\* entry of a rejected action is cleared first, and that may fail.
reduce_backend_result ==
    /\ fpc = "controller" /\ fpc' = "web"
    /\ IF fanswer.outcome = "RejectedBeforeSend"
       THEN fanswer' \in {Rejected(controller_failure_from_backend(fanswer.reason)), Unknown("JournalCommitFailed")}
       ELSE fanswer' = Unknown(controller_failure_from_unknown_backend(fanswer.reason))
    /\ UNCHANGED fcause

\* The exits of mutate before the backend is called and after it accepted.
OwnFailure ==
    /\ fpc = "backend" /\ fpc' = "web"
    /\ fcause.step \in {"gate", "accepted"}
    /\ fanswer' = CASE fcause.step = "gate" -> Rejected(fcause.how)
                    [] fcause.how = "MembershipPostconditionFailed" -> Failure("PostconditionFailed", fcause.how)
                    [] OTHER -> Unknown(fcause.how)
    /\ UNCHANGED fcause

-----------------------------------------------------------------------------
(* rust/src/web.rs *)

outcome_name ==
    [RejectedBeforeSend |-> "rejected_before_send", OutcomeUnknown |-> "outcome_unknown",
     PostconditionFailed |-> "postcondition_failed"]

failure_name ==
    [PairConfigurationUnavailable |-> "pair_configuration_unavailable",
     ExpectedPairNotConfigured |-> "expected_pair_not_configured",
     BackendRejectedBeforeSend |-> "backend_rejected_before_send",
     AdapterUnavailable |-> "aura_adapter_unavailable",
     DiscoveryUnavailable |-> "aura_discovery_unavailable",
     VerifiedAdvertisementNotFound |-> "aura_verified_advertisement_not_found",
     DeviceConnectionFailed |-> "aura_device_connection_failed",
     WakeProfileConnectFailed |-> "wake_profile_connect_failed",
     WakeFddfTimedOut |-> "wake_fddf_timed_out", WakeFddfInvalid |-> "wake_fddf_invalid",
     WakeFddfUnavailable |-> "wake_fddf_unavailable", WakeProfileReleaseFailed |-> "wake_profile_release_failed",
     GattProfileInvalid |-> "aura_gatt_profile_invalid",
     NotificationSetupFailed |-> "aura_notification_setup_failed",
     AuraWriteUnknown |-> "aura_write_unknown", AuraAckTimeout |-> "aura_ack_timeout",
     AuraAckChannelClosed |-> "aura_ack_channel_closed", AuraUnexpectedAck |-> "aura_unexpected_ack",
     JblEnterOutcomeUnknown |-> "jbl_enter_outcome_unknown", JblExitOutcomeUnknown |-> "jbl_exit_outcome_unknown",
     JblBroadcastResultTimedOut |-> "jbl_broadcast_result_timed_out",
     JblBroadcastResultUnavailable |-> "jbl_broadcast_result_unavailable",
     JblBroadcastResultRejected |-> "jbl_broadcast_result_rejected",
     AuraStartOutcomeUnknown |-> "aura_start_outcome_unknown",
     BackendOutcomeUnknown |-> "backend_outcome_unknown",
     UnexpectedBackendLifecycle |-> "unexpected_backend_lifecycle",
     MembershipPostconditionFailed |-> "membership_postcondition_failed",
     UnresolvedPriorAction |-> "unresolved_prior_action", RecoveryNotAllowed |-> "recovery_not_allowed",
     JournalUnavailable |-> "journal_unavailable", JournalCommitFailed |-> "journal_commit_failed"]

action_response ==
    /\ fpc = "web" /\ fpc' = "client"
    /\ fanswer' = Failure(outcome_name[fanswer.outcome], failure_name[fanswer.reason])
    /\ UNCHANGED fcause

-----------------------------------------------------------------------------
(* rust/src/local_client.rs: the spelling serde gives the client's own list *)

AcquisitionWords ==
    {"aura_adapter_unavailable", "aura_discovery_unavailable", "aura_verified_advertisement_not_found",
     "aura_device_connection_failed", "wake_profile_connect_failed", "wake_fddf_timed_out", "wake_fddf_invalid",
     "wake_fddf_unavailable", "wake_profile_release_failed", "aura_gatt_profile_invalid",
     "aura_notification_setup_failed"}
GateWords == {"pair_configuration_unavailable", "expected_pair_not_configured", "unresolved_prior_action",
              "recovery_not_allowed", "journal_unavailable"}
AckWords == {"aura_write_unknown", "aura_ack_timeout", "aura_ack_channel_closed", "aura_unexpected_ack"}
BroadcastWords == {"jbl_broadcast_result_timed_out", "jbl_broadcast_result_unavailable", "jbl_broadcast_result_rejected"}

LocalFailure ==
    AcquisitionWords \cup GateWords \cup AckWords \cup BroadcastWords \cup
    {"backend_rejected_before_send", "jbl_enter_outcome_unknown", "jbl_exit_outcome_unknown",
     "aura_start_outcome_unknown", "backend_outcome_unknown", "unexpected_backend_lifecycle",
     "membership_postcondition_failed", "journal_commit_failed"}

InvalidAnswer == Failure("invalid_response", "invalid_response")

\* mutate: an answer with a word the client does not know is not an answer.
ClientAction ==
    /\ fpc = "client" /\ fpc' = "shown"
    /\ fanswer' = IF fanswer.reason \in LocalFailure THEN fanswer ELSE InvalidAnswer
    /\ UNCHANGED fcause

-----------------------------------------------------------------------------
FInit == fpc = "backend" /\ fcause \in Causes /\ fanswer = InvalidAnswer

FNext == Backend \/ reduce_backend_result \/ OwnFailure \/ action_response \/ ClientAction

-----------------------------------------------------------------------------
(* Properties *)

\* A speaker may have been written to by the time the step had failed: an
\* earlier step of the method may be a role write (before a release, those of the
\* stop in shutdown), or the step is one itself and was not refused on this side.
MayHaveWritten ==
    \/ fcause.step \in {"execute", "aura_start", "jbl_exit", "release", "accepted"}
    \/ fcause.step = "jbl_enter" /\ fcause.how # "NotSent"
    \/ fcause.step = "aura_stop" /\ fcause.how \in WriteReasons

\* The client understands every failure the service reports, and the report is
\* true of the step that failed: "rejected before send" is never said once a
\* speaker may have been written to; the word of one step is not shown for a
\* failure at another; and an acquisition is never blamed for an unknown
\* outcome, nor a command's outcome for a rejection.
FailureTrue ==
    fpc = "shown" =>
        /\ fanswer # InvalidAnswer
        /\ fanswer.outcome = "rejected_before_send" => ~MayHaveWritten
        /\ fanswer.reason \in AcquisitionWords => fcause.step = "connect_verified"
        /\ fanswer.reason \in BroadcastWords => fcause.step = "execute"
        /\ fanswer.reason \in AckWords => fcause.step \in {"aura_start", "aura_stop"}
        /\ fanswer.reason = "aura_start_outcome_unknown" => fcause.step = "aura_start"
        /\ fanswer.reason = "jbl_enter_outcome_unknown" => fcause.step = "jbl_enter"
        /\ fanswer.reason = "jbl_exit_outcome_unknown" => fcause.step = "jbl_exit"
        /\ fanswer.outcome = "rejected_before_send" <=>
               fanswer.reason \in AcquisitionWords \cup GateWords \cup {"backend_rejected_before_send"}
=============================================================================
