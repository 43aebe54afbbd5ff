------------------------------ MODULE JblHttps ------------------------------
(***************************************************************************)
(* JblLanClient of rust/src/client.rs over the pinned connector of         *)
(* rust/src/tls.rs: one Play Together form per call on a connection of its *)
(* own, and the reads of the pair configuration.  Another device may hold  *)
(* the configured address, and the speaker may carry a form out after the  *)
(* client gave up on it.                                                   *)
(***************************************************************************)
EXTENDS OneShot

VARIABLES
    hpc,        \* "idle", or the step of the running call
    hholder,    \* who answers at the configured address: "speaker" or "other"
    hpeer,      \* who the connection of the running call leads to
    hpool,      \* the read agent keeps a verified connection to the speaker
    hinbox,     \* the forms that reached the speaker and wait to be carried out
    hresponse   \* the response under way: a record, or None

hvars == <<hpc, hholder, hpeer, hpool, hinbox, hresponse>>

Peers == {"speaker", "other"}
NoResponse == [status |-> 0, body |-> "none"]

HInit ==
    /\ hpc = "idle"
    /\ hholder \in Peers
    /\ hpeer = "other"
    /\ hpool = FALSE
    /\ hinbox = {}
    /\ hresponse = NoResponse

HEnd(o) == hpc' = "idle" /\ hpeer' = "other" /\ hresponse' = NoResponse /\ Answers(o)

-----------------------------------------------------------------------------
(* The connector *)

ConnectAnyPeer(result, checked, peer) == IF result = "Ok" THEN "stream" ELSE "Io"

\* PinnedOpenSslConnector.connect: the handshake ends with the given result,
\* and the callback may have seen the leaf certificate.  A stream needs a leaf
\* that was seen and has the pinned digest, whatever OpenSSL says.
connect(result, checked, peer) ==
    LET matched == checked /\ peer = "speaker"
    IN IF result = "Ok"
         THEN IF checked /\ matched THEN "stream" ELSE "PeerPinMismatch"
         ELSE IF result = "Failure" /\ checked /\ ~matched THEN "PeerPinMismatch"
         ELSE "Io"

Handshakes == {"Ok", "Failure", "WouldBlock", "SetupFailure"}

\* The handshakes that can happen: the callback fails one with a wrong leaf.
CanHappen(result, checked, peer) ==
    result = "Ok" /\ checked => peer = "speaker"

-----------------------------------------------------------------------------
(* send_control_form *)

\* A state-changing POST has an agent without a pool: always a new connection.
send_play_together ==
    /\ hpc = "idle"
    /\ Begins
    /\ hpc' = "connect"
    /\ UNCHANGED <<hholder, hpeer, hpool, hinbox, hresponse>>

ClassifyIoAsNotSent(kind) == "NotSent"

\* classify_write_transport, on the error kinds of ureq.  PeerPinMismatch is
\* found anywhere in the chain of sources.
classify_write_transport(kind) ==
    IF kind \in {"PeerPinMismatch", "InvalidUrl", "UnknownScheme", "Dns", "InsecureRequestHttpsOnly",
                 "ConnectionFailed", "InvalidProxyUrl", "ProxyConnect", "ProxyUnauthorized"}
      THEN "NotSent"
      ELSE "Unknown"

HConnect ==
    /\ hpc = "connect"
    /\ \/ hpeer' = hholder /\ hpc' = "handshake" /\ UNCHANGED <<hresponse, calls, outcome>>
       \/ \E kind \in {"Dns", "ConnectionFailed", "Io"} : HEnd(classify_write_transport(kind))
    /\ UNCHANGED <<hholder, hpool, hinbox, received, strayed>>

HHandshake ==
    /\ hpc = "handshake"
    /\ \E result \in Handshakes, checked \in BOOLEAN :
         /\ CanHappen(result, checked, hpeer)
         /\ LET got == connect(result, checked, hpeer)
            IN IF got = "stream"
                 THEN hpc' = "send" /\ UNCHANGED <<hpeer, hresponse, calls, outcome>>
                 ELSE HEnd(classify_write_transport(got))
    /\ UNCHANGED <<hholder, hpool, hinbox, received, strayed>>

\* Who has the form once its bytes are out.
Sent ==
    IF hpeer = "speaker"
      THEN hinbox' = hinbox \cup {calls} /\ UNCHANGED strayed
      ELSE strayed' = strayed \cup {calls} /\ UNCHANGED hinbox

send_bytes ==
    /\ hpc = "send"
    /\ Sent
    /\ hpc' = "wait"
    /\ UNCHANGED <<hholder, hpeer, hpool, hresponse, calls, outcome, received>>

\* The write fails, or its timeout passes: the form may be out all the same.
send_failed ==
    /\ hpc = "send"
    /\ Sent \/ UNCHANGED <<hinbox, strayed>>
    /\ HEnd(classify_write_transport("Io"))
    /\ UNCHANGED <<hholder, hpool, received>>

Bodies == {"zero", "string_zero", "other_code", "other_string", "no_code", "bad_type",
           "not_object", "not_json", "too_large", "cut"}

\* BasicResponse::parse of a body that was read in full.
BasicResponse_parse(body) ==
    IF body \in {"zero", "string_zero"} THEN "Ok"
    ELSE IF body \in {"other_code", "other_string"} THEN "ControlCommandRejected"
    ELSE "InvalidResponse"

AcceptAnyJson(status, body) ==
    IF status = 200 /\ body \notin {"cut", "too_large"} THEN "Accepted" ELSE "Unknown"

\* The tail of send_control_form, from the status line on.
ClassifyResponse(status, body) ==
    IF status # 200 \/ body \in {"cut", "too_large"} THEN "Unknown"
    ELSE CASE BasicResponse_parse(body) = "Ok" -> "Accepted"
           [] BasicResponse_parse(body) = "ControlCommandRejected" -> "Refused"
           [] OTHER -> "Unknown"

HResponse ==
    /\ hpc = "wait"
    /\ hresponse # NoResponse
    /\ HEnd(ClassifyResponse(hresponse.status, hresponse.body))
    /\ UNCHANGED <<hholder, hpool, hinbox, received, strayed>>

HTimeout ==
    /\ hpc = "wait"
    /\ HEnd(classify_write_transport("Io"))
    /\ UNCHANGED <<hholder, hpool, hinbox, received, strayed>>

-----------------------------------------------------------------------------
(* pair_configuration_status: DeviceInfo, the UPnP model, the group *)

pair_configuration_status ==
    /\ hpc = "idle"
    /\ Begins
    /\ hpc' = "info"
    /\ UNCHANGED <<hholder, hpeer, hpool, hinbox, hresponse>>

\* get_json on the pooled agent: the kept connection, or a new handshake with
\* whoever holds the address.
get_json ==
    /\ hpc \in {"info", "group"}
    /\ \E result \in Handshakes, checked \in BOOLEAN :
         LET peer == IF hpool THEN "speaker" ELSE hholder
         IN /\ CanHappen(result, checked, peer)
            /\ hpool \/ connect(result, checked, peer) = "stream"
            /\ strayed' = IF peer = "speaker" THEN strayed ELSE strayed \cup {calls}
    /\ hpool' \in BOOLEAN
    /\ IF hpc = "info"
         THEN hpc' = "model" /\ UNCHANGED <<hpeer, hresponse, calls, outcome>>
         ELSE HEnd("Read")
    /\ UNCHANGED <<hholder, hinbox, received>>

\* verified_model asks whoever holds the address, without TLS.
verified_model ==
    /\ hpc = "model"
    /\ hpc' = "group"
    /\ UNCHANGED <<hholder, hpeer, hpool, hinbox, hresponse, ovars>>

ReadFails ==
    /\ hpc \in {"info", "model", "group"}
    /\ HEnd("ReadFailed")
    /\ hpool' = FALSE
    /\ UNCHANGED <<hholder, hinbox, received, strayed>>

-----------------------------------------------------------------------------
(* The network and the speaker *)

\* The address is handed to another device, or back; or the kept connection ends.
AddressMoves ==
    /\ \/ hholder' \in Peers /\ UNCHANGED hpool
       \/ hpool' = FALSE /\ UNCHANGED hholder
    /\ UNCHANGED <<hpc, hpeer, hinbox, hresponse, ovars>>

\* The speaker takes a form up, at the client's time or later, carries it out
\* or not, and answers.  Only a form it carried out gets the code zero.
SpeakerReceives(i) ==
    /\ i \in hinbox
    /\ hinbox' = hinbox \ {i}
    /\ \E status \in {200, 500}, body \in Bodies :
         /\ \/ Receives(i)
            \/ UNCHANGED received /\ (status = 200 => BasicResponse_parse(body) # "Ok")
         /\ hresponse' = IF i = calls /\ hpc = "wait" THEN [status |-> status, body |-> body]
                         ELSE hresponse
    /\ UNCHANGED <<hpc, hholder, hpeer, hpool, calls, outcome, strayed>>

HClient ==
    \/ HConnect \/ HHandshake \/ send_bytes \/ send_failed \/ HResponse \/ HTimeout
    \/ get_json \/ verified_model \/ ReadFails

HNext ==
    \/ send_play_together \/ pair_configuration_status
    \/ HClient
    \/ AddressMoves \/ \E i \in CallIds : SpeakerReceives(i)
=============================================================================
