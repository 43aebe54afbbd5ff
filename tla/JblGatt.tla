------------------------------ MODULE JblGatt -------------------------------
(***************************************************************************)
(* JblGattBroadcastTransport of rust/src/jbl_gatt.rs.  A call of OneShot is *)
(* one arm with the execute or cancel that follows it: arm opens a bearer  *)
(* to the speaker and settles the MTU, execute writes one frame and waits  *)
(* for its acknowledgement, and the bearer never outlives the call.        *)
(***************************************************************************)
EXTENDS OneShot

CONSTANTS
    FrameLength,                \* pl_frame: the bytes of each BroadcastCommand
    ServerMtus,                 \* what a speaker may answer to the MTU request
    MAX_PACKETS_PER_ACTION

ASSUME GattAssumption ==
    /\ DOMAIN FrameLength = {"Start", "Stop"}
    /\ \A c \in DOMAIN FrameLength : FrameLength[c] \in Nat
    /\ ServerMtus \subseteq Nat
    /\ MAX_PACKETS_PER_ACTION \in Nat \ {0}

VARIABLES
    gpc,        \* "idle", "connect", "mtu", "armed", "write", "wait"
    gcommand,   \* the BroadcastCommand of the call
    gmtu,       \* the MTU of the bearer, 0 when there is none
    gpackets,   \* packets read since the write
    gair,       \* the write requests on their way to the speaker
    ganswer     \* the ATT answer on its way back: "none", "ack" or "error"

gvars == <<gpc, gcommand, gmtu, gpackets, gair, ganswer>>

REQUESTED_MTU == 500

GInit ==
    /\ gpc = "idle"
    /\ gcommand = "Stop"
    /\ gmtu = 0
    /\ gpackets = 0
    /\ gair = {}
    /\ ganswer = "none"

\* The bearer is dropped, and with it whatever is under way on it to us.
GEnd(o) == gpc' = "idle" /\ gmtu' = 0 /\ gpackets' = 0 /\ ganswer' = "none" /\ Answers(o)

-----------------------------------------------------------------------------
(* arm *)

GArm(command) ==
    /\ gpc = "idle"
    /\ Begins
    /\ gcommand' = command
    /\ gpc' = "connect"
    /\ UNCHANGED <<gmtu, gpackets, gair, ganswer>>

\* connect_public_bearer up to the socket; peer_addr has to be the target.
connect_att_socket ==
    /\ gpc = "connect"
    /\ gpc' = "mtu"
    /\ UNCHANGED <<gcommand, gmtu, gpackets, gair, ganswer, ovars>>

\* parse_mtu_response: 0 stands for None.
parse_mtu_response(opcode, server_mtu) ==
    IF opcode # "ATT_EXCHANGE_MTU_RESPONSE" \/ server_mtu < 23 THEN 0
    ELSE IF server_mtu < REQUESTED_MTU THEN server_mtu ELSE REQUESTED_MTU

\* Exactly one packet is read: a notification that comes first fails the arm.
exchange_mtu ==
    /\ gpc = "mtu"
    /\ \E opcode \in {"ATT_EXCHANGE_MTU_RESPONSE", "other"}, server_mtu \in ServerMtus :
         LET mtu == parse_mtu_response(opcode, server_mtu)
         IN IF mtu = 0 THEN GEnd("NotSent")
            ELSE gpc' = "armed" /\ gmtu' = mtu /\ UNCHANGED <<gpackets, ganswer, calls, outcome>>
    /\ UNCHANGED <<gcommand, gair, received, strayed>>

\* No adapter, adapter off, no connection, a wrong peer, a timeout, a closed channel.
ArmFails ==
    /\ gpc \in {"connect", "mtu"}
    /\ GEnd("NotSent")
    /\ UNCHANGED <<gcommand, gair, received, strayed>>

GCancel ==
    /\ gpc = "armed"
    /\ GEnd("NotSent")
    /\ UNCHANGED <<gcommand, gair, received, strayed>>

-----------------------------------------------------------------------------
(* execute *)

\* att_write_packet refuses a frame that does not fit one write request.
att_write_packet ==
    /\ gpc = "armed"
    /\ IF FrameLength[gcommand] > gmtu - 3
         THEN GEnd("Unknown")
         ELSE gpc' = "write" /\ UNCHANGED <<gmtu, gpackets, ganswer, calls, outcome>>
    /\ UNCHANGED <<gcommand, gair, received, strayed>>

\* send_exact: the frame is out, or the send fails or times out, with the
\* frame out or not.
send_exact ==
    /\ gpc = "write"
    /\ \/ gpc' = "wait" /\ gair' = gair \cup {calls}
          /\ UNCHANGED <<gmtu, gpackets, ganswer, calls, outcome>>
       \/ GEnd("Unknown") /\ gair' \in {gair, gair \cup {calls}}
    /\ UNCHANGED <<gcommand, received, strayed>>

AcknowledgeByNotification(packet) ==
    IF packet \in {"ack", "notification"} THEN "Accepted"
    ELSE IF packet = "error" THEN "Rejected"
    ELSE "Unexpected"

classify_write_response(packet) ==
    CASE packet = "ack" -> "Accepted"
      [] packet = "error" -> "Rejected"
      [] packet = "notification" -> "Notification"
      [] OTHER -> "Unexpected"

\* One turn of the loop of write_and_wait_for_ack.
receive ==
    /\ gpc = "wait"
    /\ \E packet \in {"notification", "malformed"} \cup ({ganswer} \ {"none"}) :
         LET kind == classify_write_response(packet)
         IN \/ kind = "Accepted" /\ GEnd("Accepted")
            \/ kind = "Notification" /\ gpackets + 1 < MAX_PACKETS_PER_ACTION
               /\ gpackets' = gpackets + 1
               /\ UNCHANGED <<gpc, gmtu, ganswer, calls, outcome>>
            \/ kind = "Notification" /\ gpackets + 1 = MAX_PACKETS_PER_ACTION /\ GEnd("Unknown")
            \/ kind \in {"Rejected", "Unexpected"} /\ GEnd("Unknown")
    /\ UNCHANGED <<gcommand, gair, received, strayed>>

\* WRITE_TIMEOUT, or the channel is closed.
receive_fails ==
    /\ gpc = "wait"
    /\ GEnd("Unknown")
    /\ UNCHANGED <<gcommand, gair, received, strayed>>

-----------------------------------------------------------------------------
(* The link and the speaker *)

\* The speaker acts on the write request and acknowledges it, or refuses it.
\* A request that was in the air when the bearer closed may still arrive.
SpeakerActs(i) ==
    /\ i \in gair
    /\ gair' = gair \ {i}
    /\ LET listening == gpc = "wait" /\ i = calls
       IN \/ Receives(i) /\ ganswer' = IF listening THEN "ack" ELSE ganswer
          \/ UNCHANGED received /\ ganswer' = IF listening THEN "error" ELSE ganswer
    /\ UNCHANGED <<gpc, gcommand, gmtu, gpackets, calls, outcome, strayed>>

GClient ==
    connect_att_socket \/ exchange_mtu \/ ArmFails \/ GCancel \/ att_write_packet
        \/ send_exact \/ receive \/ receive_fails

GNext ==
    \/ \E command \in DOMAIN FrameLength : GArm(command)
    \/ GClient
    \/ \E i \in CallIds : SpeakerActs(i)
=============================================================================
