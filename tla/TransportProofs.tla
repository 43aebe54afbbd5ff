-------------------------- MODULE TransportProofs ---------------------------
(***************************************************************************)
(* The safety part of OneShot for any number of calls: what a caller may   *)
(* conclude from an answer, and that each of the three command transports  *)
(* keeps the promise, whatever the MTU of the speaker, the limit of        *)
(* packets and the deadline are; and how many steps a call may take.  Then *)
(* the framing of LoopbackRequest, for all limits, and the v0.4 supervisor *)
(* of SessionSupervisor, for any number of processes still leaving.        *)
(***************************************************************************)
EXTENDS JblHttps, JblGatt, LegacyBackend, LoopbackRequest, SessionSupervisor, TLAPS

\* The domains of the promise: OneAttempt is about functions on the calls.
OTypeOK ==
    /\ calls \in 0 .. MaxCalls
    /\ outcome \in [CallIds -> Outcomes]
    /\ received \in [CallIds -> Nat]
    /\ strayed = {}

\* The inductive strengthening: the domains, and that a device carries
\* nothing out for a call that has not begun.
OInv == OTypeOK /\ OneAttempt

\* No call is under way at the start.
LEMMA OneShotInitial == OInit => OInv
  BY MaxCallsAssumption DEF OInit, OInv, OTypeOK, OneAttempt, CallIds, Outcomes

\* A step of the abstract call keeps its types.
LEMMA OneShotStep == OInv /\ [ONext]_ovars => OInv'
<1> SUFFICES ASSUME OInv, [ONext]_ovars PROVE OInv'
  BY Zenon
<1> USE MaxCallsAssumption DEF OInv, OTypeOK, OneAttempt, CallIds
<1>1. CASE Begins
  BY <1>1 DEF Begins, Running, Outcomes
<1>2. CASE \E i \in CallIds : Receipt(i)
  <2>1. PICK i \in CallIds : Receipt(i)
    BY <1>2, Zenon
  <2> QED
    BY <2>1 DEF Receipt, Receives
<1>3. CASE \E o \in Outcomes \ {"None", "Running"} : Answer(o)
  <2>1. PICK o \in Outcomes \ {"None", "Running"} : Answer(o)
    BY <1>3, Zenon
  <2>2. calls \in CallIds
    BY <2>1 DEF Answer, Running
  <2> QED
    BY <2>1, <2>2, Zenon DEF Answer, Answers, Running
<1>4. CASE UNCHANGED ovars
  BY <1>4, Zenon DEF ovars
<1> QED
  BY <1>1, <1>2, <1>3, <1>4, Zenon DEF ONext

\* Whatever keeps the promise (send_play_together, arm with execute, the
\* requests of the v0.4 adapter): no command is carried out twice, none is
\* carried out for a call that answered that it was not sent, every accepted
\* one was carried out, and none reached another device.
THEOREM AnswersStayTrue == OSpec => []OneAttempt
<1>1. OInv => OneAttempt
  BY Zenon DEF OInv
<1> QED
  BY OneShotInitial, OneShotStep, <1>1, PTL DEF OSpec

-----------------------------------------------------------------------------
(* JblGatt *)

gall == <<ovars, gvars>>
GSpec == OInit /\ GInit /\ [][GNext]_gall

\* A write request on its way belongs to a call that runs or does not know its
\* outcome, and has not been carried out; an acknowledgement on its way back
\* was preceded by the action; before the write nothing has happened.
GInv ==
    /\ OTypeOK
    /\ gpc \in {"idle", "connect", "mtu", "armed", "write", "wait"}
    /\ gpc # "idle" <=> Running
    /\ ganswer \in {"none", "ack", "error"}
    /\ gair \subseteq CallIds
    /\ \A i \in gair : outcome[i] \in {"Running", "Unknown"} /\ received[i] = 0
    /\ \A i \in CallIds : i > calls => outcome[i] = "None" /\ received[i] = 0
    /\ gpc \in {"connect", "mtu", "armed", "write"} => received[calls] = 0 /\ calls \notin gair
    /\ gpc = "wait" /\ ganswer = "ack" => received[calls] = 1
    /\ ganswer # "none" => gpc = "wait"

\* No frame was written at the start.
LEMMA GattInitial == OInit /\ GInit => GInv
  BY MaxCallsAssumption, SMTT(30) DEF OInit, GInit, GInv, OTypeOK, CallIds, Outcomes, Running

\* Every step of the GATT transport keeps its record of what was written.
LEMMA GattStep == GInv /\ [GNext]_gall => GInv' /\ [ONext]_ovars
<1> SUFFICES ASSUME GInv, [GNext]_gall PROVE GInv' /\ [ONext]_ovars
  BY Zenon
<1> USE MaxCallsAssumption DEF GInv, OTypeOK, CallIds, Running, Outcomes
<1>1. ASSUME NEW command \in DOMAIN FrameLength, GArm(command)
      PROVE  GInv' /\ [ONext]_ovars
  BY <1>1 DEF GArm, Begins, ONext
<1>2. ASSUME GEnd("NotSent"), gpc \in {"connect", "mtu", "armed"}, UNCHANGED <<gair, received, strayed>>
      PROVE  GInv' /\ [ONext]_ovars
  <2>1. calls \in CallIds /\ outcome' = [outcome EXCEPT ![calls] = "NotSent"] /\ calls' = calls
    BY <1>2 DEF GEnd, Answers
  <2>2. Answer("NotSent")
    BY <1>2, Zenon DEF GEnd, Answer
  <2>3. GInv'
    BY <1>2, <2>1, Zenon DEF GEnd
  <2> QED
    BY <2>2, <2>3, Zenon DEF ONext
<1>3. ASSUME GEnd("Unknown"), gpc # "idle", gair' \in {gair, gair \cup {calls}}, UNCHANGED <<received, strayed>>,
             gpc # "armed" => gpc \in {"write", "wait"}, gpc = "wait" => UNCHANGED gair
      PROVE  GInv' /\ [ONext]_ovars
  <2>1. calls \in CallIds /\ outcome' = [outcome EXCEPT ![calls] = "Unknown"] /\ calls' = calls
    BY <1>3 DEF GEnd, Answers
  <2>2. Answer("Unknown")
    BY <1>3, Zenon DEF GEnd, Answer
  <2>3. GInv'
    BY <1>3, <2>1, Zenon DEF GEnd
  <2> QED
    BY <2>2, <2>3, Zenon DEF ONext
<1>4. CASE connect_att_socket
  BY <1>4, Zenon DEF connect_att_socket, ovars
<1>5. CASE exchange_mtu
  BY <1>5, <1>2, ZenonT(30) DEF exchange_mtu, ovars
<1>6. CASE ArmFails
  BY <1>6, <1>2, Zenon DEF ArmFails
<1>7. CASE GCancel
  BY <1>7, <1>2, Zenon DEF GCancel
<1>8. CASE att_write_packet
  BY <1>8, <1>3, Zenon DEF att_write_packet, ovars
<1>9. CASE send_exact
  <2>1. CASE gpc' = "wait"
    <3>1. gpc = "write" /\ gair' = gair \cup {calls} /\ calls \in CallIds
      BY <1>9, <2>1 DEF send_exact, GEnd
    <3>2. UNCHANGED <<ganswer, calls, outcome, received, strayed>>
      BY <1>9, <2>1, Zenon DEF send_exact, GEnd
    <3> QED
      BY <2>1, <3>1, <3>2, Zenon DEF ovars
  <2>2. CASE gpc' # "wait"
    BY <1>9, <2>2, <1>3, Zenon DEF send_exact
  <2> QED
    BY <2>1, <2>2, Zenon
<1>10. CASE receive
  <2>1. PICK packet \in {"notification", "malformed"} \cup ({ganswer} \ {"none"}) :
          LET kind == classify_write_response(packet)
          IN \/ kind = "Accepted" /\ GEnd("Accepted")
             \/ kind = "Notification" /\ UNCHANGED <<gpc, gmtu, ganswer, calls, outcome>>
             \/ GEnd("Unknown")
    BY <1>10, Zenon DEF receive
  <2>2. CASE GEnd("Unknown")
    BY <1>10, <2>2, <1>3, Zenon DEF receive
  <2>3. CASE classify_write_response(packet) = "Accepted" /\ GEnd("Accepted")
    <3>1. packet = "ack" /\ ganswer = "ack"
      BY <2>1, <2>3, Zenon DEF classify_write_response
    <3>2. gpc = "wait" /\ UNCHANGED <<gair, received, strayed>>
      BY <1>10, Zenon DEF receive
    <3>3. calls \in CallIds /\ outcome' = [outcome EXCEPT ![calls] = "Accepted"] /\ calls' = calls
      BY <2>3, <3>2 DEF GEnd, Answers
    <3>4. Answer("Accepted")
      BY <2>3, <3>1, <3>2, Zenon DEF GEnd, Answer
    <3>5. calls \notin gair
      BY <3>1, <3>2
    <3>6. GInv'
      BY <2>3, <3>2, <3>3, <3>5, Zenon DEF GEnd
    <3> QED
      BY <3>4, <3>6, Zenon DEF ONext
  <2>4. CASE UNCHANGED <<gpc, gmtu, ganswer, calls, outcome>>
    BY <1>10, <2>4, Zenon DEF receive, ovars
  <2> QED
    BY <2>1, <2>2, <2>3, <2>4, Zenon
<1>11. CASE receive_fails
  BY <1>11, <1>3, Zenon DEF receive_fails
<1>12. ASSUME NEW i \in CallIds, SpeakerActs(i) PROVE GInv' /\ [ONext]_ovars
  <2>1. CASE Receives(i)
    <3>1. i \in gair /\ gair' = gair \ {i} /\ received' = [received EXCEPT ![i] = @ + 1]
      BY <1>12, <2>1, Zenon DEF SpeakerActs, Receives
    <3>2. UNCHANGED <<gpc, calls, outcome, strayed>>
      BY <1>12, Zenon DEF SpeakerActs
    <3>3. ganswer' = IF gpc = "wait" /\ i = calls THEN ganswer' ELSE ganswer
      BY <1>12, Zenon DEF SpeakerActs
    <3>4. Receipt(i)
      BY <2>1, <3>1, <3>2, Zenon DEF Receipt
    <3>5. ganswer' \in {"none", "ack", "error"}
      BY <1>12, Zenon DEF SpeakerActs
    <3>6. received'[i] = 1 /\ \A j \in CallIds : j # i => received'[j] = received[j]
      BY <3>1
    <3>7. calls > 0 /\ gpc # "idle" => calls \in CallIds
      OBVIOUS
    <3>8. i <= calls
      BY <3>1, SMTT(30)
    <3> QED
      BY <3>1, <3>2, <3>3, <3>4, <3>5, <3>6, <3>7, <3>8 DEF ONext
  <2>2. CASE UNCHANGED received
    <3>1. i \in gair /\ gair' = gair \ {i} /\ received[i] = 0
      BY <1>12, Zenon DEF SpeakerActs
    <3>2. UNCHANGED <<gpc, calls, outcome, strayed, received>>
      BY <1>12, <2>2, Zenon DEF SpeakerActs
    <3>3. ganswer' = ganswer \/ (gpc = "wait" /\ i = calls /\ ganswer' = "error")
          \/ Receives(i)
      BY <1>12, <2>2, Zenon DEF SpeakerActs
    <3>4. ~Receives(i)
      BY <2>2, <3>1 DEF Receives
    <3> QED
      BY <3>1, <3>2, <3>3, <3>4, Zenon DEF ovars
  <2> QED
    BY <1>12, <2>1, <2>2, Zenon DEF SpeakerActs
<1>13. CASE UNCHANGED gall
  BY <1>13, Zenon DEF gall, gvars, ovars
<1> QED
  BY <1>1, <1>4, <1>5, <1>6, <1>7, <1>8, <1>9, <1>10, <1>11, <1>12, <1>13, Zenon DEF GNext, GClient

\* arm with execute or cancel keeps the promise, for every length of the
\* frames, every MTU a speaker may answer and every MAX_PACKETS_PER_ACTION: a
\* frame that fits no write request, a flood of notifications and a late
\* action included.
THEOREM GattIsOneShot == GSpec => OInit /\ [][ONext]_ovars
<1>1. GInv /\ [GNext]_gall => GInv'
  BY GattStep, Zenon
<1>2. GInv /\ [GNext]_gall => [ONext]_ovars
  BY GattStep, Zenon
<1> QED
  BY GattInitial, <1>1, <1>2, PTL DEF GSpec

-----------------------------------------------------------------------------
(* JblHttps *)

hall == <<ovars, hvars>>
HSpec == OInit /\ HInit /\ [][HNext]_hall

\* A form that waits at the speaker belongs to a call that runs or does not
\* know its outcome; only the speaker is ever written to; and a response that
\* will be taken for an acceptance follows the action.
HInv ==
    /\ OTypeOK
    /\ hpc \in {"idle", "connect", "handshake", "send", "wait", "info", "model", "group"}
    /\ hpc # "idle" <=> Running
    /\ hpc \in {"send", "wait"} => hpeer = "speaker"
    /\ hinbox \subseteq CallIds
    /\ \A i \in hinbox : outcome[i] \in {"Running", "Unknown"} /\ received[i] = 0
    /\ \A i \in CallIds : i > calls => outcome[i] = "None" /\ received[i] = 0
    /\ hpc \notin {"idle", "wait"} => received[calls] = 0 /\ calls \notin hinbox
    /\ hresponse # NoResponse => hpc = "wait" /\ calls \notin hinbox
    /\ ClassifyResponse(hresponse.status, hresponse.body) = "Accepted" => received[calls] = 1

\* connect gives a stream only to the device with the pinned certificate.
LEMMA StreamIsPinned ==
  ASSUME NEW result, NEW checked \in BOOLEAN, NEW peer, connect(result, checked, peer) = "stream"
  PROVE  peer = "speaker"
  BY Zenon DEF connect

\* A body that BasicResponse::parse takes for a success is needed.
LEMMA AcceptedIsParsed ==
  ASSUME NEW status, NEW body, ClassifyResponse(status, body) = "Accepted"
  PROVE  status = 200 /\ BasicResponse_parse(body) = "Ok"
  BY Zenon DEF ClassifyResponse

\* An unanswered request is not an accepted one.
LEMMA NoResponseNotAccepted == ClassifyResponse(NoResponse.status, NoResponse.body) # "Accepted"
  BY AcceptedIsParsed DEF NoResponse

\* No request was sent at the start.
LEMMA HttpsInitial == OInit /\ HInit => HInv
  BY MaxCallsAssumption, NoResponseNotAccepted, SMTT(30)
  DEF OInit, HInit, HInv, OTypeOK, CallIds, Outcomes, Running

\* Every step of the HTTPS transport keeps its record of what was sent.
LEMMA HttpsStep == HInv /\ [HNext]_hall => HInv' /\ [ONext]_ovars
<1> SUFFICES ASSUME HInv, [HNext]_hall PROVE HInv' /\ [ONext]_ovars
  BY Zenon
<1> USE MaxCallsAssumption DEF HInv, OTypeOK, CallIds, Running, Outcomes
<1>1. ASSUME hpc = "idle", Begins, hpc' \in {"connect", "info"}, UNCHANGED <<hpeer, hinbox, hresponse>>
      PROVE  HInv' /\ [ONext]_ovars
  <2>1. ClassifyResponse(hresponse.status, hresponse.body) # "Accepted" /\ hresponse = NoResponse
    BY <1>1, NoResponseNotAccepted, Zenon
  <2> QED
    BY <1>1, <2>1 DEF Begins, ONext
\* An end of the call that the promise allows.
<1>2. ASSUME NEW o \in Outcomes \ {"None", "Running"}, HEnd(o), hpc # "idle",
             o = "Accepted" => received[calls] = 1,
             o \in {"NotSent", "Read", "ReadFailed"} => received[calls] = 0,
             o # "Unknown" => calls \notin hinbox',
             hinbox' \in {hinbox, hinbox \cup {calls}}, calls \in hinbox' => received[calls] = 0,
             UNCHANGED <<received, strayed>>
      PROVE  HInv' /\ [ONext]_ovars
  <2>1. calls \in CallIds /\ outcome' = [outcome EXCEPT ![calls] = o] /\ calls' = calls
    BY <1>2 DEF HEnd, Answers
  <2>2. Answer(o)
    BY <1>2, Zenon DEF HEnd, Answer
  <2>3. ClassifyResponse(hresponse'.status, hresponse'.body) # "Accepted" /\ hresponse' = NoResponse
    BY <1>2, NoResponseNotAccepted, Zenon DEF HEnd
  <2>4. HInv'
    BY <1>2, <2>1, <2>3, Zenon DEF HEnd
  <2> QED
    BY <1>2, <2>2, <2>4, Zenon DEF ONext
<1>3. \A kind : classify_write_transport(kind) \in {"NotSent", "Unknown"}
  BY Zenon DEF classify_write_transport
<1>4. CASE send_play_together \/ pair_configuration_status
  BY <1>1, <1>4, Zenon DEF send_play_together, pair_configuration_status
<1>5. CASE HConnect
  <2>1. CASE hpc' = "handshake"
    BY <1>5, <2>1, NoResponseNotAccepted, Zenon DEF HConnect, HEnd, ovars
  <2>2. CASE hpc' # "handshake"
    <3>1. PICK o \in {"NotSent", "Unknown"} : HEnd(o)
      BY <1>5, <2>2, <1>3, Zenon DEF HConnect
    <3> QED
      BY <1>5, <3>1, <1>2, Zenon DEF HConnect
  <2> QED
    BY <2>1, <2>2, Zenon
<1>6. CASE HHandshake
  <2>1. PICK result \in Handshakes, checked \in BOOLEAN :
          LET got == connect(result, checked, hpeer)
          IN IF got = "stream"
               THEN hpc' = "send" /\ UNCHANGED <<hpeer, hresponse, calls, outcome>>
               ELSE HEnd(classify_write_transport(got))
    BY <1>6, Zenon DEF HHandshake
  <2>2. CASE connect(result, checked, hpeer) = "stream"
    <3>1. hpeer = "speaker"
      BY <2>2, StreamIsPinned
    <3> QED
      BY <1>6, <2>1, <2>2, <3>1, NoResponseNotAccepted, ZenonT(30) DEF HHandshake, ovars
  <2>3. CASE connect(result, checked, hpeer) # "stream"
    <3>1. PICK o \in {"NotSent", "Unknown"} : HEnd(o)
      BY <2>1, <2>3, <1>3, ZenonT(30)
    <3> QED
      BY <1>6, <3>1, <1>2, Zenon DEF HHandshake
  <2> QED
    BY <2>2, <2>3, Zenon
<1>7. CASE send_bytes
  <2>1. hpc = "send" /\ hpc' = "wait" /\ hinbox' = hinbox \cup {calls}
    BY <1>7, Zenon DEF send_bytes, Sent
  <2>2. UNCHANGED <<hpeer, hresponse, calls, outcome, received, strayed>>
    BY <1>7, Zenon DEF send_bytes, Sent
  <2>3. hresponse = NoResponse /\ calls \in CallIds
    BY <2>1
  <2> QED
    BY <2>1, <2>2, <2>3, NoResponseNotAccepted, Zenon DEF ovars
<1>8. CASE send_failed
  <2>1. HEnd("Unknown")
    BY <1>8, Zenon DEF send_failed, classify_write_transport
  <2>2. hpc = "send" /\ hinbox' \in {hinbox, hinbox \cup {calls}} /\ UNCHANGED <<received, strayed>>
    BY <1>8, Zenon DEF send_failed, Sent
  <2> QED
    BY <2>1, <2>2, <1>2, Zenon
<1>9. CASE HResponse
  <2>1. ClassifyResponse(hresponse.status, hresponse.body) \in {"Accepted", "Refused", "Unknown"}
    BY Zenon DEF ClassifyResponse
  <2>2. hpc = "wait" /\ hresponse # NoResponse /\ UNCHANGED <<hinbox, received, strayed>>
    BY <1>9, Zenon DEF HResponse
  <2>3. HEnd(ClassifyResponse(hresponse.status, hresponse.body))
    BY <1>9, Zenon DEF HResponse
  <2> QED
    BY <2>1, <2>2, <2>3, <1>2, Zenon
<1>10. CASE HTimeout
  <2>1. HEnd("Unknown") /\ hpc = "wait" /\ UNCHANGED <<hinbox, received, strayed>>
    BY <1>10, Zenon DEF HTimeout, classify_write_transport
  <2> QED
    BY <2>1, <1>2, Zenon
<1>11. CASE get_json
  <2>1. hpc \in {"info", "group"} /\ UNCHANGED <<hinbox, received>>
    BY <1>11, Zenon DEF get_json
  <2>2. UNCHANGED strayed
    <3>1. PICK result \in Handshakes, checked \in BOOLEAN :
            LET peer == IF hpool THEN "speaker" ELSE hholder
            IN /\ hpool \/ connect(result, checked, peer) = "stream"
               /\ strayed' = IF peer = "speaker" THEN strayed ELSE strayed \cup {calls}
      BY <1>11, Zenon DEF get_json
    <3> QED
      BY <3>1, StreamIsPinned
  <2>3. CASE hpc = "info"
    BY <1>11, <2>1, <2>2, <2>3, NoResponseNotAccepted, ZenonT(30) DEF get_json, ovars
  <2>4. CASE hpc = "group"
    <3>1. HEnd("Read")
      BY <1>11, <2>4, Zenon DEF get_json
    <3> QED
      BY <2>1, <2>2, <2>4, <3>1, <1>2, Zenon
  <2> QED
    BY <2>1, <2>3, <2>4, Zenon
<1>12. CASE verified_model
  BY <1>12, NoResponseNotAccepted, Zenon DEF verified_model, ovars
<1>13. CASE ReadFails
  BY <1>13, <1>2, Zenon DEF ReadFails
<1>14. CASE AddressMoves
  BY <1>14, Zenon DEF AddressMoves, ovars
<1>15. ASSUME NEW i \in CallIds, SpeakerReceives(i) PROVE HInv' /\ [ONext]_ovars
  <2>1. PICK status \in {200, 500}, body \in Bodies :
          /\ \/ Receives(i)
             \/ UNCHANGED received /\ (status = 200 => BasicResponse_parse(body) # "Ok")
          /\ hresponse' = IF i = calls /\ hpc = "wait" THEN [status |-> status, body |-> body]
                          ELSE hresponse
    BY <1>15, Zenon DEF SpeakerReceives
  <2>2. i \in hinbox /\ hinbox' = hinbox \ {i} /\ received[i] = 0 /\ i <= calls
    BY <1>15 DEF SpeakerReceives
  <2>3. UNCHANGED <<hpc, hpeer, calls, outcome, strayed>>
    BY <1>15, ZenonT(30) DEF SpeakerReceives
  <2>4. CASE Receives(i)
    <3>1. Receipt(i)
      BY <2>2, <2>3, <2>4, ZenonT(30) DEF Receipt
    <3>2. received' = [received EXCEPT ![i] = 1]
      BY <2>2, <2>4 DEF Receives
    <3>3. hpc \notin {"idle", "wait"} => i # calls
      BY <2>2
    <3>4. hresponse' # NoResponse => hpc = "wait" /\ calls \notin hinbox'
      BY <2>1, <2>2
    <3>5. ClassifyResponse(hresponse'.status, hresponse'.body) = "Accepted" => received'[calls] = 1
      BY <2>1, <2>2, <3>2
    <3>6. HInv'
      BY <2>2, <2>3, <3>2, <3>3, <3>4, <3>5
    <3> QED
      BY <3>1, <3>6, ZenonT(30) DEF ONext
  <2>5. CASE UNCHANGED received /\ (status = 200 => BasicResponse_parse(body) # "Ok")
    <3>1. hresponse' # NoResponse => hpc = "wait" /\ calls \notin hinbox'
      BY <2>1, <2>2, ZenonT(30)
    <3>2. ClassifyResponse(hresponse'.status, hresponse'.body) = "Accepted" => received'[calls] = 1
      BY <2>1, <2>5, AcceptedIsParsed
    <3> QED
      BY <2>2, <2>3, <2>5, <3>1, <3>2 DEF ovars
  <2> QED
    BY <2>1, <2>4, <2>5, ZenonT(30)
<1>16. CASE UNCHANGED hall
  BY <1>16, Zenon DEF hall, hvars, ovars
<1> QED
  BY <1>4, <1>5, <1>6, <1>7, <1>8, <1>9, <1>10, <1>11, <1>12, <1>13, <1>14, <1>15, <1>16, ZenonT(30) DEF HNext, HClient

\* send_play_together and pair_configuration_status keep the promise, with the
\* address in other hands at any time and the speaker acting at any time: no
\* form goes to another device, and Rejected before the form is out, Accepted
\* and the reads are what they say.
THEOREM HttpsIsOneShot == HSpec => OInit /\ [][ONext]_ovars
<1>1. HInv /\ [HNext]_hall => HInv'
  BY HttpsStep, Zenon
<1>2. HInv /\ [HNext]_hall => [ONext]_ovars
  BY HttpsStep, Zenon
<1> QED
  BY HttpsInitial, <1>1, <1>2, PTL DEF HSpec

-----------------------------------------------------------------------------
(* LegacyBackend *)

lall == <<ovars, lvars>>
LSpec == OInit /\ LInit /\ [][LNext]_lall

\* As for the other two; a line the supervisor has yet to take up may also
\* belong to a health read that failed, and a running health read has changed
\* nothing.
LInv ==
    /\ OTypeOK
    /\ lpc \in {"idle", "connect", "verify", "write", "read"}
    /\ lcommand \in DOMAIN expected_lifecycle
    /\ lpc # "idle" <=> Running
    /\ lpc \in {"write", "read"} => lpeer = "self"
    /\ lqueue \subseteq CallIds
    /\ \A i \in lqueue : outcome[i] \in {"Running", "Unknown", "ReadFailed"} /\ received[i] = 0
    /\ \A i \in CallIds : i > calls => outcome[i] = "None" /\ received[i] = 0
    /\ lpc \in {"connect", "verify", "write"} => received[calls] = 0 /\ calls \notin lqueue
    /\ lpc = "read" /\ lcommand = "Status" => received[calls] = 0
    /\ lreply # NoReply => /\ lpc = "read" /\ calls \notin lqueue
                           /\ lreply \in Replies
                           /\ lreply.ok /\ lcommand # "Status" => received[calls] = 1

\* No legacy command was sent at the start.
LEMMA LegacyInitial == OInit /\ LInit => LInv
  BY MaxCallsAssumption, SMTT(30) DEF OInit, LInit, LInv, OTypeOK, CallIds, Outcomes, Running, expected_lifecycle

\* Every step of the legacy transport keeps its record of what was sent.
LEMMA LegacyStep == LInv /\ [LNext]_lall => LInv' /\ [ONext]_ovars
<1> SUFFICES ASSUME LInv, [LNext]_lall PROVE LInv' /\ [ONext]_ovars
  BY Zenon
<1> USE MaxCallsAssumption DEF LInv, OTypeOK, CallIds, Running, Outcomes
<1>1. ASSUME NEW command \in DOMAIN expected_lifecycle, LRequest(command)
      PROVE  LInv' /\ [ONext]_ovars
  BY <1>1 DEF LRequest, Begins, ONext
\* An end of the call that the promise allows.
<1>2. ASSUME NEW o \in {"Accepted", "NotSent", "Unknown"}, LEnd(o), lpc # "idle",
             o = "Accepted" => calls \notin lqueue' /\ (lcommand # "Status" => received[calls] = 1),
             o = "NotSent" => lpc # "read" /\ UNCHANGED lqueue,
             lqueue' = lqueue \/ (lqueue' = lqueue \cup {calls} /\ received[calls] = 0),
             UNCHANGED <<lcommand, lpeer, received, strayed>>
      PROVE  LInv' /\ [ONext]_ovars
  <2> DEFINE said == IF lcommand # "Status" THEN o ELSE IF o = "Accepted" THEN "Read" ELSE "ReadFailed"
  <2>1. calls \in CallIds /\ outcome' = [outcome EXCEPT ![calls] = said] /\ calls' = calls
    BY <1>2 DEF LEnd, Answers
  <2>2. lcommand = "Status" => received[calls] = 0
    BY <1>2, Zenon
  <2>3. Answer(said)
    BY <1>2, <2>2, Zenon DEF LEnd, Answer
  <2>4. said \in {"Accepted", "NotSent", "Unknown", "Read", "ReadFailed"}
    BY Zenon
  <2>5. calls \in lqueue' => said \in {"Unknown", "ReadFailed"} /\ received[calls] = 0
    BY <1>2, Zenon
  <2>6. lpc' = "idle" /\ lreply' = NoReply /\ lqueue' \subseteq CallIds
    BY <1>2, <2>1, Zenon DEF LEnd
  <2> HIDE DEF said
  <2>7. \A i \in lqueue' : outcome'[i] \in {"Running", "Unknown", "ReadFailed"} /\ received'[i] = 0
    BY <1>2, <2>1, <2>5, ZenonT(30)
  <2>8. LInv'
    BY <1>2, <2>1, <2>4, <2>6, <2>7, Zenon
  <2> QED
    BY <2>3, <2>4, <2>8, Zenon DEF ONext
<1>3. CASE connect_descriptor
  BY <1>3, Zenon DEF connect_descriptor, ovars
<1>4. CASE retry_backlog
  <2>1. CASE lleft = 0
    BY <1>4, <2>1, <1>2, Zenon DEF retry_backlog
  <2>2. CASE lleft # 0
    BY <1>4, <2>2, Zenon DEF retry_backlog, LKeep, ovars
  <2> QED
    BY <2>1, <2>2, Zenon
<1>5. CASE ConnectFails
  BY <1>5, <1>2, Zenon DEF ConnectFails
<1>6. CASE verify_peer_effective_uid
  <2>1. CASE lpeer = "self"
    BY <1>6, <2>1, Zenon DEF verify_peer_effective_uid, LKeep, ovars
  <2>2. CASE lpeer # "self"
    BY <1>6, <2>2, <1>2, Zenon DEF verify_peer_effective_uid
  <2> QED
    BY <2>1, <2>2, Zenon
<1>7. CASE write_all_until
  <2>1. lpc = "write" /\ lpc' = "read" /\ lqueue' = lqueue \cup {calls} /\ calls \in CallIds
    BY <1>7 DEF write_all_until, LineOut
  <2>2. UNCHANGED <<lcommand, lpeer, lreply, calls, outcome, received, strayed>> /\ lreply = NoReply
    BY <1>7, <2>1, Zenon DEF write_all_until, LineOut, LKeep
  <2> QED
    BY <2>1, <2>2, Zenon DEF ovars
<1>8. CASE WriteFails
  <2>1. lpc = "write" /\ LEnd("Unknown") /\ lqueue' \in {lqueue, lqueue \cup {calls}}
    BY <1>8, Zenon DEF WriteFails, LineOut
  <2>2. UNCHANGED <<lcommand, lpeer, received, strayed>>
    BY <1>8, Zenon DEF WriteFails, LineOut
  <2> QED
    BY <2>1, <2>2, <1>2, Zenon
<1>9. CASE read_chunk
  <2>1. CASE LEnd("Unknown")
    BY <1>9, <2>1, <1>2, Zenon DEF read_chunk
  <2>2. CASE UNCHANGED <<lpc, lleft, lreply>> /\ LKeep
    BY <1>9, <2>2, Zenon DEF read_chunk, LKeep, ovars
  <2> QED
    BY <1>9, <2>1, <2>2, Zenon DEF read_chunk
<1>10. CASE read_line
  <2>1. lpc = "read" /\ lreply # NoReply /\ UNCHANGED <<lcommand, lpeer, lqueue, received, strayed>>
    BY <1>10, Zenon DEF read_line
  <2>2. PICK o \in {"Accepted", "Unknown"} : LEnd(o) /\ (o = "Accepted" => ClassifyReply(lreply) = "Accepted")
    BY <1>10, Zenon DEF read_line, ClassifyReply
  <2>3. o = "Accepted" => lreply.ok
    BY <2>2, Zenon DEF ClassifyReply
  <2> QED
    BY <2>1, <2>2, <2>3, <1>2, Zenon
<1>11. CASE reply_fails
  BY <1>11, <1>2, Zenon DEF reply_fails
<1>12. CASE BacklogMoves
  BY <1>12, Zenon DEF BacklogMoves, ovars
<1>13. ASSUME NEW i \in CallIds, SupervisorTakes(i) PROVE LInv' /\ [ONext]_ovars
  <2>1. PICK reply \in Replies :
          /\ IF (i = calls /\ lcommand = "Status") \/ outcome[i] = "ReadFailed"
               THEN UNCHANGED received
               ELSE Receives(i) \/ (~reply.ok /\ UNCHANGED received)
          /\ lreply' = IF i = calls /\ lpc = "read" THEN reply ELSE lreply
    BY <1>13, Zenon DEF SupervisorTakes
  <2>2. i \in lqueue /\ lqueue' = lqueue \ {i} /\ received[i] = 0 /\ i <= calls
    BY <1>13 DEF SupervisorTakes
  <2>3. UNCHANGED <<lpc, lcommand, lpeer, calls, outcome, strayed>>
    BY <1>13, Zenon DEF SupervisorTakes
  <2>4. lreply' # NoReply => lpc' = "read" /\ calls' \notin lqueue' /\ lreply' \in Replies
    BY <2>1, <2>2, <2>3, Zenon
  <2>5. CASE UNCHANGED received
    <3>1. i = calls /\ lpc = "read" /\ lcommand # "Status" => ~reply.ok
      <4>1. Receives(i) => received'[i] = 1
        BY <2>2 DEF Receives
      <4>2. i = calls /\ lpc = "read" => outcome[i] # "ReadFailed"
        BY Zenon
      <4> QED
        BY <2>1, <2>2, <2>5, <4>1, <4>2
    <3>2. lreply'.ok /\ lcommand' # "Status" /\ lreply' # NoReply => received'[calls'] = 1
      BY <2>1, <2>3, <2>5, <3>1, Zenon
    <3> QED
      BY <2>2, <2>3, <2>4, <2>5, <3>2, ZenonT(30) DEF ovars
  <2>6. CASE Receives(i) /\ received' # received
    <3>1. received' = [received EXCEPT ![i] = 1]
      BY <2>2, <2>6 DEF Receives
    <3>2. outcome[i] \in {"Running", "Unknown"} /\ ~(i = calls /\ lcommand = "Status")
      BY <2>1, <2>2, <2>6, Zenon
    <3>3. Receipt(i)
      BY <2>2, <2>3, <2>6, <3>2, ZenonT(30) DEF Receipt
    <3>4. lpc' = "read" /\ lcommand' = "Status" => received'[calls'] = 0
      BY <2>3, <3>1, <3>2
    <3>5. lpc' \in {"connect", "verify", "write"} => received'[calls'] = 0 /\ calls' \notin lqueue'
      BY <2>2, <2>3, <3>1
    <3>6. lreply' # NoReply /\ lreply'.ok /\ lcommand' # "Status" => received'[calls'] = 1
      BY <2>1, <2>2, <2>3, <3>1
    <3>7. LInv'
      BY <2>2, <2>3, <2>4, <3>1, <3>4, <3>5, <3>6, ZenonT(30)
    <3> QED
      BY <3>3, <3>7, Zenon DEF ONext
  <2> QED
    BY <2>1, <2>5, <2>6, Zenon
<1>14. CASE UNCHANGED lall
  BY <1>14, Zenon DEF lall, lvars, ovars
<1> QED
  BY <1>1, <1>3, <1>4, <1>5, <1>6, <1>7, <1>8, <1>9, <1>10, <1>11, <1>12, <1>13, <1>14, ZenonT(30) DEF LNext, LClient

\* The requests of the v0.4 adapter keep the promise for every deadline and
\* every limit on the reply: a failure reply is never taken for a rejection,
\* and no line goes to a socket of another user.
THEOREM LegacyIsOneShot == LSpec => OInit /\ [][ONext]_ovars
<1>1. LInv /\ [LNext]_lall => LInv'
  BY LegacyStep, Zenon
<1>2. LInv /\ [LNext]_lall => [ONext]_ovars
  BY LegacyStep, Zenon
<1> QED
  BY LegacyInitial, <1>1, <1>2, PTL DEF LSpec

-----------------------------------------------------------------------------
(* How long a call may take *)

\* The steps a call of the GATT transport may still make: what is ahead of the
\* write, the write, and one for each packet it may still read.
GLeft ==
    CASE gpc = "idle" -> 0
      [] gpc = "wait" -> MAX_PACKETS_PER_ACTION - gpackets
      [] gpc = "write" -> MAX_PACKETS_PER_ACTION + 1
      [] gpc = "armed" -> MAX_PACKETS_PER_ACTION + 2
      [] gpc = "mtu" -> MAX_PACKETS_PER_ACTION + 3
      [] gpc = "connect" -> MAX_PACKETS_PER_ACTION + 4

\* Packets are counted from the write on, and the last one ends the call.
GCount ==
    /\ gpackets \in 0 .. MAX_PACKETS_PER_ACTION - 1
    /\ gpc # "wait" => gpackets = 0

\* A step of the transport uses one of them up; a notification that comes while
\* it waits is no exception.  Only a new call has more.
GCountsDown ==
    /\ GClient => GLeft' < GLeft
    /\ GLeft' > GLeft => calls' = calls + 1 /\ GLeft' = MAX_PACKETS_PER_ACTION + 4

\* What is left of a call, by its step.
LEMMA GLeftBy ==
    /\ gpc = "idle" => GLeft = 0
    /\ gpc = "wait" => GLeft = MAX_PACKETS_PER_ACTION - gpackets
    /\ gpc = "write" => GLeft = MAX_PACKETS_PER_ACTION + 1
    /\ gpc = "armed" => GLeft = MAX_PACKETS_PER_ACTION + 2
    /\ gpc = "mtu" => GLeft = MAX_PACKETS_PER_ACTION + 3
    /\ gpc = "connect" => GLeft = MAX_PACKETS_PER_ACTION + 4
BY DEF GLeft

\* The same after a step.
LEMMA GLeftNext ==
    /\ gpc' = "idle" => GLeft' = 0
    /\ gpc' = "wait" => GLeft' = MAX_PACKETS_PER_ACTION - gpackets'
    /\ gpc' = "write" => GLeft' = MAX_PACKETS_PER_ACTION + 1
    /\ gpc' = "armed" => GLeft' = MAX_PACKETS_PER_ACTION + 2
    /\ gpc' = "mtu" => GLeft' = MAX_PACKETS_PER_ACTION + 3
    /\ gpc' = "connect" => GLeft' = MAX_PACKETS_PER_ACTION + 4
BY DEF GLeft

\* Every step keeps the count of packets and uses up what is left of the call.
LEMMA GattDescends == GInv /\ GCount /\ [GNext]_gall => GCount' /\ GCountsDown
<1> SUFFICES ASSUME GInv, GCount, [GNext]_gall PROVE GCount' /\ GCountsDown
  OBVIOUS
<1> DEFINE Max == MAX_PACKETS_PER_ACTION
<1>1. /\ Max \in Nat /\ Max > 0 /\ gpackets \in Nat /\ gpackets < Max
      /\ gpc # "wait" => gpackets = 0
      /\ gpc \in {"idle", "connect", "mtu", "armed", "write", "wait"}
  BY GattAssumption DEF GInv, GCount
<1>2. ASSUME NEW o, GEnd(o), gpc # "idle" PROVE GCount' /\ GLeft' < GLeft
  BY <1>1, <1>2, GLeftBy, GLeftNext DEF GEnd, GCount
<1>3. ASSUME connect_att_socket PROVE GCount' /\ GLeft' < GLeft
  BY <1>1, <1>3, GLeftBy, GLeftNext DEF connect_att_socket, GCount
<1>4. ASSUME exchange_mtu PROVE GCount' /\ GLeft' < GLeft
  <2>1. CASE GEnd("NotSent")
    BY <1>2, <1>4, <2>1 DEF exchange_mtu
  <2>2. CASE gpc' = "armed" /\ UNCHANGED gpackets
    BY <1>1, <1>4, <2>2, GLeftBy, GLeftNext DEF exchange_mtu, GCount
  <2> QED
    BY <1>4, <2>1, <2>2, Zenon DEF exchange_mtu
<1>5. ASSUME ArmFails \/ GCancel \/ receive_fails PROVE GCount' /\ GLeft' < GLeft
  BY <1>2, <1>5 DEF ArmFails, GCancel, receive_fails
<1>6. ASSUME att_write_packet PROVE GCount' /\ GLeft' < GLeft
  <2>1. CASE GEnd("Unknown")
    BY <1>2, <1>6, <2>1 DEF att_write_packet
  <2>2. CASE gpc' = "write" /\ UNCHANGED gpackets
    BY <1>1, <1>6, <2>2, GLeftBy, GLeftNext DEF att_write_packet, GCount
  <2> QED
    BY <1>6, <2>1, <2>2, Zenon DEF att_write_packet
<1>7. ASSUME send_exact PROVE GCount' /\ GLeft' < GLeft
  <2>1. CASE GEnd("Unknown")
    BY <1>2, <1>7, <2>1 DEF send_exact
  <2>2. CASE gpc' = "wait" /\ UNCHANGED gpackets
    BY <1>1, <1>7, <2>2, GLeftBy, GLeftNext DEF send_exact, GCount
  <2> QED
    BY <1>7, <2>1, <2>2, Zenon DEF send_exact
<1>8. ASSUME receive PROVE GCount' /\ GLeft' < GLeft
  <2>1. CASE \E o \in {"Accepted", "Unknown"} : GEnd(o)
    BY <1>2, <1>8, <2>1 DEF receive
  <2>2. CASE gpackets + 1 < Max /\ gpackets' = gpackets + 1 /\ UNCHANGED gpc
    BY <1>1, <1>8, <2>2, GLeftBy, GLeftNext DEF receive, GCount
  <2> QED
    BY <1>8, <2>1, <2>2, Zenon DEF receive
<1>9. ASSUME GClient PROVE GCount' /\ GLeft' < GLeft
  BY <1>3, <1>4, <1>5, <1>6, <1>7, <1>8, <1>9, Zenon DEF GClient
<1>10. GLeft \in Int
  BY <1>1, GLeftBy
<1>11. ASSUME NEW command, GArm(command)
       PROVE  GCount' /\ calls' = calls + 1 /\ GLeft' = Max + 4 /\ GLeft' > GLeft
  BY <1>1, <1>11, GLeftBy, GLeftNext DEF GArm, Begins, GCount
<1>12. ASSUME UNCHANGED <<gpc, gpackets>> PROVE GCount' /\ GLeft' = GLeft
  BY <1>12, Zenon DEF GCount, GLeft
<1>13. CASE GClient
  <2>1. gpc' \in {"idle", "connect", "mtu", "armed", "write", "wait"} /\ gpackets' \in Int
    BY <1>9, <1>13, GattStep DEF GInv, GCount
  <2>2. GLeft' \in Int
    BY <1>1, <2>1, GLeftNext
  <2>3. ~(GLeft' > GLeft)
    BY <1>9, <1>10, <1>13, <2>2
  <2> QED
    BY <1>9, <1>13, <2>3, Zenon DEF GCountsDown
<1>14. CASE ~GClient /\ \E command : GArm(command)
  BY <1>11, <1>14, Zenon DEF GCountsDown
<1>15. CASE ~GClient /\ UNCHANGED <<gpc, gpackets>>
  <2>1. GCount' /\ ~(GLeft' > GLeft)
    BY <1>10, <1>12, <1>15
  <2> QED
    BY <1>15, <2>1, Zenon DEF GCountsDown
<1> QED
  <2>1. ASSUME NEW i, SpeakerActs(i) PROVE UNCHANGED <<gpc, gpackets>>
    BY <2>1, Zenon DEF SpeakerActs
  <2>2. UNCHANGED gall => UNCHANGED <<gpc, gpackets>>
    BY Zenon DEF gall, gvars
  <2> QED
    BY <1>13, <1>14, <1>15, <2>1, <2>2, Zenon DEF GNext

\* A call of the GATT transport answers after at most so many steps, for every
\* MAX_PACKETS_PER_ACTION: whatever the speaker floods it with, and with no
\* help of the clock.
THEOREM GattCallsCountDown ==
    GSpec => [](GLeft = 0 <=> ~Running) /\ [][GCountsDown]_gall
<1>1. OInit /\ GInit => GCount
  BY GattAssumption DEF GInit, GCount
<1>2. GInv /\ GCount => (GLeft = 0 <=> ~Running)
  BY GattAssumption, GLeftBy DEF GInv, GCount
<1>3. GInv /\ [GNext]_gall => GInv'
  BY GattStep, Zenon
<1>4. GInv /\ GCount /\ [GNext]_gall => GCount'
  BY GattDescends, Zenon
<1>5. GInv /\ GCount /\ [GNext]_gall => [GCountsDown]_gall
  BY GattDescends, Zenon
<1> QED
  BY GattInitial, <1>1, <1>2, <1>3, <1>4, <1>5, PTL DEF GSpec

\* The steps a call of the legacy adapter may still make: the retries of the
\* connect that the deadline allows, the write, and the chunks of the reply.
LLeft ==
    CASE lpc = "idle" -> 0
      [] lpc = "read" -> MaxChunks - lchunks + 1
      [] lpc = "write" -> MaxChunks + 2
      [] lpc = "verify" -> MaxChunks + 3
      [] lpc = "connect" -> MaxChunks + 4 + lleft

\* The time and the chunks a call has left.
LCount ==
    /\ lleft \in 0 .. LegacyTicks
    /\ lchunks \in 0 .. MaxChunks
    /\ lpc # "read" => lchunks = 0

\* A step of the adapter uses one of them up, whether another client fills the
\* backlog or not; only a new call has more.
LCountsDown ==
    /\ LClient => LLeft' < LLeft
    /\ LLeft' > LLeft => calls' = calls + 1 /\ LLeft' = MaxChunks + 4 + LegacyTicks

\* What is left of a call, by its step.
LEMMA LLeftBy ==
    /\ lpc = "idle" => LLeft = 0
    /\ lpc = "read" => LLeft = MaxChunks - lchunks + 1
    /\ lpc = "write" => LLeft = MaxChunks + 2
    /\ lpc = "verify" => LLeft = MaxChunks + 3
    /\ lpc = "connect" => LLeft = MaxChunks + 4 + lleft
BY DEF LLeft

\* The same after a step.
LEMMA LLeftNext ==
    /\ lpc' = "idle" => LLeft' = 0
    /\ lpc' = "read" => LLeft' = MaxChunks - lchunks' + 1
    /\ lpc' = "write" => LLeft' = MaxChunks + 2
    /\ lpc' = "verify" => LLeft' = MaxChunks + 3
    /\ lpc' = "connect" => LLeft' = MaxChunks + 4 + lleft'
BY DEF LLeft

\* Every step keeps the count of time and chunks and uses up what is left.
LEMMA LegacyDescends == LInv /\ LCount /\ [LNext]_lall => LCount' /\ LCountsDown
<1> SUFFICES ASSUME LInv, LCount, [LNext]_lall PROVE LCount' /\ LCountsDown
  OBVIOUS
<1>1. /\ MaxChunks \in Nat /\ LegacyTicks \in Nat /\ lleft \in Nat /\ lleft <= LegacyTicks
      /\ lchunks \in Nat /\ lchunks <= MaxChunks
      /\ lpc # "read" => lchunks = 0
      /\ lpc \in {"idle", "connect", "verify", "write", "read"}
  BY LegacyAssumption DEF LInv, LCount
<1>2. ASSUME NEW o, LEnd(o), lpc # "idle" PROVE LCount' /\ LLeft' < LLeft
  BY <1>1, <1>2, LLeftBy, LLeftNext DEF LEnd, LCount
<1>3. ASSUME connect_descriptor PROVE LCount' /\ LLeft' < LLeft
  BY <1>1, <1>3, LLeftBy, LLeftNext DEF connect_descriptor, LCount
<1>4. ASSUME retry_backlog PROVE LCount' /\ LLeft' < LLeft
  <2>1. CASE LEnd("NotSent")
    BY <1>2, <1>4, <2>1 DEF retry_backlog
  <2>2. CASE lleft # 0 /\ lleft' = lleft - 1 /\ UNCHANGED <<lpc, lchunks>>
    BY <1>1, <1>4, <2>2, LLeftBy, LLeftNext DEF retry_backlog, LCount
  <2> QED
    BY <1>4, <2>1, <2>2, Zenon DEF retry_backlog
<1>5. ASSUME ConnectFails \/ WriteFails \/ read_line \/ reply_fails PROVE LCount' /\ LLeft' < LLeft
  BY <1>2, <1>5 DEF ConnectFails, WriteFails, read_line, reply_fails
<1>6. ASSUME verify_peer_effective_uid PROVE LCount' /\ LLeft' < LLeft
  <2>1. CASE LEnd("NotSent")
    BY <1>2, <1>6, <2>1 DEF verify_peer_effective_uid
  <2>2. CASE lpc' = "write" /\ UNCHANGED <<lleft, lchunks>>
    BY <1>1, <1>6, <2>2, LLeftBy, LLeftNext DEF verify_peer_effective_uid, LCount
  <2> QED
    BY <1>6, <2>1, <2>2, Zenon DEF verify_peer_effective_uid
<1>7. ASSUME write_all_until PROVE LCount' /\ LLeft' < LLeft
  BY <1>1, <1>7, LLeftBy, LLeftNext DEF write_all_until, LCount
<1>8. ASSUME read_chunk PROVE LCount' /\ LLeft' < LLeft
  <2>1. CASE LEnd("Unknown")
    BY <1>2, <1>8, <2>1 DEF read_chunk
  <2>2. CASE lchunks < MaxChunks /\ lchunks' = lchunks + 1 /\ UNCHANGED <<lpc, lleft>>
    BY <1>1, <1>8, <2>2, LLeftBy, LLeftNext DEF read_chunk, LCount
  <2> QED
    BY <1>8, <2>1, <2>2, Zenon DEF read_chunk
<1>9. ASSUME LClient PROVE LCount' /\ LLeft' < LLeft
  BY <1>3, <1>4, <1>5, <1>6, <1>7, <1>8, <1>9, Zenon DEF LClient
<1>10. LLeft \in Int
  BY <1>1, LLeftBy
<1>11. ASSUME NEW asked, LRequest(asked)
       PROVE  LCount' /\ calls' = calls + 1 /\ LLeft' = MaxChunks + 4 + LegacyTicks
  BY <1>1, <1>11, LLeftBy, LLeftNext DEF LRequest, Begins, LCount
<1>12. ASSUME UNCHANGED <<lpc, lleft, lchunks>> PROVE LCount' /\ LLeft' = LLeft
  BY <1>12, Zenon DEF LCount, LLeft
<1>13. CASE LClient
  <2>1. /\ lpc' \in {"idle", "connect", "verify", "write", "read"}
        /\ lchunks' \in Int /\ lleft' \in Int
    BY <1>9, <1>13, LegacyStep DEF LInv, LCount
  <2>2. LLeft' \in Int
    BY <1>1, <2>1, LLeftNext
  <2>3. ~(LLeft' > LLeft)
    BY <1>9, <1>10, <1>13, <2>2
  <2> QED
    BY <1>9, <1>13, <2>3, Zenon DEF LCountsDown
<1>14. CASE ~LClient /\ \E asked : LRequest(asked)
  BY <1>11, <1>14, Zenon DEF LCountsDown
<1>15. CASE ~LClient /\ UNCHANGED <<lpc, lleft, lchunks>>
  <2>1. LCount' /\ ~(LLeft' > LLeft)
    BY <1>10, <1>12, <1>15
  <2> QED
    BY <1>15, <2>1, Zenon DEF LCountsDown
<1> QED
  <2>1. ASSUME NEW i, SupervisorTakes(i) PROVE UNCHANGED <<lpc, lleft, lchunks>>
    BY <2>1, Zenon DEF SupervisorTakes
  <2>2. UNCHANGED lall \/ BacklogMoves => UNCHANGED <<lpc, lleft, lchunks>>
    BY Zenon DEF lall, lvars, BacklogMoves
  <2> QED
    BY <1>13, <1>14, <1>15, <2>1, <2>2, Zenon DEF LNext

\* A call of the v0.4 adapter answers after at most so many steps, for every
\* deadline and every limit on the reply: a backlog that stays full does not
\* keep it, and neither does a reply without an end.
THEOREM LegacyCallsCountDown ==
    LSpec => [](LLeft = 0 <=> ~Running) /\ [][LCountsDown]_lall
<1>1. OInit /\ LInit => LCount
  BY LegacyAssumption DEF LInit, LCount
<1>2. LInv /\ LCount => (LLeft = 0 <=> ~Running)
  BY LegacyAssumption, LLeftBy DEF LInv, LCount
<1>3. LInv /\ [LNext]_lall => LInv'
  BY LegacyStep, Zenon
<1>4. LInv /\ LCount /\ [LNext]_lall => LCount'
  BY LegacyDescends, Zenon
<1>5. LInv /\ LCount /\ [LNext]_lall => [LCountsDown]_lall
  BY LegacyDescends, Zenon
<1> QED
  BY LegacyInitial, <1>1, <1>2, <1>3, <1>4, <1>5, PTL DEF LSpec

\* The steps a call of the HTTPS client may still make.
HLeft ==
    CASE hpc = "idle" -> 0
      [] hpc \in {"wait", "group"} -> 1
      [] hpc \in {"send", "model"} -> 2
      [] hpc \in {"handshake", "info"} -> 3
      [] hpc = "connect" -> 4

\* A form is written once and a read asks three times: no step goes back.
HCountsDown ==
    /\ HClient => HLeft' < HLeft
    /\ HLeft' > HLeft => calls' = calls + 1

\* Every step of the client uses up what is left of the call.
LEMMA HttpsDescends == HInv /\ [HNext]_hall => HCountsDown
<1> SUFFICES ASSUME HInv, [HNext]_hall PROVE HCountsDown
  OBVIOUS
<1>1. /\ hpc = "idle" => HLeft = 0
      /\ hpc \in {"wait", "group"} => HLeft = 1
      /\ hpc \in {"send", "model"} => HLeft = 2
      /\ hpc \in {"handshake", "info"} => HLeft = 3
      /\ hpc = "connect" => HLeft = 4
  BY DEF HLeft
<1>2. /\ hpc' = "idle" => HLeft' = 0
      /\ hpc' \in {"wait", "group"} => HLeft' = 1
      /\ hpc' \in {"send", "model"} => HLeft' = 2
      /\ hpc' \in {"handshake", "info"} => HLeft' = 3
      /\ hpc' = "connect" => HLeft' = 4
  BY DEF HLeft
<1>3. /\ hpc \in {"idle", "connect", "handshake", "send", "wait", "info", "model", "group"}
      /\ hpc' \in {"idle", "connect", "handshake", "send", "wait", "info", "model", "group"}
  BY HttpsStep, Zenon DEF HInv
<1>4. HLeft \in Nat /\ HLeft' \in Nat
  BY <1>1, <1>2, <1>3
<1>5. ASSUME HClient
      PROVE  \/ hpc # "idle" /\ hpc' = "idle"
             \/ hpc = "connect" /\ hpc' = "handshake"
             \/ hpc = "handshake" /\ hpc' = "send"
             \/ hpc = "send" /\ hpc' = "wait"
             \/ hpc = "info" /\ hpc' = "model"
             \/ hpc = "model" /\ hpc' = "group"
  BY <1>5 DEF HClient, HConnect, HHandshake, send_bytes, send_failed, HResponse, HTimeout,
       get_json, verified_model, ReadFails, HEnd
<1>6. HClient => HLeft' < HLeft
  BY <1>1, <1>2, <1>3, <1>5
<1>7. HLeft' > HLeft => calls' = calls + 1
  <2>1. CASE HClient
    BY <1>4, <1>6, <2>1
  <2>2. CASE send_play_together \/ pair_configuration_status
    BY <2>2 DEF send_play_together, pair_configuration_status, Begins
  <2>3. CASE AddressMoves \/ (\E i \in CallIds : SpeakerReceives(i)) \/ UNCHANGED hall
    <3>1. UNCHANGED hpc
      BY <2>3, Zenon DEF AddressMoves, SpeakerReceives, hall, hvars
    <3>2. HLeft' = HLeft
      BY <3>1, Zenon DEF HLeft
    <3> QED
      BY <1>4, <3>2
  <2> QED
    BY <2>1, <2>2, <2>3, Zenon DEF HNext
<1> QED
  BY <1>6, <1>7, Zenon DEF HCountsDown

\* A call of the HTTPS client answers after at most four steps of its own,
\* however often the address moves and whenever the speaker takes the form up.
THEOREM HttpsCallsCountDown ==
    HSpec => [](HLeft = 0 <=> ~Running) /\ [][HCountsDown]_hall
<1>1. HInv => (HLeft = 0 <=> ~Running)
  BY DEF HInv, HLeft
<1>2. HInv /\ [HNext]_hall => HInv'
  BY HttpsStep, Zenon
<1>3. HInv /\ [HNext]_hall => [HCountsDown]_hall
  BY HttpsDescends, Zenon
<1> QED
  BY HttpsInitial, <1>1, <1>2, <1>3, PTL DEF HSpec

-----------------------------------------------------------------------------
(* LoopbackRequest *)

QSpec == QInit /\ [][QNext]_qvars

Whole(msg) == msg.head + 4 + Declared(msg)

Checked(msg) ==
    /\ msg \in Messages
    /\ msg.head \in Nat /\ msg.length \in Int /\ msg.length >= NoLength
    /\ Declared(msg) \in Nat
    /\ msg.method \in {"GET", "POST", "Other"}
    /\ msg.fault \in {"none"} \cup FrameFaults \cup ParseOnlyFaults
    /\ msg.check \in Checks

-----------------------------------------------------------------------------
(* The parsers *)

\* The fields of every message have their types.
LEMMA MessageChecked == ASSUME NEW msg \in Messages PROVE Checked(msg)
  BY RequestAssumption DEF Messages, Checked, Declared, NoLength

\* A frame is complete at exactly one length, and that of a well-formed
\* request is never refused before it.
LEMMA FrameEnds ==
  ASSUME NEW msg, Checked(msg), NEW n \in Nat
  PROVE  /\ request_frame(msg, n) \in {"Incomplete", "Complete", "Rejected"}
         /\ request_frame(msg, n) = "Complete" => n = Whole(msg)
         /\ WellFormed(msg) /\ n < Whole(msg) => request_frame(msg, n) = "Incomplete"
<1> USE RequestAssumption DEF Checked
<1>1. n < Whole(msg) \/ n = Whole(msg) \/ n > Whole(msg)
  BY DEF Whole
<1>2. request_frame(msg, n) \in {"Incomplete", "Complete", "Rejected"}
      /\ (request_frame(msg, n) = "Complete" => n = Whole(msg))
  BY <1>1, Zenon DEF request_frame, Whole
<1>3. ASSUME WellFormed(msg), n < Whole(msg) PROVE request_frame(msg, n) = "Incomplete"
  BY <1>3 DEF WellFormed, request_frame, Whole, Declared, NoLength, MAX_REQUEST_BYTES, FrameFaults
<1> QED
  BY <1>2, <1>3, Zenon

\* parse_request accepts only a whole request, and then request_frame has
\* found it complete.
LEMMA ParserAgrees ==
  ASSUME NEW msg, Checked(msg), NEW n \in Nat
  PROVE  /\ parse_request(msg, n, 0) = 200 =>
              n = Whole(msg) /\ WellFormed(msg) /\ request_frame(msg, n) = "Complete"
         /\ WellFormed(msg) /\ n = Whole(msg) => parse_request(msg, n, 0) = 200
         /\ n = Whole(msg) => parse_request(msg, n, 1) # 200
<1> USE RequestAssumption DEF Checked
<1>1. ASSUME parse_request(msg, n, 0) = 200
      PROVE  n = Whole(msg) /\ WellFormed(msg)
  BY <1>1 DEF parse_request, Whole, WellFormed
<1>2. ASSUME n = Whole(msg), WellFormed(msg)
      PROVE  request_frame(msg, n) = "Complete"
  BY <1>2 DEF WellFormed, request_frame, Whole, Declared, NoLength, MAX_REQUEST_BYTES, FrameFaults
<1>3. ASSUME n = Whole(msg), WellFormed(msg)
      PROVE  parse_request(msg, n, 0) = 200
  BY <1>3 DEF WellFormed, parse_request, Whole, FrameFaults, ParseOnlyFaults
<1>4. n = Whole(msg) => parse_request(msg, n, 1) # 200
  BY DEF parse_request, Whole
<1> QED
  BY <1>1, <1>2, <1>3, <1>4, Zenon

\* An answer of 200 is the parser's.
LEMMA HandleParsed ==
  ASSUME NEW msg, Checked(msg), NEW n, NEW pushed, handle(msg, n, pushed) = 200
  PROVE  parse_request(msg, n, pushed) = 200
  BY Zenon DEF handle

-----------------------------------------------------------------------------
(* The connection *)

QInv ==
    /\ qmessage \in Messages
    /\ qarrived \in Nat /\ qread \in 0 .. qarrived
    /\ qpc \in {"read", "handle", "closed"}
    /\ qpc # "closed" => qanswer = 0 /\ ~qmutated
    /\ qpc = "read" => qpushed = 0
    /\ qpc = "handle" =>
         \/ Framed = "Rejected" /\ qpushed = 0
         \/ Framed = "Complete" /\ (qpushed = 1 \/ (qpushed = 0 /\ qarrived = qread))
    /\ qanswer = 200 \/ qmutated =>
         /\ qanswer = 200
         /\ WellFormed(qmessage) /\ qread = Whole(qmessage)
         /\ Framed = "Complete"
         /\ qarrived = qread

\* Nothing is handed over when a connection is accepted.
LEMMA ConnectionInitial == QInit => QInv
  BY DEF QInit, QInv

\* Each step of the connection keeps what is handed over compared.
LEMMA ConnectionStep ==
  ASSUME QInv, [QNext]_qvars
  PROVE  QInv'
<1> USE RequestAssumption DEF QInv, Framed
<1>1. ASSUME NEW k \in 1 .. MaxMessage, Arrive(k) \/ ReadChunk(k) PROVE QInv'
  <2>1. k \in Nat /\ qarrived' \in Nat /\ qread' \in 0 .. qarrived'
    BY <1>1 DEF Arrive, ReadChunk
  <2>2. qpc = "read" /\ UNCHANGED <<qpc, qmessage, qpushed, qanswer, qmutated>>
    BY <1>1, Zenon DEF Arrive, ReadChunk
  <2> QED
    BY <2>1, <2>2
<1>2. CASE TakeComplete
  <2>1. qpushed' = 1 \/ (qpushed' = 0 /\ qarrived = qread)
    BY <1>2 DEF TakeComplete
  <2>2. qpc = "read" /\ qpc' = "handle" /\ Framed = "Complete"
        /\ UNCHANGED <<qmessage, qarrived, qread, qanswer, qmutated>>
    BY <1>2, Zenon DEF TakeComplete
  <2> QED
    BY <2>1, <2>2, Zenon
<1>3. CASE TakeRejected \/ CloseUnread \/ UNCHANGED qvars
  BY <1>3 DEF TakeRejected, CloseUnread, qvars
<1>4. CASE handle_connection
  <2>1. Checked(qmessage)
    BY MessageChecked, Zenon
  <2>2. ASSUME qanswer' = 200
        PROVE  /\ WellFormed(qmessage) /\ qread = Whole(qmessage)
               /\ Framed = "Complete"
               /\ qarrived = qread
    <3>1. parse_request(qmessage, qread, qpushed) = 200
      BY <1>4, <2>1, <2>2, HandleParsed, ZenonT(30) DEF handle_connection
    <3>2. CASE qpushed = 0
      BY <1>4, <2>1, <3>1, <3>2, ParserAgrees DEF handle_connection
    <3>3. CASE qpushed = 1
      BY <1>4, <2>1, <3>1, <3>3, ParserAgrees, FrameEnds DEF handle_connection
    <3> QED
      BY <1>4, <3>2, <3>3, Zenon DEF handle_connection
  <2>3. qmutated' => qanswer' = 200
    BY <1>4, Zenon DEF handle_connection
  <2> QED
    BY <1>4, <2>2, <2>3, ZenonT(30) DEF handle_connection
<1> QED
  BY <1>1, <1>2, <1>3, <1>4, Zenon DEF QNext

\* Whatever the limits of the server and however a request is split, the
\* frame read_one_request cuts and the request WebApp.handle parses are the
\* same one, and only a whole one that came alone reaches the actor.
THEOREM FramesAlwaysAgree == QSpec => []FramingAgrees
<1>1. QInit => QInv
  BY ConnectionInitial, Zenon
<1>2. QInv /\ [QNext]_qvars => QInv'
  BY ConnectionStep, Zenon
<1>3. QInv => FramingAgrees
  <2> SUFFICES ASSUME QInv PROVE FramingAgrees
    BY Zenon
  <2>1. Checked(qmessage) /\ qread \in Nat /\ qarrived \in Nat
    BY MessageChecked DEF QInv
  <2>2. /\ qmutated => /\ WellFormed(qmessage)
                       /\ qread = qmessage.head + 4 + Declared(qmessage)
                       /\ qarrived = qread
        /\ qanswer = 200 => Framed = "Complete"
    BY Zenon DEF QInv, Whole
  <2>3. Framed = "Rejected" => parse_request(qmessage, qread, 0) # 200
    BY <2>1, ParserAgrees DEF Framed
  <2>4. /\ WellFormed(qmessage) /\ qread < Whole(qmessage) => Framed = "Incomplete"
        /\ WellFormed(qmessage) /\ qread = Whole(qmessage) => parse_request(qmessage, qread, 0) = 200
    BY <2>1, ParserAgrees, FrameEnds DEF Framed
  <2> QED
    BY <2>2, <2>3, <2>4, Zenon DEF FramingAgrees, Whole
<1> QED
  BY <1>1, <1>2, <1>3, PTL DEF QSpec

-----------------------------------------------------------------------------
(* The v0.4 supervisor behind LegacyBackend: SessionSupervisor *)

StartSteps == {"enter", "start", "on"}
StopSteps == {"off", "stop", "exit"}
SSteps == StartSteps \cup StopSteps \cup
    {"down", "connect", "bind", "loop", "accept", "reply", "bye", "started", "startfailed", "stopped", "fail", "cleanup"}

\* Every variable of the supervisor stays in its domain.
STypeOK ==
    /\ spc \in SSteps
    /\ sstate \in States /\ file \in States \cup {"none"}
    /\ stopFor \in Callers
    /\ owed \in BOOLEAN /\ succeeded \in BOOLEAN /\ term \in BOOLEAN
    /\ overlap \in BOOLEAN /\ late \in BOOLEAN /\ forgot \in BOOLEAN
    /\ leaving \in Nat
    /\ roles \in SUBSET Speakers

\* The state field and the late answers, by step: a process one of whose writes
\* timed out never starts a link and never serves ready or linked again.
StepTells ==
    /\ spc \in {"connect", "bind", "accept", "bye", "started"} \cup StartSteps => ~late
    /\ spc = "startfailed" => late
    /\ spc \in {"bind", "bye"} => sstate = "ready"
    /\ spc = "accept" => sstate \in {"ready", "linked"}
    /\ spc \in {"loop", "reply"} => sstate \in {"ready", "linked", "degraded"}
    /\ spc \in {"loop", "reply"} /\ late => sstate = "degraded"
    /\ spc \in StopSteps \cup {"stopped"} =>
          /\ stopFor = "rollback" => sstate = "degraded" /\ late
          /\ late /\ succeeded => stopFor \in {"rollback", "term"}

\* The stop sequence so far is known to have been applied.
Counts == succeeded /\ stopFor # "rollback" /\ (late => ~forgot)

\* How far the start and stop sequences have moved the roles.
RolesSoFar ==
    /\ spc \in {"start", "on"} => "jbl" \in roles
    /\ spc = "started" => roles = Speakers
    /\ spc \in {"stop", "exit"} /\ Counts => "aura" \notin roles
    /\ spc = "stopped" /\ Counts => roles = {}

\* Nothing is left in its role, as far as the supervisor can know.
Clear == roles = {} \/ forgot

\* Where a changed role is on record: in the file, or as a normalization that
\* this process owes.
OnRecord ==
    /\ Clear \/ file \in RequiresNormalization \/ (owed /\ spc \notin {"down", "cleanup"})
    /\ spc \in {"started", "startfailed"} \cup StartSteps => forgot \/ file \in RequiresNormalization
    /\ spc = "connect" => Clear \/ owed
    /\ spc = "bind" => Clear
    /\ Serving /\ sstate = "ready" => Clear
    /\ Serving /\ sstate = "linked" => roles = Speakers
    /\ spc = "cleanup" /\ sstate \notin {"failed", "degraded"} => Clear

\* The late write of "offline": it belongs to an earlier process than the one
\* that runs, or to one that left nothing behind.
LateOffline ==
    /\ spc # "down" /\ leaving > 0 => overlap
    /\ spc = "down" /\ leaving > 0 => overlap \/ Clear

SessionInv == STypeOK /\ StepTells /\ RolesSoFar /\ OnRecord /\ LateOffline

-----------------------------------------------------------------------------
(* Steps *)

\* What _set_state does, with its effect on the flags read as a condition.
LEMMA SetStateTells ==
    ASSUME forgot \in BOOLEAN, NEW s, NEW next, SetState(s, next)
    PROVE  /\ forgot' \in BOOLEAN
           /\ sstate' = s
           /\ \/ file' = s /\ spc' = next /\ (forgot' <=> forgot)
              \/ file' = file /\ spc' = "cleanup" /\ (forgot' <=> forgot \/ Unrecorded(s, file))
<1>1. CASE file' = s /\ spc' = next /\ UNCHANGED forgot
  BY <1>1, Zenon DEF SetState
<1>2. CASE spc' = "cleanup" /\ forgot' = (forgot \/ Unrecorded(s, file)) /\ UNCHANGED file
  BY <1>2, Zenon DEF SetState
<1>3. QED
  BY <1>1, <1>2, Zenon DEF SetState

\* Every step keeps the variables in their domains.
LEMMA SessionType ==
    ASSUME STypeOK, SNext
    PROVE  STypeOK'
<1> USE DEF STypeOK, SSteps, StartSteps, StopSteps, States, RequiresNormalization, Callers, aside, data
<1> DEFINE Flags == /\ owed \in BOOLEAN /\ succeeded \in BOOLEAN /\ term \in BOOLEAN
                    /\ overlap \in BOOLEAN /\ late \in BOOLEAN /\ forgot \in BOOLEAN
<1>1. CASE Launch
  <2>1. SetState("connecting", "connect")
    BY <1>1, Zenon DEF Launch
  <2>2. owed' \in BOOLEAN
    BY ONLY <1>1, SMT DEF Launch
  <2>3. overlap' \in BOOLEAN
    BY ONLY <1>1, SMT DEF Launch
  <2>4. Flags'
    BY <1>1, <2>1, <2>2, <2>3, SetStateTells, Zenon DEF Launch
  <2>5. QED
    BY <1>1, <2>1, <2>4, SetStateTells, Zenon DEF Launch
<1>2. CASE \/ Connected \/ Terminate \/ Started \/ StartRollback \/ Stopped
           \/ StartLink \/ \E caller \in {"stop", "shutdown"} : StopLink(caller)
  <2>1. PICK s \in States, next \in SSteps :
            SetState(s, next) \/ (sstate' = s /\ file' = file /\ spc' = next /\ forgot' = forgot)
    BY <1>2 DEF Connected, Terminate, Started, StartRollback, Stopped, StartLink, StopLink,
                AfterReady, AfterDegraded
  <2>2. Flags'
    BY <1>2, <2>1, SetStateTells, ZenonT(30)
    DEF Connected, Terminate, Started, StartRollback, Stopped, StartLink, StopLink
  <2>3. sstate' \in States /\ file' \in States \cup {"none"} /\ spc' \in SSteps
    BY <2>1, SetStateTells, ZenonT(30)
  <2>4. stopFor' \in Callers /\ leaving' \in Nat /\ roles' \in SUBSET Speakers
    BY <1>2, ZenonT(30) DEF Connected, Terminate, Started, StartRollback, Stopped, StartLink, StopLink
  <2>5. QED
    BY <2>2, <2>3, <2>4, ZenonT(30)
<1>3. CASE \/ ConnectFailed \/ BindServer \/ Loop \/ ReplyOnly \/ Replied \/ Raise \/ ShutdownReady
           \/ StoppedRollback \/ RequestShutdown
  <2>1. Flags'
    BY <1>3, Zenon DEF ConnectFailed, BindServer, Loop, ReplyOnly, Replied, Raise, ShutdownReady, StoppedRollback,
                       RequestShutdown
  <2>2. QED
    BY <1>3, <2>1 DEF ConnectFailed, BindServer, Loop, ReplyOnly, Replied, Raise, ShutdownReady, StoppedRollback,
                      RequestShutdown
<1>4. CASE Write \/ WriteFailed
  <2>1. Flags'
    BY <1>4, Zenon DEF Write, WriteFailed
  <2>2. roles' \in SUBSET Speakers
    BY <1>4, ZenonT(30) DEF Write, WriteFailed, Written, Speakers
  <2>3. spc' \in SSteps
    BY <1>4 DEF Write, WriteFailed, After
  <2>4. QED
    BY <1>4, <2>1, <2>2, <2>3 DEF Write, WriteFailed
<1>5. CASE Fatal \/ Cleanup \/ WriteOffline \/ Kill
  <2>1. Flags'
    BY <1>5, ZenonT(30) DEF Fatal, Cleanup, WriteOffline, Kill
  <2>2. QED
    BY <1>5, <2>1 DEF Fatal, Cleanup, WriteOffline, Kill
<1>6. QED
  BY <1>1, <1>2, <1>3, <1>4, <1>5, Zenon DEF SNext, Progress, Command

\* Every step keeps the invariant.
LEMMA SessionStep ==
    ASSUME SessionInv, SNext
    PROVE  SessionInv'
<1>inv. STypeOK /\ StepTells /\ RolesSoFar /\ OnRecord /\ LateOffline
  BY Zenon DEF SessionInv
<1>ty. STypeOK'
  BY <1>inv, SessionType, Zenon
<1>fl. forgot \in BOOLEAN
  BY <1>inv, Zenon DEF STypeOK
<1> SUFFICES (StepTells /\ RolesSoFar /\ OnRecord /\ LateOffline)'
  BY <1>ty, ZenonT(30) DEF SessionInv
<1> USE <1>inv DEF StepTells, Counts, RolesSoFar, Clear, OnRecord, LateOffline, Serving,
                   StartSteps, StopSteps, RequiresNormalization, Unrecorded
<1>1. CASE Launch
  <2>1. SetState("connecting", "connect")
    BY <1>1, Zenon DEF Launch
  <2>2. owed' <=> file \in RequiresNormalization
    BY ONLY <1>1, Zenon DEF Launch
  <2>3. overlap' <=> leaving > 0
    BY ONLY <1>1, Zenon DEF Launch
  <2>4. ~late'
    BY ONLY <1>1, Zenon DEF Launch
  <2>5. spc = "down" /\ leaving' = leaving /\ roles' = roles
    BY ONLY <1>1, ZenonT(30) DEF Launch
  <2>6. QED
    BY <1>fl, <2>1, <2>2, <2>3, <2>4, <2>5, SetStateTells
<1>2. CASE Connected
  <2>1. SetState("ready", IF owed THEN "off" ELSE "bind")
    BY <1>2, Zenon DEF Connected
  <2>2. spc = "connect" /\ stopFor' = "normalize" /\ UNCHANGED <<owed, aside, roles>>
    BY ONLY <1>2, ZenonT(30) DEF Connected
  <2>3. QED
    BY <1>fl, <2>1, <2>2, SetStateTells DEF aside
<1>3. CASE ConnectFailed \/ BindServer \/ ReplyOnly \/ RequestShutdown
  BY <1>3 DEF ConnectFailed, BindServer, ReplyOnly, RequestShutdown, data, aside
<1>4. CASE Loop
  BY <1>4, Zenon DEF Loop, data, aside
<1>5. CASE Terminate
  <2>1. CASE sstate = "ready"
    BY <1>5, <2>1, ZenonT(30) DEF Terminate, aside
  <2>2. CASE sstate # "ready"
    <3>1. SetState("stopping", "off")
      BY <1>5, <2>2, Zenon DEF Terminate
    <3>2. spc = "loop" /\ stopFor' = "term" /\ UNCHANGED <<owed, aside, roles>>
      BY <1>5, <2>2, ZenonT(30) DEF Terminate
    <3>3. QED
      BY <1>fl, <2>2, <3>1, <3>2, SetStateTells DEF aside
  <2>3. QED
    BY <2>1, <2>2, Zenon
<1>6. CASE StartLink
  <2>1. SetState("starting", "enter")
    BY <1>6, Zenon DEF StartLink
  <2>2. spc = "accept" /\ sstate = "ready" /\ UNCHANGED <<owed, aside, roles>>
    BY ONLY <1>6, ZenonT(30) DEF StartLink
  <2>3. QED
    BY <1>fl, <2>1, <2>2, SetStateTells DEF aside
<1>7. ASSUME NEW caller \in {"stop", "shutdown"}, StopLink(caller)
      PROVE  (StepTells /\ RolesSoFar /\ OnRecord /\ LateOffline)'
  <2>1. SetState("stopping", "off")
    BY <1>7, Zenon DEF StopLink
  <2>2. /\ spc = "accept" /\ sstate = "linked"
        /\ stopFor' = caller /\ UNCHANGED <<owed, aside, roles>>
    BY ONLY <1>7, Zenon DEF StopLink
  <2>3. QED
    BY <1>fl, <2>1, <2>2, SetStateTells DEF aside
<1>8. CASE ShutdownReady \/ StoppedRollback \/ Replied
  <2>1. UNCHANGED <<sstate, file, stopFor, succeeded, owed, leaving, overlap, late, roles, forgot>>
    BY <1>8, Zenon DEF ShutdownReady, StoppedRollback, Replied, data, aside
  <2>2. CASE ShutdownReady
    BY <2>1, <2>2 DEF ShutdownReady
  <2>3. CASE StoppedRollback
    BY <2>1, <2>3 DEF StoppedRollback
  <2>4. CASE Replied
    BY <2>1, <2>4 DEF Replied
  <2>5. QED
    BY <1>8, <2>2, <2>3, <2>4, Zenon
<1>9. CASE Write
  <2>1. spc \in StartSteps \cup StopSteps /\ spc' = After[spc]
    BY <1>9, Zenon DEF Write, After
  <2>2. UNCHANGED <<sstate, file, owed, stopFor, succeeded, late, overlap, leaving>>
    BY <1>9, Zenon DEF Write, aside
  <2>3. roles' = Written(spc) \/ (late /\ roles' = roles)
    BY <1>9, ZenonT(30) DEF Write
  <2>4. CASE roles' # Written(spc) /\ stopFor = "term"
    <3>1. forgot'
      BY ONLY <1>9, <2>4, Zenon DEF Write
    <3>2. late /\ roles' = roles
      BY <2>3, <2>4, Zenon
    <3>3. QED
      BY <2>1, <2>2, <3>1, <3>2 DEF After
  <2>5. CASE ~(roles' # Written(spc) /\ stopFor = "term")
    <3>1. forgot' <=> forgot /\ ~(spc = "exit" /\ succeeded /\ ~late)
      BY ONLY <1>fl, <1>9, <2>5, Zenon DEF Write
    <3>2. CASE spc \in StartSteps
      BY <2>1, <2>2, <2>3, <3>1, <3>2 DEF After, Written, Speakers, STypeOK
    <3>3. CASE spc \in StopSteps
      BY <2>1, <2>2, <2>3, <2>5, <3>1, <3>3 DEF After, Written, Speakers, STypeOK
    <3>4. QED
      BY <2>1, <3>2, <3>3, Zenon
  <2>6. QED
    BY <2>4, <2>5, Zenon
<1>10. CASE WriteFailed
  <2>1. late'
    BY ONLY <1>10, Zenon DEF WriteFailed
  <2>2. roles' = roles \/ roles' = Written(spc)
    BY <1>10, Zenon DEF WriteFailed
  <2>3. UNCHANGED <<sstate, file, owed, stopFor, overlap, leaving, forgot>>
    BY <1>10, Zenon DEF WriteFailed
  <2>4. CASE spc \in StartSteps
    <3>1. spc' = "startfailed"
      BY <1>10, <2>4, ZenonT(30) DEF WriteFailed
    <3>2. QED
      BY <2>1, <2>2, <2>3, <2>4, <3>1, Zenon
  <2>5. CASE spc \in StopSteps
    <3>1. spc' = After[spc]
      BY <1>10, <2>5, Zenon DEF WriteFailed
    <3>2. ~succeeded'
      BY ONLY <1>10, <2>5, Zenon DEF WriteFailed, StopSteps
    <3>3. roles' \subseteq roles
      BY <2>2, <2>5, ZenonT(30) DEF Written
    <3>4. QED
      BY <2>1, <2>3, <2>5, <3>1, <3>2, <3>3 DEF After
  <2>6. QED
    BY <1>10, <2>4, <2>5, Zenon DEF WriteFailed, After
<1>11. CASE Started
  <2>1. SetState("linked", "reply")
    BY <1>11, Zenon DEF Started
  <2>2. spc = "started" /\ UNCHANGED <<owed, aside, roles>>
    BY ONLY <1>11, ZenonT(30) DEF Started
  <2>3. QED
    BY <1>fl, <2>1, <2>2, SetStateTells DEF aside
<1>12. CASE StartRollback
  <2>1. SetState("degraded", "off")
    BY <1>12, Zenon DEF StartRollback
  <2>2. spc = "startfailed" /\ stopFor' = "rollback" /\ UNCHANGED <<owed, aside, roles>>
    BY ONLY <1>12, Zenon DEF StartRollback
  <2>3. QED
    BY <1>fl, <2>1, <2>2, SetStateTells DEF aside
<1>13. CASE Stopped
  <2>1. /\ spc = "stopped" /\ stopFor # "rollback" /\ ~owed'
        /\ UNCHANGED <<stopFor, succeeded, aside, roles>>
    BY <1>13, Zenon DEF Stopped
  <2>2. CASE succeeded
    <3>1. SetState("ready", AfterReady[stopFor])
      BY <1>13, <2>2, ZenonT(30) DEF Stopped
    <3>2. AfterReady[stopFor] \in {"bind", "reply", "bye", "cleanup"}
      BY <2>1 DEF AfterReady, STypeOK, Callers
    <3>3. AfterReady[stopFor] \in {"bind", "reply", "bye"} => stopFor # "term"
      BY <2>1 DEF AfterReady, STypeOK, Callers
    <3>4. QED
      BY <1>fl, <2>1, <2>2, <3>1, <3>2, <3>3, SetStateTells DEF aside
  <2>3. CASE ~succeeded
    <3>1. SetState("degraded", AfterDegraded[stopFor])
      BY <1>13, <2>3, ZenonT(30) DEF Stopped
    <3>2. AfterDegraded[stopFor] \in {"fail", "reply", "cleanup"}
      BY <2>1 DEF AfterDegraded, STypeOK, Callers
    <3>3. QED
      BY <1>fl, <2>1, <2>3, <3>1, <3>2, SetStateTells DEF aside
  <2>4. QED
    BY <2>2, <2>3, Zenon
<1>14. CASE Fatal
  <2>1. forgot' <=> forgot \/ Unrecorded("failed", file')
    BY ONLY <1>fl, <1>14, Zenon DEF Fatal
  <2>2. QED
    BY <1>14, <2>1, Zenon DEF Fatal, aside
<1>15. CASE Cleanup
  <2>1. ~owed'
    BY ONLY <1>15, ZenonT(30) DEF Cleanup
  <2>2. QED
    BY <1>15, <2>1, Zenon DEF Cleanup, STypeOK
<1>16. CASE WriteOffline
  <2>1. forgot' <=> forgot \/ (overlap /\ file' # file /\ file \in RequiresNormalization)
    BY ONLY <1>fl, <1>16, Zenon DEF WriteOffline
  <2>2. overlap' <=> overlap /\ leaving' > 0
    BY ONLY <1>inv, <1>16, Zenon DEF WriteOffline, STypeOK
  <2>3. QED
    BY <1>16, <2>1, <2>2 DEF WriteOffline, STypeOK
<1>17. CASE Kill
  <2>1. forgot' <=> forgot \/ (owed /\ roles # {})
    BY ONLY <1>fl, <1>17, Zenon DEF Kill
  <2>2. ~owed'
    BY ONLY <1>17, Zenon DEF Kill
  <2>3. QED
    BY <1>17, <2>1, <2>2, Zenon DEF Kill, aside
<1>18. CASE Raise
  <2>1. forgot' <=> forgot \/ Unrecorded(sstate, file)
    BY ONLY <1>fl, <1>18, Zenon DEF Raise
  <2>2. /\ spc \in {"connect", "accept", "reply", "bye"} /\ spc' = "cleanup"
        /\ UNCHANGED <<sstate, file, leaving, overlap, late, roles>>
    BY <1>18, Zenon DEF Raise, data, aside
  <2>3. QED
    BY <2>1, <2>2, Zenon
<1>19. QED
  BY <1>1, <1>2, <1>3, <1>4, <1>5, <1>6, <1>7, <1>8, <1>9, <1>10, <1>11, <1>12, <1>13, <1>14, <1>15, <1>16, <1>17,
     <1>18, Zenon DEF SNext, Progress, Command

\* The first process finds both speakers released.
LEMMA InitSession ==
    ASSUME SInit
    PROVE  SessionInv
<1>1. /\ owed \in BOOLEAN /\ succeeded \in BOOLEAN /\ term \in BOOLEAN
      /\ overlap \in BOOLEAN /\ late \in BOOLEAN /\ forgot \in BOOLEAN /\ ~late
  BY Zenon DEF SInit
<1>2. STypeOK
  BY <1>1, Zenon DEF SInit, STypeOK, SSteps, States, RequiresNormalization, Callers
<1>3. StepTells /\ RolesSoFar /\ OnRecord /\ LateOffline
  BY <1>1, Zenon DEF SInit, StepTells, RolesSoFar, Clear, OnRecord, LateOffline, Serving, StartSteps, StopSteps
<1>4. QED
  BY <1>2, <1>3, Zenon DEF SessionInv

-----------------------------------------------------------------------------
(* Theorems *)

\* The inductive invariant: where a changed role is on record at every step of
\* every process, and what a late write of "offline" can still overwrite.
THEOREM SessionInvariant == SSpec => []SessionInv
<1>1. SessionInv /\ UNCHANGED svars => SessionInv'
  BY DEF SessionInv, STypeOK, StepTells, Counts, RolesSoFar, Clear, OnRecord, LateOffline, Serving,
         svars, aside
<1>2. SessionInv /\ [SNext]_svars => SessionInv'
  BY <1>1, SessionStep, Zenon
<1>3. QED
  BY <1>2, InitSession, PTL DEF SSpec

\* A supervisor that serves ready has no speaker in its role, unless a record of
\* changed roles was lost in one of the five ways the property names, an
\* exception that serve() does not catch among them.
THEOREM ReadyIsReleased == SSpec => []ReadyReleasedUnlessForgotten
<1>1. SessionInv => ReadyReleasedUnlessForgotten
  BY Zenon DEF SessionInv, OnRecord, Clear, ReadyReleasedUnlessForgotten, ReadyMeansReleased
<1>2. QED
  BY <1>1, SessionInvariant, PTL

\* While no supervisor runs, the state file tells the next one of every speaker
\* that is still in its role, unless that record was lost in one of those ways.
THEOREM RolesAreOnRecord == SSpec => []RolesOnRecord
<1>1. SessionInv => RolesOnRecord
  BY Zenon DEF SessionInv, OnRecord, Clear, RolesOnRecord
<1>2. QED
  BY <1>1, SessionInvariant, PTL

\* A supervisor that serves linked has switched both speakers, whatever was lost.
THEOREM LinkedIsTrue == SSpec => []LinkedTrue
<1>1. SessionInv => LinkedTrue
  BY Zenon DEF SessionInv, OnRecord, LinkedTrue
<1>2. QED
  BY <1>1, SessionInvariant, PTL

\* A failed exit that systemd follows up, or a replacement on its way to serve:
\* it connects, normalizes if it owes that, binds and enters its loop.
Restarting ==
    /\ ~term
    /\ \/ spc = "down" /\ rc = 1
       \/ spc \in {"connect", "bind"}
       \/ spc \in StopSteps \cup {"stopped"} /\ stopFor = "normalize" /\ succeeded
       \/ spc = "loop" /\ sstate = "ready"

\* What the restart is for.
Restored == spc = "accept" /\ sstate = "ready" /\ Clear

\* The steps on that way, and the late writes of "offline" that may come between.
StepsAhead ==
    [step \in {"down", "connect", "off", "stop", "exit", "stopped", "bind", "loop"} |->
        CASE step = "down" -> 8
          [] step = "connect" -> 7
          [] step = "off" -> 6
          [] step = "stop" -> 5
          [] step = "exit" -> 4
          [] step = "stopped" -> 3
          [] step = "bind" -> 2
          [] step = "loop" -> 1]
RestartLeft == StepsAhead[spc] + leaving

\* Every step of a restart that is not disturbed is one of them, or the last.
RestartGoesOn ==
    Restarting /\ ~Disturbance => Restored' \/ (Restarting' /\ RestartLeft' < RestartLeft)

\* What is ahead of each step.
LEMMA StepsAheadBy ==
    /\ StepsAhead["down"] = 8 /\ StepsAhead["connect"] = 7
    /\ StepsAhead["off"] = 6 /\ StepsAhead["stop"] = 5 /\ StepsAhead["exit"] = 4
    /\ StepsAhead["stopped"] = 3 /\ StepsAhead["bind"] = 2 /\ StepsAhead["loop"] = 1
BY DEF StepsAhead

\* A process leaves the session lock with the request to end taken back.
LEMMA TermStep ==
    ASSUME STypeOK, spc = "down" => ~term, [SNext]_svars
    PROVE  (spc = "down" => ~term)'
<1> SUFFICES ASSUME spc' = "down" PROVE ~term'
  OBVIOUS
<1>1. CASE Kill \/ Cleanup
  BY <1>1, Zenon DEF Kill, Cleanup
<1>2. CASE WriteOffline \/ UNCHANGED svars
  BY <1>2, Zenon DEF WriteOffline, svars
<1>3. ASSUME NEW s, NEW next, SetState(s, next), next # "down" PROVE FALSE
  BY <1>3, Zenon DEF SetState
<1>4. CASE Launch \/ Connected \/ Started \/ StartRollback \/ StartLink
           \/ \E caller \in {"stop", "shutdown"} : StopLink(caller)
  BY <1>3, <1>4, Zenon DEF Launch, Connected, Started, StartRollback, StartLink, StopLink
<1>5. CASE Stopped
  <2>1. stopFor \in DOMAIN AfterReady
    BY <1>5, Zenon DEF Stopped, STypeOK, Callers, AfterReady
  <2>2. AfterReady[stopFor] # "down" /\ AfterDegraded[stopFor] # "down"
    BY <2>1 DEF AfterReady, AfterDegraded
  <2> QED
    BY <1>3, <1>5, <2>2, Zenon DEF Stopped
<1>6. CASE Terminate
  BY <1>3, <1>6, Zenon DEF Terminate
<1>7. CASE \/ BindServer \/ Loop \/ ReplyOnly \/ Replied \/ ShutdownReady \/ StoppedRollback \/ Fatal
           \/ ConnectFailed \/ Raise
  BY <1>7, Zenon DEF BindServer, Loop, ReplyOnly, Replied, ShutdownReady, StoppedRollback, Fatal, ConnectFailed, Raise
<1>8. CASE Write \/ WriteFailed
  BY <1>8 DEF Write, WriteFailed, After
<1>9. CASE RequestShutdown
  BY <1>9, Zenon DEF RequestShutdown
<1> QED
  BY <1>1, <1>2, <1>4, <1>5, <1>6, <1>7, <1>8, <1>9, Zenon DEF SNext, Progress, Command

\* A write of the state file that succeeds is followed by the next step.
LEMMA SetStateGoesOn ==
    ASSUME NEW s, NEW next, SetState(s, next), ~(spc' = "cleanup" /\ rc' = 1)
    PROVE  sstate' = s /\ spc' = next
BY Zenon DEF SetState

\* Every undisturbed step of a restart takes it on, and the last one serves
\* ready with the roles released.
LEMMA RestartStep ==
    ASSUME SessionInv, SNext, Restarting, ~Disturbance
    PROVE  Restored' \/ (Restarting' /\ RestartLeft' < RestartLeft)
<1>1. /\ ~(spc # "fail" /\ spc' = "cleanup" /\ rc' = 1)
      /\ ~(spc = "loop" /\ spc' = "fail" /\ sstate # "degraded")
      /\ ~(ConnectFailed \/ WriteFailed \/ Raise \/ RequestShutdown \/ Kill)
  BY Zenon DEF Disturbance
<1>2. /\ ~term
      /\ spc \in {"down", "connect", "off", "stop", "exit", "stopped", "bind", "loop"}
      /\ spc \in {"off", "stop", "exit", "stopped"} => stopFor = "normalize" /\ succeeded
      /\ spc = "loop" => sstate = "ready"
  BY Zenon DEF Restarting, StopSteps
<1>3. leaving \in Nat
  BY Zenon DEF SessionInv, STypeOK
<1>4. CASE Launch
  <2>1. spc = "down" /\ SetState("connecting", "connect") /\ UNCHANGED <<term, leaving>>
    BY <1>4, Zenon DEF Launch
  <2>2. spc' = "connect"
    BY <1>1, <1>2, <2>1, SetStateGoesOn, Zenon
  <2>3. Restarting'
    BY <1>2, <2>1, <2>2, Zenon DEF Restarting
  <2>4. RestartLeft' < RestartLeft
    BY <1>3, <2>1, <2>2, StepsAheadBy DEF RestartLeft
  <2> QED
    BY <2>3, <2>4
<1>5. CASE Connected
  <2>1. /\ spc = "connect" /\ SetState("ready", IF owed THEN "off" ELSE "bind")
        /\ stopFor' = "normalize" /\ succeeded' = TRUE /\ UNCHANGED <<term, leaving>>
    BY <1>5, Zenon DEF Connected, aside
  <2>2. spc' \in {"off", "bind"}
    BY <1>1, <2>1, SetStateGoesOn, Zenon
  <2>3. Restarting'
    BY <1>2, <2>1, <2>2, Zenon DEF Restarting, StopSteps
  <2>4. RestartLeft' < RestartLeft
    BY <1>3, <2>1, <2>2, StepsAheadBy DEF RestartLeft
  <2> QED
    BY <2>3, <2>4
<1>6. CASE BindServer
  <2>1. spc = "bind" /\ spc' = "loop" /\ UNCHANGED <<term, sstate, leaving>>
    BY <1>1, <1>6, Zenon DEF BindServer, data, aside
  <2>2. sstate = "ready"
    BY <2>1, Zenon DEF SessionInv, StepTells
  <2>3. Restarting'
    BY <1>2, <2>1, <2>2, Zenon DEF Restarting
  <2>4. RestartLeft' < RestartLeft
    BY <1>3, <2>1, StepsAheadBy DEF RestartLeft
  <2> QED
    BY <2>3, <2>4
<1>7. CASE Loop
  <2>1. spc' = "accept" /\ sstate' = "ready"
    BY <1>1, <1>2, <1>7, Zenon DEF Loop, data
  <2>2. SessionInv'
    BY SessionStep, Zenon
  <2> QED
    BY <2>1, <2>2, Zenon DEF Restored, SessionInv, OnRecord, Serving
<1>8. CASE Write
  <2>1. /\ spc \in {"off", "stop", "exit"} /\ spc' = After[spc]
        /\ UNCHANGED <<stopFor, succeeded, term, leaving>>
    BY <1>2, <1>8 DEF Write, After, aside
  <2>2. \/ spc = "off" /\ spc' = "stop"
        \/ spc = "stop" /\ spc' = "exit"
        \/ spc = "exit" /\ spc' = "stopped"
    BY <2>1 DEF After
  <2>3. Restarting'
    BY <1>2, <2>1, <2>2, Zenon DEF Restarting, StopSteps
  <2>4. RestartLeft' < RestartLeft
    BY <1>3, <2>1, <2>2, StepsAheadBy DEF RestartLeft
  <2> QED
    BY <2>3, <2>4
<1>9. CASE Stopped
  <2>1. spc = "stopped" /\ SetState("ready", AfterReady[stopFor]) /\ UNCHANGED <<term, leaving>>
    BY <1>2, <1>9, Zenon DEF Stopped, aside
  <2>2. AfterReady[stopFor] = "bind"
    BY <1>2, <2>1 DEF AfterReady
  <2>3. spc' = "bind"
    BY <1>1, <2>1, <2>2, SetStateGoesOn, Zenon
  <2>4. Restarting'
    BY <1>2, <2>1, <2>3, Zenon DEF Restarting
  <2>5. RestartLeft' < RestartLeft
    BY <1>3, <2>1, <2>3, StepsAheadBy DEF RestartLeft
  <2> QED
    BY <2>4, <2>5
<1>10. CASE WriteOffline
  <2>1. /\ leaving > 0 /\ leaving' = leaving - 1
        /\ UNCHANGED <<spc, sstate, stopFor, succeeded, term, rc>>
    BY <1>10, Zenon DEF WriteOffline
  <2>2. Restarting'
    BY <2>1, Zenon DEF Restarting
  <2>3. RestartLeft' < RestartLeft
    BY <1>2, <1>3, <2>1, StepsAheadBy DEF RestartLeft
  <2> QED
    BY <2>2, <2>3
<1>11. ~(\/ Terminate \/ ReplyOnly \/ Replied \/ Started \/ StartRollback \/ StoppedRollback \/ Fatal \/ Cleanup
         \/ Command)
  BY <1>2, Zenon DEF Terminate, ReplyOnly, Replied, Started, StartRollback, StoppedRollback, Fatal, Cleanup, Command,
     StartLink, StopLink, ShutdownReady
<1> QED
  BY <1>1, <1>4, <1>5, <1>6, <1>7, <1>8, <1>9, <1>10, <1>11, Zenon DEF SNext, Progress

\* The safety core of RestartNormalizes: from every failed exit, each step that
\* is not a failure or a command to end takes the restart on, so that at most
\* eight of them and the late writes of earlier processes lie before a
\* supervisor that serves ready with the speakers released, or with their record
\* lost before.
THEOREM RestartCountsDown ==
    SSpec => [](spc = "down" /\ rc = 1 => Restarting) /\ [][RestartGoesOn]_svars
<1>1. SInit => (spc = "down" => ~term)
  BY Zenon DEF SInit
<1>2. SessionInv /\ (spc = "down" => ~term) /\ [SNext]_svars => (spc = "down" => ~term)'
  BY TermStep, Zenon DEF SessionInv
<1>3. (spc = "down" => ~term) => (spc = "down" /\ rc = 1 => Restarting)
  BY Zenon DEF Restarting
<1>4. SessionInv /\ [SNext]_svars => [RestartGoesOn]_svars
  BY RestartStep, Zenon DEF RestartGoesOn
<1> QED
  BY <1>1, <1>2, <1>3, <1>4, SessionInvariant, PTL DEF SSpec
=============================================================================
