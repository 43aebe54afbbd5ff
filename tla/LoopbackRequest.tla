-------------------------- MODULE LoopbackRequest ---------------------------
(***************************************************************************)
(* One connection of the loopback server, from its first byte to the       *)
(* answer: read_one_request of rust/src/web_server.rs cuts a request out   *)
(* of the stream with request_frame, and WebApp.handle of rust/src/web.rs  *)
(* parses the same bytes again with parse_request.  The two parsers are    *)
(* separate code, and what the first one refuses is handed to the second   *)
(* all the same.                                                           *)
(***************************************************************************)
EXTENDS Integers, FiniteSets

CONSTANTS
    MAX_HEADER_BYTES,
    MAX_BODY_BYTES,
    MaxMessage          \* bound: bytes a client sends on one connection

ASSUME RequestAssumption ==
    /\ MAX_HEADER_BYTES \in Nat \ {0}
    /\ MAX_BODY_BYTES \in Nat \ {0}
    /\ MaxMessage \in Nat

VARIABLES
    qpc,        \* "read", "handle", "closed"
    qmessage,   \* what the client sends
    qarrived,   \* its bytes that have reached the socket
    qread,      \* its bytes in the buffer
    qpushed,    \* the buffer ends with the extra zero byte
    qanswer,    \* the status answered, 0 before
    qmutated    \* the actor was asked to mutate

qvars == <<qpc, qmessage, qarrived, qread, qpushed, qanswer, qmutated>>

MAX_REQUEST_BYTES == MAX_HEADER_BYTES + 4 + MAX_BODY_BYTES

-----------------------------------------------------------------------------
(* Messages *)

NoLength == -1

\* What may be wrong with a head, by the parser that looks at it.
FrameFaults == {"utf8", "request_line", "field", "value", "transfer_encoding", "length_twice", "length_text"}
ParseOnlyFaults == {"control", "version", "method", "target", "count", "duplicate", "forbidden"}

\* The first check of WebApp.handle that fails, in the order of the code.
Checks == {"none", "host", "origin", "route", "no_origin", "content_type", "body", "csrf", "if_match", "revision"}

\* A head of so many bytes before the empty line, the body bytes it declares,
\* and the bytes the client sends after the empty line.
Messages ==
    {msg \in [method : {"GET", "POST", "Other"}, head : 1 .. MAX_HEADER_BYTES + 2,
              fault : {"none"} \cup FrameFaults \cup ParseOnlyFaults,
              length : {NoLength} \cup 0 .. MAX_BODY_BYTES + 1,
              rest : 0 .. MAX_BODY_BYTES + 2, check : Checks] :
       /\ msg.head + 4 + msg.rest <= MaxMessage
       /\ msg.fault # "none" => msg.check = "none" /\ msg.head = 1 /\ msg.length < 1
       /\ msg.check # "none" => msg.head = 1 /\ msg.length = 1 /\ msg.method # "Other"}

SentBytes(msg) == msg.head + 4 + msg.rest

Declared(msg) == IF msg.length = NoLength THEN 0 ELSE msg.length

-----------------------------------------------------------------------------
(* The two parsers, on the first n bytes of a message *)

request_frame(msg, n) ==
    IF n > MAX_REQUEST_BYTES THEN "Rejected"
    ELSE IF n < msg.head + 4
      THEN IF n > MAX_HEADER_BYTES + 4 THEN "Rejected" ELSE "Incomplete"
    ELSE IF \/ msg.head > MAX_HEADER_BYTES
            \/ msg.fault \in FrameFaults
            \/ msg.length > MAX_BODY_BYTES
            \/ msg.method = "POST" /\ msg.length = NoLength
      THEN "Rejected"
    ELSE LET expected == msg.head + 4 + Declared(msg)
         IN CASE n < expected -> "Incomplete"
              [] n = expected -> "Complete"
              [] n > expected -> "Rejected"

ParseUpToLength(msg, n, pushed) ==
    IF n < msg.head + 4 \/ msg.head > MAX_HEADER_BYTES
         \/ msg.fault \in FrameFaults \cup ParseOnlyFaults THEN 400
    ELSE IF msg.method = "POST" /\ msg.length = NoLength THEN 411
    ELSE IF msg.length > MAX_BODY_BYTES THEN 413
    ELSE IF n + pushed - msg.head - 4 < Declared(msg) THEN 400
    ELSE IF msg.method = "GET" /\ Declared(msg) # 0 THEN 400
    ELSE 200

\* 200 stands for Ok, any other number for the error the parser returns.
parse_request(msg, n, pushed) ==
    IF n < msg.head + 4 THEN IF n + pushed > MAX_HEADER_BYTES THEN 413 ELSE 400
    ELSE IF msg.head > MAX_HEADER_BYTES THEN 413
    ELSE IF msg.fault = "version" THEN 505
    ELSE IF msg.fault \in FrameFaults \cup ParseOnlyFaults THEN 400
    ELSE IF msg.method = "POST" /\ msg.length = NoLength THEN 411
    ELSE IF msg.length > MAX_BODY_BYTES THEN 413
    ELSE IF n + pushed - msg.head - 4 # Declared(msg) THEN 400
    ELSE IF msg.method = "GET" /\ Declared(msg) # 0 THEN 400
    ELSE 200

\* WebApp.handle after the parser, and mutation_response for a POST.
Refusal ==
    [host |-> 403, origin |-> 403, route |-> 404, no_origin |-> 403, content_type |-> 415,
     body |-> 400, csrf |-> 403, if_match |-> 428, revision |-> 409]

handle(msg, n, pushed) ==
    LET parsed == parse_request(msg, n, pushed)
    IN IF parsed # 200 THEN parsed
       ELSE IF msg.check \in {"host", "origin"} THEN Refusal[msg.check]
       ELSE IF msg.method = "Other" THEN 405
       ELSE IF msg.check = "route" THEN 404
       ELSE IF msg.method = "GET" \/ msg.check = "none" THEN 200
       ELSE Refusal[msg.check]

-----------------------------------------------------------------------------
(* One connection *)

QInit ==
    /\ qpc = "read"
    /\ qmessage \in Messages
    /\ qarrived = 0
    /\ qread = 0
    /\ qpushed = 0
    /\ qanswer = 0
    /\ qmutated = FALSE

Framed == request_frame(qmessage, qread)

\* The client's bytes come in pieces of any size; the ones that come after the
\* last look at the socket are never read.
Arrive(k) ==
    /\ qpc = "read"
    /\ qarrived < k
    /\ k <= SentBytes(qmessage)
    /\ qarrived' = k
    /\ UNCHANGED <<qpc, qmessage, qread, qpushed, qanswer, qmutated>>

\* One read takes what has arrived, at most one byte over the largest request.
ReadChunk(k) ==
    /\ qpc = "read"
    /\ Framed = "Incomplete"
    /\ qread < k
    /\ k <= qarrived
    /\ k <= MAX_REQUEST_BYTES + 1
    /\ qread' = k
    /\ UNCHANGED <<qpc, qmessage, qarrived, qpushed, qanswer, qmutated>>

HandleWithoutPeek ==
    /\ qpc = "read"
    /\ Framed = "Complete"
    /\ qpc' = "handle"
    /\ UNCHANGED <<qmessage, qarrived, qread, qpushed, qanswer, qmutated>>

\* has_queued_bytes: bytes behind the request, or a peek that fails, spoil it.
TakeComplete ==
    /\ qpc = "read"
    /\ Framed = "Complete"
    /\ qpushed' \in {0, 1}
    /\ qarrived > qread => qpushed' = 1
    /\ qpc' = "handle"
    /\ UNCHANGED <<qmessage, qarrived, qread, qanswer, qmutated>>

TakeRejected ==
    /\ qpc = "read"
    /\ Framed = "Rejected"
    /\ qpc' = "handle"
    /\ UNCHANGED <<qmessage, qarrived, qread, qpushed, qanswer, qmutated>>

\* A shutdown, looked for before the buffer is; or, with the request incomplete,
\* the deadline, the end of the stream or an error of read.
CloseUnread ==
    /\ qpc = "read"
    /\ qpc' = "closed"
    /\ UNCHANGED <<qmessage, qarrived, qread, qpushed, qanswer, qmutated>>

\* handle_connection: Complete and Rejected go the same way.
handle_connection ==
    /\ qpc = "handle"
    /\ qanswer' = handle(qmessage, qread, qpushed)
    /\ qmutated' = (qanswer' = 200 /\ qmessage.method = "POST")
    /\ qpc' = "closed"
    /\ UNCHANGED <<qmessage, qarrived, qread, qpushed>>

QNext ==
    \/ \E k \in 1 .. MaxMessage : Arrive(k) \/ ReadChunk(k)
    \/ TakeComplete \/ TakeRejected \/ CloseUnread
    \/ handle_connection

-----------------------------------------------------------------------------
(* Properties *)

\* The message is one well-formed request and nothing else.
WellFormed(msg) ==
    /\ msg.fault = "none"
    /\ msg.head <= MAX_HEADER_BYTES
    /\ msg.length <= MAX_BODY_BYTES
    /\ msg.method = "POST" => msg.length # NoLength
    /\ msg.method = "GET" => Declared(msg) = 0

\* The two parsers agree on where a request ends, however its bytes are split
\* and whatever follows them: the actor mutates only for a well-formed request
\* that is in the buffer to its last byte, with no byte of the next one seen;
\* what request_frame refused is refused by parse_request as well, although
\* handle_connection hands it over; and no prefix of a well-formed request is
\* refused before the rest of it had a chance to arrive.
FramingAgrees ==
    LET whole == qmessage.head + 4 + Declared(qmessage)
    IN /\ qmutated => /\ WellFormed(qmessage)
                      /\ qread = whole
                      /\ qarrived = qread
       /\ qanswer = 200 => Framed = "Complete"
       /\ qpc = "handle" /\ Framed = "Rejected" => parse_request(qmessage, qread, 0) # 200
       /\ WellFormed(qmessage) /\ qread < whole => Framed = "Incomplete"
       /\ WellFormed(qmessage) /\ qread = whole => parse_request(qmessage, qread, 0) = 200
=============================================================================
