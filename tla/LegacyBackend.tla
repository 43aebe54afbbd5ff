--------------------------- MODULE LegacyBackend ----------------------------
(***************************************************************************)
(* LegacyV04PairBackend of rust/src/backend_legacy.rs, the adapter that    *)
(* drives the v0.4 supervisor through its local socket (compiled for the   *)
(* tests of the crate).  One connection carries one line and one reply     *)
(* under one absolute deadline; the supervisor serves one client at a time *)
(* and may take a line up after the client has left.                       *)
(***************************************************************************)
EXTENDS OneShot

CONSTANTS
    LegacyTicks,        \* the timeout, in BACKLOG_RETRY_DELAYs
    MaxChunks           \* MAX_LEGACY_RESPONSE_BYTES, in reads

ASSUME LegacyAssumption == LegacyTicks \in Nat \ {0} /\ MaxChunks \in Nat \ {0}

VARIABLES
    lpc,        \* "idle", "connect", "verify", "write", "read"
    lcommand,   \* the LegacyCommand
    lleft,      \* ticks before the deadline
    lpeer,      \* the owner of the listening socket: "self" or "other"
    lfull,      \* its backlog is full
    lchunks,    \* chunks of the reply read so far
    lqueue,     \* the lines the supervisor has yet to take up
    lreply      \* the reply under way

lvars == <<lpc, lcommand, lleft, lpeer, lfull, lchunks, lqueue, lreply>>

expected_lifecycle ==
    [Status |-> "None", Start |-> "linked", Stop |-> "ready", Shutdown |-> "shutting-down"]

\* A reply line: JSON or not, and its fields.  "lost" stands for a state that
\* parse_lifecycle does not know, "text" for an idempotent that is no Boolean.
Replies ==
    [json : {TRUE}, ok : BOOLEAN, state : {"linked", "ready", "shutting-down", "degraded", "lost"},
     idempotent : {"absent", "true", "text"}]
NoReply == [json |-> FALSE]

LInit ==
    /\ lpc = "idle"
    /\ lcommand = "Status"
    /\ lleft = 0
    /\ lpeer = "self"
    /\ lfull = FALSE
    /\ lchunks = 0
    /\ lqueue = {}
    /\ lreply = NoReply

\* health turns every failure into an error and changes nothing.
LEnd(o) ==
    /\ lpc' = "idle"
    /\ lleft' = 0
    /\ lchunks' = 0
    /\ lreply' = NoReply
    /\ Answers(IF lcommand # "Status" THEN o
               ELSE IF o = "Accepted" THEN "Read" ELSE "ReadFailed")

LKeep == UNCHANGED <<calls, outcome>>

-----------------------------------------------------------------------------
(* connect_trusted_until *)

LRequest(command) ==
    /\ lpc = "idle"
    /\ Begins
    /\ lcommand' = command
    /\ lleft' = LegacyTicks
    /\ lpc' = "connect"
    /\ lpeer' \in {"self", "other"}
    /\ lfull' \in BOOLEAN
    /\ UNCHANGED <<lchunks, lqueue, lreply>>

connect_descriptor ==
    /\ lpc = "connect"
    /\ ~lfull
    /\ lpc' = "verify"
    /\ UNCHANGED <<lcommand, lleft, lpeer, lfull, lchunks, lqueue, lreply, ovars>>

RetryForEver ==
    /\ lpc = "connect"
    /\ lfull
    /\ UNCHANGED <<lpc, lleft, lchunks, lreply>> /\ LKeep
    /\ UNCHANGED <<lcommand, lpeer, lfull, lqueue, received, strayed>>

\* EAGAIN: the backlog is full and nothing can be polled, so the connect is
\* tried again after a delay while remaining_before allows it.
retry_backlog ==
    /\ lpc = "connect"
    /\ lfull
    /\ IF lleft = 0
         THEN LEnd("NotSent")
         ELSE lleft' = lleft - 1 /\ UNCHANGED <<lpc, lchunks, lreply>> /\ LKeep
    /\ UNCHANGED <<lcommand, lpeer, lfull, lqueue, received, strayed>>

\* A bad path, a socket the inspection does not trust, any other error.
ConnectFails ==
    /\ lpc \in {"connect", "verify"}
    /\ lpc = "connect" => ~lfull
    /\ LEnd("NotSent")
    /\ UNCHANGED <<lcommand, lpeer, lfull, lqueue, received, strayed>>

TrustAnyPeer ==
    /\ lpc = "verify"
    /\ lpc' = "write" /\ UNCHANGED <<lleft, lchunks, lreply>> /\ LKeep
    /\ UNCHANGED <<lcommand, lpeer, lfull, lqueue, received, strayed>>

verify_peer_effective_uid ==
    /\ lpc = "verify"
    /\ IF lpeer = "self"
         THEN lpc' = "write" /\ UNCHANGED <<lleft, lchunks, lreply>> /\ LKeep
         ELSE LEnd("NotSent")
    /\ UNCHANGED <<lcommand, lpeer, lfull, lqueue, received, strayed>>

-----------------------------------------------------------------------------
(* The line and the reply *)

\* The line, or enough of it to be a command, is with the supervisor.
LineOut ==
    IF lpeer = "self"
      THEN lqueue' = lqueue \cup {calls} /\ UNCHANGED strayed
      ELSE strayed' = strayed \cup {calls} /\ UNCHANGED lqueue

write_all_until ==
    /\ lpc = "write"
    /\ LineOut
    /\ lpc' = "read"
    /\ UNCHANGED <<lcommand, lleft, lpeer, lfull, lchunks, lreply, received>> /\ LKeep

\* The deadline, an error of write, or of the shutdown of the write side.
WriteFails ==
    /\ lpc = "write"
    /\ LineOut \/ UNCHANGED <<lqueue, strayed>>
    /\ LEnd("Unknown")
    /\ UNCHANGED <<lcommand, lpeer, lfull, received>>

TrustFailureReply(reply) ==
    IF ~reply.ok THEN "NotSent"
    ELSE IF lcommand = "Status" \/ reply.state = expected_lifecycle[lcommand] THEN "Accepted"
    ELSE "Unknown"

\* From the reply line to the result of action, or of request for Status.
\* An ok:false may come after a part of the sequence: it is not a rejection.
ClassifyReply(reply) ==
    IF /\ reply.json
       /\ reply.ok
       /\ reply.state # "lost"
       /\ lcommand # "Status" => /\ reply.state = expected_lifecycle[lcommand]
                                 /\ reply.idempotent # "text"
      THEN "Accepted"
      ELSE "Unknown"

\* read_one_bounded_reply: a chunk without a newline is kept, up to a limit;
\* more than blanks after the newline in the same chunk, or the end of the
\* stream before it, is no reply.
read_chunk ==
    /\ lpc = "read"
    /\ lreply # NoReply
    /\ \/ /\ lchunks < MaxChunks
          /\ lchunks' = lchunks + 1
          /\ UNCHANGED <<lpc, lleft, lreply>> /\ LKeep
       \/ lchunks = MaxChunks /\ LEnd("Unknown")
    /\ UNCHANGED <<lcommand, lpeer, lfull, lqueue, received, strayed>>

read_line ==
    /\ lpc = "read"
    /\ lreply # NoReply
    /\ \E line \in {"whole", "more", "not_json"} :
         LEnd(IF line = "whole" THEN ClassifyReply(lreply) ELSE "Unknown")
    /\ UNCHANGED <<lcommand, lpeer, lfull, lqueue, received, strayed>>

\* The deadline passes, the stream ends or fails.
reply_fails ==
    /\ lpc = "read"
    /\ LEnd("Unknown")
    /\ UNCHANGED <<lcommand, lpeer, lfull, lqueue, received, strayed>>

-----------------------------------------------------------------------------
(* The supervisor *)

\* It accepts the next client, takes up its line and answers; the client may
\* have left.  A failed action may have been carried out in part, a status
\* changes nothing.
SupervisorTakes(i) ==
    /\ i \in lqueue
    /\ lqueue' = lqueue \ {i}
    /\ \E reply \in Replies :
         /\ IF (i = calls /\ lcommand = "Status") \/ outcome[i] = "ReadFailed"
              THEN UNCHANGED received
              ELSE Receives(i) \/ (~reply.ok /\ UNCHANGED received)
         /\ lreply' = IF i = calls /\ lpc = "read" THEN reply ELSE lreply
    /\ UNCHANGED <<lpc, lcommand, lleft, lpeer, lfull, lchunks, calls, outcome, strayed>>

\* Other clients come and go.
BacklogMoves ==
    /\ lpc = "connect"
    /\ lfull' = ~lfull
    /\ UNCHANGED <<lpc, lcommand, lleft, lpeer, lchunks, lqueue, lreply, ovars>>

LClient ==
    \/ connect_descriptor \/ retry_backlog \/ ConnectFails \/ verify_peer_effective_uid
    \/ write_all_until \/ WriteFails \/ read_chunk \/ read_line \/ reply_fails

LNext ==
    \/ \E command \in DOMAIN expected_lifecycle : LRequest(command)
    \/ LClient
    \/ BacklogMoves
    \/ \E i \in CallIds : SupervisorTakes(i)
=============================================================================
