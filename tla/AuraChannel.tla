----------------------------- MODULE AuraChannel -----------------------------
(***************************************************************************)
(* AuraControlCore over the raw ATT socket of BluezIo                      *)
(* (rust/src/aura_bluez.rs): a command is one ATT write without response,  *)
(* and one notification, the same for every command, acknowledges it.  The *)
(* speaker carries out what it received in order, perhaps late, and        *)
(* acknowledges on the connection the command came from.  A bearer is made *)
(* by the acquisition of AuraAcquire.                                      *)
(***************************************************************************)
EXTENDS AuraAcquire, Sequences

CONSTANTS
    MaxStale,       \* packets a drain takes at most (MAX_STALE_NOTIFICATIONS)
    MaxInbox,       \* bound on the packets in the socket
    MaxReceived     \* bound on the commands the speaker has yet to carry out

ASSUME ChannelAssumption == MaxStale \in Nat \ {0} /\ MaxInbox >= MaxStale

VARIABLES
    hpc,            \* "idle", "connect" (acquiring), "write" (drained), "wait" (written)
    command,        \* the command of the running or last call, "On" or "Off"
    outcome,        \* what the last call answered
    unresolved,     \* the latch of AuraControlCore
    socket,         \* "none", "open", or "closed" by the peer with packets left to read
    inbox,          \* packets to read: "ack", "other"
    received,       \* commands at the speaker, with "live" if it can still acknowledge
    role            \* "On" or "Off": the truth at the speaker

core == <<hpc, command, outcome, unresolved>>
channel == <<core, socket, inbox, received, role>>
hvars == <<channel, avars>>

Commands == {"On", "Off"}

\* Closing the socket loses its packets and every acknowledgement still to come.
Orphan(commands) == [i \in 1 .. Len(commands) |-> [commands[i] EXCEPT !.live = FALSE]]
Close == socket' = "none" /\ inbox' = <<>> /\ received' = Orphan(received)

HInit ==
    /\ hpc = "idle" /\ command = "Off" /\ outcome = "none" /\ unresolved = FALSE
    /\ socket = "none" /\ inbox = <<>> /\ received = <<>> /\ role \in Commands
    /\ AInit

-----------------------------------------------------------------------------
(* The speaker *)

\* Carry out the next command and acknowledge it, answer otherwise, or not at all.
CarryOutCommand ==
    /\ received # <<>> /\ Len(inbox) < MaxInbox
    /\ received' = Tail(received)
    /\ \/ /\ role' = Head(received).command
          /\ inbox' = IF Head(received).live /\ socket = "open" THEN Append(inbox, "ack") ELSE inbox
       \/ /\ UNCHANGED role
          /\ inbox' = IF Head(received).live /\ socket = "open" THEN Append(inbox, "other") ELSE inbox
       \/ role' \in {role, Head(received).command} /\ UNCHANGED inbox
    /\ UNCHANGED <<core, socket>>

Notify ==
    /\ socket = "open" /\ Len(inbox) < MaxInbox
    /\ inbox' = Append(inbox, "other")
    /\ UNCHANGED <<core, socket, received, role>>

PeerCloses ==
    /\ socket = "open" /\ socket' = "closed"
    /\ received' = Orphan(received)
    /\ UNCHANGED <<core, inbox, role>>

-----------------------------------------------------------------------------
(* AuraControlCore *)

\* raw_att_fd_is_healthy: not hung up, and not at the end of what the peer sent
\* (a peer that closed is noticed at once, or once its packets are read).
Healthy == socket # "none" /\ (socket = "closed" => inbox # <<>>)
Unhealthy == socket # "open"

\* A healthy bearer is kept, unless a command is unresolved.
core_connect_verified ==
    /\ hpc = "idle" /\ (unresolved \/ Unhealthy)
    /\ Close /\ hpc' = "connect" /\ outcome' = "none"
    /\ UNCHANGED <<command, unresolved, role>>

\* The acquisition made a bearer, or failed.
core_connected ==
    /\ hpc = "connect" /\ hpc' = "idle"
    /\ \/ apc = "bearer" /\ socket' = "open" /\ unresolved' = FALSE
       \/ apc = "failed" /\ UNCHANGED <<socket, unresolved>>
    /\ UNCHANGED <<command, outcome, inbox, received, role>>

shutdown_latch_only ==
    /\ hpc = "idle"
    /\ unresolved' = FALSE /\ outcome' = "none"
    /\ UNCHANGED <<hpc, command, socket, inbox, received, role>>
\* The latch is cleared with the bearer, never without it.
shutdown ==
    /\ hpc = "idle"
    /\ Close /\ unresolved' = FALSE /\ outcome' = "none"
    /\ UNCHANGED <<hpc, command, role>>

latched ==
    /\ hpc = "idle" /\ unresolved
    /\ outcome' = "OutcomeUnknown"
    /\ UNCHANGED <<hpc, command, unresolved, socket, inbox, received, role>>

\* Not healthy: the bearer is dropped and nothing is sent.
not_ready ==
    /\ hpc = "idle" /\ ~unresolved /\ Unhealthy
    /\ Close
    /\ outcome' = "RejectedBeforeSend"
    /\ UNCHANGED <<hpc, command, unresolved, role>>

\* Drain the socket: nothing left to read, its end, or too much of it.
prepare_command(c) ==
    /\ hpc = "idle" /\ ~unresolved /\ Healthy
    /\ command' = c
    /\ IF Len(inbox) >= MaxStale
       THEN /\ inbox' = SubSeq(inbox, MaxStale + 1, Len(inbox))
            /\ outcome' = "RejectedBeforeSend" /\ UNCHANGED hpc
       ELSE /\ inbox' = <<>>
            /\ \/ socket = "open" /\ hpc' = "write" /\ outcome' = "none"
               \/ socket = "closed" /\ outcome' = "RejectedBeforeSend" /\ UNCHANGED hpc
    /\ UNCHANGED <<unresolved, socket, received, role>>

Sent ==
    /\ Len(received) < MaxReceived
    /\ received' = Append(received, [command |-> command, live |-> socket = "open"])

begin_write ==
    /\ hpc = "write"
    /\ \/ socket = "open" /\ Sent
       \/ socket = "closed" /\ UNCHANGED received
    /\ hpc' = "wait"
    /\ UNCHANGED <<command, outcome, unresolved, socket, inbox, role>>

\* From the call on, zero bytes can no longer be proved.
write_failed ==
    /\ hpc = "write"
    /\ Sent \/ UNCHANGED received
    /\ hpc' = "idle" /\ outcome' = "OutcomeUnknown" /\ unresolved' = TRUE
    /\ UNCHANGED <<command, socket, inbox, role>>

\* The first packet decides.
wait_for_ack ==
    /\ hpc = "wait" /\ inbox # <<>>
    /\ inbox' = Tail(inbox)
    /\ hpc' = "idle"
    /\ IF Head(inbox) = "ack"
       THEN outcome' = "Accepted" /\ UNCHANGED unresolved
       ELSE outcome' = "Unexpected" /\ unresolved' = TRUE
    /\ UNCHANGED <<command, socket, received, role>>

\* The acknowledgement times out or the channel closes.
ack_missing ==
    /\ hpc = "wait" /\ inbox = <<>>
    /\ hpc' = "idle" /\ outcome' = "OutcomeUnknown" /\ unresolved' = TRUE
    /\ UNCHANGED <<command, socket, inbox, received, role>>

Command ==
    \/ shutdown \/ latched \/ not_ready
    \/ \E c \in Commands : prepare_command(c)
    \/ begin_write \/ write_failed \/ wait_for_ack \/ ack_missing
Speaker == CarryOutCommand \/ Notify \/ PeerCloses

Acquire == Acquisition /\ UNCHANGED channel

HNext ==
    \/ core_connect_verified /\ connect_verified
    \/ Acquire
    \/ core_connected /\ Return
    \/ Command /\ UNCHANGED avars
    \/ Speaker /\ UNCHANGED avars
    \/ ProfileSettles /\ UNCHANGED channel

HSpec == HInit /\ [][HNext]_hvars
\* The acquisition runs on one thread, and every call in it has a timeout.
HLive == HSpec /\ WF_hvars(Acquire)

-----------------------------------------------------------------------------
(* Properties *)

\* An accepted command is the one the speaker carried out, and the last one it
\* received: a late acknowledgement of an earlier, unresolved command never
\* passes for its own, because the bearer is torn down in between.
AcceptedTrue == outcome = "Accepted" => role = command /\ received = <<>>
=============================================================================
