---------------------------- MODULE GenaObserver ----------------------------
(***************************************************************************)
(* GenaBroadcastObserver of rust/src/broadcast_gena.rs under the           *)
(* ConfirmedBroadcastCoordinator of backend_native.rs: subscribe to the    *)
(* events of the speaker, write the broadcast command, and wait for the    *)
(* event that names its result.  The speaker carries out the commands it   *)
(* received in order, perhaps late, and sends its events over connections  *)
(* of their own: they may be lost, repeated, overtaken, or belong to an    *)
(* earlier subscription.                                                   *)
(***************************************************************************)
EXTENDS Naturals, Sequences, FiniteSets, Functions

CONSTANTS
    None,           \* no subscription, no key
    Sids,           \* subscription identifiers; a new one is not in use anywhere
    MaxSeq,         \* the largest event key (u32::MAX)
    MaxCallbacks,   \* connections one observation accepts (MAX_CALLBACKS)
    MaxQueue,       \* bound on commands the speaker has yet to carry out
    MaxAir          \* bound on events under way

ASSUME KeysAssumption ==
    /\ MaxSeq \in Nat \ {0} /\ MaxCallbacks \in Nat \ {0}
    /\ IsFiniteSet(Sids) /\ None \notin Sids /\ None \notin 0 .. MaxSeq

VARIABLES
    gpc,        \* "idle", "armed" (subscribed), "observe", "finish"
    action,     \* the GenaAction of the running or last transaction
    sub,        \* the subscription: its sid and last_seq, or NoSub
    accepted,   \* connections accepted so far
    result,     \* the result of observe_until, then of the transaction
    unresolved, \* the last command may or may not have taken effect
    queue,      \* commands the speaker has received and not carried out
    on,         \* the broadcaster is on
    served,     \* for each sid the key of its next event, None if not subscribed
    air,        \* events under way, in the order they were sent
    backlog,    \* history: an equal command was not carried out at arm
    orderly     \* history: every event since SUBSCRIBE arrived, once and in order

observer == <<gpc, action, sub, accepted, result, unresolved>>
speaker == <<queue, on, served>>
history == <<backlog, orderly>>
gvars == <<observer, speaker, air, history>>

Actions == {"Start", "Stop"}
NoSub == [sid |-> None, last |-> None]

\* A fresh subscription takes any first key; keys roll from the largest to one.
sequence_rolling_to_zero(previous, next) ==
    \/ previous = None
    \/ next = (previous + 1) % (MaxSeq + 1)
sequence_is_next(previous, next) ==
    \/ previous = None
    \/ previous = MaxSeq /\ next = 1
    \/ previous # MaxSeq /\ next = previous + 1
NextKey(key) == IF key = MaxSeq THEN 1 ELSE key + 1

\* 33 / 34 confirm a start / a stop, 31 / 32 reject it; every other event, also
\* one about the other action, says nothing.
Confirming(a) == IF a = "Start" THEN 33 ELSE 34
Rejecting(a) == IF a = "Start" THEN 31 ELSE 32
reduce_any_success(a, code) ==
    CASE code \in {33, 34} -> "confirmed"
      [] code = Rejecting(a) -> "rejected"
      [] OTHER -> "pending"
reduce_action(a, code) ==
    CASE code = Confirming(a) -> "confirmed"
      [] code = Rejecting(a) -> "rejected"
      [] OTHER -> "pending"

\* validate_callback: the path and the sid of this subscription, the next key,
\* then the action code.
validate_callback(event) ==
    IF event.sid = sub.sid /\ sequence_is_next(sub.last, event.seq)
    THEN reduce_action(action, event.code)
    ELSE "invalid"

-----------------------------------------------------------------------------
(* The speaker *)

Live == {sid \in Sids : served[sid] # None}

\* Every live subscription gets an event with this code, one after another.
Send(code) ==
    /\ Len(air) + Cardinality(Live) <= MaxAir
    /\ \E order \in Bijection(1 .. Cardinality(Live), Live) :
          air' = air \o [i \in 1 .. Cardinality(Live) |-> [sid |-> order[i], seq |-> served[order[i]], code |-> code]]
    /\ served' = [sid \in Sids |-> IF sid \in Live THEN NextKey(served[sid]) ELSE None]

CarryOut ==
    /\ queue # <<>>
    /\ queue' = Tail(queue)
    /\ \/ on' = (Head(queue) = "Start") /\ Send(Confirming(Head(queue)))
       \/ UNCHANGED on /\ Send(Rejecting(Head(queue)))
    /\ UNCHANGED <<observer, history>>

OtherEvent ==
    /\ Send(0)
    /\ UNCHANGED <<observer, queue, on, history>>

\* The speaker drops a subscription it has not seen renewed.
Expire(sid) ==
    /\ sid \in Live
    /\ served' = [served EXCEPT ![sid] = None]
    /\ orderly' = (orderly /\ sid # sub.sid)
    /\ UNCHANGED <<observer, queue, on, air, backlog>>

\* The events under way without the i-th.
Without(i) == [j \in 1 .. Len(air) - 1 |-> air[IF j < i THEN j ELSE j + 1]]

LoseEvent ==
    /\ \E i \in 1 .. Len(air) : air' = Without(i)
    /\ orderly' = FALSE
    /\ UNCHANGED <<observer, speaker, backlog>>

-----------------------------------------------------------------------------
(* The observer *)

Cancelled == sub' = NoSub
\* The answer to UNSUBSCRIBE, or its loss; the listener is closed before.
Unsubscribe(ok) ==
    /\ Cancelled
    /\ served' \in IF ok THEN {[served EXCEPT ![sub.sid] = None]}
                         ELSE {served, [served EXCEPT ![sub.sid] = None]}

FreshSids == {sid \in Sids \ Live : \A i \in 1 .. Len(air) : air[i].sid # sid}

\* SUBSCRIBE before the command is written.  The first key is any key; an
\* unresolved command leaves only recover_stop, which stops.
arm(a) ==
    /\ gpc = "idle"
    /\ unresolved => a = "Stop"
    /\ \E sid \in FreshSids, key \in 0 .. MaxSeq :
          /\ sub' = [sid |-> sid, last |-> None]
          /\ served' = [served EXCEPT ![sid] = key]
    /\ gpc' = "armed" /\ action' = a /\ result' = "pending" /\ accepted' = 0
    /\ orderly' = TRUE /\ backlog' = (a \in Range(queue))
    /\ UNCHANGED <<unresolved, queue, on, air>>

\* The speaker may have subscribed a sid whose answer was lost or refused.
arm_failed ==
    /\ gpc = "idle"
    /\ \E sid \in FreshSids, key \in 0 .. MaxSeq : served' = [served EXCEPT ![sid] = key]
    /\ UNCHANGED <<observer, queue, on, air, history>>

\* The caller gives up before the command (the JBL role write failed).
cancel ==
    /\ gpc = "armed"
    /\ \E ok \in BOOLEAN : Unsubscribe(ok)
    /\ gpc' = "idle" /\ result' = "cancelled"
    /\ UNCHANGED <<action, accepted, unresolved, queue, on, air, history>>

execute_mutation ==
    /\ gpc = "armed" /\ Len(queue) < MaxQueue
    /\ queue' = Append(queue, action)
    /\ gpc' = "observe"
    /\ UNCHANGED <<action, sub, accepted, result, unresolved, on, served, air, history>>

\* The write fails, before or after the speaker received it.
mutation_failed ==
    /\ gpc = "armed" /\ Len(queue) < MaxQueue
    /\ queue' \in {queue, Append(queue, action)}
    /\ \E ok \in BOOLEAN : Unsubscribe(ok)
    /\ gpc' = "idle" /\ result' = "failed" /\ unresolved' = TRUE
    /\ UNCHANGED <<action, accepted, on, air, history>>

Observing == gpc = "observe" /\ accepted < MaxCallbacks

\* One connection of the speaker: an event, delivered for the first or for one
\* more time.
callback ==
    /\ Observing
    /\ \E i \in 1 .. Len(air), repeated \in BOOLEAN :
          /\ air' = IF repeated THEN air ELSE Without(i)
          /\ result' = validate_callback(air[i])
          /\ sub' = IF result' = "invalid" THEN sub ELSE [sub EXCEPT !.last = air[i].seq]
          /\ orderly' = (orderly /\ i = 1 /\ ~repeated /\ air[i].sid = sub.sid)
    /\ accepted' = accepted + 1
    /\ gpc' = IF result' = "pending" THEN "observe" ELSE "finish"
    /\ UNCHANGED <<action, unresolved, speaker, backlog>>

\* A connection from another address is closed unread.
stranger ==
    /\ Observing
    /\ accepted' = accepted + 1
    /\ UNCHANGED <<gpc, action, sub, result, unresolved, speaker, air, history>>

\* A connection of the speaker whose request is no HTTP message within the limits.
unreadable ==
    /\ Observing
    /\ accepted' = accepted + 1
    /\ gpc' = "finish" /\ result' = "invalid"
    /\ orderly' = FALSE
    /\ UNCHANGED <<action, sub, unresolved, speaker, air, backlog>>

\* An event whose XML or JSON body is not a property set with at most one code.
malformed ==
    /\ Observing
    /\ \E i \in 1 .. Len(air) : air' = Without(i)
    /\ accepted' = accepted + 1
    /\ gpc' = "finish" /\ result' = "invalid"
    /\ orderly' = FALSE
    /\ UNCHANGED <<action, sub, unresolved, speaker, backlog>>

\* The business timeout or a failing listener; after the last connection allowed,
\* InvalidCallback, which here is "exhausted": no event was found invalid.
observe_failed ==
    /\ gpc = "observe"
    /\ gpc' = "finish" /\ result' = IF Observing THEN "expired" ELSE "exhausted"
    /\ UNCHANGED <<action, sub, accepted, unresolved, speaker, air, history>>

\* observe_for always cancels; a failed cleanup turns a confirmation into a failure.
finish ==
    /\ gpc = "finish"
    /\ \E ok \in BOOLEAN :
          /\ Unsubscribe(ok)
          /\ unresolved' = (result # "confirmed" \/ ~ok)
          /\ result' = IF result = "confirmed" /\ ~ok THEN "failed" ELSE result
    /\ gpc' = "idle"
    /\ UNCHANGED <<action, accepted, queue, on, air, history>>

GInit ==
    /\ gpc = "idle" /\ action = "Stop" /\ sub = NoSub /\ accepted = 0
    /\ result = "none" /\ unresolved = FALSE
    /\ queue = <<>> /\ on = FALSE
    /\ served = [sid \in Sids |-> None] /\ air = <<>>
    /\ backlog = FALSE /\ orderly = TRUE

Observer ==
    \/ \E a \in Actions : arm(a)
    \/ arm_failed \/ cancel \/ execute_mutation \/ mutation_failed
    \/ callback \/ stranger \/ unreadable \/ malformed \/ observe_failed \/ finish
GNext ==
    \/ Observer
    \/ CarryOut \/ OtherEvent \/ LoseEvent \/ \E sid \in Sids : Expire(sid)

GSpec == GInit /\ [][GNext]_gvars

-----------------------------------------------------------------------------
(* Properties *)

\* A transaction that ends confirmed found the speaker done with its command and
\* the broadcaster as its action says: no event of another subscription or about
\* the other action passes for its result, also when the speaker still had that
\* other command to carry out.  Excepted is a backlog: an event names an action,
\* not a command, and an equal command carried out late confirms the next one.
ConfirmedTrue ==
    gpc = "idle" /\ result = "confirmed" /\ ~backlog =>
        queue = <<>> /\ on = (action = "Start")

\* An observation whose events all arrived, once and in order, is never ended
\* by one of them as invalid, also across the roll-over of the event key.
OrderlyAccepted == gpc = "finish" /\ orderly => result # "invalid"
=============================================================================
