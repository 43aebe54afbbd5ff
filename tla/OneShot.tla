------------------------------ MODULE OneShot ------------------------------
(***************************************************************************)
(* What every command transport of the service promises its caller: one    *)
(* call is one attempt.  The device carries a command out at most once,    *)
(* only the device it was meant for ever sees it, and the answer of the    *)
(* call is true of what the device did, now and later.                     *)
(***************************************************************************)
EXTENDS Integers

CONSTANT MaxCalls                   \* bound: calls of one behaviour

ASSUME MaxCallsAssumption == MaxCalls \in Nat \ {0}

VARIABLES
    calls,      \* the calls begun so far; the last one may be running
    outcome,    \* the answer of each call
    received,   \* how often the device has carried out the command of each call
    strayed     \* the calls that trusted another device

CallIds == 1 .. MaxCalls

\* The answers of a command: acknowledged, refused by the device, known not
\* to be sent, not known; and of a call that only reads.
Outcomes == {"None", "Running", "Accepted", "Refused", "NotSent", "Unknown", "Read", "ReadFailed"}

ovars == <<calls, outcome, received, strayed>>

OInit ==
    /\ calls = 0
    /\ outcome = [i \in CallIds |-> "None"]
    /\ received = [i \in CallIds |-> 0]
    /\ strayed = {}

Running == calls > 0 /\ outcome[calls] = "Running"

-----------------------------------------------------------------------------
(* What happened, for the transports to record: no promise is kept here. *)

Begins ==
    /\ ~Running
    /\ calls < MaxCalls
    /\ calls' = calls + 1
    /\ outcome' = [outcome EXCEPT ![calls + 1] = "Running"]
    /\ UNCHANGED <<received, strayed>>

Answers(o) ==
    /\ outcome' = [outcome EXCEPT ![calls] = o]
    /\ UNCHANGED calls

Receives(i) == received' = [received EXCEPT ![i] = @ + 1]

-----------------------------------------------------------------------------
(* The promise *)

\* The device may carry out the command of a running call, or, late, the one
\* of a call that ended without knowing; not one it has answered.
Receipt(i) ==
    /\ outcome[i] \in {"Running", "Unknown"}
    /\ received[i] = 0
    /\ Receives(i)
    /\ UNCHANGED <<calls, outcome, strayed>>

Answer(o) ==
    /\ Running
    /\ o = "Accepted" => received[calls] = 1
    /\ o \in {"NotSent", "Read", "ReadFailed"} => received[calls] = 0
    /\ Answers(o)
    /\ UNCHANGED <<received, strayed>>

ONext ==
    \/ Begins
    \/ \E i \in CallIds : Receipt(i)
    \/ \E o \in Outcomes \ {"None", "Running"} : Answer(o)

\* Every call ends.
CallsEnd == \A i \in CallIds : (outcome[i] = "Running") ~> (outcome[i] # "Running")

OSpec == OInit /\ [][ONext]_ovars /\ CallsEnd

-----------------------------------------------------------------------------
(* What a caller may conclude from an answer, for ever after. *)

OneAttempt ==
    /\ strayed = {}
    /\ \A i \in CallIds :
         /\ received[i] \in {0, 1}
         /\ outcome[i] = "Accepted" => received[i] = 1
         /\ outcome[i] \in {"NotSent", "Read", "ReadFailed"} => received[i] = 0
         /\ i > calls => outcome[i] = "None" /\ received[i] = 0
=============================================================================
