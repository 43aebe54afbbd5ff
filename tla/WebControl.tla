----------------------------- MODULE WebControl -----------------------------
(***************************************************************************)
(* The way to the controller: the service process with its single-threaded *)
(* loopback server (rust/src/service_runtime.rs, web_server.rs, web.rs),   *)
(* the command line, which starts the service if it must and sends one     *)
(* POST (local_client.rs), and the tabs of one browser on the embedded     *)
(* page.  A client may give up on a request that the server still reads;   *)
(* the service is stopped, killed and started again, with revision zero    *)
(* and a new CSRF token.                                                   *)
(***************************************************************************)
EXTENDS Naturals, Sequences

CONSTANTS
    Commands,       \* processes of the command line, one mutation each
    Tabs,           \* tabs of the browser that are followed
    MaxRevision,    \* bound on the revision of one service process
    MaxBoots,       \* bound on the number of service processes
    MaxQueue        \* bound on the connections that wait to be accepted

ASSUME WebAssumption ==
    /\ Commands \cap Tabs = {}
    /\ (Commands \cup Tabs) \cap {"nobody", "another_tab"} = {}
    /\ {MaxRevision, MaxBoots, MaxQueue} \subseteq Nat \ {0}

VARIABLES
    phase,          \* "down", "boot", "serve", "answer", "stopping" (listener closed), "teardown"
    boot,           \* the number of the service process; its CSRF token
    revision,
    signal,         \* the flag of the termination handler
    queue,          \* requests in the order of their connections
    answer,         \* the request being answered, with its reply, in phase "answer"
    cookie,         \* of the browser: the token, and the tab whose page load set it
    stage,          \* what each client is at
    busy,           \* the clients that wait for an answer
    memory,         \* what each client has read: token, revision, and the process it is of
    ran,            \* history: mutations run for each command
    stale           \* history: clients whose mutation met another state than they had read

clients == <<cookie, stage, busy, memory>>
server == <<phase, boot, revision, signal, answer>>
wvars == <<server, queue, clients, ran, stale>>

Clients == Commands \cup Tabs
Unread == [token |-> 0, revision |-> MaxRevision + 1, of |-> 0]
NoAnswer == [client |-> "nobody", live |-> FALSE, code |-> 0, revision |-> 0]
HasRevision(c) == memory[c].revision <= MaxRevision

WInit ==
    /\ phase = "down" /\ boot = 0 /\ revision = 0 /\ signal = FALSE
    /\ queue = <<>> /\ answer = NoAnswer
    /\ cookie = [token |-> 0, by |-> "nobody"]
    /\ stage = [c \in Clients |-> IF c \in Commands THEN "probe" ELSE "closed"]
    /\ busy = {} /\ memory = [c \in Clients |-> Unread]
    /\ ran = [c \in Commands |-> 0] /\ stale = {}

-----------------------------------------------------------------------------
(* Requests *)

\* The request each stage sends.
Path ==
    [probe |-> "/healthz", poll |-> "/healthz", csrf |-> "/", page |-> "/",
     status |-> "/api/status", refresh |-> "/api/status", refresh_first |-> "/api/status",
     post |-> "post"]

\* A command sends the token it fetched, a tab the cookie of the browser.
Token(c) == IF c \in Commands THEN memory[c].token ELSE cookie.token
TokenBy(c) == IF c \in Commands THEN c ELSE cookie.by

Listening == phase \in {"serve", "answer"}
Goto(c, s) == stage' = [stage EXCEPT ![c] = s]

\* Connect and write the whole request.
request(c) ==
    /\ c \notin busy /\ stage[c] \in DOMAIN Path
    /\ Listening /\ Len(queue) < MaxQueue
    /\ queue' = Append(queue, [client |-> c, live |-> TRUE, path |-> Path[stage[c]],
                               token |-> Token(c), by |-> TokenBy(c),
                               revision |-> memory[c].revision, of |-> memory[c].of])
    /\ busy' = busy \cup {c}
    /\ UNCHANGED <<server, cookie, stage, memory, ran, stale>>

\* The connections a client has given up are read all the same.
Abandon(c) ==
    /\ queue' = [i \in 1 .. Len(queue) |->
                    IF queue[i].client = c THEN [queue[i] EXCEPT !.live = FALSE] ELSE queue[i]]
    /\ answer' = IF answer.client = c THEN [answer EXCEPT !.live = FALSE] ELSE answer
    /\ busy' = busy \ {c}

\* No answer will come: the connection was refused, closed or reset.
Lost(c) ==
    /\ stage[c] \in DOMAIN Path
    /\ IF c \in busy
       THEN /\ \A i \in 1 .. Len(queue) : ~(queue[i].client = c /\ queue[i].live)
            /\ ~(phase = "answer" /\ answer.client = c /\ answer.live)
       ELSE ~Listening

-----------------------------------------------------------------------------
(* The command line *)

\* Only a service that is not there is started, and once; while it starts,
\* refusals and timeouts are waited out up to a deadline.
ensure_user_service_with(c, error) ==
    \/ stage[c] = "probe" /\ Goto(c, IF error = "Unavailable" THEN "unit" ELSE "NotReady")
    \/ /\ stage[c] = "poll"
       /\ (Goto(c, "poll") /\ error # "InvalidResponse") \/ Goto(c, "NotReady")

\* Nothing is sent again, whatever the error.
mutate_sending_again(c) ==
    \/ stage[c] \in {"csrf", "status"} /\ Goto(c, "Failed")
    \/ stage[c] = "post" /\ (Goto(c, "Failed") \/ Goto(c, "csrf"))
mutate_with_body(c) == stage[c] \in {"csrf", "status", "post"} /\ Goto(c, "Failed")

CommandFails(c, error) ==
    c \in Commands /\ (ensure_user_service_with(c, error) \/ mutate_with_body(c))

command_lost(c) ==
    /\ Lost(c)
    /\ \E error \in {"Unavailable", "InvalidResponse"} : CommandFails(c, error)
    /\ busy' = busy \ {c}
    /\ UNCHANGED <<server, queue, cookie, memory, ran, stale>>

command_timed_out(c) ==
    /\ c \in busy /\ CommandFails(c, "TimedOut")
    /\ Abandon(c)
    /\ UNCHANGED <<phase, boot, revision, signal, cookie, memory, ran, stale>>

\* systemctl --user start: a unit that runs stays as it is.
start_user_unit_once(c) ==
    /\ stage[c] = "unit"
    /\ \/ /\ IF phase = "down" THEN boot < MaxBoots /\ phase' = "boot"
             ELSE phase \in {"boot", "serve", "answer"} /\ UNCHANGED phase
          /\ Goto(c, "poll")
       \/ Goto(c, "NotReady") /\ UNCHANGED phase
    /\ UNCHANGED <<boot, revision, signal, answer, queue, cookie, busy, memory, ran, stale>>

-----------------------------------------------------------------------------
(* The page *)

\* A new or reloaded tab.
load_page(t) ==
    /\ t \in Tabs /\ stage[t] \in {"closed", "idle"} \cup DOMAIN Path
    /\ Goto(t, "page") /\ memory' = [memory EXCEPT ![t] = Unread]
    /\ Abandon(t)
    /\ UNCHANGED <<phase, boot, revision, signal, cookie, ran, stale>>

\* mutate(action) of the page: a tab that has read nothing reads first.
mutate(t) ==
    /\ t \in Tabs /\ stage[t] = "idle"
    /\ Goto(t, IF HasRevision(t) THEN "post" ELSE "refresh_first")
    /\ UNCHANGED <<server, queue, cookie, busy, memory, ran, stale>>

\* A fetch that fails ends the handler; the tab keeps what it has read.
tab_lost(t) ==
    /\ t \in Tabs /\ Lost(t)
    /\ Goto(t, IF stage[t] = "page" THEN "closed" ELSE "idle")
    /\ busy' = busy \ {t}
    /\ UNCHANGED <<server, queue, cookie, memory, ran, stale>>

\* A tab that is not followed loads the page.
another_tab ==
    /\ Listening /\ cookie' = [token |-> boot, by |-> "another_tab"]
    /\ UNCHANGED <<server, queue, stage, busy, memory, ran, stale>>

-----------------------------------------------------------------------------
(* The answers *)

\* Where a client goes with a 200.
Following ==
    [probe |-> "csrf", poll |-> "csrf", csrf |-> "status", status |-> "post", post |-> "Ok",
     page |-> "refresh", refresh |-> "idle", refresh_first |-> "post"]
Refusal == [code \in {403, 409} |-> IF code = 403 THEN "ServiceRejected" ELSE "RevisionConflict"]

Receive(c, reply) ==
    /\ Goto(c, IF stage[c] = "post" /\ c \in Tabs THEN "refresh"
               ELSE IF reply.code = 200 THEN Following[stage[c]] ELSE Refusal[reply.code])
    /\ memory' = IF reply.code # 200 THEN memory
                 ELSE CASE stage[c] = "csrf" -> [memory EXCEPT ![c].token = boot]
                        [] stage[c] \in {"status", "refresh", "refresh_first"} ->
                              [memory EXCEPT ![c] = [token |-> @.token, revision |-> reply.revision, of |-> boot]]
                        [] OTHER -> memory
    /\ cookie' = IF stage[c] = "page" THEN [token |-> boot, by |-> c] ELSE cookie
    /\ busy' = busy \ {c}

-----------------------------------------------------------------------------
(* The server *)

\* The loop of serve_with_accept goes on.
AcceptingUntilIdle == phase = "serve" /\ (signal => queue # <<>>)
Accepting == phase = "serve" /\ ~signal

Answer(r, code) ==
    answer' = [client |-> r.client, live |-> r.live, code |-> code, revision |-> revision']

any_token(r) == TRUE
valid_csrf(r) == r.token = boot

\* controller.start, stop or recover_stop; every result moves the revision.
Run(r) ==
    /\ revision' = revision + 1
    /\ ran' = [c \in Commands |-> ran[c] + (IF c = r.client THEN 1 ELSE 0)]
    /\ stale' = IF r.revision # revision \/ (r.of # boot /\ r.by = r.client)
                THEN stale \cup {r.client} ELSE stale

mutate_if_revision(r) ==
    \/ /\ r.revision # revision
       /\ UNCHANGED <<revision, ran, stale>> /\ Answer(r, 409)
    \/ /\ r.revision = revision /\ revision < MaxRevision
       /\ Run(r) /\ Answer(r, 200)

\* A status read may find the managed state changed.
handle(r) ==
    \/ r.path = "post" /\ valid_csrf(r) /\ mutate_if_revision(r)
    \/ /\ r.path = "post" /\ ~valid_csrf(r)
       /\ UNCHANGED <<revision, ran, stale>> /\ Answer(r, 403)
    \/ /\ r.path = "/api/status"
       /\ revision' \in {revision, revision + 1} /\ revision' <= MaxRevision
       /\ Answer(r, 200) /\ UNCHANGED <<ran, stale>>
    \/ /\ r.path \notin {"post", "/api/status"}
       /\ UNCHANGED <<revision, ran, stale>> /\ Answer(r, 200)

handle_connection ==
    /\ Accepting /\ queue # <<>>
    /\ queue' = Tail(queue)
    /\ handle(Head(queue))
    /\ phase' = "answer"
    /\ UNCHANGED <<boot, signal, clients>>

\* The connection fails, or the signal comes, before the request is read.
read_closed ==
    /\ Accepting /\ queue # <<>>
    /\ queue' = Tail(queue)
    /\ UNCHANGED <<server, clients, ran, stale>>

write_response ==
    /\ phase = "answer" /\ phase' = "serve"
    /\ answer' = NoAnswer
    /\ IF answer.live THEN Receive(answer.client, answer) ELSE UNCHANGED clients
    /\ UNCHANGED <<boot, revision, signal, queue, ran, stale>>

-----------------------------------------------------------------------------
(* The service process *)

\* run_service: the devices are opened, the listener is bound and the token made.
bind ==
    /\ phase = "boot" /\ phase' = "serve"
    /\ boot' = boot + 1
    /\ UNCHANGED <<revision, signal, answer, queue, clients, ran, stale>>

termination ==
    /\ phase # "down" /\ signal' = TRUE
    /\ UNCHANGED <<phase, boot, revision, answer, queue, clients, ran, stale>>

\* The loop ends with the signal, or because accept failed; the listener is
\* dropped with the connections nobody accepted.
serve_returns ==
    /\ phase = "serve" /\ phase' = "stopping"
    /\ ~Accepting
    /\ queue' = <<>>
    /\ UNCHANGED <<boot, revision, signal, answer, clients, ran, stale>>
accept_failed ==
    /\ Accepting /\ phase' = "stopping"
    /\ queue' = <<>>
    /\ UNCHANGED <<boot, revision, signal, answer, clients, ran, stale>>

\* The controller is shut down, whatever that answers, and the transport torn
\* down, from the drop of the actor once more if it failed.
shutdown_for_exit ==
    /\ phase = "stopping" /\ phase' = "teardown"
    /\ UNCHANGED <<boot, revision, signal, answer, queue, clients, ran, stale>>
Exit ==
    /\ phase' = "down" /\ signal' = FALSE /\ revision' = 0
    /\ queue' = <<>> /\ answer' = NoAnswer
    /\ UNCHANGED <<boot, clients, ran, stale>>
finish_service == phase = "teardown" /\ Exit

\* The devices cannot be opened, or the process is killed.
process_dies == phase # "down" /\ Exit

\* systemd starts the unit by itself: at login, or after a failure.
unit_started ==
    /\ phase = "down" /\ boot < MaxBoots /\ phase' = "boot"
    /\ UNCHANGED <<boot, revision, signal, answer, queue, clients, ran, stale>>

-----------------------------------------------------------------------------
Command ==
    \E c \in Commands :
        request(c) \/ command_lost(c) \/ command_timed_out(c) \/ start_user_unit_once(c)
Browser ==
    \/ \E t \in Tabs : request(t) \/ load_page(t) \/ mutate(t) \/ tab_lost(t)
    \/ another_tab
Server ==
    \/ bind \/ handle_connection \/ read_closed \/ write_response
    \/ serve_returns \/ shutdown_for_exit \/ finish_service
Environment == termination \/ accept_failed \/ process_dies \/ unit_started

WNext == Command \/ Browser \/ Server \/ Environment

WSpec == WInit /\ [][WNext]_wvars

\* The service thread runs, and every call it makes on the devices is bounded.
WLive == WSpec /\ WF_wvars(Server)

-----------------------------------------------------------------------------
(* Properties *)

\* What the command line prints is what happened, also when its requests were
\* answered late, lost, or read after it gave up: a success is one mutation
\* that ran, a conflict or a rejection is none, and no command ever runs two,
\* because nothing after the readiness probe is sent again.
AnswerTrue ==
    \A c \in Commands :
        /\ ran[c] <= 1
        /\ stage[c] = "Ok" => ran[c] = 1
        /\ stage[c] \in {"RevisionConflict", "ServiceRejected", "NotReady"} => ran[c] = 0

\* No mutation meets another revision, or another process, than the one whose
\* status its client had read, although every process counts its revisions from zero again: the
\* CSRF token of the new process refuses it.  The one exception is a tab
\* that kept a revision while another tab renewed the shared cookie.
MutationsCurrent == stale = {}

\* A service that was told to stop ends, however many clients keep asking:
\* the flag is read before every connection.
SignalEnds == signal ~> phase = "down"
=============================================================================
