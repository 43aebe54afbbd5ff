-------------------------- MODULE WebControlProofs --------------------------
(***************************************************************************)
(* AnswerTrue and MutationsCurrent for any number of commands, tabs,       *)
(* service processes, revisions and waiting connections, and how soon a    *)
(* signal ends the server.                                                 *)
(***************************************************************************)
EXTENDS WebControl, TLAPS

\* One element more at the end of a sequence.
LEMMA Appended ==
  ASSUME NEW S, NEW s \in Seq(S), NEW x \in S
  PROVE  /\ Append(s, x) \in Seq(S) /\ Len(Append(s, x)) = Len(s) + 1 /\ Append(s, x)[Len(s) + 1] = x
         /\ Len(s) \in Nat /\ \A i \in 1 .. Len(s) : Append(s, x)[i] = s[i]
BY SMT

\* A sequence without its head.
LEMMA Beheaded ==
  ASSUME NEW S, NEW s \in Seq(S), s # <<>>
  PROVE  /\ Head(s) \in S /\ Head(s) = s[1] /\ Len(s) \in Nat /\ Len(s) >= 1
         /\ Tail(s) \in Seq(S) /\ Len(Tail(s)) = Len(s) - 1
         /\ \A i \in 1 .. Len(Tail(s)) : Tail(s)[i] = s[i + 1]
BY SMT

CommandStages == {"probe", "poll", "unit", "csrf", "status", "post",
                  "Ok", "Failed", "NotReady", "RevisionConflict", "ServiceRejected"}
TabStages == {"closed", "idle", "page", "refresh", "refresh_first", "post"}

Requests ==
    [client : Clients, live : BOOLEAN, path : {"/healthz", "/", "/api/status", "post"}, token : Nat,
     by : Clients \cup {"nobody", "another_tab"}, revision : Nat, of : Nat]

Answers == [client : Clients, live : BOOLEAN, code : {200, 403, 409}, revision : 0 .. MaxRevision]

WTypeOK ==
    /\ phase \in {"down", "boot", "serve", "answer", "stopping", "teardown"}
    /\ boot \in Nat /\ revision \in 0 .. MaxRevision
    /\ queue \in Seq(Requests)
    /\ phase = "answer" => answer \in Answers
    /\ phase # "answer" => answer = NoAnswer
    /\ cookie \in [token : Nat, by : Clients \cup {"nobody", "another_tab"}]
    /\ stage \in [Clients -> CommandStages \cup TabStages]
    /\ \A c \in Commands : stage[c] \in CommandStages
    /\ \A t \in Tabs : stage[t] \in TabStages
    /\ busy \subseteq Clients
    /\ \A c \in busy : stage[c] \in DOMAIN Path
    /\ memory \in [Clients -> [token : Nat, revision : Nat, of : Nat]]
    /\ ran \in [Commands -> Nat]

-----------------------------------------------------------------------------
(* The inductive invariants *)

\* A client that goes by a token of its own has read the status from the
\* process of that token or from a later one, and so has its request.
ReadSince(c) ==
    /\ memory[c].token <= boot /\ memory[c].of <= boot
    /\ stage[c] \in {"probe", "poll", "unit", "csrf", "page"} => ~HasRevision(c)
    /\ HasRevision(c) /\ TokenBy(c) = c => Token(c) <= memory[c].of
AskedSince(r) ==
    /\ r.of <= boot
    /\ r.by = r.client /\ r.revision <= MaxRevision => r.token <= r.of

TokensBefore ==
    /\ cookie.token <= boot
    /\ \A c \in Clients : ReadSince(c)
    /\ \A i \in 1 .. Len(queue) : AskedSince(queue[i])

Waits(i, c) == queue[i].client = c /\ queue[i].live
Posts(i, c) == queue[i].client = c /\ queue[i].path = "post"

\* A client has one connection that it waits for, for what its stage asks,
\* and only a POST is refused.
OneConnection(c) ==
    /\ \A i \in 1 .. Len(queue) :
         Waits(i, c) => c \in busy /\ queue[i].path = Path[stage[c]]
    /\ \A i, j \in 1 .. Len(queue) : Waits(i, c) /\ Waits(j, c) => i = j
    /\ answer.client = c /\ answer.live =>
         /\ c \in busy
         /\ stage[c] # "post" => answer.code = 200
         /\ \A i \in 1 .. Len(queue) : ~Waits(i, c)

\* The POST of a command is on the way at most once, and has not run while it is.
OnePost(c) ==
    /\ \A i \in 1 .. Len(queue) :
         Posts(i, c) => /\ ran[c] = 0
                        /\ stage[c] = "Failed" \/ (stage[c] = "post" /\ c \in busy)
    /\ \A i, j \in 1 .. Len(queue) : Posts(i, c) /\ Posts(j, c) => i = j
    /\ answer.client = c /\ answer.live /\ stage[c] = "post" =>
         /\ ran[c] = IF answer.code = 200 THEN 1 ELSE 0
         /\ \A i \in 1 .. Len(queue) : ~Posts(i, c)

\* What the command has reached tells what ran.
StageTells(c) ==
    /\ ran[c] <= 1
    /\ stage[c] = "Ok" => ran[c] = 1
    /\ stage[c] \notin {"Ok", "Failed", "post"} => ran[c] = 0
    /\ stage[c] = "post" /\ c \notin busy => ran[c] = 0

Told(c) == OneConnection(c) /\ (c \in Commands => OnePost(c) /\ StageTells(c))

WInv ==
    /\ WTypeOK /\ TokensBefore /\ stale = {}
    /\ \A c \in Clients : Told(c)

-----------------------------------------------------------------------------
(* Facts for every step *)

\* An answer that loses its client stays an answer (Abandon).
LEMMA AbandonedAnswer ==
    ASSUME NEW r \in Answers
    PROVE  /\ [r EXCEPT !.live = FALSE] \in Answers
           /\ [r EXCEPT !.live = FALSE].live = FALSE
           /\ [r EXCEPT !.live = FALSE].client = r.client
           /\ [r EXCEPT !.live = FALSE].code = r.code
<1> DEFINE L == BOOLEAN
           C == {200, 403, 409}
           R == 0 .. MaxRevision
<1>1. FALSE \in L
  BY Zenon
<1>2. Answers = [client : Clients, live : L, code : C, revision : R]
  BY Zenon DEF Answers
<1> HIDE DEF L, C, R
<1>3. ASSUME NEW x \in L
      PROVE  /\ [r EXCEPT !.live = x] \in Answers
             /\ [r EXCEPT !.live = x].live = x
             /\ [r EXCEPT !.live = x].client = r.client
             /\ [r EXCEPT !.live = x].code = r.code
  BY ONLY <1>2, r \in Answers, x \in L, Zenon
<1> QED
  BY ONLY <1>1, <1>3, Zenon

\* Revisions are bounded by a natural number.
LEMMA Widths == MaxRevision \in Nat
  BY WebAssumption, Zenon

\* What a client holds and sends is typed.
LEMMA ClientsTyped ==
  ASSUME WTypeOK, NEW c \in Clients
  PROVE  /\ memory[c] \in [token : Nat, revision : Nat, of : Nat]
         /\ memory[c].token \in Nat /\ memory[c].revision \in Nat /\ memory[c].of \in Nat
         /\ cookie.token \in Nat /\ Token(c) \in Nat
         /\ TokenBy(c) \in Clients \cup {"nobody", "another_tab"}
  BY Zenon DEF WTypeOK, Token, TokenBy, Clients

\* Taking the head of a queue shifts the others by one.
LEMMA Taken ==
  ASSUME NEW q \in Seq(Requests), q # <<>>
  PROVE  /\ Tail(q) \in Seq(Requests)
         /\ Head(q) \in Requests /\ Head(q) = q[1] /\ 1 \in 1 .. Len(q)
         /\ \A i \in 1 .. Len(Tail(q)) : i + 1 \in 1 .. Len(q) /\ Tail(q)[i] = q[i + 1]
  BY Beheaded

\* Putting a request behind a queue moves none in it.
LEMMA Put ==
  ASSUME NEW q \in Seq(Requests), NEW r \in Requests
  PROVE  /\ Append(q, r) \in Seq(Requests)
         /\ Len(q) \in Nat /\ Len(Append(q, r)) = Len(q) + 1
         /\ \A i \in 1 .. Len(q) : Append(q, r)[i] = q[i]
         /\ Append(q, r)[Len(q) + 1] = r
  BY Appended

\* Each connection of c in the next queue was there before, k places behind.
Follows(c, k) ==
    \A i \in 1 .. Len(queue') :
        queue'[i].client = c =>
            /\ i + k \in 1 .. Len(queue)
            /\ queue[i + k].client = c
            /\ queue'[i].path = queue[i + k].path
            /\ queue'[i].live => queue[i + k].live

\* A client that a step leaves alone.
LEMMA LeftAlone ==
  ASSUME NEW c \in Clients, Told(c), NEW k \in {0, 1}, Follows(c, k),
         stage'[c] = stage[c], c \in busy' <=> c \in busy,
         answer'.client = c /\ answer'.live => answer.client = c /\ answer.live /\ answer'.code = answer.code,
         c \in Commands => ran'[c] = ran[c]
  PROVE  Told(c)'
<1>1. OneConnection(c)'
  BY DEF Told, OneConnection, Waits, Follows
<1>2. ASSUME c \in Commands PROVE OnePost(c)' /\ StageTells(c)'
  BY <1>2 DEF Told, OnePost, StageTells, Posts, Follows
<1> QED
  BY <1>1, <1>2, Zenon DEF Told

\* A client that waits for nothing any more, and has not succeeded.
LEMMA StopsWaiting ==
  ASSUME NEW c \in Clients, Told(c), Follows(c, 0),
         \A i \in 1 .. Len(queue') : ~Waits(i, c)',
         ~(answer'.client = c /\ answer'.live),
         c \in Commands =>
             /\ ran'[c] = ran[c] /\ stage[c] \notin {"Ok", "Failed"}
             /\ IF stage[c] = "post" THEN stage'[c] = "Failed" ELSE stage'[c] \notin {"Ok", "post"}
  PROVE  Told(c)'
<1>1. OneConnection(c)'
  BY Zenon DEF OneConnection
<1>2. ASSUME c \in Commands PROVE OnePost(c)' /\ StageTells(c)'
  BY <1>2 DEF Told, OnePost, StageTells, Posts, Follows
<1> QED
  BY <1>1, <1>2, Zenon DEF Told

-----------------------------------------------------------------------------
(* The steps *)

\* Before the first boot nobody is served.
LEMMA WebInitial == WInit => WInv
<1> SUFFICES ASSUME WInit PROVE WInv
  BY Zenon
<1> USE WebAssumption DEF WInit
<1>1. WTypeOK
  BY DEF WTypeOK, NoAnswer, Unread, Clients, CommandStages, TabStages
<1>2. TokensBefore
  <2>1. Unread.token = 0 /\ Unread.of = 0 /\ ~(Unread.revision <= MaxRevision)
    BY ONLY Widths DEF Unread
  <2>2. \A c \in Clients : ReadSince(c)
    <3>1. boot = 0 /\ \A c \in Clients : memory[c] = Unread
      BY Zenon
    <3> QED
      BY ONLY <2>1, <3>1 DEF ReadSince, HasRevision
  <2> QED
    BY <2>2 DEF TokensBefore
<1>3. ASSUME NEW c \in Clients PROVE Told(c)
  BY <1>3 DEF Told, OneConnection, OnePost, StageTells, NoAnswer, Clients, Waits, Posts
<1> QED
  BY <1>1, <1>2, <1>3, Zenon DEF WInv

\* Nothing but the process or the cookie of another tab changes.
LEMMA ProcessStep ==
  ASSUME WInv,
         another_tab \/ bind \/ termination \/ shutdown_for_exit \/ unit_started \/ UNCHANGED wvars
  PROVE  WInv'
<1> USE WebAssumption DEF WInv
<1>1. /\ UNCHANGED <<queue, stage, busy, memory, ran, stale, answer, revision>>
      /\ boot' \in Nat /\ boot <= boot'
      /\ UNCHANGED cookie \/ cookie' = [token |-> boot, by |-> "another_tab"]
  BY DEF another_tab, bind, termination, shutdown_for_exit, unit_started, wvars, server, clients, WTypeOK
<1>2. /\ phase' \in {"down", "boot", "serve", "answer", "stopping", "teardown"}
      /\ phase' = "answer" <=> phase = "answer"
  BY Zenon DEF another_tab, bind, termination, shutdown_for_exit, unit_started, wvars, server, WTypeOK
<1>3. WTypeOK'
  BY <1>1, <1>2 DEF WTypeOK, NoAnswer
<1>4. TokensBefore'
  <2>1. ASSUME NEW c \in Clients PROVE ReadSince(c)'
    <3>1. boot \in Nat /\ boot' \in Nat /\ boot <= boot' /\ ReadSince(c)
      BY <1>1, <2>1, Zenon DEF TokensBefore, WTypeOK
    <3>2. /\ HasRevision(c)' <=> HasRevision(c)
          /\ HasRevision(c)' /\ TokenBy(c)' = c => TokenBy(c) = c /\ Token(c)' = Token(c)
      BY <1>1, <2>1 DEF HasRevision, TokenBy, Token, Clients
    <3> QED
      BY <1>1, <2>1, <3>1, <3>2, ClientsTyped DEF ReadSince
  <2>2. ASSUME NEW i \in 1 .. Len(queue) PROVE AskedSince(queue[i])'
    <3>1. queue[i] \in Requests /\ AskedSince(queue[i]) /\ boot \in Nat
      BY <2>2 DEF TokensBefore, WTypeOK
    <3> QED
      BY <1>1, <3>1 DEF AskedSince, Requests
  <2>3. (cookie.token <= boot)'
    BY <1>1 DEF TokensBefore, WTypeOK
  <2> QED
    BY <1>1, <2>1, <2>2, <2>3, Zenon DEF TokensBefore
<1>5. ASSUME NEW c \in Clients PROVE Told(c)'
  BY <1>1, <1>5, LeftAlone DEF Follows, WTypeOK, Requests, Clients
<1> QED
  BY <1>1, <1>3, <1>4, <1>5, Zenon

\* The connections are dropped, with the process or before it ends.
LEMMA DropStep ==
  ASSUME WInv, serve_returns \/ accept_failed \/ finish_service \/ process_dies
  PROVE  WInv'
<1> USE WebAssumption DEF WInv
<1>1. /\ queue' = <<>> /\ UNCHANGED <<boot, cookie, stage, busy, memory, ran, stale>>
      /\ phase' \in {"down", "stopping"} /\ answer' = NoAnswer
      /\ revision' \in 0 .. MaxRevision
  BY DEF serve_returns, accept_failed, finish_service, process_dies, Exit, Accepting, clients, WTypeOK
<1>2. WTypeOK'
  BY <1>1 DEF WTypeOK, NoAnswer
<1>3. TokensBefore'
  BY <1>1 DEF TokensBefore, ReadSince, HasRevision, TokenBy, Token
<1>4. ASSUME NEW c \in Clients PROVE Told(c)'
  BY <1>1, <1>4, LeftAlone DEF Follows, NoAnswer, Clients
<1> QED
  BY <1>1, <1>2, <1>3, <1>4, Zenon

\* What the stages of the script and of the command line ask for.
LEMMA Paths ==
  /\ DOMAIN Path = {"probe", "poll", "csrf", "page", "status", "refresh", "refresh_first", "post"}
  /\ \A s \in DOMAIN Path : /\ Path[s] \in {"/healthz", "/", "/api/status", "post"}
                            /\ Path[s] = "post" <=> s = "post"
  BY DEF Path

\* What it means that a step leaves the requests of a client where they are.
LEMMA Same == \A c : Follows(c, 0) <=> \A i \in 1 .. Len(queue') : queue'[i].client = c =>
                 /\ i \in 1 .. Len(queue) /\ queue[i].client = c /\ queue'[i].path = queue[i].path
                 /\ queue'[i].live => queue[i].live
  BY DEF Follows

\* One request, when nothing of this client is waited for.
LEMMA RequestStep ==
  ASSUME WInv, NEW c \in Clients, request(c)
  PROVE  WInv'
<1> DEFINE r == [client |-> c, live |-> TRUE, path |-> Path[stage[c]],
                 token |-> Token(c), by |-> TokenBy(c),
                 revision |-> memory[c].revision, of |-> memory[c].of]
<1> USE DEF WInv
<1>1. /\ c \notin busy /\ stage[c] \in DOMAIN Path
      /\ queue' = Append(queue, r) /\ busy' = busy \cup {c}
      /\ UNCHANGED <<phase, boot, revision, answer, cookie, stage, memory, ran, stale>>
  BY Zenon DEF request, server
<1>2. r \in Requests
  BY <1>1, ClientsTyped, Paths, Zenon DEF Requests
<1>3. r.client = c /\ r.path = Path[stage[c]] /\ AskedSince(r)
  BY ClientsTyped, Zenon DEF TokensBefore, ReadSince, AskedSince, HasRevision
<1>4. /\ queue' \in Seq(Requests) /\ Len(queue) \in Nat
      /\ \A i \in 1 .. Len(queue') : (i \in 1 .. Len(queue) /\ queue'[i] = queue[i])
                                     \/ (i = Len(queue) + 1 /\ queue'[i] = r)
  BY <1>1, <1>2, Put DEF WTypeOK
<1> HIDE DEF r
<1>5. WTypeOK'
  BY <1>1, <1>4, Zenon DEF WTypeOK, NoAnswer
<1>6. TokensBefore'
  <2>1. \A d \in Clients : ReadSince(d)'
    BY <1>1, Zenon DEF TokensBefore, ReadSince, HasRevision, Token, TokenBy
  <2>2. \A i \in 1 .. Len(queue') : AskedSince(queue[i])'
    BY <1>1, <1>3, <1>4, Zenon DEF TokensBefore, AskedSince
  <2> QED
    BY <1>1, <2>1, <2>2, Zenon DEF TokensBefore
<1>7. ASSUME NEW d \in Clients, d # c PROVE Told(d)'
  <2>1. Follows(d, 0)
    BY <1>3, <1>4, <1>7, Same, ZenonT(30)
  <2> QED
    BY <1>1, <1>7, <2>1, LeftAlone, Zenon
<1>8. Told(c)'
  <2>1. /\ \A i \in 1 .. Len(queue) : ~Waits(i, c)
        /\ ~(answer.client = c /\ answer.live)
    BY <1>1, Zenon DEF Told, OneConnection
  <2>2. OneConnection(c)'
    BY <1>1, <1>3, <1>4, <2>1 DEF OneConnection, Waits
  <2>3. ASSUME c \in Commands PROVE OnePost(c)' /\ StageTells(c)'
    <3>1. \A i \in 1 .. Len(queue) : ~Posts(i, c)
      BY <1>1, <2>3, Paths, ZenonT(30) DEF Told, OnePost
    <3>2. stage[c] = "post" => ran[c] = 0
      BY <1>1, <2>3, Zenon DEF Told, StageTells
    <3>3. OnePost(c)'
      BY <1>1, <1>3, <1>4, <2>1, <3>1, <3>2, Paths DEF OnePost, Posts
    <3> QED
      BY <1>1, <2>3, <3>3, Zenon DEF Told, StageTells
  <2> QED
    BY <2>2, <2>3, Zenon DEF Told
<1> QED
  BY <1>1, <1>5, <1>6, <1>7, <1>8, Zenon

\* A client whose stage changes reads nothing and waits for nothing any more.
LEMMA GiveUpStep ==
  ASSUME WInv, NEW c \in Clients, NEW next \in CommandStages \cup TabStages,
         IF c \in Commands THEN next \in CommandStages ELSE next \in TabStages,
         next \in {"probe", "poll", "unit", "csrf", "page"} => ~HasRevision(c)',
         stage' = [stage EXCEPT ![c] = next], busy' = busy \ {c},
         UNCHANGED memory \/ memory' = [memory EXCEPT ![c] = Unread],
         UNCHANGED <<boot, revision, cookie, ran, stale>>,
         phase' \in {"down", "boot", "serve", "answer", "stopping", "teardown"},
         phase' = "answer" <=> phase = "answer",
         \/ UNCHANGED <<queue, answer>> /\ (\A i \in 1 .. Len(queue) : ~Waits(i, c))
                                        /\ ~(answer.client = c /\ answer.live)
         \/ Abandon(c),
         c \in Commands =>
             /\ stage[c] \notin {"Ok", "Failed"}
             /\ IF stage[c] = "post" THEN next = "Failed" ELSE next \notin {"Ok", "post"}
  PROVE  WInv'
<1> USE DEF WInv
<1>1. /\ queue' \in Seq(Requests) /\ Len(queue') = Len(queue)
      /\ \A i \in 1 .. Len(queue) :
           /\ queue'[i].client = queue[i].client /\ queue'[i].path = queue[i].path
           /\ queue'[i].token = queue[i].token /\ queue'[i].by = queue[i].by
           /\ queue'[i].revision = queue[i].revision /\ queue'[i].of = queue[i].of
           /\ queue'[i].live => queue[i].live /\ queue'[i].client # c
  <2>1. CASE UNCHANGED queue /\ \A i \in 1 .. Len(queue) : ~Waits(i, c)
    BY <2>1, Zenon DEF WTypeOK, Waits
  <2>2. CASE Abandon(c)
    <3> DEFINE marked(i) == IF queue[i].client = c THEN [queue[i] EXCEPT !.live = FALSE] ELSE queue[i]
    <3>1. queue' = [i \in 1 .. Len(queue) |-> marked(i)]
      BY <2>2, Zenon DEF Abandon
    <3>2. \A i \in 1 .. Len(queue) :
           /\ marked(i) \in Requests
           /\ marked(i).client = queue[i].client /\ marked(i).path = queue[i].path
           /\ marked(i).token = queue[i].token /\ marked(i).by = queue[i].by
           /\ marked(i).revision = queue[i].revision /\ marked(i).of = queue[i].of
           /\ marked(i).live => queue[i].live /\ marked(i).client # c
      <4> SUFFICES ASSUME NEW i \in 1 .. Len(queue)
                   PROVE  /\ marked(i) \in Requests
                          /\ marked(i).client = queue[i].client /\ marked(i).path = queue[i].path
                          /\ marked(i).token = queue[i].token /\ marked(i).by = queue[i].by
                          /\ marked(i).revision = queue[i].revision /\ marked(i).of = queue[i].of
                          /\ marked(i).live => queue[i].live /\ marked(i).client # c
        BY Zenon
      <4>1. queue[i] \in Requests
        BY DEF WTypeOK
      <4>2. CASE queue[i].client = c
        BY ONLY <4>1, <4>2, Zenon DEF Requests
      <4>3. CASE queue[i].client # c
        BY ONLY <4>1, <4>3, Zenon
      <4> QED
        BY <4>2, <4>3, Zenon
    <3>3. Len(queue) \in Nat
      BY DEF WTypeOK
    <3> HIDE DEF marked
    <3> QED
      BY <3>1, <3>2, <3>3
  <2> QED
    BY <2>1, <2>2, Zenon
<1>2. /\ answer'.client = answer.client /\ answer'.code = answer.code
      /\ answer'.live => answer.live /\ answer.client # c
      /\ phase' = "answer" => answer' \in Answers
      /\ phase' # "answer" => answer' = NoAnswer
  <2>1. CASE phase = "answer"
    <3>1. answer \in Answers
      BY <2>1, Zenon DEF WTypeOK
    <3>2. CASE Abandon(c)
      <4>1. answer' = IF answer.client = c THEN [answer EXCEPT !.live = FALSE] ELSE answer
        BY <3>2, Zenon DEF Abandon
      <4>2. CASE answer.client = c
        <5>1. answer' = [answer EXCEPT !.live = FALSE]
          BY <4>1, <4>2, Zenon
        <5>2. /\ answer' \in Answers
              /\ answer'.client = answer.client /\ answer'.code = answer.code /\ answer'.live = FALSE
          BY ONLY <3>1, <5>1, AbandonedAnswer, Zenon
        <5> QED
          BY <2>1, <5>2, Zenon
      <4>3. CASE answer.client # c
        BY <2>1, <3>1, <4>1, <4>3, Zenon
      <4> QED
        BY <4>2, <4>3, Zenon
    <3>3. CASE UNCHANGED answer /\ ~(answer.client = c /\ answer.live)
      BY <2>1, <3>1, <3>3, Zenon
    <3> QED
      BY <3>2, <3>3, Zenon
  <2>2. CASE phase # "answer"
    BY <2>2, WebAssumption, SMTT(30) DEF WTypeOK, NoAnswer, Abandon, Clients
  <2> QED
    BY <2>1, <2>2, Zenon
<1>3. memory' \in [Clients -> [token : Nat, revision : Nat, of : Nat]]
      /\ \A d \in Clients : d # c => memory'[d] = memory[d]
  <2>1. Unread \in [token : Nat, revision : Nat, of : Nat]
    BY Widths DEF Unread
  <2> QED
    BY <2>1, ZenonT(30) DEF WTypeOK
<1>4. WTypeOK'
  BY <1>1, <1>2, <1>3, WebAssumption, ZenonT(30) DEF WTypeOK, Clients
<1>5. TokensBefore'
  <2>1. ASSUME NEW d \in Clients, d # c PROVE ReadSince(d)'
    BY <1>3, <2>1, Zenon DEF TokensBefore, ReadSince, HasRevision, Token, TokenBy, WTypeOK
  <2>2. ReadSince(c)'
    <3>1. CASE UNCHANGED memory
      BY <3>1, Zenon DEF TokensBefore, ReadSince, HasRevision, Token, TokenBy, WTypeOK
    <3>2. CASE memory'[c] = Unread
      <4>1. Unread.token = 0 /\ Unread.of = 0 /\ ~(Unread.revision <= MaxRevision)
        BY ONLY Widths DEF Unread
      <4> QED
        BY <3>2, <4>1 DEF ReadSince, HasRevision, WTypeOK
    <3> QED
      BY <3>1, <3>2, Zenon DEF WTypeOK
  <2>3. \A i \in 1 .. Len(queue') : AskedSince(queue[i])'
    BY <1>1, Zenon DEF TokensBefore, AskedSince
  <2> QED
    BY <2>1, <2>2, <2>3, Zenon DEF TokensBefore
<1>6. ASSUME NEW d \in Clients, d # c PROVE Told(d)'
  <2>1. Follows(d, 0)
    BY <1>1, Same, Zenon
  <2>2. stage'[d] = stage[d] /\ (d \in busy' <=> d \in busy) /\ Told(d)
    BY <1>6, Zenon DEF WTypeOK
  <2> QED
    BY <1>2, <2>1, <2>2, LeftAlone, Zenon
<1>7. Told(c)'
  <2>1. Follows(c, 0) /\ \A i \in 1 .. Len(queue') : ~Waits(i, c)'
    BY <1>1, Same, Zenon DEF Waits
  <2>2. stage'[c] = next
    BY Zenon DEF WTypeOK
  <2> QED
    BY <1>2, <2>1, <2>2, StopsWaiting, Zenon
<1> QED
  BY <1>4, <1>5, <1>6, <1>7, Zenon

\* Errors and timeouts of a command, the start of the unit, and what the
\* script of a tab does without an answer.
LEMMA ClientStep ==
  ASSUME WInv, NEW c \in Clients,
         \/ c \in Commands /\ (command_lost(c) \/ command_timed_out(c) \/ start_user_unit_once(c))
         \/ c \in Tabs /\ (load_page(c) \/ mutate(c) \/ tab_lost(c))
  PROVE  WInv'
<1> USE DEF WInv
<1>1. /\ stage[c] \in CommandStages \cup TabStages
      /\ c \in Commands => stage[c] \in CommandStages /\ c \notin Tabs
      /\ c \in Tabs => stage[c] \in TabStages /\ c \notin Commands
      /\ c \in busy => stage[c] \in DOMAIN Path
      /\ ReadSince(c)
  BY WebAssumption, Zenon DEF WTypeOK, Clients, TokensBefore
<1>2. c \notin busy \/ Lost(c) => /\ \A i \in 1 .. Len(queue) : ~Waits(i, c)
                                  /\ ~(answer.client = c /\ answer.live)
  <2>1. phase # "answer" => answer.client # c
    BY WebAssumption DEF WTypeOK, NoAnswer, Clients
  <2> QED
    BY <2>1, Zenon DEF Told, OneConnection, Lost, Waits
<1>3. phase \in {"down", "boot", "serve", "answer", "stopping", "teardown"}
  BY Zenon DEF WTypeOK
<1>4. ASSUME c \in Commands, NEW error \in {"Unavailable", "InvalidResponse", "TimedOut"}, CommandFails(c, error)
      PROVE  \E next \in CommandStages :
                /\ stage' = [stage EXCEPT ![c] = next]
                /\ next \in {"probe", "poll", "unit", "csrf", "page"} => ~HasRevision(c)
                /\ stage[c] \notin {"Ok", "Failed"}
                /\ IF stage[c] = "post" THEN next = "Failed" ELSE next \notin {"Ok", "post"}
  <2>1. CASE mutate_with_body(c)
    BY <2>1, Zenon DEF mutate_with_body, Goto, CommandStages
  <2>2. CASE ensure_user_service_with(c, error) /\ stage[c] = "probe"
    BY <1>1, <2>2, Zenon DEF ensure_user_service_with, Goto, CommandStages, ReadSince
  <2>3. CASE ensure_user_service_with(c, error) /\ stage[c] = "poll"
    BY <1>1, <2>3, Zenon DEF ensure_user_service_with, Goto, CommandStages, ReadSince
  <2> QED
    BY <1>4, <2>1, <2>2, <2>3, Zenon DEF CommandFails, ensure_user_service_with
<1>5. CASE c \in Commands /\ command_lost(c)
  <2>1. PICK error \in {"Unavailable", "InvalidResponse"} : CommandFails(c, error)
    BY <1>5, Zenon DEF command_lost
  <2>2. PICK next \in CommandStages :
                /\ stage' = [stage EXCEPT ![c] = next]
                /\ next \in {"probe", "poll", "unit", "csrf", "page"} => ~HasRevision(c)
                /\ stage[c] \notin {"Ok", "Failed"}
                /\ IF stage[c] = "post" THEN next = "Failed" ELSE next \notin {"Ok", "post"}
    BY <1>4, <1>5, <2>1, Zenon
  <2>3. Lost(c) /\ busy' = busy \ {c} /\ UNCHANGED <<phase, boot, revision, answer, queue, cookie, memory, ran, stale>>
    BY <1>5, Zenon DEF command_lost, server
  <2> QED
    BY <1>2, <1>3, <1>5, <2>2, <2>3, GiveUpStep, Zenon DEF HasRevision
<1>6. CASE c \in Commands /\ command_timed_out(c)
  <2>1. PICK next \in CommandStages :
                /\ stage' = [stage EXCEPT ![c] = next]
                /\ next \in {"probe", "poll", "unit", "csrf", "page"} => ~HasRevision(c)
                /\ stage[c] \notin {"Ok", "Failed"}
                /\ IF stage[c] = "post" THEN next = "Failed" ELSE next \notin {"Ok", "post"}
    BY <1>4, <1>6, Zenon DEF command_timed_out
  <2>2. Abandon(c) /\ busy' = busy \ {c} /\ UNCHANGED <<phase, boot, revision, cookie, memory, ran, stale>>
    BY <1>6, Zenon DEF command_timed_out, Abandon
  <2> QED
    BY <1>3, <1>6, <2>1, <2>2, GiveUpStep, Zenon DEF HasRevision
<1>7. CASE c \in Commands /\ start_user_unit_once(c)
  <2>1. c \notin busy /\ busy' = busy \ {c} /\ stage[c] = "unit"
        /\ UNCHANGED <<boot, revision, answer, queue, cookie, memory, ran, stale>>
    BY <1>1, <1>7, Paths DEF start_user_unit_once
  <2>2. PICK next \in {"poll", "NotReady"} : stage' = [stage EXCEPT ![c] = next]
    BY <1>7, Zenon DEF start_user_unit_once, Goto
  <2>3. ~HasRevision(c) /\ next \in CommandStages
    BY <1>1, <2>1, Zenon DEF ReadSince, CommandStages
  <2>4. /\ phase' \in {"down", "boot", "serve", "answer", "stopping", "teardown"}
        /\ phase' = "answer" <=> phase = "answer"
    BY <1>3, <1>7, Zenon DEF start_user_unit_once
  <2> QED
    BY <1>2, <1>7, <2>1, <2>2, <2>3, <2>4, GiveUpStep, Zenon DEF HasRevision
<1>8. CASE c \in Tabs /\ load_page(c)
  <2>1. /\ Abandon(c) /\ busy' = busy \ {c} /\ UNCHANGED <<phase, boot, revision, cookie, ran, stale>>
        /\ stage' = [stage EXCEPT ![c] = "page"] /\ memory' = [memory EXCEPT ![c] = Unread]
    BY <1>8, Zenon DEF load_page, Abandon, Goto
  <2>2. ~HasRevision(c)'
    <3>1. ~(Unread.revision <= MaxRevision)
      BY ONLY Widths DEF Unread
    <3> QED
      BY <2>1, <3>1, Zenon DEF HasRevision, WTypeOK
  <2>3. "page" \in TabStages
    BY Zenon DEF TabStages
  <2> QED
    BY <1>1, <1>3, <1>8, <2>1, <2>2, <2>3, GiveUpStep, Zenon
<1>9. CASE c \in Tabs /\ mutate(c)
  <2>1. c \notin busy /\ busy' = busy \ {c}
        /\ UNCHANGED <<phase, boot, revision, answer, queue, cookie, memory, ran, stale>>
    BY <1>1, <1>9, Paths DEF mutate, server
  <2>2. PICK next \in {"post", "refresh_first"} : stage' = [stage EXCEPT ![c] = next]
    BY <1>9, Zenon DEF mutate, Goto
  <2>3. next \in TabStages
    BY Zenon DEF TabStages
  <2> QED
    BY <1>1, <1>2, <1>3, <1>9, <2>1, <2>2, <2>3, GiveUpStep, Zenon
<1>10. CASE c \in Tabs /\ tab_lost(c)
  <2>1. Lost(c) /\ busy' = busy \ {c}
        /\ UNCHANGED <<phase, boot, revision, answer, queue, cookie, memory, ran, stale>>
    BY <1>10, Zenon DEF tab_lost, server
  <2>2. PICK next \in {"closed", "idle"} : stage' = [stage EXCEPT ![c] = next]
    BY <1>10, Zenon DEF tab_lost, Goto
  <2>3. next \in TabStages
    BY Zenon DEF TabStages
  <2> QED
    BY <1>1, <1>2, <1>3, <1>10, <2>1, <2>2, <2>3, GiveUpStep, Zenon
<1> QED
  BY <1>5, <1>6, <1>7, <1>8, <1>9, <1>10, Zenon

\* The first connection leaves the queue.
LEMMA TakenStep ==
  ASSUME WInv, queue # <<>>, queue' = Tail(queue)
  PROVE  /\ queue' \in Seq(Requests)
         /\ Head(queue) \in Requests /\ Head(queue) = queue[1] /\ 1 \in 1 .. Len(queue)
         /\ \A i \in 1 .. Len(queue') : i + 1 \in 1 .. Len(queue) /\ queue'[i] = queue[i + 1]
         /\ \A c : Follows(c, 1)
<1>1. queue \in Seq(Requests)
  BY Zenon DEF WInv, WTypeOK
<1>2. /\ queue' \in Seq(Requests)
      /\ Head(queue) \in Requests /\ Head(queue) = queue[1] /\ 1 \in 1 .. Len(queue)
      /\ \A i \in 1 .. Len(queue') : i + 1 \in 1 .. Len(queue) /\ queue'[i] = queue[i + 1]
  BY <1>1, Taken, Zenon
<1> QED
  BY <1>2, Zenon DEF Follows

\* A connection that closed before it was read leaves the queue.
LEMMA ReadClosedStep ==
  ASSUME WInv, read_closed
  PROVE  WInv'
<1> USE DEF WInv
<1>1. /\ queue # <<>> /\ queue' = Tail(queue)
      /\ UNCHANGED <<phase, boot, revision, answer, cookie, stage, busy, memory, ran, stale>>
  BY Zenon DEF read_closed, server, clients
<1>2. WTypeOK'
  BY <1>1, TakenStep, Zenon DEF WTypeOK, NoAnswer
<1>3. TokensBefore'
  BY <1>1, TakenStep, ZenonT(30) DEF TokensBefore, ReadSince, AskedSince, HasRevision, Token, TokenBy
<1>4. ASSUME NEW c \in Clients PROVE Told(c)'
  BY <1>1, <1>4, TakenStep, LeftAlone, Zenon
<1> QED
  BY <1>1, <1>2, <1>3, <1>4, Zenon

\* A request is answered: a POST has run, or is refused and has not.
LEMMA HandleStep ==
  ASSUME WInv, handle_connection
  PROVE  WInv'
<1> DEFINE r == Head(queue)
<1> USE DEF WInv
<1>1. /\ phase = "serve" /\ phase' = "answer" /\ answer = NoAnswer
      /\ queue # <<>> /\ queue' = Tail(queue)
      /\ handle(r) /\ UNCHANGED <<boot, cookie, stage, busy, memory>>
  BY Zenon DEF handle_connection, Accepting, clients, WTypeOK
<1>2. r \in Requests /\ r = queue[1] /\ 1 \in 1 .. Len(queue) /\ AskedSince(r) /\ r.client \in Clients
  BY <1>1, TakenStep, Zenon DEF TokensBefore, Requests
<1>3. revision \in Nat /\ revision <= MaxRevision /\ boot \in Nat /\ ran \in [Commands -> Nat]
  BY Widths DEF WTypeOK
<1> HIDE DEF r
<1>4. \E code \in {200, 403, 409} :
        /\ Answer(r, code)
        /\ revision' \in 0 .. MaxRevision
        /\ stale' = {}
        /\ IF r.path = "post" /\ code = 200
           THEN ran' = [c \in Commands |-> ran[c] + (IF c = r.client THEN 1 ELSE 0)]
           ELSE ran' = ran
        /\ r.path # "post" => code = 200
  <2>1. CASE r.path = "post" /\ valid_csrf(r) /\ r.revision = revision /\ revision < MaxRevision
             /\ Run(r) /\ Answer(r, 200)
    <3>1. r.by = r.client => r.of = boot
      BY <1>2, <1>3, <2>1 DEF AskedSince, valid_csrf, Requests
    <3>2. stale' = {}
      BY <2>1, <3>1, Zenon DEF Run
    <3>3. revision' \in 0 .. MaxRevision
      BY <1>3, <2>1, Widths DEF Run
    <3> QED
      BY <2>1, <3>2, <3>3, ZenonT(30) DEF Run
  <2>2. CASE r.path = "post" /\ UNCHANGED <<revision, ran, stale>> /\ (Answer(r, 409) \/ Answer(r, 403))
    BY <1>3, <2>2, Widths
  <2>3. CASE r.path # "post" /\ UNCHANGED <<ran, stale>> /\ Answer(r, 200)
             /\ revision' \in {revision, revision + 1} /\ revision' <= MaxRevision
    BY <1>3, <2>3, Widths
  <2> QED
    BY <1>1, <1>3, <2>1, <2>2, <2>3 DEF handle, mutate_if_revision
<1>5. PICK code \in {200, 403, 409} :
        /\ Answer(r, code)
        /\ revision' \in 0 .. MaxRevision
        /\ stale' = {}
        /\ IF r.path = "post" /\ code = 200
           THEN ran' = [c \in Commands |-> ran[c] + (IF c = r.client THEN 1 ELSE 0)]
           ELSE ran' = ran
        /\ r.path # "post" => code = 200
  BY <1>4, Zenon
<1>6. answer'.client = r.client /\ answer'.live = r.live /\ answer'.code = code /\ answer' \in Answers
  BY <1>2, <1>5, ZenonT(30) DEF Answer, Answers, Requests
<1>7. ran' \in [Commands -> Nat]
  BY <1>3, <1>5
<1>8. WTypeOK'
  BY <1>1, <1>5, <1>6, <1>7, TakenStep, ZenonT(30) DEF WTypeOK
<1>9. TokensBefore'
  BY <1>1, TakenStep, SMTT(30) DEF TokensBefore, ReadSince, AskedSince, HasRevision, Token, TokenBy
<1>10. ASSUME NEW c \in Clients, c # r.client PROVE Told(c)'
  <2>1. c \in Commands => ran'[c] = ran[c]
    BY <1>3, <1>5, <1>10
  <2> QED
    BY <1>1, <1>6, <1>10, <2>1, TakenStep, LeftAlone, ZenonT(30)
<1>11. ASSUME NEW c \in Clients, c = r.client PROVE Told(c)'
  <2>1. /\ \A i \in 1 .. Len(queue') :
             i + 1 \in 1 .. Len(queue) /\ i + 1 # 1 /\ queue'[i] = queue[i + 1]
        /\ Told(c)
        /\ r.live <=> Waits(1, c)
        /\ r.path = "post" <=> Posts(1, c)
    BY <1>1, <1>2, <1>11, TakenStep DEF Waits, Posts
  <2>2. r.live => c \in busy /\ r.path = Path[stage[c]] /\ (r.path = "post" <=> stage[c] = "post")
    <3>1. r.live => c \in busy /\ r.path = Path[stage[c]]
      BY <1>2, <2>1 DEF Told, OneConnection
    <3>2. c \in busy => stage[c] \in DOMAIN Path
      BY ZenonT(30) DEF WTypeOK
    <3> QED
      BY <3>1, <3>2, Paths
  <2>3. OneConnection(c)'
    BY <1>1, <1>2, <1>5, <1>6, <2>1, <2>2, SMTT(30) DEF Told, OneConnection, Waits
  <2>4. ASSUME c \in Commands PROVE OnePost(c)' /\ StageTells(c)'
    <3>1. ran[c] \in Nat /\ OnePost(c) /\ StageTells(c)
      BY <1>3, <2>1, <2>4, ZenonT(30) DEF Told
    <3>2. r.path = "post" => /\ ran[c] = 0 /\ (stage[c] = "Failed" \/ (stage[c] = "post" /\ c \in busy))
                             /\ \A i \in 1 .. Len(queue') : ~Posts(i, c)'
      BY <1>2, <2>1, <3>1 DEF OnePost, Posts
    <3>3. ran'[c] = IF r.path = "post" /\ code = 200 THEN ran[c] + 1 ELSE ran[c]
      BY <1>3, <1>5, <1>11, <2>4
    <3>4. OnePost(c)'
      <4>1. CASE r.path = "post"
        BY <1>1, <1>6, <3>2, <3>3, <4>1 DEF OnePost
      <4>2. CASE r.path # "post"
        BY <1>1, <1>6, <2>1, <2>2, <3>1, <3>3, <4>2, SMTT(30) DEF OnePost, Posts
      <4> QED
        BY <4>1, <4>2, Zenon
    <3>5. StageTells(c)'
      BY <1>1, <3>1, <3>2, <3>3 DEF StageTells
    <3> QED
      BY <3>4, <3>5, Zenon
  <2> QED
    BY <2>3, <2>4, ZenonT(30) DEF Told
<1> QED
  BY <1>5, <1>8, <1>9, <1>10, <1>11

\* The client reads the answer: the status read is of this process.
LEMMA ReceiveStep ==
  ASSUME WInv, write_response, answer.live
  PROVE  WInv'
<1> USE DEF WInv
<1>0. PICK c : c = answer.client
  BY Zenon
<1>1. /\ phase = "answer" /\ phase' = "serve" /\ answer' = NoAnswer
      /\ Receive(c, answer) /\ UNCHANGED <<boot, revision, queue, ran, stale>>
  BY <1>0, Zenon DEF write_response
<1>2. /\ answer \in Answers /\ c \in Clients /\ answer.code \in {200, 403, 409}
      /\ answer.revision \in 0 .. MaxRevision
  BY <1>0, <1>1, ZenonT(30) DEF WTypeOK, Answers
<1>3. /\ Told(c) /\ c \in busy /\ stage[c] \in DOMAIN Path
      /\ stage[c] # "post" => answer.code = 200
      /\ \A i \in 1 .. Len(queue) : ~Waits(i, c)
  BY <1>0, <1>2, SMTT(30) DEF Told, OneConnection, WTypeOK
<1>4. /\ c \in Commands => c \notin Tabs /\ stage[c] \in {"probe", "poll", "csrf", "status", "post"}
      /\ c \in Tabs => c \notin Commands /\ stage[c] \in {"page", "refresh", "refresh_first", "post"}
      /\ c \in Commands \cup Tabs
  <2>1. stage[c] \in {"probe", "poll", "csrf", "page", "status", "refresh", "refresh_first", "post"}
    BY <1>3, Zenon DEF Path
  <2>2. /\ c \in Commands => stage[c] \in CommandStages
        /\ c \in Tabs => stage[c] \in TabStages
        /\ c \in Commands \cup Tabs
    BY <1>2 DEF WTypeOK, Clients
  <2> QED
    BY <2>1, <2>2, WebAssumption, Zenon DEF CommandStages, TabStages
<1>5. PICK next \in CommandStages \cup TabStages :
        /\ stage' = [stage EXCEPT ![c] = next]
        /\ c \in Commands => next \in CommandStages
        /\ c \in Tabs => next \in TabStages
        /\ next = "csrf" => stage[c] \in {"probe", "poll"}
        /\ next \notin {"probe", "poll", "unit", "page"}
        /\ c \in Commands /\ stage[c] = "post" =>
              IF answer.code = 200 THEN next = "Ok" ELSE next \in {"RevisionConflict", "ServiceRejected"}
        /\ c \in Commands /\ stage[c] # "post" => next \in {"csrf", "status", "post"}
  <2>1. Goto(c, IF stage[c] = "post" /\ c \in Tabs THEN "refresh"
                ELSE IF answer.code = 200 THEN Following[stage[c]] ELSE Refusal[answer.code])
    BY <1>1, Zenon DEF Receive
  <2>0. /\ Following["probe"] = "csrf" /\ Following["poll"] = "csrf" /\ Following["csrf"] = "status"
        /\ Following["status"] = "post" /\ Following["post"] = "Ok" /\ Following["page"] = "refresh"
        /\ Following["refresh"] = "idle" /\ Following["refresh_first"] = "post"
    BY ONLY Zenon DEF Following
  <2>2. CASE stage[c] = "post" /\ c \in Tabs
    BY <1>4, <2>1, <2>2, Zenon DEF Goto, TabStages
  <2>3. CASE c \in Tabs /\ stage[c] # "post"
    <3>1. stage' = [stage EXCEPT ![c] = Following[stage[c]]]
      BY <1>3, <2>1, <2>3, Zenon DEF Goto
    <3>2. Following[stage[c]] \in {"refresh", "idle", "post"}
      BY ONLY <1>4, <2>0, <2>3, Zenon
    <3>3. {"refresh", "idle", "post"} \subseteq TabStages
      BY Zenon DEF TabStages
    <3> QED
      BY <1>4, <2>3, <3>1, <3>2, <3>3, Zenon
  <2>4. CASE c \in Commands /\ answer.code = 200
    <3>1. stage' = [stage EXCEPT ![c] = Following[stage[c]]]
      BY <1>4, <2>1, <2>4, Zenon DEF Goto
    <3>2. /\ Following[stage[c]] \in {"csrf", "status", "post", "Ok"}
          /\ Following[stage[c]] = "Ok" <=> stage[c] = "post"
          /\ Following[stage[c]] = "csrf" => stage[c] \in {"probe", "poll"}
      BY ONLY <1>4, <2>0, <2>4
    <3>3. {"csrf", "status", "post", "Ok"} \subseteq CommandStages
      BY Zenon DEF CommandStages
    <3> QED
      BY <1>4, <2>4, <3>1, <3>2, <3>3, ZenonT(30)
  <2>5. CASE c \in Commands /\ answer.code # 200
    <3>1. Refusal[answer.code] \in {"RevisionConflict", "ServiceRejected"}
      BY <1>2, <2>5 DEF Refusal
    <3> QED
      BY <1>3, <1>4, <2>1, <2>5, <3>1, ZenonT(30) DEF Goto, CommandStages
  <2> QED
    BY <1>4, <2>2, <2>3, <2>4, <2>5, Zenon
<1>6. busy' = busy \ {c}
  BY <1>1, Zenon DEF Receive
<1>7. cookie' = IF stage[c] = "page" THEN [token |-> boot, by |-> c] ELSE cookie
  BY <1>1, Zenon DEF Receive
<1>8. /\ memory' \in [Clients -> [token : Nat, revision : Nat, of : Nat]]
      /\ \A d \in Clients \ {c} : memory'[d] = memory[d]
      /\ \/ memory'[c] = memory[c]
         \/ /\ stage[c] = "csrf" /\ memory'[c].token = boot
            /\ memory'[c].revision = memory[c].revision /\ memory'[c].of = memory[c].of
         \/ /\ stage[c] \in {"status", "refresh", "refresh_first"}
            /\ memory'[c].token = memory[c].token /\ memory'[c].of = boot
      /\ stage[c] \in {"probe", "poll", "page"} => memory'[c] = memory[c]
  <2>1. /\ memory \in [Clients -> [token : Nat, revision : Nat, of : Nat]] /\ boot \in Nat
        /\ answer.revision \in Nat
    BY <1>2, Widths DEF WTypeOK
  <2>2. memory' = IF answer.code # 200 THEN memory
                  ELSE CASE stage[c] = "csrf" -> [memory EXCEPT ![c].token = boot]
                         [] stage[c] \in {"status", "refresh", "refresh_first"} ->
                               [memory EXCEPT ![c] = [token |-> @.token, revision |-> answer.revision, of |-> boot]]
                         [] OTHER -> memory
    BY <1>1, Zenon DEF Receive
  <2>3. CASE memory' = memory
    BY ONLY <1>2, <2>1, <2>3, Zenon
  <2>4. CASE stage[c] = "csrf" /\ memory' = [memory EXCEPT ![c].token = boot]
    BY ONLY <1>2, <2>1, <2>4
  <2>5. CASE /\ stage[c] \in {"status", "refresh", "refresh_first"}
             /\ memory' = [memory EXCEPT ![c] = [token |-> @.token, revision |-> answer.revision, of |-> boot]]
    BY ONLY <1>2, <2>1, <2>5, SMTT(30)
  <2> QED
    BY <2>2, <2>3, <2>4, <2>5
<1>9. WTypeOK'
  <2>1. cookie' \in [token : Nat, by : Clients \cup {"nobody", "another_tab"}]
    BY <1>2, <1>7, Zenon DEF WTypeOK
  <2>2. /\ stage' \in [Clients -> CommandStages \cup TabStages]
        /\ \A d \in Commands : stage'[d] \in CommandStages
        /\ \A t \in Tabs : stage'[t] \in TabStages
    BY <1>5, ZenonT(30) DEF WTypeOK, Clients
  <2>3. busy' \subseteq Clients /\ \A d \in busy' : stage'[d] \in DOMAIN Path
    BY <1>5, <1>6, ZenonT(30) DEF WTypeOK
  <2> QED
    BY <1>1, <1>8, <2>1, <2>2, <2>3, Zenon DEF WTypeOK, Path, NoAnswer
<1>10. TokensBefore'
  <2>1. boot \in Nat /\ cookie'.token <= boot
    BY <1>7 DEF WTypeOK, TokensBefore
  <2>2. ASSUME NEW d \in Clients, d # c PROVE ReadSince(d)'
    <3>1. ReadSince(d) /\ stage'[d] = stage[d] /\ memory'[d] = memory[d]
      BY <1>5, <1>8, <2>2 DEF TokensBefore, WTypeOK
    <3>2. TokenBy(d)' = d => TokenBy(d) = d /\ Token(d)' = Token(d)
      BY <1>7, <2>2, <3>1, Zenon DEF TokenBy, Token
    <3> QED
      BY <1>1, <3>1, <3>2, Zenon DEF ReadSince, HasRevision
  <2>3. ReadSince(c)'
    <3>1. ReadSince(c) /\ memory[c].token \in Nat /\ memory[c].of \in Nat /\ stage'[c] = next
      BY <1>2, <1>5, ClientsTyped, SMTT(30) DEF TokensBefore, WTypeOK
    <3>2. CASE stage[c] \in {"probe", "poll", "page"}
      BY <1>1, <1>5, <1>8, <2>1, <3>1, <3>2, Zenon DEF ReadSince, HasRevision
    <3>3. CASE stage[c] = "csrf"
      BY <1>1, <1>5, <1>8, <2>1, <3>1, <3>3 DEF ReadSince, HasRevision
    <3>4. CASE stage[c] \in {"status", "refresh", "refresh_first"} /\ memory'[c].of = boot
               /\ memory'[c].token = memory[c].token
      <4>1. Token(c)' <= boot
        BY <1>1, <1>8, <2>1, <3>1, <3>4, Zenon DEF ReadSince, Token
      <4> QED
        BY <1>1, <1>5, <2>1, <3>1, <3>4, <4>1, SMTT(30) DEF ReadSince, HasRevision
    <3>5. CASE stage[c] \notin {"probe", "poll", "page", "csrf"} /\ memory'[c] = memory[c]
      <4>1. Token(c)' = Token(c) /\ TokenBy(c)' = TokenBy(c)
        BY <1>7, <3>5, Zenon DEF Token, TokenBy
      <4> QED
        BY <1>1, <1>5, <3>1, <3>5, <4>1, ZenonT(30) DEF ReadSince, HasRevision
    <3> QED
      BY <1>8, <3>2, <3>3, <3>4, <3>5, Zenon
  <2> QED
    BY <1>1, <2>1, <2>2, <2>3, Zenon DEF TokensBefore, AskedSince
<1>11. ASSUME NEW d \in Clients, d # c PROVE Told(d)'
  <2>1. Follows(d, 0)
    BY <1>1, Same, Zenon
  <2>2. answer'.client # d
    BY <1>1, WebAssumption, Zenon DEF NoAnswer, Clients
  <2>3. stage'[d] = stage[d]
    BY <1>5, <1>11, Zenon DEF WTypeOK
  <2> QED
    BY <1>1, <1>6, <1>11, <2>1, <2>2, <2>3, LeftAlone, Zenon
<1>12. Told(c)'
  <2>1. /\ answer'.client # c /\ c \notin busy' /\ stage'[c] = next
        /\ \A i \in 1 .. Len(queue') : ~Waits(i, c)'
    BY <1>1, <1>2, <1>3, <1>5, <1>6, WebAssumption, SMTT(30) DEF NoAnswer, Clients, Waits, WTypeOK
  <2>2. OneConnection(c)'
    BY <2>1, Zenon DEF OneConnection
  <2>3. ASSUME c \in Commands PROVE OnePost(c)' /\ StageTells(c)'
    <3>1. OnePost(c) /\ StageTells(c) /\ answer.client = c /\ answer.live
      BY <1>0, <1>3, <2>3, Zenon DEF Told
    <3>2. \A i \in 1 .. Len(queue') : ~Posts(i, c)'
      BY <1>1, <1>4, <2>3, <3>1, Zenon DEF OnePost, Posts
    <3>3. OnePost(c)'
      BY <2>1, <3>2, Zenon DEF OnePost
    <3>4. CASE stage[c] = "post"
      <4>1. ran'[c] = IF answer.code = 200 THEN 1 ELSE 0
        BY <1>1, <3>1, <3>4, Zenon DEF OnePost
      <4>2. IF answer.code = 200 THEN next = "Ok" ELSE next \in {"RevisionConflict", "ServiceRejected"}
        BY <1>5, <2>3, <3>4, Zenon
      <4>3. stage'[c] = next
        BY <2>1, Zenon
      <4>4. StageTells(c)'
        BY ONLY <4>1, <4>2, <4>3 DEF StageTells
      <4> QED
        BY <3>3, <4>4, Zenon
    <3>5. CASE stage[c] # "post"
      BY <1>1, <1>4, <1>5, <2>1, <2>3, <3>1, <3>3, <3>5, Zenon DEF StageTells
    <3> QED
      BY <3>3, <3>4, <3>5, Zenon DEF StageTells
  <2> QED
    BY <2>2, <2>3, Zenon DEF Told
<1> QED
  BY <1>1, <1>9, <1>10, <1>11, <1>12, Zenon

\* Nobody reads the answer any more.
LEMMA UnreadStep ==
  ASSUME WInv, write_response, ~answer.live
  PROVE  WInv'
<1> USE DEF WInv
<1>1. /\ phase' = "serve" /\ answer' = NoAnswer
      /\ UNCHANGED <<boot, revision, queue, cookie, stage, busy, memory, ran, stale>>
  BY Zenon DEF write_response, clients
<1>2. WTypeOK' /\ TokensBefore'
  BY <1>1, Zenon DEF WTypeOK, TokensBefore, ReadSince, AskedSince, HasRevision, Token, TokenBy
<1>3. ASSUME NEW c \in Clients PROVE Told(c)'
  <2>1. Follows(c, 0) /\ answer'.client # c
    BY <1>1, Same, WebAssumption, Zenon DEF NoAnswer, Clients
  <2> QED
    BY <1>1, <1>3, <2>1, LeftAlone, Zenon
<1> QED
  BY <1>1, <1>2, <1>3, Zenon

\* Every step of the server and of its clients keeps the invariant.
LEMMA WebStep == WInv /\ [WNext]_wvars => WInv'
<1> SUFFICES ASSUME WInv, [WNext]_wvars PROVE WInv'
  BY Zenon
<1>1. CASE Command
  BY <1>1, RequestStep, ClientStep, Zenon DEF Command, Clients
<1>2. CASE Browser
  BY <1>2, RequestStep, ClientStep, ProcessStep, Zenon DEF Browser, Clients
<1>3. CASE Server
  BY <1>3, ProcessStep, DropStep, HandleStep, ReadClosedStep, ReceiveStep, UnreadStep, Zenon DEF Server
<1>4. CASE Environment
  BY <1>4, ProcessStep, DropStep, Zenon DEF Environment
<1>5. CASE UNCHANGED wvars
  BY <1>5, ProcessStep, Zenon
<1> QED
  BY <1>1, <1>2, <1>3, <1>4, <1>5, Zenon DEF WNext

\* The invariant of the control server and its clients.
LEMMA WebInvariant == WSpec => []WInv
  BY WebInitial, WebStep, PTL DEF WSpec

-----------------------------------------------------------------------------
(* The theorems *)

\* What the command line prints is what the service did, for any number of
\* commands and tabs and any number of restarts: a command that ends with
\* success has run once, one that ends with a conflict, a rejection or no
\* service has not run, and none runs twice although answers get lost.
THEOREM AnswersAreTrue == WSpec => []AnswerTrue
<1>1. WInv => AnswerTrue
  BY Zenon DEF WInv, Told, StageTells, AnswerTrue, Clients
<1> QED
  BY <1>1, WebInvariant, PTL

\* The CSRF token and the revision together let no mutation of a client that
\* goes by its own token meet another revision, or the same revision of
\* another service process, than the one whose status it read.
THEOREM MutationsAreCurrent == WSpec => []MutationsCurrent
<1>1. WInv => MutationsCurrent
  BY Zenon DEF WInv, MutationsCurrent
<1> QED
  BY <1>1, WebInvariant, PTL

\* The steps of the service thread before the process is gone, once it is told
\* to stop.
StopLeft ==
    CASE phase = "down" -> 0
      [] phase = "teardown" -> 1
      [] phase = "stopping" -> 2
      [] phase = "serve" -> 3
      [] phase \in {"boot", "answer"} -> 4

\* With the flag set, every step of the service thread takes it nearer to its
\* end, no step of anybody takes it further away, and the flag stays set.
Stopping ==
    signal => /\ Server => StopLeft' < StopLeft
              /\ StopLeft' <= StopLeft
              /\ signal' \/ phase' = "down"

\* What is left in each phase.
LEMMA StopLeftBy ==
    /\ phase = "down" => StopLeft = 0
    /\ phase = "teardown" => StopLeft = 1
    /\ phase = "stopping" => StopLeft = 2
    /\ phase = "serve" => StopLeft = 3
    /\ phase \in {"boot", "answer"} => StopLeft = 4
BY DEF StopLeft

\* The same after a step.
LEMMA StopLeftNext ==
    /\ phase' = "down" => StopLeft' = 0
    /\ phase' = "teardown" => StopLeft' = 1
    /\ phase' = "stopping" => StopLeft' = 2
    /\ phase' = "serve" => StopLeft' = 3
    /\ phase' \in {"boot", "answer"} => StopLeft' = 4
BY DEF StopLeft

\* Only a process that is gone has the flag cleared, and it has it cleared.
Flagged ==
    /\ phase \in {"down", "boot", "serve", "answer", "stopping", "teardown"}
    /\ signal \in BOOLEAN
    /\ signal => phase # "down"

\* What the service thread does with the flag set: it goes on to the next phase.
LEMMA ServerMoves ==
    ASSUME Server, signal \in BOOLEAN
    PROVE  \/ /\ UNCHANGED signal
              /\ \/ phase \in {"boot", "answer"} /\ phase' = "serve"
                 \/ phase = "serve" /\ phase' = "stopping"
                 \/ phase = "stopping" /\ phase' = "teardown"
           \/ phase = "teardown" /\ phase' = "down" /\ signal' = FALSE
           \/ ~signal /\ UNCHANGED signal /\ phase = "serve" /\ phase' \in {"serve", "answer"}
BY Zenon DEF Server, bind, handle_connection, read_closed, write_response, serve_returns, shutdown_for_exit,
     finish_service, Exit, Accepting, server

\* What anybody else does to the phase and the flag.
LEMMA OthersMove ==
    ASSUME Command \/ Browser \/ Environment \/ UNCHANGED wvars
    PROVE  \/ UNCHANGED <<phase, signal>>
           \/ phase = "down" /\ phase' = "boot" /\ UNCHANGED signal
           \/ phase # "down" /\ UNCHANGED phase /\ signal' = TRUE
           \/ ~signal /\ UNCHANGED signal /\ phase = "serve" /\ phase' = "stopping"
           \/ phase # "down" /\ phase' = "down" /\ signal' = FALSE
<1>1. CASE Command
  BY <1>1, Zenon DEF Command, request, command_lost, command_timed_out, start_user_unit_once, server
<1>2. CASE Browser \/ UNCHANGED wvars
  BY <1>2, Zenon DEF Browser, request, load_page, mutate, tab_lost, another_tab, server, wvars
<1>3. CASE Environment
  BY <1>3, Zenon DEF Environment, termination, accept_failed, process_dies, unit_started, Exit, Accepting
<1> QED
  BY <1>1, <1>2, <1>3

\* Every step keeps the flag, and brings the end nearer once it is set.
LEMMA FlagStep == Flagged /\ [WNext]_wvars => Flagged' /\ Stopping
<1> SUFFICES ASSUME Flagged, [WNext]_wvars PROVE Flagged' /\ Stopping
  OBVIOUS
<1>1. StopLeft \in Nat
  BY StopLeftBy DEF Flagged
<1>2. ASSUME Server
      PROVE  Flagged' /\ (signal => StopLeft' < StopLeft /\ StopLeft' <= StopLeft /\ (signal' \/ phase' = "down"))
  <2>1. Flagged'
    BY <1>2, ServerMoves, Zenon DEF Flagged
  <2>2. ASSUME signal
        PROVE  /\ \/ phase \in {"boot", "answer"} /\ phase' = "serve"
                  \/ phase = "serve" /\ phase' = "stopping"
                  \/ phase = "stopping" /\ phase' = "teardown"
                  \/ phase = "teardown" /\ phase' = "down"
               /\ signal' \/ phase' = "down"
    BY <1>2, <2>2, ServerMoves, Zenon DEF Flagged
  <2>3. ASSUME signal PROVE StopLeft' < StopLeft /\ StopLeft' <= StopLeft
    BY <2>2, <2>3, StopLeftBy, StopLeftNext
  <2> QED
    BY <2>1, <2>2, <2>3, Zenon
<1>3. ASSUME Command \/ Browser \/ Environment \/ UNCHANGED wvars
      PROVE  Flagged' /\ (signal => StopLeft' <= StopLeft /\ (signal' \/ phase' = "down"))
  <2>1. UNCHANGED phase => StopLeft' = StopLeft
    BY Zenon DEF StopLeft
  <2>2. Flagged'
    <3>1. CASE UNCHANGED <<phase, signal>>
      BY <3>1, Zenon DEF Flagged
    <3>2. CASE phase # "down" /\ UNCHANGED phase /\ signal' = TRUE
      BY <3>2, Zenon DEF Flagged
    <3>3. CASE phase' \in {"boot", "stopping"} /\ UNCHANGED signal
      BY <3>3, Zenon DEF Flagged
    <3>4. CASE phase' = "down" /\ signal' = FALSE
      BY <3>4, Zenon DEF Flagged
    <3> QED
      BY <1>3, <3>1, <3>2, <3>3, <3>4, OthersMove, Zenon
  <2>3. ASSUME signal PROVE UNCHANGED phase \/ phase' = "down"
    BY <1>3, <2>3, OthersMove, Zenon DEF Flagged
  <2>4. ASSUME signal PROVE signal' \/ phase' = "down"
    BY <1>3, <2>4, OthersMove, Zenon DEF Flagged
  <2>5. ASSUME signal PROVE StopLeft' <= StopLeft
    BY <1>1, <2>1, <2>3, <2>5, StopLeftNext
  <2> QED
    BY <2>2, <2>4, <2>5, Zenon
<1> QED
  BY <1>2, <1>3, Zenon DEF WNext, Stopping

\* The safety core of SignalEnds: a service that is told to stop is gone after
\* at most four more steps of its own thread, however many clients keep asking,
\* and nobody can call it back.
THEOREM SignalCountsDown ==
    WSpec => [](signal => StopLeft > 0) /\ [](StopLeft = 0 <=> phase = "down") /\ [][Stopping]_wvars
<1>1. WInit => Flagged
  BY DEF WInit, Flagged
<1>2. Flagged => (signal => StopLeft > 0) /\ (StopLeft = 0 <=> phase = "down")
  BY StopLeftBy DEF Flagged
<1>3. Flagged /\ [WNext]_wvars => Flagged'
  BY FlagStep, Zenon
<1>4. Flagged /\ [WNext]_wvars => [Stopping]_wvars
  BY FlagStep, Zenon
<1> QED
  BY <1>1, <1>2, <1>3, <1>4, PTL DEF WSpec
=============================================================================
