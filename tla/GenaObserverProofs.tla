------------------------ MODULE GenaObserverProofs ------------------------
(***************************************************************************)
(* ConfirmedTrue and OrderlyAccepted for every set of subscriptions, any   *)
(* number of commands, events and connections, and every largest key.  A   *)
(* confirming event of the subscription is under way only if the command   *)
(* it answers is done, since that command is the last of its kind in the   *)
(* speaker's queue; and as long as nothing was lost, repeated or overtaken *)
(* the keys under way continue the last key seen without a gap, also where *)
(* they roll over.                                                         *)
(***************************************************************************)
EXTENDS GenaObserver, FiniteSetTheorems, TLAPS

\* A sequence without its head.
LEMMA Beheaded ==
  ASSUME NEW S, NEW s \in Seq(S), s # <<>>
  PROVE  /\ Head(s) \in S /\ Head(s) = s[1] /\ Len(s) \in Nat /\ Len(s) >= 1
         /\ Tail(s) \in Seq(S) /\ Len(Tail(s)) = Len(s) - 1
         /\ \A i \in 1 .. Len(Tail(s)) : Tail(s)[i] = s[i + 1]
BY SMT

\* One sequence behind another.
LEMMA Joined ==
  ASSUME NEW S, NEW s \in Seq(S), NEW t \in Seq(S)
  PROVE  /\ s \o t \in Seq(S) /\ Len(s \o t) = Len(s) + Len(t)
         /\ \A i \in 1 .. Len(s) + Len(t) : (s \o t)[i] = IF i <= Len(s) THEN s[i] ELSE t[i - Len(s)]
BY SMT
-----------------------------------------------------------------------------

GenaEvents == [sid : Sids, seq : 0 .. MaxSeq, code : {0, 31, 32, 33, 34}]
Keys == 0 .. MaxSeq \cup {None}

GenaTypeOK ==
    /\ gpc \in {"idle", "armed", "observe", "finish"} /\ action \in Actions
    /\ gpc = "idle" => sub = NoSub
    /\ gpc # "idle" => sub \in [sid : Sids, last : Keys]
    /\ gpc = "armed" => sub.last = None
    /\ gpc \in {"armed", "observe"} => result = "pending"
    /\ queue \in Seq(Actions) /\ on \in BOOLEAN
    /\ served \in [Sids -> Keys]
    /\ air \in Seq(GenaEvents)

Done == queue = <<>> /\ (on <=> action = "Start")
Confirms(i) == air[i].sid = sub.sid /\ air[i].code = Confirming(action)

\* Without a backlog the command of the transaction is the last one the speaker
\* has to carry out that is equal to it, so that an event of the subscription
\* confirming the action was sent when that command had been carried out.
ConfirmedWhy ==
    ~backlog =>
        /\ gpc = "armed" => /\ \A i \in 1 .. Len(queue) : queue[i] # action
                            /\ \A i \in 1 .. Len(air) : ~Confirms(i)
        /\ gpc \in {"observe", "finish"} => /\ \A i \in 1 .. Len(queue) : queue[i] = action => i = Len(queue)
                                            /\ \A i \in 1 .. Len(air) : Confirms(i) => Done
        /\ gpc \in {"idle", "finish"} /\ result = "confirmed" => Done

\* The events of the subscription under way carry consecutive keys, from the
\* one behind the last key seen to the one the speaker used last.
Mine(i) == air[i].sid = sub.sid
Chained ==
    /\ served[sub.sid] # None
    /\ \A i \in 1 .. Len(air) : Mine(i) /\ (\A j \in 1 .. Len(air) : j < i => ~Mine(j)) =>
          sub.last = None \/ air[i].seq = NextKey(sub.last)
    /\ \A i, j \in 1 .. Len(air) :
          i < j /\ Mine(i) /\ Mine(j) /\ (\A k \in 1 .. Len(air) : i < k /\ k < j => ~Mine(k)) =>
              air[j].seq = NextKey(air[i].seq)
    /\ \A i \in 1 .. Len(air) : Mine(i) /\ (\A j \in 1 .. Len(air) : i < j => ~Mine(j)) =>
          served[sub.sid] = NextKey(air[i].seq)
    /\ (\A i \in 1 .. Len(air) : ~Mine(i)) => sub.last = None \/ served[sub.sid] = NextKey(sub.last)

OrderlyWhy == orderly => OrderlyAccepted /\ (gpc \in {"armed", "observe"} => Chained)

GenaInv == GenaTypeOK /\ ConfirmedWhy /\ OrderlyWhy

\* The key behind a key is a key.
LEMMA NextKeyType == ASSUME NEW key \in 0 .. MaxSeq PROVE NextKey(key) \in 0 .. MaxSeq
  BY KeysAssumption, SMT DEF NextKey

\* What the speaker sends: one event to each live subscription, behind those
\* under way.
LEMMA SendGives ==
  ASSUME GenaTypeOK, NEW code \in {0, 31, 32, 33, 34}, Send(code)
  PROVE  /\ air' \in Seq(GenaEvents) /\ Len(air) \in Nat /\ Len(air') \in Nat /\ Len(air) <= Len(air')
         /\ \A i \in 1 .. Len(air) : i \in 1 .. Len(air') /\ air'[i] = air[i]
         /\ \A i \in 1 .. Len(air') : i > Len(air) =>
               air'[i].code = code /\ air'[i].seq = served[air'[i].sid]
         /\ \A sid \in Live : \E i \in 1 .. Len(air') : i > Len(air) /\ air'[i].sid = sid
         /\ \A i, j \in 1 .. Len(air') : i > Len(air) /\ j > Len(air) /\ air'[i].sid = air'[j].sid => i = j
         /\ served' \in [Sids -> Keys]
         /\ \A sid \in Live : served'[sid] = NextKey(served[sid]) /\ served'[sid] # None
<1> DEFINE n == Cardinality(Live)
<1>1. n \in Nat /\ Live \subseteq Sids
  <2>1. Live \in SUBSET Sids /\ IsFiniteSet(Sids)
    BY KeysAssumption, Zenon DEF Live
  <2> QED
    BY <2>1, FS_Subset, FS_CardinalityType
<1>2. PICK order \in Bijection(1 .. n, Live) :
        air' = air \o [i \in 1 .. n |-> [sid |-> order[i], seq |-> served[order[i]], code |-> code]]
  BY Zenon DEF Send
<1> HIDE DEF n
<1>3. /\ order \in [1 .. n -> Live]
      /\ \A i, j \in 1 .. n : order[i] = order[j] => i = j
      /\ \A sid \in Live : \E i \in 1 .. n : order[i] = sid
  BY <1>2 DEF Bijection, Injection, Surjection, IsInjective
<1> DEFINE events == [i \in 1 .. n |-> [sid |-> order[i], seq |-> served[order[i]], code |-> code]]
<1>4. \A sid \in Live : sid \in Sids /\ served[sid] \in 0 .. MaxSeq
  BY <1>1 DEF Live, GenaTypeOK, Keys
<1>5. \A i \in 1 .. n : /\ events[i] \in GenaEvents /\ events[i].sid = order[i]
                        /\ events[i].seq = served[order[i]] /\ events[i].code = code
  BY <1>3, <1>4, SMT DEF GenaEvents
<1>6. events \in Seq(GenaEvents) /\ Len(events) = n
  <2>1. DOMAIN events = 1 .. n /\ \A i \in DOMAIN events : events[i] \in GenaEvents
    BY <1>5, Zenon
  <2>2. events = [i \in 1 .. n |-> events[i]]
    BY Zenon
  <2> HIDE DEF events
  <2> QED
    BY ONLY <1>1, <2>1, <2>2, SMT
<1>7. air' = air \o events
  BY <1>2, Zenon
<1>8. air \in Seq(GenaEvents)
  BY Zenon DEF GenaTypeOK
<1> HIDE DEF events
<1>9. /\ air' \in Seq(GenaEvents) /\ Len(air') = Len(air) + n /\ Len(air) \in Nat
      /\ \A i \in 1 .. Len(air) + n : air'[i] = IF i <= Len(air) THEN air[i] ELSE events[i - Len(air)]
  <2>1. /\ air \o events \in Seq(GenaEvents) /\ Len(air \o events) = Len(air) + Len(events)
        /\ \A i \in 1 .. Len(air) + Len(events) :
             (air \o events)[i] = IF i <= Len(air) THEN air[i] ELSE events[i - Len(air)]
    BY ONLY <1>6, <1>8, Joined, Zenon
  <2>2. Len(air) \in Nat
    BY ONLY <1>8, SMT
  <2> QED
    BY ONLY <1>6, <1>7, <2>1, <2>2, Zenon
<1>10. \A i \in 1 .. Len(air') : i > Len(air) => i - Len(air) \in 1 .. n /\ air'[i] = events[i - Len(air)]
  BY ONLY <1>1, <1>9, SMT
<1>11. \A i \in 1 .. n : i + Len(air) \in 1 .. Len(air') /\ i + Len(air) > Len(air) /\ air'[i + Len(air)] = events[i]
  BY ONLY <1>1, <1>9, SMT
<1>12. \A i \in 1 .. Len(air') : i > Len(air) => air'[i].code = code /\ air'[i].seq = served[air'[i].sid]
  BY ONLY <1>5, <1>10, SMT
<1>13. \A sid \in Live : \E i \in 1 .. Len(air') : i > Len(air) /\ air'[i].sid = sid
  BY ONLY <1>3, <1>5, <1>11, SMT
<1>14. ASSUME NEW i \in 1 .. Len(air'), NEW j \in 1 .. Len(air'), i > Len(air), j > Len(air), air'[i].sid = air'[j].sid
       PROVE  i = j
  <2>1. i - Len(air) = j - Len(air)
    BY ONLY <1>3, <1>5, <1>10, <1>14, SMT
  <2> QED
    BY ONLY <1>9, <1>14, <2>1, SMT
<1>15. /\ served' \in [Sids -> Keys]
       /\ \A sid \in Live : served'[sid] = NextKey(served[sid]) /\ served'[sid] # None
  <2>1. \A sid \in Live : NextKey(served[sid]) \in 0 .. MaxSeq /\ NextKey(served[sid]) # None
    BY <1>4, NextKeyType, KeysAssumption, Zenon
  <2>2. served' = [sid \in Sids |-> IF sid \in Live THEN NextKey(served[sid]) ELSE None]
    BY Zenon DEF Send
  <2> QED
    BY <1>1, <2>1, <2>2, Zenon DEF Keys
<1>16. /\ Len(air) <= Len(air') /\ Len(air') \in Nat
       /\ \A i \in 1 .. Len(air) : i \in 1 .. Len(air') /\ air'[i] = air[i]
  BY ONLY <1>1, <1>9, SMT
<1> QED
  BY ONLY <1>9, <1>12, <1>13, <1>14, <1>15, <1>16, Zenon

\* An event under way is lost or taken: the others stay in order.
LEMMA WithoutGives ==
  ASSUME GenaTypeOK, NEW i \in 1 .. Len(air), air' = Without(i)
  PROVE  /\ air' \in Seq(GenaEvents) /\ Len(air) \in Nat /\ Len(air') = Len(air) - 1
         /\ \A j \in 1 .. Len(air') : \E k \in 1 .. Len(air) : air'[j] = air[k]
         /\ i = 1 => \A j \in 1 .. Len(air') : j + 1 \in 1 .. Len(air) /\ air'[j] = air[j + 1]
<1>1. air \in Seq(GenaEvents)
  BY Zenon DEF GenaTypeOK
<1>2. /\ Len(air) \in Nat /\ \A j \in 1 .. Len(air) : air[j] \in GenaEvents
      /\ \A j \in 1 .. Len(air) - 1 : j \in 1 .. Len(air) /\ j + 1 \in 1 .. Len(air) /\ (i = 1 => ~(j < i))
  BY ONLY <1>1, i \in 1 .. Len(air), SMT
<1> DEFINE m == Len(air) - 1
<1>3. m \in Nat
  BY ONLY <1>2, i \in 1 .. Len(air), SMT
<1>4. \A j \in 1 .. m : (IF j < i THEN j ELSE j + 1) \in 1 .. Len(air)
  BY ONLY <1>2, Zenon
<1>5. air' = [j \in 1 .. m |-> air[IF j < i THEN j ELSE j + 1]]
  BY Zenon DEF Without
<1>6. \A j \in 1 .. m : air'[j] = air[IF j < i THEN j ELSE j + 1] /\ air'[j] \in GenaEvents
  BY ONLY <1>2, <1>4, <1>5, Zenon
<1> HIDE DEF m
<1>7. air' \in Seq(GenaEvents) /\ Len(air') = m
  <2>1. air' = [j \in 1 .. m |-> air'[j]]
    BY ONLY <1>5, Zenon
  <2> QED
    BY ONLY <1>3, <1>6, <2>1, SMT
<1>8. \A j \in 1 .. Len(air') : \E k \in 1 .. Len(air) : air'[j] = air[k]
  BY ONLY <1>4, <1>6, <1>7, Zenon
<1>9. i = 1 => \A j \in 1 .. Len(air') : j + 1 \in 1 .. Len(air) /\ air'[j] = air[j + 1]
  BY ONLY <1>2, <1>6, <1>7, Zenon DEF m
<1> QED
  BY <1>2, <1>7, <1>8, <1>9, Zenon DEF m

\* The chain is about the subscription, the events under way and the next key.
LEMMA SameChain ==
  ASSUME Chained, UNCHANGED <<sub, air>>, served'[sub.sid] = served[sub.sid]
  PROVE  Chained'
<1>1. sub' = sub /\ air' = air /\ served'[sub.sid] = served[sub.sid]
  BY Zenon
<1> QED
  BY ONLY Chained, <1>1, ZenonT(30) DEF Chained, Mine

\* A new event of the subscription continues the chain.
LEMMA SendChains ==
  ASSUME GenaTypeOK, gpc # "idle", Chained, NEW code \in {0, 31, 32, 33, 34}, Send(code), UNCHANGED sub
  PROVE  Chained'
<1> DEFINE s == sub.sid
<1>1. s \in Sids /\ s \in Live
  BY SMT DEF GenaTypeOK, Chained, Live
<1>2. PICK m \in 1 .. Len(air') : m > Len(air) /\ air'[m].sid = s
  BY <1>1, SendGives, Zenon
<1>3. /\ \A i \in 1 .. Len(air) : i \in 1 .. Len(air') /\ air'[i] = air[i] /\ i < m
      /\ \A i \in 1 .. Len(air') : i \in 1 .. Len(air) \/ i > Len(air)
  <2>1. /\ Len(air) \in Nat /\ Len(air') \in Nat /\ Len(air) <= Len(air')
        /\ \A i \in 1 .. Len(air) : i \in 1 .. Len(air') /\ air'[i] = air[i]
    BY SendGives, Zenon
  <2>2. /\ \A i \in 1 .. Len(air) : i < m
        /\ \A i \in 1 .. Len(air') : i \in 1 .. Len(air) \/ i > Len(air)
    BY ONLY <1>2, <2>1, SMT
  <2> QED
    BY <2>1, <2>2, Zenon
<1>4. \A i \in 1 .. Len(air') : i > Len(air) /\ air'[i].sid = s => i = m
  BY <1>2, SendGives, Zenon
<1>5. air'[m].seq = served[s] /\ served'[s] = NextKey(served[s]) /\ served'[s] # None
  <2>1. air'[m].seq = served[air'[m].sid]
    BY <1>2, SendGives, Zenon
  <2>2. served'[s] = NextKey(served[s]) /\ served'[s] # None
    BY <1>1, SendGives, Zenon
  <2> QED
    BY ONLY <1>2, <2>1, <2>2, SMT
<1>6. sub' = sub
  OBVIOUS
<1>7. \A i \in 1 .. Len(air) : Mine(i)' <=> Mine(i)
  BY <1>3, <1>6, Zenon DEF Mine
<1>8. Mine(m)' /\ \A i \in 1 .. Len(air') : Mine(i)' => i \in 1 .. Len(air) \/ i = m
  BY <1>2, <1>3, <1>4, <1>6, Zenon DEF Mine
<1>9. ASSUME NEW i \in 1 .. Len(air'), Mine(i)', \A j \in 1 .. Len(air') : j < i => ~Mine(j)'
      PROVE  sub'.last = None \/ air'[i].seq = NextKey(sub'.last)
  <2>1. CASE i \in 1 .. Len(air)
    <3>1. Mine(i) /\ \A j \in 1 .. Len(air) : j < i => ~Mine(j)
      BY <1>3, <1>7, <1>9, <2>1, Zenon
    <3> QED
      BY <1>3, <1>6, <2>1, <3>1, Zenon DEF Chained
  <2>2. CASE i = m
    <3>1. \A j \in 1 .. Len(air) : ~Mine(j)
      BY <1>3, <1>7, <1>9, <2>2, Zenon
    <3> QED
      BY <1>5, <1>6, <2>2, <3>1, Zenon DEF Chained
  <2> QED
    BY <1>8, <1>9, <2>1, <2>2, Zenon
<1>10. ASSUME NEW i \in 1 .. Len(air'), NEW j \in 1 .. Len(air'), i < j, Mine(i)', Mine(j)',
              \A k \in 1 .. Len(air') : i < k /\ k < j => ~Mine(k)'
       PROVE  air'[j].seq = NextKey(air'[i].seq)
  <2>0. Len(air') \in Nat /\ \A k \in 1 .. Len(air) : ~(m < k)
    <3>1. Len(air') \in Nat /\ Len(air) \in Nat
      BY SendGives, Zenon
    <3> QED
      BY ONLY <1>2, <3>1, SMT
  <2>1. i \in 1 .. Len(air)
    <3>1. i # m
      <4>1. i = m => j = m
        BY <1>3, <1>8, <1>10, <2>0, Zenon
      <4> QED
        BY ONLY <1>10, <2>0, <4>1, SMT
    <3> QED
      BY <1>8, <1>10, <3>1, Zenon
  <2>2. CASE j \in 1 .. Len(air)
    <3>1. Mine(i) /\ Mine(j) /\ \A k \in 1 .. Len(air) : i < k /\ k < j => ~Mine(k)
      BY <1>3, <1>7, <1>10, <2>1, <2>2, Zenon
    <3>2. air[j].seq = NextKey(air[i].seq)
      BY <1>10, <2>1, <2>2, <3>1, Zenon DEF Chained
    <3>3. air'[i] = air[i] /\ air'[j] = air[j]
      BY <1>3, <2>1, <2>2, Zenon
    <3> QED
      BY <3>2, <3>3, Zenon
  <2>3. CASE j = m
    <3>1. Mine(i) /\ \A k \in 1 .. Len(air) : i < k => ~Mine(k)
      BY <1>3, <1>7, <1>10, <2>1, <2>3, Zenon
    <3> QED
      BY <1>3, <1>5, <2>1, <2>3, <3>1, Zenon DEF Chained
  <2> QED
    BY <1>8, <1>10, <2>2, <2>3, Zenon
<1>11. ASSUME NEW i \in 1 .. Len(air'), Mine(i)', \A j \in 1 .. Len(air') : i < j => ~Mine(j)'
       PROVE  served'[sub'.sid] = NextKey(air'[i].seq)
  <2>1. i = m
    BY <1>3, <1>8, <1>11, Zenon
  <2> QED
    BY <1>5, <1>6, <2>1, Zenon
<1> QED
  BY <1>5, <1>6, <1>8, <1>9, <1>10, <1>11, Zenon DEF Chained

\* The first event under way, if it is one of the subscription, is taken: what
\* remains continues it.
LEMMA TakeChains ==
  ASSUME GenaTypeOK, gpc = "observe", Chained, 1 \in 1 .. Len(air), Mine(1), air' = Without(1), UNCHANGED served,
         sub' = [sub EXCEPT !.last = air[1].seq]
  PROVE  Chained'
<1>1. /\ Len(air) \in Nat /\ Len(air') = Len(air) - 1
      /\ \A j \in 1 .. Len(air') : j + 1 \in 1 .. Len(air) /\ air'[j] = air[j + 1]
  BY WithoutGives, Zenon
<1>2. sub \in [sid : Sids, last : Keys] /\ sub'.sid = sub.sid /\ sub'.last = air[1].seq
  BY SMT DEF GenaTypeOK
<1>3. \A j \in 1 .. Len(air') : Mine(j)' <=> Mine(j + 1)
  BY <1>1, <1>2, Zenon DEF Mine
<1>4. \A k \in 1 .. Len(air) : k = 1 \/ (1 < k /\ k - 1 \in 1 .. Len(air') /\ k - 1 + 1 = k)
  BY ONLY <1>1, SMT
<1>5. \A j, k \in 1 .. Len(air') : 1 < j + 1 /\ (j < k <=> j + 1 < k + 1)
  BY ONLY <1>1, SMT
<1>6. ASSUME NEW i \in 1 .. Len(air'), Mine(i)', \A j \in 1 .. Len(air') : j < i => ~Mine(j)'
      PROVE  air'[i].seq = NextKey(sub'.last)
  <2>1. ASSUME NEW k \in 1 .. Len(air), 1 < k, k < i + 1 PROVE ~Mine(k)
    <3>1. k - 1 \in 1 .. Len(air') /\ k - 1 + 1 = k /\ k - 1 < i
      BY ONLY <1>1, <1>6, <2>1, SMT
    <3> QED
      BY <1>3, <1>6, <3>1, Zenon
  <2>2. air[i + 1].seq = NextKey(air[1].seq)
    BY <1>1, <1>3, <1>5, <1>6, <2>1, Zenon DEF Chained
  <2> QED
    BY <1>1, <1>2, <2>2, Zenon
<1>7. ASSUME NEW i \in 1 .. Len(air'), NEW j \in 1 .. Len(air'), i < j, Mine(i)', Mine(j)',
             \A k \in 1 .. Len(air') : i < k /\ k < j => ~Mine(k)'
      PROVE  air'[j].seq = NextKey(air'[i].seq)
  <2>1. ASSUME NEW k \in 1 .. Len(air), i + 1 < k, k < j + 1 PROVE ~Mine(k)
    <3>1. k - 1 \in 1 .. Len(air') /\ k - 1 + 1 = k /\ i < k - 1 /\ k - 1 < j
      BY ONLY <1>1, <1>7, <2>1, SMT
    <3> QED
      BY <1>3, <1>7, <3>1, Zenon
  <2>2. air[j + 1].seq = NextKey(air[i + 1].seq)
    BY <1>1, <1>3, <1>5, <1>7, <2>1, Zenon DEF Chained
  <2> QED
    BY <1>1, <2>2, Zenon
<1>8. ASSUME NEW i \in 1 .. Len(air'), Mine(i)', \A j \in 1 .. Len(air') : i < j => ~Mine(j)'
      PROVE  served[sub.sid] = NextKey(air'[i].seq)
  <2>1. ASSUME NEW k \in 1 .. Len(air), i + 1 < k PROVE ~Mine(k)
    <3>1. k - 1 \in 1 .. Len(air') /\ k - 1 + 1 = k /\ i < k - 1
      BY ONLY <1>1, <1>8, <2>1, SMT
    <3> QED
      BY <1>3, <1>8, <3>1, Zenon
  <2>2. i + 1 \in 1 .. Len(air) /\ Mine(i + 1) /\ air'[i] = air[i + 1]
    BY <1>1, <1>3, <1>8, Zenon
  <2> QED
    BY <2>1, <2>2, Zenon DEF Chained
<1>9. ASSUME \A i \in 1 .. Len(air') : ~Mine(i)' PROVE served[sub.sid] = NextKey(sub'.last)
  <2>1. \A k \in 1 .. Len(air) : 1 < k => ~Mine(k)
    <3> SUFFICES ASSUME NEW k \in 1 .. Len(air), 1 < k PROVE ~Mine(k)
      OBVIOUS
    <3>1. k - 1 \in 1 .. Len(air') /\ k - 1 + 1 = k
      BY ONLY <1>1, 1 < k, k \in 1 .. Len(air), SMT
    <3> QED
      BY <1>3, <1>9, <3>1, Zenon
  <2> QED
    BY <1>2, <2>1, Zenon DEF Chained
<1>10. served'[sub'.sid] # None
  BY <1>2, Zenon DEF Chained
<1> QED
  BY <1>2, <1>6, <1>7, <1>8, <1>9, <1>10, Zenon DEF Chained

\* The codes tell the actions and the results apart.
LEMMA CodesDiffer ==
  ASSUME NEW a \in Actions, NEW b \in Actions
  PROVE  /\ Confirming(a) \in {0, 31, 32, 33, 34} /\ Rejecting(a) \in {0, 31, 32, 33, 34}
         /\ 0 # Confirming(a) /\ Rejecting(a) # Confirming(b) /\ (Confirming(a) = Confirming(b) => a = b)
BY SMT DEF Actions, Confirming, Rejecting

\* An event that the speaker sends leaves the order as it should be.
LEMMA SendKeepsOrder ==
  ASSUME GenaInv, NEW code \in {0, 31, 32, 33, 34}, Send(code), UNCHANGED <<observer, history>>
  PROVE  OrderlyWhy'
<1>1. UNCHANGED <<gpc, sub, result, orderly>>
  BY Zenon DEF observer, history
<1>2. ASSUME orderly, gpc \in {"armed", "observe"} PROVE Chained'
  <2>1. gpc # "idle" /\ Chained /\ GenaTypeOK
    BY <1>2, SMT DEF GenaInv, OrderlyWhy
  <2> QED
    BY <1>1, <2>1, SendChains, Zenon
<1> QED
  BY <1>1, <1>2, Zenon DEF GenaInv, OrderlyWhy, OrderlyAccepted

\* The speaker carries out a command.
LEMMA CarryOutKeeps ==
  ASSUME GenaInv, CarryOut
  PROVE  GenaInv'
<1> DEFINE h == Head(queue)
<1>0. queue # <<>> /\ queue' = Tail(queue) /\ queue \in Seq(Actions)
  BY Zenon DEF GenaInv, GenaTypeOK, CarryOut
<1>1. /\ GenaTypeOK /\ UNCHANGED <<gpc, action, sub, result, backlog>> /\ UNCHANGED <<observer, history>>
      /\ on \in BOOLEAN /\ action \in Actions
  BY Zenon DEF GenaInv, GenaTypeOK, CarryOut, observer, history
<1>2. /\ h \in Actions /\ h = queue[1] /\ Len(queue) \in Nat /\ Len(queue) >= 1
      /\ Tail(queue) \in Seq(Actions) /\ Len(Tail(queue)) = Len(queue) - 1
      /\ \A i \in 1 .. Len(Tail(queue)) : Tail(queue)[i] = queue[i + 1]
  BY ONLY <1>0, Beheaded, Zenon
<1>3. PICK code \in {0, 31, 32, 33, 34} :
        /\ Send(code)
        /\ \/ code = Confirming(h) /\ on' = (h = "Start")
           \/ code = Rejecting(h) /\ on' = on
  <2>1. \/ on' = (h = "Start") /\ Send(Confirming(h))
        \/ on' = on /\ Send(Rejecting(h))
    BY Zenon DEF CarryOut
  <2>2. Confirming(h) \in {0, 31, 32, 33, 34} /\ Rejecting(h) \in {0, 31, 32, 33, 34}
    BY <1>2, CodesDiffer, Zenon
  <2> HIDE DEF h
  <2> QED
    BY ONLY <2>1, <2>2, Zenon
<1> HIDE DEF h
<1>4. on' \in BOOLEAN
  BY ONLY <1>1, <1>3, Zenon
<1>5. /\ air' \in Seq(GenaEvents) /\ served' \in [Sids -> Keys]
      /\ \A i \in 1 .. Len(air) : air'[i] = air[i]
      /\ \A i \in 1 .. Len(air') : i > Len(air) => air'[i].code = code
      /\ \A i \in 1 .. Len(air') : i \in 1 .. Len(air) \/ i > Len(air)
  <2>1. Len(air) \in Nat /\ Len(air') \in Nat
    BY <1>1, <1>3, SendGives, Zenon
  <2>2. \A i \in 1 .. Len(air') : i \in 1 .. Len(air) \/ i > Len(air)
    BY ONLY <2>1, SMT
  <2> QED
    BY <1>1, <1>3, <2>2, SendGives, Zenon
<1>6. GenaTypeOK'
  BY <1>0, <1>1, <1>2, <1>4, <1>5, Zenon DEF GenaTypeOK
<1>7. OrderlyWhy'
  BY <1>1, <1>3, SendKeepsOrder, Zenon
<1>8. /\ 1 \in 1 .. Len(queue)
      /\ \A i \in 1 .. Len(queue') : i + 1 \in 1 .. Len(queue) /\ queue'[i] = queue[i + 1]
  <2>1. /\ Len(queue) \in Nat /\ Len(queue) >= 1 /\ Len(queue') = Len(queue) - 1
        /\ \A i \in 1 .. Len(queue') : queue'[i] = queue[i + 1]
    BY ONLY <1>0, <1>2, Zenon
  <2> QED
    BY ONLY <2>1, SMT
<1>9. /\ \A i \in 1 .. Len(queue') : i + 1 = Len(queue) => i = Len(queue')
      /\ 1 = Len(queue) => queue' = <<>>
  <2>1. queue' \in Seq(Actions)
    BY ONLY <1>0, <1>2, Zenon
  <2>2. Len(queue') = 0 => queue' = <<>>
    BY ONLY <2>1, SMT
  <2>3. Len(queue) \in Nat /\ Len(queue') = Len(queue) - 1
    BY ONLY <1>0, <1>2, Zenon
  <2> QED
    BY ONLY <2>2, <2>3, SMT
<1>10. ASSUME ~backlog, gpc = "armed"
      PROVE  (\A i \in 1 .. Len(queue') : queue'[i] # action) /\ \A i \in 1 .. Len(air') : ~Confirms(i)'
  <2>1. (\A i \in 1 .. Len(queue) : queue[i] # action) /\ \A i \in 1 .. Len(air) : ~Confirms(i)
    BY <1>10, Zenon DEF GenaInv, ConfirmedWhy
  <2>2. h # action
    BY <1>2, <1>8, <2>1, Zenon
  <2>3. code # Confirming(action)
    <3>1. Confirming(h) # Confirming(action) /\ Rejecting(h) # Confirming(action)
      BY <1>1, <1>2, <2>2, CodesDiffer, Zenon
    <3> QED
      BY ONLY <1>3, <3>1, Zenon
  <2>4. \A i \in 1 .. Len(air') : ~Confirms(i)'
    BY <1>1, <1>5, <2>1, <2>3, Zenon DEF Confirms
  <2>5. \A i \in 1 .. Len(queue') : queue'[i] # action
    BY ONLY <1>8, <2>1, Zenon
  <2> QED
    BY <2>4, <2>5, Zenon
<1>11. ASSUME ~backlog, gpc \in {"observe", "finish"}
       PROVE  /\ \A i \in 1 .. Len(queue') : queue'[i] = action => i = Len(queue')
              /\ \A i \in 1 .. Len(air') : Confirms(i)' => Done'
  <2>1. /\ \A i \in 1 .. Len(queue) : queue[i] = action => i = Len(queue)
        /\ \A i \in 1 .. Len(air) : ~Confirms(i)
    BY <1>0, <1>11, Zenon DEF GenaInv, ConfirmedWhy, Done
  <2>2. \A i \in 1 .. Len(queue') : queue'[i] = action => i = Len(queue')
    <3> SUFFICES ASSUME NEW i \in 1 .. Len(queue'), queue'[i] = action PROVE i = Len(queue')
      OBVIOUS
    <3>1. i + 1 \in 1 .. Len(queue) /\ queue[i + 1] = action
      BY <1>8, Zenon
    <3>2. i + 1 = Len(queue)
      BY <2>1, <3>1, Zenon
    <3> QED
      BY <1>9, <3>2, Zenon
  <2>3. ASSUME NEW i \in 1 .. Len(air'), Confirms(i)' PROVE Done'
    <3>1. i > Len(air)
      BY <1>1, <1>5, <2>1, <2>3, Zenon DEF Confirms
    <3>2. code = Confirming(action)
      BY <1>1, <1>5, <2>3, <3>1, Zenon DEF Confirms
    <3>3. h = action /\ on' = (h = "Start")
      BY <1>1, <1>2, <1>3, <3>2, CodesDiffer, Zenon
    <3>4. queue' = <<>>
      BY ONLY <1>2, <1>8, <1>9, <2>1, <3>3, Zenon
    <3> QED
      BY <1>1, <3>3, <3>4, Zenon DEF Done
  <2> QED
    BY <2>2, <2>3, Zenon
<1>12. ~backlog /\ gpc \in {"idle", "finish"} => result # "confirmed"
  BY <1>0, Zenon DEF GenaInv, ConfirmedWhy, Done
<1>13. ConfirmedWhy'
  BY <1>1, <1>10, <1>11, <1>12, Zenon DEF ConfirmedWhy
<1> QED
  BY <1>6, <1>7, <1>13, Zenon DEF GenaInv

\* The other steps of the speaker and of the network.
LEMMA SpeakerKeeps ==
  ASSUME GenaInv, OtherEvent \/ LoseEvent \/ \E sid \in Sids : Expire(sid)
  PROVE  GenaInv'
<1>1. /\ GenaTypeOK /\ UNCHANGED <<gpc, action, sub, result, backlog, queue, on>>
  BY Zenon DEF GenaInv, OtherEvent, LoseEvent, Expire, observer, speaker, history
<1>2. ASSUME \A i \in 1 .. Len(air') : Confirms(i)' => \E j \in 1 .. Len(air) : Confirms(j)
      PROVE  ConfirmedWhy'
  BY <1>1, <1>2, Zenon DEF GenaInv, ConfirmedWhy, Done
<1>3. CASE OtherEvent
  <2>1. Send(0) /\ UNCHANGED <<observer, history>> /\ 0 \in {0, 31, 32, 33, 34} /\ action \in Actions
    BY <1>1, <1>3, Zenon DEF OtherEvent, GenaTypeOK
  <2>2. /\ air' \in Seq(GenaEvents) /\ served' \in [Sids -> Keys] /\ Len(air) \in Nat /\ Len(air') \in Nat
        /\ \A i \in 1 .. Len(air) : air'[i] = air[i]
        /\ \A i \in 1 .. Len(air') : i > Len(air) => air'[i].code = 0
    BY <1>1, <2>1, SendGives, Zenon
  <2>3. \A i \in 1 .. Len(air') : i \in 1 .. Len(air) \/ i > Len(air)
    BY ONLY <2>2, SMT
  <2>4. 0 # Confirming(action)
    BY <2>1, CodesDiffer, Zenon
  <2>5. \A i \in 1 .. Len(air') : Confirms(i)' => i \in 1 .. Len(air) /\ Confirms(i)
    BY <1>1, <2>2, <2>3, <2>4, Zenon DEF Confirms
  <2>6. GenaTypeOK'
    BY <1>1, <2>2, Zenon DEF GenaTypeOK
  <2> QED
    BY <1>2, <2>1, <2>5, <2>6, SendKeepsOrder, Zenon DEF GenaInv
<1>4. CASE LoseEvent
  <2>1. PICK i \in 1 .. Len(air) : air' = Without(i)
    BY <1>4, Zenon DEF LoseEvent
  <2>2. ~orderly' /\ UNCHANGED served
    BY <1>4, Zenon DEF LoseEvent, speaker
  <2>3. air' \in Seq(GenaEvents) /\ \A j \in 1 .. Len(air') : \E k \in 1 .. Len(air) : air'[j] = air[k]
    BY <1>1, <2>1, WithoutGives, Zenon
  <2>4. \A j \in 1 .. Len(air') : Confirms(j)' => \E k \in 1 .. Len(air) : Confirms(k)
    BY <1>1, <2>3, Zenon DEF Confirms
  <2>5. GenaTypeOK'
    BY <1>1, <2>2, <2>3, Zenon DEF GenaTypeOK
  <2> QED
    BY <1>2, <2>2, <2>4, <2>5, Zenon DEF GenaInv, OrderlyWhy
<1>5. CASE \E sid \in Sids : Expire(sid)
  <2>1. PICK sid \in Sids : Expire(sid)
    BY <1>5
  <2>2. /\ UNCHANGED air /\ served' = [served EXCEPT ![sid] = None] /\ served \in [Sids -> Keys]
        /\ orderly' => orderly /\ sid # sub.sid
    BY <1>1, <2>1, Zenon DEF Expire, GenaTypeOK
  <2>3. GenaTypeOK'
    BY <1>1, <2>2, Zenon DEF GenaTypeOK, Keys
  <2>4. \A i \in 1 .. Len(air') : Confirms(i)' => Confirms(i)
    BY <1>1, <2>2, Zenon DEF Confirms
  <2>5. ASSUME orderly', gpc \in {"armed", "observe"} PROVE Chained'
    <3>1. Chained
      BY <2>2, <2>5, Zenon DEF GenaInv, OrderlyWhy
    <3>2. sub.sid \in Sids
      BY <1>1, <2>5, SMT DEF GenaTypeOK
    <3>3. served'[sub.sid] = served[sub.sid] /\ sub' = sub /\ air' = air
      BY <1>1, <2>2, <2>5, <3>2, SMT
    <3> QED
      BY <3>1, <3>3, SameChain, Zenon
  <2>6. OrderlyWhy'
    BY <1>1, <2>2, <2>5, Zenon DEF GenaInv, OrderlyWhy, OrderlyAccepted
  <2> QED
    BY <1>2, <2>2, <2>3, <2>4, <2>6, Zenon DEF GenaInv
<1> QED
  BY <1>3, <1>4, <1>5, Zenon
\* A new subscription: no event of it is under way and no key of it was seen.
LEMMA ArmKeeps ==
  ASSUME GenaInv, arm_failed \/ \E a \in Actions : arm(a)
  PROVE  GenaInv'
<1>0. GenaTypeOK
  BY Zenon DEF GenaInv
<1>1. ASSUME NEW sid \in FreshSids, NEW key \in 0 .. MaxSeq
      PROVE  /\ [served EXCEPT ![sid] = key] \in [Sids -> Keys] /\ [served EXCEPT ![sid] = key][sid] = key
             /\ key # None /\ key \in Keys /\ sid \in Sids /\ None \in Keys
             /\ \A i \in 1 .. Len(air) : air[i].sid # sid
  <2>1. sid \in Sids /\ \A i \in 1 .. Len(air) : air[i].sid # sid
    BY Zenon DEF FreshSids
  <2>2. key # None /\ key \in Keys /\ None \in Keys
    BY KeysAssumption, Zenon DEF Keys
  <2>3. served \in [Sids -> Keys]
    BY <1>0, Zenon DEF GenaTypeOK
  <2> QED
    BY <2>1, <2>2, <2>3, Zenon
<1>2. CASE arm_failed
  <2>1. UNCHANGED <<gpc, action, sub, result, backlog, orderly, queue, on, air>> /\ gpc = "idle"
    BY <1>2, Zenon DEF arm_failed, observer, history
  <2>2. served' \in [Sids -> Keys]
    <3>1. PICK sid \in FreshSids, key \in 0 .. MaxSeq : served' = [served EXCEPT ![sid] = key]
      BY <1>2, Zenon DEF arm_failed
    <3> QED
      BY <1>1, <3>1, Zenon
  <2>3. GenaTypeOK'
    BY <1>0, <2>1, <2>2, Zenon DEF GenaTypeOK
  <2>4. ConfirmedWhy'
    BY <2>1, Zenon DEF GenaInv, ConfirmedWhy, Done
  <2>5. OrderlyWhy'
    BY <2>1, Zenon DEF OrderlyWhy, OrderlyAccepted
  <2> QED
    BY <2>3, <2>4, <2>5, Zenon DEF GenaInv
<1>3. ASSUME NEW a \in Actions, arm(a) PROVE GenaInv'
  <2>1. /\ gpc' = "armed" /\ action' = a /\ result' = "pending"
        /\ backlog' = (a \in Range(queue)) /\ UNCHANGED <<queue, on, air>>
    BY <1>3, Zenon DEF arm
  <2>2. PICK sid \in FreshSids, key \in 0 .. MaxSeq :
          sub' = [sid |-> sid, last |-> None] /\ served' = [served EXCEPT ![sid] = key]
    BY <1>3, Zenon DEF arm
  <2>3. /\ served' \in [Sids -> Keys] /\ served'[sid] # None /\ sid \in Sids /\ None \in Keys
        /\ \A i \in 1 .. Len(air) : air[i].sid # sid
    BY <1>1, <2>2, Zenon
  <2>4. sub' \in [sid : Sids, last : Keys] /\ sub'.sid = sid /\ sub'.last = None
    BY ONLY <2>2, <2>3, SMT
  <2>5. GenaTypeOK'
    BY <1>0, <2>1, <2>3, <2>4, Zenon DEF GenaTypeOK
  <2>6. \A i \in 1 .. Len(air') : ~Mine(i)' /\ ~Confirms(i)'
    BY <2>1, <2>3, <2>4, Zenon DEF Mine, Confirms
  <2>7. Chained'
    BY <2>3, <2>4, <2>6, Zenon DEF Chained
  <2>8. ASSUME ~backlog' PROVE \A i \in 1 .. Len(queue) : queue[i] # a
    <3>1. queue \in Seq(Actions)
      BY <1>0, Zenon DEF GenaTypeOK
    <3>2. DOMAIN queue = 1 .. Len(queue)
      BY ONLY <3>1, SMT
    <3> QED
      BY <2>1, <2>8, <3>2, Zenon DEF Range
  <2>9. ConfirmedWhy'
    BY <2>1, <2>6, <2>8, Zenon DEF ConfirmedWhy
  <2>10. OrderlyWhy'
    BY <2>1, <2>7, Zenon DEF OrderlyWhy, OrderlyAccepted
  <2> QED
    BY <2>5, <2>9, <2>10, Zenon DEF GenaInv
<1> QED
  BY <1>2, <1>3, Zenon

\* The transaction ends and its subscription is cancelled.
LEMMA EndKeeps ==
  ASSUME GenaInv, cancel \/ mutation_failed \/ finish
  PROVE  GenaInv'
<1>1. GenaTypeOK
  BY Zenon DEF GenaInv
<1>2. gpc' = "idle" /\ UNCHANGED <<action, on, air, backlog>> /\ \E ok \in BOOLEAN : Unsubscribe(ok)
  BY Zenon DEF cancel, mutation_failed, finish, history
<1>3. sub' = NoSub /\ served' \in {served, [served EXCEPT ![sub.sid] = None]}
  BY <1>2, Zenon DEF Unsubscribe, Cancelled
<1>4. served' \in [Sids -> Keys]
  <2>1. served \in [Sids -> Keys] /\ None \in Keys
    BY <1>1, Zenon DEF GenaTypeOK, Keys
  <2> QED
    BY ONLY <1>3, <2>1, Zenon
<1>5. queue' \in Seq(Actions)
  <2>1. queue \in Seq(Actions) /\ action \in Actions
    BY <1>1, Zenon DEF GenaTypeOK
  <2>2. Append(queue, action) \in Seq(Actions)
    BY ONLY <2>1, SMT
  <2>3. queue' \in {queue, Append(queue, action)}
    BY Zenon DEF cancel, mutation_failed, finish
  <2> QED
    BY ONLY <2>1, <2>2, <2>3, Zenon
<1>6. GenaTypeOK'
  BY <1>1, <1>2, <1>3, <1>4, <1>5, Zenon DEF GenaTypeOK
<1>7. result' = "confirmed" => gpc = "finish" /\ result = "confirmed" /\ UNCHANGED queue
  BY Zenon DEF cancel, mutation_failed, finish
<1>8. ConfirmedWhy'
  BY <1>2, <1>7, Zenon DEF GenaInv, ConfirmedWhy, Done
<1>9. OrderlyWhy'
  BY <1>2, Zenon DEF OrderlyWhy, OrderlyAccepted
<1> QED
  BY <1>6, <1>8, <1>9, Zenon DEF GenaInv

\* The command of the transaction is the last in the speaker's queue.
LEMMA MutationKeeps ==
  ASSUME GenaInv, execute_mutation
  PROVE  GenaInv'
<1>1. /\ GenaTypeOK /\ gpc = "armed" /\ gpc' = "observe" /\ queue' = Append(queue, action)
      /\ UNCHANGED <<action, sub, result, on, served, air, backlog, orderly>>
  BY Zenon DEF GenaInv, execute_mutation, history
<1>2. queue \in Seq(Actions) /\ action \in Actions
  BY <1>1, Zenon DEF GenaTypeOK
<1>3. queue' \in Seq(Actions) /\ \A i \in 1 .. Len(queue') : i = Len(queue') \/ (i \in 1 .. Len(queue) /\ queue'[i] = queue[i])
  <2>1. queue' = Append(queue, action)
    BY <1>1, Zenon
  <2> QED
    BY ONLY <1>2, <2>1, SMT
<1>4. GenaTypeOK'
  BY <1>1, <1>3, Zenon DEF GenaTypeOK
<1>5. \A i \in 1 .. Len(air') : Confirms(i)' <=> i \in 1 .. Len(air) /\ Confirms(i)
  BY <1>1, Zenon DEF Confirms
<1>6. ConfirmedWhy'
  BY <1>1, <1>3, <1>5, Zenon DEF GenaInv, ConfirmedWhy
<1>7. Chained => Chained'
  <2>1. UNCHANGED <<sub, air, served>>
    BY <1>1, Zenon
  <2> QED
    BY <2>1, SameChain, Zenon
<1>8. OrderlyWhy'
  BY <1>1, <1>7, Zenon DEF GenaInv, OrderlyWhy, OrderlyAccepted
<1> QED
  BY <1>4, <1>6, <1>8, Zenon DEF GenaInv
\* A callback: an event that confirms was sent when the command was done, and
\* the first event under way is the next in order.
LEMMA CallbackKeeps ==
  ASSUME GenaInv, callback
  PROVE  GenaInv'
<1>1. /\ GenaTypeOK /\ gpc = "observe" /\ gpc' = IF result' = "pending" THEN "observe" ELSE "finish"
      /\ UNCHANGED <<action, queue, on, served, backlog>>
  BY Zenon DEF GenaInv, callback, Observing, speaker
<1>2. PICK i \in 1 .. Len(air), repeated \in BOOLEAN :
        /\ air' = IF repeated THEN air ELSE Without(i)
        /\ result' = validate_callback(air[i])
        /\ sub' = IF result' = "invalid" THEN sub ELSE [sub EXCEPT !.last = air[i].seq]
        /\ orderly' = (orderly /\ i = 1 /\ ~repeated /\ air[i].sid = sub.sid)
  BY Zenon DEF callback
<1>3. air \in Seq(GenaEvents) /\ action \in Actions /\ sub \in [sid : Sids, last : Keys]
  BY <1>1, SMT DEF GenaTypeOK
<1>4. air[i].seq \in Keys
  <2>1. air[i] \in GenaEvents
    BY ONLY <1>3, i \in 1 .. Len(air), SMT
  <2> QED
    BY ONLY <2>1, SMT DEF GenaEvents, Keys
<1>5. sub' \in [sid : Sids, last : Keys] /\ sub'.sid = sub.sid
  <2>1. sub' \in {sub, [sub EXCEPT !.last = air[i].seq]}
    BY <1>2, Zenon
  <2> QED
    BY ONLY <1>3, <1>4, <2>1, SMT
<1>6. air' \in Seq(GenaEvents) /\ \A j \in 1 .. Len(air') : \E k \in 1 .. Len(air) : air'[j] = air[k]
  <2>1. CASE repeated
    BY <1>2, <1>3, <2>1, Zenon
  <2>2. CASE ~repeated
    <3>1. air' = Without(i)
      BY <1>2, <2>2, Zenon
    <3> QED
      BY <1>1, <3>1, WithoutGives, Zenon
  <2> QED
    BY <2>1, <2>2, Zenon
<1>7. gpc' \in {"observe", "finish"} /\ (gpc' = "observe" => result' = "pending")
  BY <1>1, Zenon
<1>8. GenaTypeOK'
  BY <1>1, <1>5, <1>6, <1>7, Zenon DEF GenaTypeOK
<1>9. result' = "confirmed" => Confirms(i)
  BY <1>2, SMT DEF validate_callback, reduce_action, Confirms
<1>10. \A j \in 1 .. Len(air') : Confirms(j)' => \E k \in 1 .. Len(air) : Confirms(k)
  BY <1>1, <1>5, <1>6, Zenon DEF Confirms
<1>11. ConfirmedWhy'
  <2>1. ASSUME ~backlog
        PROVE  /\ \A j \in 1 .. Len(queue) : queue[j] = action => j = Len(queue)
               /\ \A j \in 1 .. Len(air) : Confirms(j) => Done
    BY <1>1, <2>1, Zenon DEF GenaInv, ConfirmedWhy
  <2>2. Done' <=> Done
    BY <1>1, Zenon DEF Done
  <2>3. ~backlog /\ result' = "confirmed" => Done'
    BY <1>9, <2>1, <2>2, Zenon
  <2>4. ~backlog => \A j \in 1 .. Len(air') : Confirms(j)' => Done'
    BY <1>10, <2>1, <2>2, Zenon
  <2> QED
    BY <1>1, <1>7, <2>1, <2>3, <2>4, Zenon DEF ConfirmedWhy
<1>12. ASSUME orderly' PROVE result' # "invalid" /\ Chained'
  <2>1. orderly /\ i = 1 /\ ~repeated /\ air[1].sid = sub.sid
    BY <1>2, <1>12, Zenon
  <2>2. Chained /\ Mine(1) /\ air' = Without(1) /\ 1 \in 1 .. Len(air)
    BY <1>1, <1>2, <2>1, Zenon DEF GenaInv, OrderlyWhy, Mine
  <2>3. sub.last = None \/ air[1].seq = NextKey(sub.last)
    <3>1. \A j \in 1 .. Len(air) : ~(j < 1)
      BY ONLY <1>3, SMT
    <3> QED
      BY <2>2, <3>1, Zenon DEF Chained
  <2>4. sequence_is_next(sub.last, air[1].seq)
    BY <2>3, Zenon DEF sequence_is_next, NextKey
  <2>5. result' # "invalid"
    <3>1. result' = reduce_action(action, air[1].code)
      BY <1>2, <2>1, <2>4, Zenon DEF validate_callback
    <3> QED
      BY ONLY <3>1, SMT DEF reduce_action
  <2>6. sub' = [sub EXCEPT !.last = air[1].seq]
    BY <1>2, <2>1, <2>5, Zenon
  <2> QED
    BY <1>1, <2>2, <2>5, <2>6, TakeChains, Zenon
<1>13. OrderlyWhy'
  BY <1>12, Zenon DEF OrderlyWhy, OrderlyAccepted
<1> QED
  BY <1>8, <1>11, <1>13, Zenon DEF GenaInv

\* The observation goes on, or ends without an event that says how.
LEMMA ObserveKeeps ==
  ASSUME GenaInv, stranger \/ unreadable \/ malformed \/ observe_failed
  PROVE  GenaInv'
<1>1. /\ GenaTypeOK /\ gpc = "observe" /\ UNCHANGED <<action, sub, queue, on, served, backlog>>
      /\ \/ UNCHANGED <<gpc, result, orderly, air>>
         \/ gpc' = "finish" /\ result' \in {"invalid", "expired", "exhausted"} /\ (result' = "invalid" => ~orderly')
  <2>1. stranger => UNCHANGED <<action, sub, queue, on, served, backlog>> /\ UNCHANGED <<gpc, result, orderly, air>>
    BY Zenon DEF stranger, speaker, history
  <2>2. unreadable \/ malformed => UNCHANGED <<action, sub, queue, on, served, backlog>> /\ gpc' = "finish" /\ result' = "invalid" /\ ~orderly'
    BY Zenon DEF unreadable, malformed, speaker
  <2>3. observe_failed => /\ UNCHANGED <<action, sub, queue, on, served, backlog>>
                         /\ gpc' = "finish" /\ result' \in {"expired", "exhausted"}
    BY Zenon DEF observe_failed, speaker, history
  <2>4. GenaTypeOK /\ gpc = "observe"
    BY Zenon DEF GenaInv, stranger, unreadable, malformed, observe_failed, Observing
  <2> QED
    BY <2>1, <2>2, <2>3, <2>4, Zenon
<1>2. air' \in Seq(GenaEvents) /\ \A j \in 1 .. Len(air') : \E k \in 1 .. Len(air) : air'[j] = air[k]
  <2>1. CASE malformed
    <3>1. PICK i \in 1 .. Len(air) : air' = Without(i)
      BY <2>1, Zenon DEF malformed
    <3> QED
      BY <1>1, <3>1, WithoutGives, Zenon
  <2>2. CASE ~malformed
    <3>1. UNCHANGED air
      BY <2>2, Zenon DEF stranger, unreadable, observe_failed
    <3> QED
      BY <1>1, <3>1, Zenon DEF GenaTypeOK
  <2> QED
    BY <2>1, <2>2, Zenon
<1>3. GenaTypeOK'
  BY <1>1, <1>2, Zenon DEF GenaTypeOK
<1>4. \A j \in 1 .. Len(air') : Confirms(j)' => \E k \in 1 .. Len(air) : Confirms(k)
  BY <1>1, <1>2, Zenon DEF Confirms
<1>5. ConfirmedWhy'
  <2>1. gpc' \in {"observe", "finish"} /\ (gpc' = "finish" => result' # "confirmed")
    BY <1>1, Zenon
  <2>2. Done' <=> Done
    BY <1>1, Zenon DEF Done
  <2>3. UNCHANGED <<queue, action, backlog>> /\ gpc = "observe"
    BY <1>1, Zenon
  <2> QED
    BY <1>4, <2>1, <2>2, <2>3, Zenon DEF GenaInv, ConfirmedWhy
<1>6. OrderlyWhy'
  <2>1. CASE UNCHANGED <<gpc, result, orderly, air>>
    <3>1. UNCHANGED <<sub, air, served>>
      BY <1>1, <2>1, Zenon
    <3>2. Chained => Chained'
      BY <3>1, SameChain, Zenon
    <3> QED
      BY <1>1, <2>1, <3>2, Zenon DEF GenaInv, OrderlyWhy, OrderlyAccepted
  <2>2. CASE gpc' = "finish" /\ result' \in {"invalid", "expired", "exhausted"} /\ (result' = "invalid" => ~orderly')
    BY <2>2, Zenon DEF OrderlyWhy, OrderlyAccepted
  <2> QED
    BY <1>1, <2>1, <2>2, Zenon
<1> QED
  BY <1>3, <1>5, <1>6, Zenon DEF GenaInv

\* The reasons hold at the start and every step keeps them.
THEOREM GenaInvariant == GSpec => []GenaInv
<1>1. GInit => GenaInv
  <2> SUFFICES ASSUME GInit PROVE GenaInv
    OBVIOUS
  <2>1. /\ gpc = "idle" /\ action \in Actions /\ sub = NoSub /\ result = "none"
        /\ queue = <<>> /\ on \in BOOLEAN /\ air = <<>> /\ served \in [Sids -> Keys]
    BY Zenon DEF GInit, Actions, Keys
  <2>2. <<>> \in Seq(Actions) /\ <<>> \in Seq(GenaEvents)
    BY SMT
  <2>3. GenaTypeOK
    BY <2>1, <2>2, Zenon DEF GenaTypeOK
  <2> QED
    BY <2>1, <2>3, Zenon DEF GenaInv, ConfirmedWhy, OrderlyWhy, OrderlyAccepted
<1>2. GenaInv /\ [GNext]_gvars => GenaInv'
  <2> SUFFICES ASSUME GenaInv, [GNext]_gvars PROVE GenaInv'
    OBVIOUS
  <2>1. CASE Observer
    BY <2>1, ArmKeeps, EndKeeps, MutationKeeps, CallbackKeeps, ObserveKeeps, Zenon DEF Observer
  <2>2. CASE GNext /\ ~Observer
    BY <2>2, CarryOutKeeps, SpeakerKeeps, Zenon DEF GNext
  <2>3. CASE UNCHANGED gvars
    <3>1. UNCHANGED <<gpc, action, sub, result>> /\ UNCHANGED <<queue, on, served>> /\ UNCHANGED <<air, backlog, orderly>>
      BY <2>3, Zenon DEF gvars, observer, speaker, history
    <3>2. GenaTypeOK'
      BY <3>1, Zenon DEF GenaInv, GenaTypeOK
    <3>3. (Done' <=> Done) /\ \A i \in 1 .. Len(air') : Confirms(i)' <=> i \in 1 .. Len(air) /\ Confirms(i)
      BY <3>1, Zenon DEF Done, Confirms
    <3>4. ConfirmedWhy'
      BY <3>1, <3>3, Zenon DEF GenaInv, ConfirmedWhy
    <3>5. Chained => Chained'
      BY <3>1, SameChain, Zenon
    <3>6. OrderlyWhy'
      BY <3>1, <3>5, Zenon DEF GenaInv, OrderlyWhy, OrderlyAccepted
    <3> QED
      BY <3>2, <3>4, <3>6, Zenon DEF GenaInv
  <2> QED
    BY <2>1, <2>2, <2>3, Zenon
<1> QED
  BY <1>1, <1>2, PTL DEF GSpec

\* A transaction that ends confirmed found the speaker done with its command and
\* the broadcaster as its action says, unless an equal command was still to be
\* carried out when it subscribed.
THEOREM ConfirmedIsTrue == GSpec => []ConfirmedTrue
<1>1. GenaInv => ConfirmedTrue
  <2> SUFFICES ASSUME GenaInv, gpc = "idle", result = "confirmed", ~backlog
               PROVE  queue = <<>> /\ on = (action = "Start")
    BY Zenon DEF ConfirmedTrue
  <2>1. queue = <<>> /\ (on <=> action = "Start") /\ on \in BOOLEAN
    BY Zenon DEF GenaInv, GenaTypeOK, ConfirmedWhy, Done
  <2> QED
    BY ONLY <2>1, Zenon
<1> QED
  BY <1>1, GenaInvariant, PTL

\* An observation whose events all arrived, once and in order, is never ended by
\* one of them as invalid.
THEOREM OrderlyIsAccepted == GSpec => []OrderlyAccepted
<1>1. GenaInv => OrderlyAccepted
  BY Zenon DEF GenaInv, OrderlyWhy, OrderlyAccepted
<1> QED
  BY <1>1, GenaInvariant, PTL
=============================================================================
