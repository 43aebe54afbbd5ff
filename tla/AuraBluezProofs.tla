--------------------------- MODULE AuraBluezProofs ---------------------------
(***************************************************************************)
(* The three parts of rust/src/aura_bluez.rs.  The scan of FreshScan, for  *)
(* every set of addresses and any number of events: cached data is what an *)
(* object had at the snapshot, an object that was removed has lost it for  *)
(* good, and a device that is owed to the scan has an event that leads to  *)
(* it.  The deadline and the temporary profile of AuraAcquire, for every   *)
(* choice of timings that leaves the wake its time (TimingsAssumption),    *)
(* and the number of its steps.  The acknowledgements of AuraChannel, for  *)
(* every bound on packets and commands.                                    *)
(***************************************************************************)
EXTENDS AuraChannel, FreshScan, FiniteSetTheorems, TLAPS

-----------------------------------------------------------------------------
(* Sequences *)

\* One element more at the end of a sequence.
LEMMA Appended ==
  ASSUME NEW S, NEW s \in Seq(S), NEW x \in S
  PROVE  /\ Append(s, x) \in Seq(S) /\ Len(Append(s, x)) = Len(s) + 1 /\ Append(s, x)[Len(s) + 1] = x
         /\ Len(s) \in Nat /\ \A i \in 1 .. Len(s) : Append(s, x)[i] = s[i]
BY SMT

\* A sequence without its head.
LEMMA Beheaded ==
  ASSUME NEW S, NEW s \in Seq(S), s # <<>>
  PROVE  /\ Head(s) \in S /\ Head(s) = s[1] /\ Len(s) \in Nat /\ Len(s) >= 1
         /\ Tail(s) \in Seq(S) /\ Len(Tail(s)) = Len(s) - 1
         /\ \A i \in 1 .. Len(Tail(s)) : Tail(s)[i] = s[i + 1]
BY SMT

\* One sequence behind another.
LEMMA Joined ==
  ASSUME NEW S, NEW s \in Seq(S), NEW t \in Seq(S)
  PROVE  /\ s \o t \in Seq(S) /\ Len(s \o t) = Len(s) + Len(t)
         /\ \A i \in 1 .. Len(s) + Len(t) : (s \o t)[i] = IF i <= Len(s) THEN s[i] ELSE t[i - Len(s)]
BY SMT

\* What is left of a sequence from a place on.
LEMMA Remaining ==
  ASSUME NEW S, NEW s \in Seq(S), NEW m \in Nat \ {0}
  PROVE  SubSeq(s, m, Len(s)) \in Seq(S)
BY SMT

-----------------------------------------------------------------------------
(* FreshScan *)

ScanSpec == CInit /\ [][CNext]_cvars

AdapterEvents == [kind : {"added", "removed"}, address : Addresses]
DeviceEvents == [address : Addresses, data : {"bare", "fresh"}]

ScanTypeOK ==
    /\ object \in [Addresses -> {"absent", "bare", "cached", "fresh"}]
    /\ adapter \in Seq(AdapterEvents)
    /\ device \in Seq(DeviceEvents)
    /\ added \in Addresses \cup {NoAddress}

\* No object outside the snapshot holds cached data, nor one whose removal
\* is under way, nor the one that is about to be read.
CachedKnown ==
    /\ scan # "snapshot" => \A a \in Addresses : object[a] = "cached" => a \in preexisting
    /\ \A i \in 1 .. Len(adapter) :
         adapter[i].kind = "removed" => object[adapter[i].address] # "cached"
    /\ added # NoAddress => scan # "snapshot" /\ object[added] # "cached"

ScanInv == ScanTypeOK /\ CachedKnown /\ FreshOnly

\* The scan starts with nothing read.
LEMMA ScanInitial == CInit => ScanInv
  BY DEF CInit, ScanInv, ScanTypeOK, CachedKnown, FreshOnly

\* What discovery replays are added events of objects there are.
LEMMA ReplayIsAdded ==
  ASSUME NEW s \in Seq(Addresses)
  PROVE  /\ [i \in DOMAIN s |-> Added(s[i])] \in Seq(AdapterEvents)
         /\ \A j \in 1 .. Len(s) : [i \in DOMAIN s |-> Added(s[i])][j].kind = "added"
         /\ Len([i \in DOMAIN s |-> Added(s[i])]) = Len(s)
<1>1. \A a \in Addresses : Added(a) \in AdapterEvents /\ Added(a).kind = "added"
  BY Zenon DEF Added, AdapterEvents
<1>2. DOMAIN s = 1 .. Len(s) /\ Len(s) \in Nat /\ \A i \in 1 .. Len(s) : s[i] \in Addresses
  OBVIOUS
<1> QED
  BY <1>1, <1>2

\* An enumeration of objects is a sequence of addresses.
LEMMA EnumerationIsSequence ==
  ASSUME NEW S \in SUBSET Addresses, NEW s \in Orders(S)
  PROVE  s \in Seq(Addresses)
<1>1. Cardinality(S) \in Nat
  BY AddressesAssumption, FS_Subset, FS_CardinalityType, Zenon
<1>2. s \in [1 .. Cardinality(S) -> S]
  BY Zenon DEF Orders, Bijection, Surjection
<1> QED
  BY <1>1, <1>2, SMT

\* The steps of BlueZ and of the speakers.
LEMMA BluezStep ==
  ASSUME ScanInv, NEW a \in Addresses,
         (\E data \in {"bare", "fresh"} : Advertise(a, data)) \/ OtherChange(a) \/ Vanish(a)
  PROVE  ScanInv'
<1> USE DEF ScanInv, ScanTypeOK
<1>1. /\ object' \in [Addresses -> {"absent", "bare", "cached", "fresh"}]
      /\ \A b \in Addresses : object'[b] = "cached" => object[b] = "cached"
  BY Zenon DEF Advertise, OtherChange, Vanish
<1>2. device' \in Seq(DeviceEvents)
  <2>1. \A data \in {"bare", "fresh"} : [address |-> a, data |-> data] \in DeviceEvents
    BY Zenon DEF DeviceEvents
  <2>2. UNCHANGED device \/ \E e \in DeviceEvents : device' = Append(device, e)
    BY <2>1, Zenon DEF Advertise, OtherChange, Vanish, Emit
  <2>3. device \in Seq(DeviceEvents)
    BY Zenon
  <2> QED
    BY ONLY <2>2, <2>3, Appended
<1>3. UNCHANGED <<scan, preexisting, added, evidence>>
  BY Zenon DEF Advertise, OtherChange, Vanish, sets
<1>4. \/ UNCHANGED adapter
      \/ adapter' = Append(adapter, Added(a))
      \/ adapter' = Append(adapter, Removed(a)) /\ object'[a] = "absent"
  BY Zenon DEF Advertise, OtherChange, Vanish, Emit
<1>5. Added(a) \in AdapterEvents /\ Removed(a) \in AdapterEvents /\ Added(a).kind = "added" /\ Removed(a).address = a
  BY Zenon DEF Added, Removed, AdapterEvents
<1>6. adapter' \in Seq(AdapterEvents)
  <2>1. adapter \in Seq(AdapterEvents)
    BY Zenon
  <2> QED
    BY ONLY <1>4, <1>5, <2>1, Appended
<1>7. ASSUME NEW i \in 1 .. Len(adapter'), adapter'[i].kind = "removed"
      PROVE  object'[adapter'[i].address] # "cached"
  <2>1. adapter \in Seq(AdapterEvents) /\ Len(adapter) \in Nat
    OBVIOUS
  <2>2. \/ i \in 1 .. Len(adapter) /\ adapter'[i] = adapter[i]
        \/ adapter'[i] = Added(a)
        \/ adapter'[i] = Removed(a) /\ object'[a] = "absent"
    BY ONLY <1>4, <1>5, <1>7, <2>1, Appended, SMTT(30)
  <2>3. CASE i \in 1 .. Len(adapter) /\ adapter'[i] = adapter[i]
    <3>1. adapter[i] \in AdapterEvents
      BY ONLY <2>1, <2>3
    <3>2. adapter[i].address \in Addresses /\ object[adapter[i].address] # "cached"
      BY <1>7, <2>3, <3>1, Zenon DEF CachedKnown, AdapterEvents
    <3> QED
      BY <1>1, <2>3, <3>2, Zenon
  <2> QED
    BY <1>5, <1>7, <2>2, <2>3, Zenon
<1> QED
  BY <1>1, <1>2, <1>3, <1>6, <1>7, Zenon DEF CachedKnown, FreshOnly

\* A step that reads the head of the adapter's events, or none of them.
LEMMA EventsRead ==
  ASSUME ScanInv, adapter # <<>>, adapter' = Tail(adapter)
  PROVE  /\ adapter' \in Seq(AdapterEvents)
         /\ Head(adapter) \in AdapterEvents /\ Head(adapter) = adapter[1] /\ 1 \in 1 .. Len(adapter)
         /\ \A i \in 1 .. Len(adapter') : i + 1 \in 1 .. Len(adapter) /\ adapter'[i] = adapter[i + 1]
<1>1. adapter \in Seq(AdapterEvents)
  BY Zenon DEF ScanInv, ScanTypeOK
<1> QED
  BY ONLY <1>1, adapter # <<>>, adapter' = Tail(adapter), Beheaded

\* The steps of scan_once.
LEMMA ScanStep ==
  ASSUME ScanInv,
         \/ device_addresses \/ discover_devices
         \/ \E a \in Addresses : subscribe_preexisting(a)
         \/ device_removed \/ preexisting_added \/ duplicate_added \/ device_added
         \/ read_new_object \/ device_event \/ scan_ends
  PROVE  ScanInv'
<1> USE DEF ScanInv, ScanTypeOK, bluez, sets
<1>1. CASE device_addresses
  BY <1>1, Zenon DEF device_addresses, CachedKnown, FreshOnly, Present
<1>2. CASE discover_devices
  <2>1. PICK twice \in SUBSET (Present \ preexisting) :
          \E replay \in Orders(Present), again \in Orders(twice) :
             adapter' = [i \in DOMAIN (replay \o again) |-> Added((replay \o again)[i])]
    BY <1>2, Zenon DEF discover_devices
  <2>2. PICK replay \in Orders(Present), again \in Orders(twice) :
             adapter' = [i \in DOMAIN (replay \o again) |-> Added((replay \o again)[i])]
    BY <2>1, Zenon
  <2>3. replay \o again \in Seq(Addresses)
    BY EnumerationIsSequence, Joined, Zenon DEF Present
  <2>4. adapter' \in Seq(AdapterEvents) /\ \A i \in 1 .. Len(adapter') : adapter'[i].kind = "added"
    BY ONLY <2>2, <2>3, ReplayIsAdded, ZenonT(30)
  <2> QED
    BY <1>2, <2>4, ZenonT(30) DEF discover_devices, CachedKnown, FreshOnly
<1>3. CASE \E a \in Addresses : subscribe_preexisting(a)
  BY <1>3, Zenon DEF subscribe_preexisting, CachedKnown, FreshOnly
<1>4. CASE device_removed
  <2>1. adapter # <<>> /\ adapter' = Tail(adapter) /\ Head(adapter).kind = "removed"
        /\ preexisting' = preexisting \ {Head(adapter).address}
        /\ UNCHANGED <<scan, object, device, added, evidence>>
    BY <1>4, Zenon DEF device_removed, NextEvent
  <2>2. object[Head(adapter).address] # "cached"
    BY <2>1, EventsRead, Zenon DEF CachedKnown
  <2> QED
    BY <2>1, <2>2, EventsRead, Zenon DEF CachedKnown, FreshOnly
<1>5. CASE preexisting_added \/ duplicate_added \/ device_added
  <2>1. /\ Open /\ adapter # <<>> /\ adapter' = Tail(adapter)
        /\ UNCHANGED <<scan, object, device, preexisting, evidence>>
        /\ UNCHANGED added \/ (added' = Head(adapter).address /\ Head(adapter).address \notin preexisting)
    BY <1>5, Zenon DEF preexisting_added, duplicate_added, device_added, NextEvent, Reading, New
  <2>2. Head(adapter).address \in Addresses
    BY <2>1, EventsRead, Zenon DEF AdapterEvents
  <2>3. ScanTypeOK'
    BY <2>1, <2>2, EventsRead, Zenon
  <2>4. CachedKnown'
    BY <2>1, <2>2, EventsRead, ZenonT(30) DEF CachedKnown, Open
  <2> QED
    BY <2>1, <2>3, <2>4, Zenon DEF FreshOnly
<1>6. CASE read_new_object
  BY <1>6, Zenon DEF read_new_object, reduce_fresh_advertisement, CachedKnown, FreshOnly, Open
<1>7. CASE device_event
  <2>1. device # <<>> /\ device' = Tail(device) /\ device \in Seq(DeviceEvents)
        /\ UNCHANGED <<object, adapter, preexisting, added>> /\ scan = "loop"
    BY <1>7, Zenon DEF device_event, Reading, Open
  <2>2. device' \in Seq(DeviceEvents) /\ Head(device) \in DeviceEvents
    BY ONLY <2>1, Beheaded, Zenon
  <2>3. Head(device).data # "cached"
    BY <2>2, Zenon DEF DeviceEvents
  <2>4. UNCHANGED <<scan, evidence>> \/ (scan' = "found" /\ evidence' = "fresh")
    BY <1>7, <2>3, Zenon DEF device_event, reduce_fresh_advertisement
  <2> QED
    BY <2>1, <2>2, <2>4, Zenon DEF CachedKnown, FreshOnly
<1>8. CASE scan_ends
  BY <1>8, Zenon DEF scan_ends, CachedKnown, FreshOnly, Open
<1> QED
  BY <1>1, <1>2, <1>3, <1>4, <1>5, <1>6, <1>7, <1>8, Zenon

\* However many objects BlueZ keeps, replays, removes and creates, scan_once
\* returns on no service data that was there before its snapshot.
THEOREM ScanIsFresh == ScanSpec => []FreshOnly
<1>1. ScanInv /\ UNCHANGED cvars => ScanInv'
  BY Zenon DEF ScanInv, ScanTypeOK, CachedKnown, FreshOnly, cvars, bluez, sets
<1>2. ScanInv /\ [CNext]_cvars => ScanInv'
  BY <1>1, BluezStep, ScanStep, Zenon DEF CNext
<1>3. ScanInv => FreshOnly
  BY Zenon DEF ScanInv
<1> QED
  BY <1>2, <1>3, ScanInitial, PTL DEF ScanSpec
-----------------------------------------------------------------------------
(* FreshScan: nothing is missed *)

\* The queue holds e; every e in it has an f behind it; some e has.
Contains(s, e) == \E i \in 1 .. Len(s) : s[i] = e
Followed(s, e, f) == \A i \in 1 .. Len(s) : s[i] = e => \E j \in 1 .. Len(s) : i < j /\ s[j] = f
Precedes(s, e, f) == \E i, j \in 1 .. Len(s) : i < j /\ s[i] = e /\ s[j] = f

FreshEvent(a) == [address |-> a, data |-> "fresh"]

\* The data of a reaches the scan: an event of a carries it, the scan is about
\* to read a, a will be replayed as new, or an added event of a is under way
\* that will be taken for a new object when its turn comes.
Leads(a) ==
    \/ Contains(device, FreshEvent(a))
    \/ added = a
    \/ scan = "prepare" /\ a \notin preexisting
    \/ Contains(adapter, Added(a)) /\ a \notin preexisting /\ a \notin subscribed
    \/ Precedes(adapter, Removed(a), Added(a))

OwedLeads == Scanning => \A a \in owed : a \in Addresses /\ object[a] = "fresh" /\ Leads(a)

\* The events of the adapter end in what there is: a removed object that is
\* there again is announced behind its removal, and what was announced, or
\* subscribed as new, and is gone has its removal under way.
Announced(a) ==
    /\ object[a] # "absent" => Followed(adapter, Removed(a), Added(a))
    /\ object[a] = "absent" => Followed(adapter, Added(a), Removed(a))
    /\ object[a] = "absent" /\ a \in subscribed /\ a \notin preexisting => Contains(adapter, Removed(a))

Subscriptions ==
    /\ \A a \in subscribed : a \in streams
    /\ added # NoAddress => added \notin preexisting
    /\ scan = "snapshot" => owed = {} /\ subscribed = {}
    /\ scan \in {"snapshot", "prepare"} =>
         /\ adapter = <<>> /\ added = NoAddress
         /\ \A a \in subscribed \cup todo : a \in preexisting

OwedInv == ScanInv /\ Subscriptions /\ OwedLeads /\ (Open => \A a \in Addresses : Announced(a))

\* The events of a queue are those at its places.
LEMMA InQueue ==
  ASSUME NEW S, NEW s \in Seq(S), NEW e
  PROVE  e \in Range(s) <=> Contains(s, e)
<1>1. DOMAIN s = 1 .. Len(s)
  BY SMT
<1> QED
  BY <1>1, Zenon DEF Range, Contains

\* One event more behind a queue.
LEMMA QueueGrows ==
  ASSUME NEW S, NEW s \in Seq(S), NEW x \in S, NEW e, NEW f
  PROVE  /\ Contains(s, e) => Contains(Append(s, x), e)
         /\ Contains(Append(s, x), x)
         /\ Precedes(s, e, f) => Precedes(Append(s, x), e, f)
         /\ Contains(s, e) => Precedes(Append(s, x), e, x)
         /\ Followed(s, e, f) /\ x # e => Followed(Append(s, x), e, f)
         /\ x # e => Followed(Append(s, x), e, x)
<1> DEFINE t == Append(s, x)
<1>1. /\ Len(s) \in Nat /\ Len(t) = Len(s) + 1 /\ t[Len(s) + 1] = x
      /\ \A i \in 1 .. Len(s) : t[i] = s[i]
  BY ONLY s \in Seq(S), x \in S, Appended
<1> HIDE DEF t
<1>2. \A i \in 1 .. Len(t) : i \in 1 .. Len(s) \/ i = Len(s) + 1
  BY ONLY <1>1
<1>3. \A i \in 1 .. Len(s) : i \in 1 .. Len(t) /\ i < Len(s) + 1
  BY ONLY <1>1
<1>4. Len(s) + 1 \in 1 .. Len(t)
  BY ONLY <1>1
<1>5. (Contains(s, e) => Contains(t, e)) /\ Contains(t, x)
  BY ONLY <1>1, <1>3, <1>4, Zenon DEF Contains
<1>6. (Precedes(s, e, f) => Precedes(t, e, f)) /\ (Contains(s, e) => Precedes(t, e, x))
  BY ONLY <1>1, <1>3, <1>4, Zenon DEF Contains, Precedes
<1>7. Followed(s, e, f) /\ x # e => Followed(t, e, f)
  BY ONLY <1>1, <1>2, <1>3, Zenon DEF Followed
<1>8. x # e => Followed(t, e, x)
  BY ONLY <1>1, <1>2, <1>3, <1>4, Zenon DEF Followed
<1> QED
  BY <1>5, <1>6, <1>7, <1>8, Zenon DEF t

\* The head of a queue is read.
LEMMA QueueRead ==
  ASSUME NEW S, NEW s \in Seq(S), s # <<>>, NEW e, NEW f
  PROVE  /\ Contains(s, e) /\ Head(s) # e => Contains(Tail(s), e)
         /\ Followed(s, e, f) => Followed(Tail(s), e, f)
         /\ Followed(s, e, f) /\ Head(s) = e => Contains(Tail(s), f)
         /\ Precedes(s, e, f) => Contains(Tail(s), f)
         /\ Precedes(s, e, f) /\ Head(s) # e => Precedes(Tail(s), e, f)
<1> DEFINE t == Tail(s)
<1>1. /\ Len(s) \in Nat /\ Len(s) >= 1 /\ Len(t) = Len(s) - 1 /\ Head(s) = s[1]
      /\ \A i \in 1 .. Len(t) : t[i] = s[i + 1]
  BY ONLY s \in Seq(S), s # <<>>, Beheaded
<1> HIDE DEF t
<1>2. \A i \in 1 .. Len(s) : i = 1 \/ (i > 1 /\ i - 1 \in 1 .. Len(t) /\ t[i - 1] = s[i])
  BY ONLY <1>1
<1>3. \A i \in 1 .. Len(t) : i + 1 \in 1 .. Len(s) /\ i + 1 > 1 /\ t[i] = s[i + 1] /\ i + 1 - 1 = i
  BY ONLY <1>1
<1>4. 1 \in 1 .. Len(s) /\ ~(1 > 1)
  BY ONLY <1>1
<1>5. \A i, j \in 1 .. Len(s) : i < j => j > 1 /\ (i > 1 => i - 1 < j - 1) /\ ~(j = 1)
  BY ONLY <1>1
<1>6. Contains(s, e) /\ Head(s) # e => Contains(t, e)
  BY ONLY <1>1, <1>2, Zenon DEF Contains
<1>7. Followed(s, e, f) => Followed(t, e, f)
  <2> SUFFICES ASSUME Followed(s, e, f), NEW i \in 1 .. Len(t), t[i] = e
               PROVE  \E j \in 1 .. Len(t) : i < j /\ t[j] = f
    BY Zenon DEF Followed
  <2>1. i + 1 \in 1 .. Len(s) /\ s[i + 1] = e
    BY ONLY <1>3, i \in 1 .. Len(t), t[i] = e, Zenon
  <2>2. PICK j \in 1 .. Len(s) : i + 1 < j /\ s[j] = f
    BY <2>1, Zenon DEF Followed
  <2>3. j - 1 \in 1 .. Len(t) /\ i < j - 1 /\ t[j - 1] = f
    BY ONLY <1>1, <1>2, <2>1, <2>2, i \in 1 .. Len(t)
  <2> QED
    BY ONLY <2>3, Zenon
<1>8. Followed(s, e, f) /\ Head(s) = e => Contains(t, f)
  <2> SUFFICES ASSUME Followed(s, e, f), Head(s) = e PROVE Contains(t, f)
    BY Zenon
  <2>1. PICK j \in 1 .. Len(s) : 1 < j /\ s[j] = f
    BY <1>1, <1>4, Zenon DEF Followed
  <2>2. j - 1 \in 1 .. Len(t) /\ t[j - 1] = f
    BY ONLY <1>2, <1>4, <1>5, <2>1, Zenon
  <2> QED
    BY ONLY <2>2, Zenon DEF Contains
<1>9. Precedes(s, e, f) => Contains(t, f)
  BY ONLY <1>2, <1>5, Zenon DEF Precedes, Contains
<1>10. Precedes(s, e, f) /\ Head(s) # e => Precedes(t, e, f)
  <2> SUFFICES ASSUME Precedes(s, e, f), Head(s) # e PROVE Precedes(t, e, f)
    BY Zenon
  <2>1. PICK i, j \in 1 .. Len(s) : i < j /\ s[i] = e /\ s[j] = f
    BY Zenon DEF Precedes
  <2>2. i - 1 \in 1 .. Len(t) /\ j - 1 \in 1 .. Len(t) /\ t[i - 1] = e /\ t[j - 1] = f
    BY ONLY <1>1, <1>2, <1>5, <2>1, Head(s) # e, ZenonT(30)
  <2>3. i - 1 < j - 1
    BY ONLY <1>1, <2>1
  <2> QED
    BY ONLY <2>2, <2>3, Zenon DEF Precedes
<1> QED
  BY <1>6, <1>7, <1>8, <1>9, <1>10, Zenon DEF t

\* What is behind every e is behind one.
LEMMA FollowedPrecedes ==
  ASSUME NEW s, NEW e, NEW f, Followed(s, e, f), Contains(s, e)
  PROVE  Precedes(s, e, f)
BY Zenon DEF Followed, Contains, Precedes

\* Added and removed events of different objects differ.
LEMMA EventsDiffer ==
  ASSUME NEW a \in Addresses, NEW b \in Addresses
  PROVE  /\ Added(a) \in AdapterEvents /\ Removed(a) \in AdapterEvents /\ Added(a) # Removed(b)
         /\ Added(a).kind = "added" /\ Removed(a).kind = "removed" /\ Added(a).address = a /\ Removed(a).address = a
         /\ a # b => Added(a) # Added(b) /\ Removed(a) # Removed(b)
         /\ FreshEvent(a) \in DeviceEvents /\ FreshEvent(a).address = a /\ FreshEvent(a).data = "fresh"
BY Zenon DEF Added, Removed, AdapterEvents, FreshEvent, DeviceEvents
\* What leads to the data of an object still does when events are put behind
\* the queues.
LEMMA LeadsGrows ==
  ASSUME ScanInv, NEW b \in Addresses, Leads(b), UNCHANGED <<scan, added, preexisting, subscribed>>,
         UNCHANGED adapter \/ \E x \in AdapterEvents : adapter' = Append(adapter, x),
         UNCHANGED device \/ \E x \in DeviceEvents : device' = Append(device, x)
  PROVE  Leads(b)'
<1>1. adapter \in Seq(AdapterEvents) /\ device \in Seq(DeviceEvents)
  BY Zenon DEF ScanInv, ScanTypeOK
<1>2. (Added(b))' = Added(b) /\ (Removed(b))' = Removed(b) /\ (FreshEvent(b))' = FreshEvent(b)
  BY Zenon DEF Added, Removed, FreshEvent
<1>3. ASSUME NEW e, NEW f
      PROVE  /\ Contains(adapter, e) => Contains(adapter', e)
             /\ Precedes(adapter, e, f) => Precedes(adapter', e, f)
  <2>1. CASE \E x \in AdapterEvents : adapter' = Append(adapter, x)
    <3>1. PICK x \in AdapterEvents : adapter' = Append(adapter, x)
      BY <2>1, Zenon
    <3> QED
      BY <1>1, <3>1, QueueGrows, Zenon
  <2> QED
    BY <2>1, Zenon
<1>4. ASSUME NEW e
      PROVE  Contains(device, e) => Contains(device', e)
  <2>1. CASE \E x \in DeviceEvents : device' = Append(device, x)
    <3>1. PICK x \in DeviceEvents : device' = Append(device, x)
      BY <2>1, Zenon
    <3> QED
      BY <1>1, <3>1, QueueGrows, Zenon
  <2> QED
    BY <2>1, Zenon
<1> QED
  BY <1>3, <1>4, Zenon DEF Leads

\* An advertisement that reaches the scan leads to its data.
LEMMA AdvertiseLeads ==
  ASSUME OwedInv, NEW a \in Addresses, Advertise(a, "fresh"), Reaches(a)
  PROVE  Leads(a)'
<1>1. adapter \in Seq(AdapterEvents) /\ device \in Seq(DeviceEvents)
  BY Zenon DEF OwedInv, ScanInv, ScanTypeOK
<1>0. /\ WillBeNew(a) <=> a \notin preexisting \/ Contains(adapter, Removed(a))
      /\ Added(a) \in Range(adapter) <=> Contains(adapter, Added(a))
  BY <1>1, InQueue, Zenon DEF WillBeNew
<1>2. /\ UNCHANGED <<scan, added, preexisting, subscribed, streams>> /\ scan \in {"prepare", "loop"}
      /\ a \in Present \cap streams => device' = Append(device, FreshEvent(a))
      /\ Open /\ a \notin Present => adapter' = Append(adapter, Added(a))
      /\ ~(Open /\ a \notin Present) => adapter' = adapter
  BY Zenon DEF Advertise, sets, Emit, FreshEvent, Scanning
<1>3. CASE a \in Present \cap streams
  <2>1. device' = Append(device, FreshEvent(a)) /\ FreshEvent(a) \in DeviceEvents
    BY <1>2, <1>3, EventsDiffer, Zenon
  <2>2. Contains(device', FreshEvent(a))
    BY <1>1, <2>1, QueueGrows, Zenon
  <2> QED
    BY <2>2, Zenon DEF Leads
<1>4. CASE a \notin Present /\ Open /\ WillBeNew(a)
  <2>1. adapter' = Append(adapter, Added(a)) /\ Added(a) \in AdapterEvents
    BY <1>2, <1>4, EventsDiffer, Zenon
  <2>2. CASE Contains(adapter, Removed(a))
    <3>1. Precedes(adapter', Removed(a), Added(a))
      BY <1>1, <2>1, <2>2, QueueGrows, Zenon
    <3> QED
      BY <3>1, Zenon DEF Leads
  <2>3. CASE ~Contains(adapter, Removed(a))
    <3>1. a \notin preexisting /\ a \notin subscribed
      BY <1>0, <1>4, <2>3, Zenon DEF OwedInv, Announced, Present
    <3>2. Contains(adapter', Added(a))
      BY <1>1, <2>1, QueueGrows, Zenon
    <3> QED
      BY <1>2, <3>1, <3>2, Zenon DEF Leads
  <2> QED
    BY <2>2, <2>3, Zenon
<1>5. CASE scan = "prepare" /\ WillBeNew(a)
  <2>1. ~Contains(adapter, Removed(a))
    BY <1>5, SMT DEF OwedInv, Subscriptions, Contains
  <2> QED
    BY <1>0, <1>2, <1>5, <2>1, Zenon DEF Leads
<1>6. CASE a \in Present /\ a \notin streams /\ Open /\ WillBeNew(a) /\ Contains(adapter, Added(a))
  <2>1. adapter' = adapter /\ a \notin subscribed
    BY <1>2, <1>6, Zenon DEF OwedInv, Subscriptions
  <2>2. CASE Contains(adapter, Removed(a))
    <3>1. Precedes(adapter, Removed(a), Added(a))
      BY <1>6, <2>2, FollowedPrecedes, Zenon DEF OwedInv, Announced, Present
    <3> QED
      BY <2>1, <3>1, Zenon DEF Leads
  <2>3. CASE a \notin preexisting
    BY <1>2, <1>6, <2>1, <2>3, Zenon DEF Leads
  <2> QED
    BY <1>0, <1>6, <2>2, <2>3, Zenon
<1>7. CASE added = a
  BY <1>2, <1>7, Zenon DEF Leads
<1>8. Open \/ scan = "prepare"
  BY <1>2, Zenon DEF Open
<1> QED
  BY <1>0, <1>3, <1>4, <1>5, <1>6, <1>7, <1>8, Zenon DEF Reaches

\* The steps of BlueZ and of the speakers keep what is announced.
LEMMA BluezAnnounces ==
  ASSUME OwedInv, NEW a \in Addresses, Open, NEW b \in Addresses,
         (\E data \in {"bare", "fresh"} : Advertise(a, data)) \/ OtherChange(a) \/ Vanish(a)
  PROVE  Announced(b)'
<1>1. adapter \in Seq(AdapterEvents) /\ object \in [Addresses -> {"absent", "bare", "cached", "fresh"}] /\ Announced(b)
  BY Zenon DEF OwedInv, ScanInv, ScanTypeOK
<1>2. UNCHANGED <<preexisting, subscribed>>
  BY Zenon DEF Advertise, OtherChange, Vanish, sets
<1>3. \/ adapter' = adapter /\ (object'[b] = "absent" <=> object[b] = "absent")
      \/ adapter' = Append(adapter, Added(a)) /\ object'[a] # "absent" /\ (a # b => object'[b] = object[b])
      \/ adapter' = Append(adapter, Removed(a)) /\ object'[a] = "absent" /\ (a # b => object'[b] = object[b])
  BY <1>1, Zenon DEF Advertise, OtherChange, Vanish, Emit, Present
<1>4. /\ Added(a) \in AdapterEvents /\ Removed(a) \in AdapterEvents
      /\ Added(a) # Removed(b) /\ Removed(a) # Added(b) /\ (a # b => Added(a) # Added(b) /\ Removed(a) # Removed(b))
  BY EventsDiffer, Zenon
<1>5. CASE adapter' = adapter /\ (object'[b] = "absent" <=> object[b] = "absent")
  BY <1>1, <1>2, <1>5, Zenon DEF Announced
<1>6. CASE adapter' = Append(adapter, Added(a)) /\ object'[a] # "absent" /\ (a # b => object'[b] = object[b])
  <2>1. a # b => Announced(b)'
    BY <1>1, <1>2, <1>4, <1>6, QueueGrows, ZenonT(30) DEF Announced
  <2>2. a = b => Announced(b)'
    BY <1>1, <1>2, <1>4, <1>6, QueueGrows, ZenonT(30) DEF Announced
  <2> QED
    BY <2>1, <2>2, Zenon
<1>7. CASE adapter' = Append(adapter, Removed(a)) /\ object'[a] = "absent" /\ (a # b => object'[b] = object[b])
  <2>1. a # b => Announced(b)'
    BY <1>1, <1>2, <1>4, <1>7, QueueGrows, ZenonT(30) DEF Announced
  <2>2. a = b => Announced(b)'
    BY <1>1, <1>2, <1>4, <1>7, QueueGrows, ZenonT(30) DEF Announced
  <2> QED
    BY <2>1, <2>2, Zenon
<1> QED
  BY <1>3, <1>5, <1>6, <1>7, Zenon
\* The steps of BlueZ and of the speakers.
LEMMA BluezOwes ==
  ASSUME OwedInv, NEW a \in Addresses,
         (\E data \in {"bare", "fresh"} : Advertise(a, data)) \/ OtherChange(a) \/ Vanish(a)
  PROVE  OwedInv'
<1>1. ScanInv /\ ScanInv' /\ object \in [Addresses -> {"absent", "bare", "cached", "fresh"}]
  BY BluezStep, Zenon DEF OwedInv, ScanInv, ScanTypeOK
<1>2. /\ UNCHANGED <<scan, added, sets>> /\ Scanning
      /\ \A b \in Addresses : b # a => object'[b] = object[b]
      /\ owed' = owed \/ owed' = owed \ {a} \/ owed' = owed \cup {a}
      /\ scan = "snapshot" => owed' = owed \/ owed' = owed \ {a}
      /\ ~Open => adapter' = adapter
  BY <1>1, Zenon DEF Advertise, OtherChange, Vanish, Emit
<1>3. Subscriptions'
  BY <1>2, Zenon DEF OwedInv, Subscriptions, sets, Open
<1>4. /\ UNCHANGED adapter \/ \E x \in AdapterEvents : adapter' = Append(adapter, x)
      /\ UNCHANGED device \/ \E x \in DeviceEvents : device' = Append(device, x)
  <2>1. Added(a) \in AdapterEvents /\ Removed(a) \in AdapterEvents
    BY EventsDiffer, Zenon
  <2>2. \A data \in {"bare", "fresh"} : [address |-> a, data |-> data] \in DeviceEvents
    BY Zenon DEF DeviceEvents
  <2> QED
    BY <2>1, <2>2, Zenon DEF Advertise, OtherChange, Vanish, Emit
<1>5. ASSUME NEW b \in owed' PROVE b \in Addresses /\ object'[b] = "fresh" /\ Leads(b)'
  <2>1. CASE b \in owed /\ b # a
    <3>1. b \in Addresses /\ object[b] = "fresh" /\ Leads(b)
      BY <1>2, <2>1, Zenon DEF OwedInv, OwedLeads
    <3>2. Leads(b)'
      BY <1>1, <1>2, <1>4, <3>1, LeadsGrows, Zenon DEF sets
    <3> QED
      BY <1>2, <2>1, <3>1, <3>2, Zenon
  <2>2. CASE b = a
    <3>1. ~Vanish(a)
      BY <1>5, <2>2, Zenon DEF Vanish
    <3>2. a \in owed => object[a] = "fresh" /\ Leads(a)
      BY <1>2, Zenon DEF OwedInv, OwedLeads
    <3>3. object[a] = "fresh" \/ Advertise(a, "fresh")
      BY <1>5, <2>2, <3>1, <3>2, Zenon DEF Advertise, OtherChange
    <3>4. object'[a] = "fresh"
      BY <1>1, <3>1, <3>3, Zenon DEF Advertise, OtherChange
    <3>5. CASE a \in owed
      <4>1. Leads(a)'
        BY <1>1, <1>2, <1>4, <3>2, <3>5, LeadsGrows, Zenon DEF sets
      <4> QED
        BY <2>2, <3>4, <4>1, Zenon
    <3>6. CASE a \notin owed
      <4>1. Advertise(a, "fresh") /\ Reaches(a)
        BY <1>5, <2>2, <3>1, <3>6, Zenon DEF Advertise, OtherChange
      <4>2. Leads(a)'
        BY <4>1, AdvertiseLeads, Zenon
      <4> QED
        BY <2>2, <3>4, <4>2, Zenon
    <3> QED
      BY <3>5, <3>6, Zenon
  <2> QED
    BY <1>2, <1>5, <2>1, <2>2, Zenon
<1>6. Open' => \A b \in Addresses : Announced(b)'
  BY <1>2, BluezAnnounces, Zenon DEF Open
<1> QED
  BY <1>1, <1>3, <1>5, <1>6, Zenon DEF OwedInv, OwedLeads

\* An event of the adapter is read, and a is not the new object it announces.
LEMMA LeadsRead ==
  ASSUME OwedInv, adapter # <<>>, adapter' = Tail(adapter), NEW a \in Addresses,
         UNCHANGED <<scan, device, added>>, Open, added = NoAddress,
         a \in preexisting' => a \in preexisting, a \in subscribed' \ preexisting' => a \in subscribed \ preexisting,
         Head(adapter) = Removed(a) => a \notin preexisting' /\ a \notin subscribed',
         Head(adapter) = Added(a) => a \in preexisting \/ a \in subscribed,
         Leads(a)
  PROVE  Leads(a)'
<1>1. adapter \in Seq(AdapterEvents) /\ NoAddress \notin Addresses
  BY AddressesAssumption, Zenon DEF OwedInv, ScanInv, ScanTypeOK
<1>2. CASE Contains(device, FreshEvent(a))
  BY <1>2, Zenon DEF Leads
<1>3. CASE Contains(adapter, Added(a)) /\ a \notin preexisting /\ a \notin subscribed
  <2>1. Contains(adapter', Added(a))
    BY <1>1, <1>3, QueueRead, Zenon
  <2> QED
    BY <1>3, <2>1, Zenon DEF Leads
<1>4. CASE Precedes(adapter, Removed(a), Added(a)) /\ Head(adapter) = Removed(a)
  <2>1. Contains(adapter', Added(a))
    BY <1>1, <1>4, QueueRead, Zenon
  <2> QED
    BY <1>4, <2>1, Zenon DEF Leads
<1>5. CASE Precedes(adapter, Removed(a), Added(a)) /\ Head(adapter) # Removed(a)
  <2>1. Precedes(adapter', Removed(a), Added(a))
    BY <1>1, <1>5, QueueRead, Zenon
  <2> QED
    BY <2>1, Zenon DEF Leads
<1>6. scan # "prepare" /\ added # a
  BY <1>1, Zenon DEF Open
<1> QED
  BY <1>2, <1>3, <1>4, <1>5, <1>6, Zenon DEF Leads

\* An event of the adapter is read: what is announced stays so, when a new
\* subscription is one of the object the event announces.
LEMMA AnnouncedRead ==
  ASSUME OwedInv, adapter # <<>>, adapter' = Tail(adapter), NEW a \in Addresses, UNCHANGED object, Open,
         a \in subscribed' \ preexisting' =>
             Head(adapter) # Removed(a) /\ (a \in subscribed \ preexisting \/ Head(adapter) = Added(a))
  PROVE  Announced(a)'
<1>1. adapter \in Seq(AdapterEvents) /\ Announced(a)
  BY Zenon DEF OwedInv, ScanInv, ScanTypeOK
<1>2. /\ object'[a] # "absent" => Followed(adapter', Removed(a), Added(a))
      /\ object'[a] = "absent" => Followed(adapter', Added(a), Removed(a))
  BY <1>1, QueueRead, Zenon DEF Announced
<1>3. ASSUME object[a] = "absent", a \in subscribed' \ preexisting' PROVE Contains(adapter', Removed(a))
  <2>1. CASE Head(adapter) = Added(a)
    BY <1>1, <1>3, <2>1, QueueRead, Zenon DEF Announced
  <2>2. CASE a \in subscribed \ preexisting
    BY <1>1, <1>3, <2>2, QueueRead, Zenon DEF Announced
  <2> QED
    BY <1>3, <2>1, <2>2, Zenon
<1> QED
  BY <1>2, <1>3, Zenon DEF Announced
\* An enumeration of a set of objects names each of them, and no other.
LEMMA EnumerationNamesAll ==
  ASSUME NEW S \in SUBSET Addresses, NEW s \in Orders(S), NEW a \in Addresses
  PROVE  Contains(s, a) <=> a \in S
<1>1. Cardinality(S) \in Nat
  BY AddressesAssumption, FS_Subset, FS_CardinalityType
<1>2. /\ s \in [1 .. Cardinality(S) -> S]
      /\ \A b \in S : \E i \in 1 .. Cardinality(S) : s[i] = b
  BY Zenon DEF Orders, Bijection, Surjection
<1>3. Len(s) = Cardinality(S)
  BY ONLY <1>1, <1>2, SMT
<1> QED
  BY <1>2, <1>3, Zenon DEF Contains

\* The replay of discover_devices announces every object there is, and no other.
LEMMA ReplayNamesAll ==
  ASSUME ScanInv, discover_devices, NEW a \in Addresses
  PROVE  (Contains(adapter', Added(a)) <=> a \in Present) /\ ~Contains(adapter', Removed(a))
<1>1. PICK twice \in SUBSET (Present \ preexisting) :
        \E replay \in Orders(Present), again \in Orders(twice) :
           adapter' = [i \in DOMAIN (replay \o again) |-> Added((replay \o again)[i])]
  BY Zenon DEF discover_devices
<1>2. PICK replay \in Orders(Present), again \in Orders(twice) :
           adapter' = [i \in DOMAIN (replay \o again) |-> Added((replay \o again)[i])]
  BY <1>1, Zenon
<1> DEFINE all == replay \o again
<1>3. Present \in SUBSET Addresses /\ twice \in SUBSET Addresses /\ twice \in SUBSET Present
  BY Zenon DEF Present
<1>4. replay \in Seq(Addresses) /\ again \in Seq(Addresses)
  BY <1>2, <1>3, EnumerationIsSequence, Zenon
<1>5. /\ all \in Seq(Addresses) /\ Len(all) \in Nat /\ DOMAIN all = 1 .. Len(all)
      /\ Len(all) = Len(replay) + Len(again) /\ Len(replay) \in Nat /\ Len(again) \in Nat
      /\ \A i \in 1 .. Len(all) : all[i] = IF i <= Len(replay) THEN replay[i] ELSE again[i - Len(replay)]
  BY ONLY <1>4, Joined, SMT
<1>6. (Contains(replay, a) <=> a \in Present) /\ (Contains(again, a) <=> a \in twice)
  BY <1>2, <1>3, EnumerationNamesAll, Zenon
<1>7. adapter' = [i \in DOMAIN all |-> Added(all[i])]
  BY <1>2, Zenon
<1> HIDE DEF all
<1>8. Contains(all, a) <=> a \in Present
  <2>1. ASSUME NEW i \in 1 .. Len(all), all[i] = a PROVE Contains(replay, a) \/ Contains(again, a)
    <3>1. \/ i \in 1 .. Len(replay) /\ all[i] = replay[i]
          \/ i - Len(replay) \in 1 .. Len(again) /\ all[i] = again[i - Len(replay)]
      BY ONLY <1>5, i \in 1 .. Len(all), SMT
    <3> QED
      BY <2>1, <3>1, Zenon DEF Contains
  <2>2. ASSUME NEW i \in 1 .. Len(replay), replay[i] = a PROVE i \in 1 .. Len(all) /\ all[i] = a
    BY ONLY <1>5, <2>2, SMT
  <2>3. Contains(replay, a) => Contains(all, a)
    BY <2>2, Zenon DEF Contains
  <2>4. Contains(all, a) => Contains(replay, a) \/ Contains(again, a)
    BY <2>1, Zenon DEF Contains
  <2> QED
    BY <1>3, <1>6, <2>3, <2>4, Zenon
<1>9. Len(adapter') = Len(all) /\ \A i \in 1 .. Len(all) : adapter'[i] = Added(all[i]) /\ all[i] \in Addresses
  BY ONLY <1>5, <1>7, SMT
<1>10. \A b \in Addresses : Added(b) # Removed(a) /\ (b # a => Added(b) # Added(a))
  BY EventsDiffer, Zenon
<1> QED
  BY ONLY <1>8, <1>9, <1>10, a \in Addresses, Zenon DEF Contains

\* The start of the discovery.
LEMMA DiscoveryOwes ==
  ASSUME OwedInv, discover_devices
  PROVE  OwedInv'
<1>1. ScanInv /\ ScanInv'
  BY ScanStep, Zenon DEF OwedInv
<1>2. /\ scan = "prepare" /\ scan' = "loop" /\ added = NoAddress
      /\ UNCHANGED <<object, device, preexisting, subscribed, streams, todo, added, owed>>
      /\ subscribed \subseteq preexisting
  BY Zenon DEF discover_devices, sets, OwedInv, Subscriptions
<1>3. Subscriptions'
  BY <1>2, Zenon DEF OwedInv, Subscriptions
<1>4. ASSUME NEW a \in owed PROVE a \in Addresses /\ object'[a] = "fresh" /\ Leads(a)'
  <2>1. a \in Addresses /\ object[a] = "fresh" /\ Leads(a) /\ a \in Present
    BY <1>2, <1>4, Zenon DEF OwedInv, OwedLeads, Scanning, Present
  <2>2. Contains(adapter', Added(a)) /\ ~Contains(adapter, Added(a)) /\ ~Precedes(adapter, Removed(a), Added(a))
    <3>1. adapter = <<>>
      BY <1>2, Zenon DEF OwedInv, Subscriptions
    <3>2. Contains(adapter', Added(a))
      BY <1>1, <2>1, ReplayNamesAll, Zenon
    <3>3. \A i : i \notin 1 .. Len(<<>>)
      BY SMT
    <3> QED
      BY <3>1, <3>2, <3>3, Zenon DEF Contains, Precedes
  <2>3. added # a
    BY <1>2, <2>1, AddressesAssumption, Zenon
  <2> QED
    BY <1>2, <2>1, <2>2, <2>3, Zenon DEF Leads
<1>5. ASSUME NEW a \in Addresses PROVE Announced(a)'
  <2>1. (Contains(adapter', Added(a)) <=> a \in Present) /\ ~Contains(adapter', Removed(a))
    BY <1>1, ReplayNamesAll, Zenon
  <2> QED
    BY <1>2, <2>1, Zenon DEF Announced, Followed, Contains, Present
<1> QED
  BY <1>1, <1>2, <1>3, <1>4, <1>5, Zenon DEF OwedInv, OwedLeads
\* A step that reads an added or a removed event.
LEMMA AdapterOwes ==
  ASSUME OwedInv, device_removed \/ preexisting_added \/ duplicate_added \/ device_added
  PROVE  OwedInv'
<1> DEFINE h == Head(adapter).address
<1>1. ScanInv /\ ScanInv'
  BY ScanStep, Zenon DEF OwedInv
<1>2. /\ Open /\ added = NoAddress /\ adapter # <<>> /\ adapter' = Tail(adapter)
      /\ UNCHANGED <<scan, object, device, todo>> /\ scan' = "loop" /\ scan = "loop"
  BY Zenon DEF device_removed, preexisting_added, duplicate_added, device_added, NextEvent, Reading, sets, Open
<1>3. /\ Head(adapter) \in AdapterEvents /\ h \in Addresses
      /\ Head(adapter) = IF Head(adapter).kind = "added" THEN Added(h) ELSE Removed(h)
  <2>1. Head(adapter) \in AdapterEvents
    BY <1>1, <1>2, EventsRead, Zenon
  <2> QED
    BY ONLY <2>1, Zenon DEF AdapterEvents, Added, Removed
<1>4. \/ /\ Head(adapter) = Removed(h) /\ preexisting' = preexisting \ {h} /\ subscribed' = subscribed \ {h}
         /\ UNCHANGED <<streams, added, owed>>
      \/ /\ Head(adapter) = Added(h) /\ UNCHANGED <<preexisting, added, owed>>
         /\ h \in preexisting \/ h \in subscribed
         /\ \/ UNCHANGED <<subscribed, streams>>
            \/ h \in preexisting /\ subscribed' = subscribed \cup {h} /\ streams' = streams \cup {h}
      \/ /\ Head(adapter) = Added(h) /\ h \notin preexisting /\ UNCHANGED preexisting
         /\ \/ subscribed' = subscribed \cup {h} /\ streams' = streams \cup {h} /\ added' = h /\ UNCHANGED owed
            \/ UNCHANGED <<subscribed, streams, added>> /\ owed' = owed \ {h}
  BY <1>3, Zenon DEF device_removed, preexisting_added, duplicate_added, device_added, NextEvent, New,
                     Subscribe, SubscribeFailed, sets
<1> HIDE DEF h
<1>5. Subscriptions'
  <2>1. \A a \in subscribed : a \in streams
    BY Zenon DEF OwedInv, Subscriptions
  <2>2. QED
    <3>1. \A a \in subscribed' : a \in streams'
      BY <1>4, <2>1, Zenon
    <3>2. added' # NoAddress => added' \notin preexisting'
      BY <1>2, <1>4, Zenon
    <3>3. scan' # "snapshot" /\ scan' # "prepare"
      BY <1>2, Zenon
    <3> QED
      BY <3>1, <3>2, <3>3, Zenon DEF Subscriptions
<1>6. ASSUME NEW a \in Addresses PROVE Announced(a)'
  <2>1. a # h => Added(h) # Added(a) /\ Removed(h) # Removed(a)
    BY <1>3, EventsDiffer, Zenon
  <2>2. Added(h) # Removed(a)
    BY <1>3, EventsDiffer, Zenon
  <2>3. a \in subscribed' \ preexisting' =>
          Head(adapter) # Removed(a) /\ (a \in subscribed \ preexisting \/ Head(adapter) = Added(a))
    <3>1. CASE a = h
      BY <1>4, <2>2, <3>1, Zenon
    <3>2. CASE a # h
      <4>1. Head(adapter) # Removed(a)
        BY <1>4, <2>1, <2>2, <3>2, Zenon
      <4>2. (a \in subscribed' => a \in subscribed) /\ (a \in preexisting => a \in preexisting')
        BY <1>4, <3>2, Zenon
      <4> QED
        BY <4>1, <4>2, Zenon
    <3> QED
      BY <3>1, <3>2, Zenon
  <2> QED
    BY <1>2, <2>3, AnnouncedRead, Zenon
<1>7. ASSUME NEW a \in owed' PROVE a \in Addresses /\ object'[a] = "fresh" /\ Leads(a)'
  <2>1. a \in owed
    BY <1>4, <1>7, Zenon
  <2>2. a \in Addresses /\ object[a] = "fresh" /\ Leads(a)
    BY <1>2, <2>1, Zenon DEF OwedInv, OwedLeads, Scanning
  <2>3. CASE added' = a
    BY <1>2, <2>2, <2>3, Zenon DEF Leads
  <2>4. CASE added' # a
    <3>1. a # h => Added(h) # Added(a) /\ Removed(h) # Removed(a)
      BY <1>3, <2>2, EventsDiffer, Zenon
    <3>2. Added(h) # Removed(a) /\ Added(a) # Removed(h)
      BY <1>3, <2>2, EventsDiffer, Zenon
    <3>3. ASSUME added' = h, Head(adapter) = Added(h), subscribed' = subscribed \cup {h}, UNCHANGED preexisting
          PROVE  Leads(a)'
      <4>1. a # h /\ Head(adapter) # Added(a) /\ Head(adapter) # Removed(a)
        BY <2>4, <3>1, <3>2, <3>3, Zenon
      <4>2. adapter \in Seq(AdapterEvents) /\ added # a /\ scan # "prepare"
        BY <1>1, <1>2, <2>2, AddressesAssumption, ZenonT(30) DEF ScanInv, ScanTypeOK
      <4>3. /\ Contains(adapter, Added(a)) => Contains(adapter', Added(a))
            /\ Precedes(adapter, Removed(a), Added(a)) => Precedes(adapter', Removed(a), Added(a))
        BY <1>2, <4>1, <4>2, QueueRead, Zenon
      <4> QED
        BY <1>2, <2>2, <3>3, <4>1, <4>2, <4>3, Zenon DEF Leads
    <3>4. ASSUME ~(added' = h /\ Head(adapter) = Added(h)) PROVE Leads(a)'
      <4>1. /\ UNCHANGED added
            /\ a \in preexisting' => a \in preexisting
            /\ a \in subscribed' \ preexisting' => a \in subscribed \ preexisting
            /\ Head(adapter) = Removed(a) => a \notin preexisting' /\ a \notin subscribed'
            /\ Head(adapter) = Added(a) => a \in preexisting \/ a \in subscribed
        BY <1>4, <1>7, <3>1, <3>2, <3>4, Zenon
      <4> QED
        BY <1>2, <2>2, <4>1, LeadsRead, Zenon
    <3> QED
      BY <1>2, <1>3, <1>4, <2>2, <3>3, <3>4, AddressesAssumption, Zenon
  <2> QED
    BY <1>2, <2>2, <2>3, <2>4, Zenon
<1> QED
  BY <1>1, <1>5, <1>6, <1>7, Zenon DEF OwedInv, OwedLeads

\* The other steps of scan_once.
LEMMA ScanOwes ==
  ASSUME OwedInv,
         \/ device_addresses \/ \E a \in Addresses : subscribe_preexisting(a)
         \/ read_new_object \/ device_event \/ scan_ends
  PROVE  OwedInv'
<1>1. ScanInv /\ ScanInv'
  BY ScanStep, Zenon DEF OwedInv
<1>2. CASE device_addresses
  <2>1. /\ scan = "snapshot" /\ scan' = "prepare" /\ owed = {} /\ subscribed = {} /\ adapter = <<>> /\ added = NoAddress
        /\ preexisting' = todo' /\ UNCHANGED <<adapter, subscribed, streams, added, owed>>
    BY <1>2, Zenon DEF device_addresses, bluez, OwedInv, Subscriptions
  <2> QED
    BY <1>1, <2>1, ZenonT(30) DEF OwedInv, Subscriptions, OwedLeads, Open
<1>3. CASE \E a \in Addresses : subscribe_preexisting(a)
  <2>1. PICK a \in Addresses : subscribe_preexisting(a)
    BY <1>3, Zenon
  <2>2. /\ scan = "prepare" /\ a \in todo /\ a \in preexisting
        /\ UNCHANGED <<scan, object, adapter, device, preexisting, added, owed>>
        /\ todo' = todo \ {a}
        /\ \/ subscribed' = subscribed \cup {a} /\ streams' = streams \cup {a}
           \/ UNCHANGED <<subscribed, streams>>
    BY <2>1, Zenon DEF subscribe_preexisting, Subscribe, SubscribeFailed, bluez, OwedInv, Subscriptions
  <2>3. Subscriptions'
    BY <2>2, Zenon DEF OwedInv, Subscriptions
  <2>4. ~Open' /\ Scanning /\ Scanning'
    BY <2>2, Zenon DEF Open, Scanning
  <2>5. ASSUME NEW b \in owed PROVE b \in Addresses /\ object'[b] = "fresh" /\ Leads(b)'
    <3>1. b \in Addresses /\ object[b] = "fresh" /\ Leads(b)
      BY <2>4, Zenon DEF OwedInv, OwedLeads
    <3>2. Contains(adapter, Added(b)) /\ b \notin preexisting => Leads(b)'
      BY <2>2, Zenon DEF Leads
    <3> QED
      BY <2>2, <3>1, <3>2, Zenon DEF Leads
  <2> QED
    BY <1>1, <2>2, <2>3, <2>4, <2>5, Zenon DEF OwedInv, OwedLeads
<1>4. CASE read_new_object
  <2>1. /\ Open /\ added # NoAddress /\ added' = NoAddress
        /\ UNCHANGED <<object, adapter, device, preexisting, subscribed, streams, todo>>
        /\ \/ UNCHANGED <<scan, owed>> /\ object[added] \notin {"fresh", "cached"}
           \/ scan' = "found"
           \/ owed' = owed \ {added} /\ UNCHANGED scan
    BY <1>4, Zenon DEF read_new_object, reduce_fresh_advertisement, bluez, sets
  <2>2. ASSUME Scanning', NEW a \in owed' PROVE a \in Addresses /\ object'[a] = "fresh" /\ Leads(a)'
    <3>1. scan' = scan /\ a \in owed /\ Scanning
      BY <2>1, <2>2, ZenonT(30) DEF Scanning
    <3>2. a \in Addresses /\ object[a] = "fresh" /\ Leads(a)
      BY <3>1, Zenon DEF OwedInv, OwedLeads
    <3>3. a # added
      BY <2>1, <2>2, <3>1, <3>2, ZenonT(30) DEF Scanning
    <3> QED
      BY <2>1, <3>1, <3>2, <3>3, Zenon DEF Leads
  <2>3. Subscriptions' /\ (Open' => \A a \in Addresses : Announced(a)')
    <3>1. scan' = scan \/ scan' = "found"
      BY <2>1, Zenon
    <3>2. Open' => \A a \in Addresses : Announced(a)'
      BY <2>1, Zenon DEF OwedInv, Announced
    <3> QED
      BY <2>1, <3>1, <3>2, ZenonT(30) DEF OwedInv, Subscriptions, Open
  <2> QED
    BY <1>1, <2>2, <2>3, Zenon DEF OwedInv, OwedLeads
<1>5. CASE device_event
  <2>1. /\ Open /\ added = NoAddress /\ device # <<>> /\ device' = Tail(device)
        /\ UNCHANGED <<object, adapter, preexisting, subscribed, streams, todo, added>>
        /\ \/ UNCHANGED <<scan, owed>> /\ Head(device).data \notin {"fresh", "cached"}
           \/ scan' = "found"
           \/ owed' = owed \ {Head(device).address} /\ UNCHANGED scan
    BY <1>5, Zenon DEF device_event, reduce_fresh_advertisement, sets, Reading
  <2>2. ASSUME Scanning', NEW a \in owed' PROVE a \in Addresses /\ object'[a] = "fresh" /\ Leads(a)'
    <3>1. scan' = scan /\ a \in owed /\ Scanning
      BY <2>1, <2>2, ZenonT(30) DEF Scanning
    <3>2. a \in Addresses /\ object[a] = "fresh" /\ Leads(a)
      BY <3>1, Zenon DEF OwedInv, OwedLeads
    <3>3. FreshEvent(a).address = a /\ FreshEvent(a).data = "fresh"
      BY <3>2, EventsDiffer, Zenon
    <3>4. Head(device) # FreshEvent(a)
      BY <2>1, <2>2, <3>1, <3>3, ZenonT(30) DEF Scanning
    <3>5. device \in Seq(DeviceEvents)
      BY <1>1, Zenon DEF ScanInv, ScanTypeOK
    <3>6. Contains(device, FreshEvent(a)) => Contains(device', FreshEvent(a))
      BY <2>1, <3>4, <3>5, QueueRead, Zenon
    <3> QED
      BY <2>1, <3>1, <3>2, <3>6, Zenon DEF Leads
  <2>3. Subscriptions' /\ (Open' => \A a \in Addresses : Announced(a)')
    <3>1. scan' = scan \/ scan' = "found"
      BY <2>1, Zenon
    <3>2. Open' => \A a \in Addresses : Announced(a)'
      BY <2>1, Zenon DEF OwedInv, Announced
    <3> QED
      BY <2>1, <3>1, <3>2, ZenonT(30) DEF OwedInv, Subscriptions, Open
  <2> QED
    BY <1>1, <2>2, <2>3, Zenon DEF OwedInv, OwedLeads
<1>6. CASE scan_ends
  <2>1. /\ scan' \in {"none", "error"} /\ UNCHANGED <<adapter, preexisting, subscribed, streams, todo, added, owed>>
    BY <1>6, Zenon DEF scan_ends, bluez, sets
  <2>2. Subscriptions' /\ ~Open' /\ ~Scanning'
    BY <2>1, ZenonT(30) DEF OwedInv, Subscriptions, Open, Scanning
  <2> QED
    BY <1>1, <2>2, Zenon DEF OwedInv, OwedLeads
<1> QED
  BY <1>2, <1>3, <1>4, <1>5, <1>6, Zenon

\* The scan has missed no advertisement once its events are read, for any
\* number of objects and of events under way.
THEOREM ScanMissesNothing == ScanSpec => []NothingMissed
<1>1. CInit => OwedInv
  <2> SUFFICES ASSUME CInit PROVE OwedInv
    BY Zenon
  <2> QED
    BY ScanInitial, Zenon DEF CInit, OwedInv, Subscriptions, OwedLeads, Open, Scanning
<1>2. OwedInv /\ UNCHANGED cvars => OwedInv'
  <2> SUFFICES ASSUME OwedInv, UNCHANGED cvars PROVE OwedInv'
    BY Zenon
  <2>1. UNCHANGED <<scan, object, adapter, device, preexisting, subscribed, streams, todo, added, evidence, owed>>
    BY Zenon DEF cvars, bluez, sets
  <2> QED
    BY <2>1, Zenon DEF OwedInv, ScanInv, ScanTypeOK, CachedKnown, FreshOnly, Subscriptions, OwedLeads, Leads, Announced,
                       Open, Scanning
<1>3. OwedInv /\ [CNext]_cvars => OwedInv'
  BY <1>2, BluezOwes, DiscoveryOwes, AdapterOwes, ScanOwes, Zenon DEF CNext
<1>4. OwedInv => NothingMissed
  <2> SUFFICES ASSUME OwedInv, Open, added = NoAddress, adapter = <<>>, device = <<>>, NEW a \in owed PROVE FALSE
    BY Zenon DEF NothingMissed, Reading
  <2>1. a \in Addresses /\ Leads(a) /\ scan # "prepare"
    BY Zenon DEF OwedInv, OwedLeads, Open, Scanning
  <2>2. \A i : i \notin 1 .. Len(<<>>)
    BY SMT
  <2>3. a # NoAddress
    BY <2>1, AddressesAssumption, Zenon
  <2> QED
    BY <2>1, <2>2, <2>3, Zenon DEF Leads, Contains, Precedes
<1> QED
  BY <1>1, <1>3, <1>4, PTL DEF ScanSpec
-----------------------------------------------------------------------------
(* The acquisition *)

\* The latest time at which a phase may begin.
BeforeInspect == StableTimeout
BeforeProfile == BeforeInspect + InspectTimeout
BeforeFddf == BeforeProfile + ConnectTimeout
BeforeDisconnect == BeforeFddf + FddfTimeout
BeforeRelease == BeforeDisconnect + ReleaseTimeout

\* How much of the deadline the phases up to the release have used.
Budget ==
    /\ apc = "stable" => now = 0
    /\ apc = "inspect" => now <= BeforeInspect
    /\ apc = "profile" => now <= BeforeProfile
    /\ apc = "fddf" => now <= BeforeFddf
    /\ apc = "disconnect" => now <= BeforeDisconnect
    /\ apc = "release" => now <= BeforeRelease

\* Attempts left, by phase.
AttemptsLeft ==
    /\ apc \notin Ended \cup {"attempt", "delay"} => attempt = 0
    /\ apc \in {"attempt", "delay"} => attempt < ScanAttempts

AInv == ATypeOK /\ AttemptsLeft /\ DeadlineKept /\ Budget /\ FallbackReleased /\ HeldReported

\* Every timing is a positive number, and the five that precede the end of the
\* release add up to less than the total.
LEMMA Timings ==
    /\ StableTimeout \in Nat /\ InspectTimeout \in Nat /\ ConnectTimeout \in Nat
    /\ FddfTimeout \in Nat /\ ReleaseTimeout \in Nat /\ ScanWindow \in Nat
    /\ DeviceTimeout \in Nat /\ SetupTimeout \in Nat /\ RetryDelay \in Nat
    /\ TotalTimeout \in Nat /\ ScanAttempts \in Nat /\ ScanAttempts > 0
    /\ BeforeRelease < TotalTimeout
BY TimingsAssumption DEF Durations, BeforeRelease, BeforeDisconnect, BeforeFddf, BeforeProfile, BeforeInspect

\* An operation ends within its timeout and before the deadline.
LEMMA EndsInTime ==
    ASSUME NEW timeout \in Nat, now \in Nat, now <= TotalTimeout, Ends(timeout)
    PROVE  now' \in Nat /\ now' <= TotalTimeout /\ now' <= now + timeout /\ now <= now'
BY Timings DEF Ends, Earlier

\* The initial state satisfies the inductive invariant.
LEMMA InitAInv == AInit => AInv
<1> SUFFICES ASSUME AInit PROVE AInv
  OBVIOUS
<1> USE DEF AInit, Ended, Eligible, Ineligible, WakeStage
<1>1. primary \in BOOLEAN /\ woken \in BOOLEAN /\ slipped \in BOOLEAN /\ ~woken
  BY Zenon
<1>2. ATypeOK
  BY <1>1, Timings DEF ATypeOK
<1>3. AttemptsLeft /\ DeadlineKept /\ Budget /\ FallbackReleased /\ HeldReported
  BY <1>1, Timings, SMTT(30) DEF AttemptsLeft, DeadlineKept, Budget, FallbackReleased, HeldReported
<1>4. QED
  BY <1>2, <1>3 DEF AInv

\* Every step of the acquisition and of BlueZ preserves it.
LEMMA NextAInv == AInv /\ [ANext]_avars => AInv'
<1> SUFFICES ASSUME AInv, [ANext]_avars PROVE AInv'
  OBVIOUS
<1> USE DEF AInv, ATypeOK, AttemptsLeft, DeadlineKept, Budget, FallbackReleased, HeldReported,
    Ended, Eligible, Ineligible, WakeStage
<1>1. CASE connect_verified
  <2>1. primary' \in BOOLEAN /\ woken' \in BOOLEAN /\ slipped' \in BOOLEAN /\ ~woken'
    BY <1>1, Zenon DEF connect_verified
  <2>2. QED
    BY <1>1, <2>1, Timings DEF connect_verified
<1>2. CASE connect_raw_att
  <2>1. now' \in Nat /\ now' <= TotalTimeout /\ now' <= now + StableTimeout
    BY <1>2, Timings, EndsInTime DEF connect_raw_att
  <2>2. QED
    BY <1>2, <2>1, Timings DEF connect_raw_att, Fail, BeforeInspect
<1>3. CASE inspect_stable_device
  <2>1. now' \in Nat /\ now' <= TotalTimeout /\ now' <= now + InspectTimeout
    BY <1>3, Timings, EndsInTime DEF inspect_stable_device
  <2>2. QED
    BY <1>3, <2>1, Timings DEF inspect_stable_device, BeforeProfile, BeforeInspect
<1>4. CASE connect_profile
  <2>1. now' \in Nat /\ now' <= TotalTimeout /\ now' <= now + ConnectTimeout
    BY <1>4, Timings, EndsInTime DEF connect_profile
  <2>2. now' <= BeforeFddf /\ now' <= BeforeDisconnect
    BY <1>4, <2>1, Timings DEF connect_profile, BeforeDisconnect, BeforeFddf, BeforeProfile, BeforeInspect
  <2>3. QED
    BY <1>4, <2>1, <2>2, Timings DEF connect_profile
<1>5. CASE wait_for_fresh_fddf
  <2>1. now' \in Nat /\ now' <= TotalTimeout /\ now' <= now + FddfTimeout
    BY <1>5, Timings, EndsInTime DEF wait_for_fresh_fddf
  <2>2. now' <= BeforeDisconnect
    BY <1>5, <2>1, Timings DEF wait_for_fresh_fddf, BeforeDisconnect, BeforeFddf, BeforeProfile, BeforeInspect
  <2>3. QED
    BY <1>5, <2>1, <2>2, Timings, Zenon DEF wait_for_fresh_fddf
<1>6. CASE disconnect_profile
  <2>1. now' \in Nat /\ now' <= TotalTimeout /\ now' <= now + ReleaseTimeout
    BY <1>6, Timings, EndsInTime DEF disconnect_profile
  <2>2. now' <= BeforeRelease
    BY <1>6, <2>1, Timings DEF disconnect_profile, BeforeRelease, BeforeDisconnect, BeforeFddf, BeforeProfile, BeforeInspect
  <2>3. QED
    BY <1>6, <2>1, <2>2, Timings DEF disconnect_profile
<1>7. CASE wait_profile_released
  <2>1. now' \in Nat /\ now' <= TotalTimeout
    BY <1>7, Timings, EndsInTime DEF wait_profile_released
  <2>2. slipped' \in BOOLEAN /\ (apc' # "failed" => a2dp = "off" \/ slipped')
    BY <1>7, Zenon DEF wait_profile_released, Fail
  <2>3. QED
    BY <1>7, <2>1, <2>2, Timings DEF wait_profile_released, Fail
<1>8. CASE connect_le_raw
  <2>1. now' \in Nat /\ now' <= TotalTimeout
    BY <1>8, Timings, EndsInTime DEF connect_le_raw
  <2>2. QED
    BY <1>8, <2>1, Timings DEF connect_le_raw, Fail, Reported
<1>9. CASE connect_le_raw_attempt
  <2>1. ScanWindow + DeviceTimeout + SetupTimeout \in Nat
    BY Timings
  <2>2. now' \in Nat /\ now' <= TotalTimeout
    BY <1>9, <2>1, Timings, EndsInTime DEF connect_le_raw_attempt
  <2>3. QED
    BY <1>9, <2>2, Timings DEF connect_le_raw_attempt, Fail, Reported
<1>10. CASE retry_connect_attempts
  <2>1. now' \in Nat /\ now' <= TotalTimeout
    BY <1>10, Timings DEF retry_connect_attempts, Earlier
  <2>2. QED
    BY <1>10, <2>1, Timings DEF retry_connect_attempts, Fail, Reported
<1>11. CASE ProfileSettles
  BY <1>11 DEF ProfileSettles
<1>12. CASE UNCHANGED avars
  BY <1>12 DEF avars
<1>13. CASE Return
  <2>1. primary' \in BOOLEAN /\ woken' \in BOOLEAN /\ slipped' \in BOOLEAN /\ ~woken'
    BY <1>13, Zenon DEF Return
  <2>2. QED
    BY <1>13, <2>1, Timings DEF Return
<1>14. QED
  BY <1>1, <1>2, <1>3, <1>4, <1>5, <1>6, <1>7, <1>8, <1>9, <1>10, <1>11, <1>12, <1>13 DEF ANext, Acquisition

\* AInv holds throughout every acquisition.
THEOREM AcquisitionInvariant == ASpec => []AInv
BY InitAInv, NextAInv, PTL DEF ASpec

\* One hard deadline for all phases, retries and delays, whatever the timings.
THEOREM AcquisitionDeadline == ASpec => []DeadlineKept
<1>1. AInv => DeadlineKept
  BY DEF AInv
<1>2. QED
  BY <1>1, AcquisitionInvariant, PTL

\* DisconnectProfile is sent and its effect awaited before the deadline, for all
\* timings under which the wake fits into it.
THEOREM WakeReleasedInTime == ASpec => []ReleaseInTime
<1>1. AInv => ReleaseInTime
  <2> SUFFICES ASSUME AInv, apc \in {"disconnect", "release"} PROVE now < TotalTimeout
    BY Timings DEF ReleaseInTime, Expired, AInv, ATypeOK
  <2>1. BeforeDisconnect <= BeforeRelease /\ BeforeRelease \in Nat /\ BeforeDisconnect \in Nat
    BY Timings DEF BeforeRelease, BeforeDisconnect, BeforeFddf, BeforeProfile, BeforeInspect
  <2>2. QED
    BY <2>1, Timings DEF AInv, Budget, ATypeOK
<1>2. QED
  BY <1>1, AcquisitionInvariant, PTL

\* No raw ATT fallback with the wake profile held, but for a slipped connection.
THEOREM FallbackOnlyReleased == ASpec => []FallbackReleased
<1>1. AInv => FallbackReleased
  BY DEF AInv
<1>2. QED
  BY <1>1, AcquisitionInvariant, PTL

\* A profile left held is what the acquisition reports.
THEOREM HeldProfileReported == ASpec => []HeldReported
<1>1. AInv => HeldReported
  BY DEF AInv
<1>2. QED
  BY <1>1, AcquisitionInvariant, PTL

-----------------------------------------------------------------------------
(* The channel *)

HSteps == {"idle", "connect", "write", "wait"}
Received == [command : Commands, live : BOOLEAN]

\* Every variable of the channel stays in its domain.
HTypeOK ==
    /\ hpc \in HSteps /\ command \in Commands /\ role \in Commands
    /\ unresolved \in BOOLEAN
    /\ socket \in {"none", "open", "closed"}
    /\ inbox \in Seq({"ack", "other"})
    /\ received \in Seq(Received)

\* No command in this sequence can be acknowledged any more.
Dead(commands) == \A i \in 1 .. Len(commands) : ~commands[i].live
\* No acknowledgement is left to read.
Quiet(packets) == \A i \in 1 .. Len(packets) : packets[i] # "ack"

\* Between two commands, what an earlier one left at the speaker is dead, unless
\* the latch keeps the next one from being sent.
Between ==
    /\ hpc = "connect" => Dead(received) /\ socket = "none" /\ inbox = <<>>
    /\ hpc = "idle" /\ ~unresolved => Dead(received)
    /\ hpc # "idle" => outcome = "none"

\* From the drain on, an acknowledgement can only be the one of this command,
\* which comes last.
Pending ==
    /\ hpc = "write" => ~unresolved /\ Dead(received) /\ Quiet(inbox)
    /\ hpc = "wait" =>
          /\ ~unresolved
          /\ \A i \in 1 .. Len(received) :
                received[i].live => i = Len(received) /\ received[i].command = command
          /\ Quiet(inbox) \/ (received = <<>> /\ role = command)

ChannelInv == HTypeOK /\ Between /\ Pending /\ AcceptedTrue

\* Closing a connection leaves its commands, none of which can be acknowledged.
LEMMA OrphanFacts ==
    ASSUME NEW s \in Seq(Received)
    PROVE  Orphan(s) \in Seq(Received) /\ Dead(Orphan(s)) /\ (s = <<>> => Orphan(s) = <<>>)
<1>1. \A i \in 1 .. Len(s) : s[i] \in Received
  OBVIOUS
<1>2. \A i \in 1 .. Len(s) : [s[i] EXCEPT !.live = FALSE] \in Received
  BY <1>1, Zenon DEF Received
<1>3. \A i \in 1 .. Len(s) : ~[s[i] EXCEPT !.live = FALSE].live
  BY <1>1, Zenon DEF Received
<1>4. Orphan(s) \in Seq(Received) /\ Len(Orphan(s)) = Len(s)
  BY <1>2 DEF Orphan
<1>5. Dead(Orphan(s))
  BY <1>3, <1>4 DEF Dead, Orphan
<1>6. s = <<>> => Orphan(s) = <<>>
  BY <1>4
<1>7. QED
  BY <1>4, <1>5, <1>6

\* The speaker takes its commands in order.
LEMMA TailFacts ==
    ASSUME NEW s \in Seq(Received), s # <<>>
    PROVE  /\ Tail(s) \in Seq(Received) /\ Head(s) \in Received /\ Head(s) = s[1] /\ Len(s) > 0
           /\ Len(Tail(s)) = Len(s) - 1
           /\ \A i \in 1 .. Len(Tail(s)) : Tail(s)[i] = s[i + 1]
           /\ Dead(s) => ~Head(s).live /\ Dead(Tail(s))
<1>1. /\ Tail(s) \in Seq(Received) /\ Head(s) \in Received /\ Head(s) = s[1] /\ Len(s) > 0
      /\ Len(Tail(s)) = Len(s) - 1
      /\ \A i \in 1 .. Len(Tail(s)) : Tail(s)[i] = s[i + 1]
  OBVIOUS
<1>2. Dead(s) => ~Head(s).live /\ Dead(Tail(s))
  BY <1>1 DEF Dead
<1>3. QED
  BY <1>1, <1>2

\* A packet that is no acknowledgement leaves the socket quiet.
LEMMA PacketFacts ==
    ASSUME NEW s \in Seq({"ack", "other"}), NEW p \in {"ack", "other"}
    PROVE  Append(s, p) \in Seq({"ack", "other"}) /\ (Quiet(s) /\ p = "other" => Quiet(Append(s, p)))
BY DEF Quiet

\* Only the command just sent can be acknowledged.
LEMMA SentFacts ==
    ASSUME HTypeOK, Dead(received), Sent
    PROVE  /\ received' \in Seq(Received)
           /\ \A i \in 1 .. Len(received') :
                 received'[i].live => i = Len(received') /\ received'[i].command = command
<1> DEFINE last == [command |-> command, live |-> socket = "open"]
<1>1. last \in Received /\ last.command = command
  BY DEF HTypeOK, Received
<1> HIDE DEF last
<1>2. received' = Append(received, last)
  BY DEF Sent, last
<1>3. received' \in Seq(Received)
  BY <1>1, <1>2 DEF HTypeOK
<1>4. ASSUME NEW i \in 1 .. Len(received'), received'[i].live
      PROVE  i = Len(received') /\ received'[i].command = command
  BY <1>1, <1>2, <1>4 DEF HTypeOK, Dead
<1>5. QED
  BY <1>3, <1>4

\* The speaker, its connection and its late answers keep the invariant.
LEMMA SpeakerKeeps ==
    ASSUME ChannelInv, Speaker
    PROVE  ChannelInv'
<1> USE DEF ChannelInv, HTypeOK, HSteps, core
<1>1. CASE CarryOutCommand
  <2> USE TailFacts
  <2>1. /\ received # <<>> /\ received' = Tail(received)
        /\ UNCHANGED <<hpc, command, outcome, unresolved, socket>>
    BY <1>1 DEF CarryOutCommand
  <2>2. /\ Head(received) \in Received /\ Head(received).command \in Commands
        /\ received' \in Seq(Received)
    BY <2>1, Zenon DEF Received
  <2>3. role' \in Commands
    BY <1>1, <2>2 DEF CarryOutCommand
  <2>4. \/ inbox' = inbox
        \/ inbox' = Append(inbox, "other")
        \/ inbox' = Append(inbox, "ack") /\ Head(received).live /\ role' = Head(received).command
    BY <1>1 DEF CarryOutCommand
  <2>5. inbox' \in Seq({"ack", "other"})
    BY <2>4, PacketFacts, Zenon
  <2>6. ~Head(received).live /\ Quiet(inbox) => Quiet(inbox')
    BY <2>4, PacketFacts, Zenon
  <2>7. Dead(received) => Dead(received') /\ ~Head(received).live
    BY <2>1
  <2>8. hpc # "connect" \/ inbox' = <<>>
    BY <1>1 DEF CarryOutCommand, Between
  <2>9. Between'
    BY <2>1, <2>7, <2>8 DEF Between
  <2>10. ASSUME hpc = "wait"
         PROVE  /\ \A i \in 1 .. Len(received') :
                      received'[i].live => i = Len(received') /\ received'[i].command = command
                /\ Quiet(inbox') \/ (received' = <<>> /\ role' = command)
    <3>1. Quiet(inbox)
      BY <2>1, <2>10 DEF Pending
    <3>2. \A i \in 1 .. Len(received) :
             received[i].live => i = Len(received) /\ received[i].command = command
      BY <2>10 DEF Pending
    <3>3. \A i \in 1 .. Len(received') :
             received'[i].live => i = Len(received') /\ received'[i].command = command
      BY <2>1, <3>2
    <3>4. Head(received).live => received' = <<>> /\ Head(received).command = command
      BY <2>1, <2>2, <3>2
    <3>5. Quiet(inbox') \/ (received' = <<>> /\ role' = command)
      BY <2>4, <3>1, <3>4, PacketFacts, Zenon
    <3>6. QED
      BY <3>3, <3>5
  <2>11. Pending'
    BY <2>1, <2>6, <2>7, <2>10 DEF Pending
  <2>12. AcceptedTrue'
    BY <2>1 DEF AcceptedTrue
  <2>13. QED
    BY <2>1, <2>2, <2>3, <2>5, <2>9, <2>11, <2>12
<1>2. CASE Notify
  <2>1. inbox' = Append(inbox, "other") /\ socket = "open"
        /\ UNCHANGED <<hpc, command, outcome, unresolved, socket, received, role>>
    BY <1>2 DEF Notify
  <2>2. inbox' \in Seq({"ack", "other"}) /\ (Quiet(inbox) => Quiet(inbox'))
    BY <2>1, PacketFacts
  <2>3. QED
    BY <2>1, <2>2 DEF Between, Pending, AcceptedTrue
<1>3. CASE PeerCloses
  <2>1. socket = "open" /\ socket' = "closed" /\ received' = Orphan(received)
        /\ UNCHANGED <<hpc, command, outcome, unresolved, inbox, role>>
    BY <1>3 DEF PeerCloses
  <2>2. received' \in Seq(Received) /\ Dead(received') /\ (received = <<>> => received' = <<>>)
    BY <2>1, OrphanFacts
  <2>3. HTypeOK' /\ Between' /\ AcceptedTrue'
    BY <2>1, <2>2 DEF Between, AcceptedTrue
  <2>4. Pending'
    BY <2>1, <2>2 DEF Pending, Dead
  <2>5. QED
    BY <2>3, <2>4
<1>4. QED
  BY <1>1, <1>2, <1>3 DEF Speaker

\* Every call of AuraControlCore keeps the invariant.
LEMMA CoreKeeps ==
    ASSUME ChannelInv, core_connect_verified \/ core_connected \/ Command
    PROVE  ChannelInv'
<1> USE DEF ChannelInv, HTypeOK, HSteps
<1>cl. ASSUME Close
       PROVE  /\ socket' = "none" /\ inbox' = <<>> /\ inbox' \in Seq({"ack", "other"})
              /\ received' \in Seq(Received) /\ Dead(received')
  BY <1>cl, OrphanFacts DEF Close
<1>1. CASE core_connect_verified
  BY <1>1, <1>cl DEF core_connect_verified, Between, Pending, AcceptedTrue
<1>2. CASE core_connected
  <2>1. unresolved' \in BOOLEAN
    BY <1>2, Zenon DEF core_connected
  <2>2. hpc = "connect" /\ hpc' = "idle" /\ UNCHANGED <<command, outcome, inbox, received, role>>
    BY <1>2 DEF core_connected
  <2>3. socket' \in {"none", "open", "closed"}
    BY <1>2 DEF core_connected
  <2>4. QED
    BY <2>1, <2>2, <2>3 DEF Between, Pending, AcceptedTrue
<1>3. CASE shutdown
  <2>1. unresolved' \in BOOLEAN
    BY <1>3, Zenon DEF shutdown
  <2>2. QED
    BY <1>3, <1>cl, <2>1 DEF shutdown, Between, Pending, AcceptedTrue
<1>4. CASE latched
  BY <1>4 DEF latched, Between, Pending, AcceptedTrue
<1>5. CASE not_ready
  BY <1>5, <1>cl DEF not_ready, Between, Pending, AcceptedTrue
<1>6. ASSUME NEW c \in Commands, prepare_command(c)
      PROVE  ChannelInv'
  <2>1. hpc = "idle" /\ ~unresolved /\ command' = c /\ UNCHANGED <<unresolved, socket, received, role>>
    BY <1>6 DEF prepare_command
  <2>2. inbox' \in Seq({"ack", "other"})
    <3>1. ASSUME Len(inbox) >= MaxStale
          PROVE  SubSeq(inbox, MaxStale + 1, Len(inbox)) \in Seq({"ack", "other"})
      <4>1. inbox \in Seq({"ack", "other"})
        OBVIOUS
      <4>2. MaxStale + 1 \in Nat \ {0}
        BY ChannelAssumption
      <4>3. QED
        BY ONLY <4>1, <4>2, Remaining, Zenon
    <3>2. \/ Len(inbox) >= MaxStale /\ inbox' = SubSeq(inbox, MaxStale + 1, Len(inbox))
          \/ inbox' = <<>>
      BY <1>6, Zenon DEF prepare_command
    <3>3. <<>> \in Seq({"ack", "other"})
      OBVIOUS
    <3>4. QED
      BY <3>1, <3>2, <3>3, Zenon
  <2>3. \/ hpc' = "idle" /\ outcome' = "RejectedBeforeSend"
        \/ hpc' = "write" /\ outcome' = "none" /\ inbox' = <<>>
    BY <1>6 DEF prepare_command
  <2>4. inbox' = <<>> => Quiet(inbox')
    BY DEF Quiet
  <2>5. QED
    BY <2>1, <2>2, <2>3, <2>4 DEF Between, Pending, AcceptedTrue
<1>7. CASE begin_write
  <2>1. /\ hpc = "write" /\ hpc' = "wait"
        /\ UNCHANGED <<command, outcome, unresolved, socket, inbox, role>>
    BY <1>7 DEF begin_write
  <2>2. Dead(received) /\ ~unresolved /\ Quiet(inbox) /\ outcome = "none"
    BY <2>1 DEF Pending, Between
  <2>3. /\ received' \in Seq(Received)
        /\ \A i \in 1 .. Len(received') :
              received'[i].live => i = Len(received') /\ received'[i].command = command
    <3>1. CASE Sent
      BY <2>2, <3>1, SentFacts
    <3>2. CASE UNCHANGED received
      BY <2>2, <3>2 DEF Dead
    <3>3. QED
      BY <1>7, <3>1, <3>2 DEF begin_write
  <2>4. QED
    BY <2>1, <2>2, <2>3 DEF Between, Pending, AcceptedTrue
<1>8. CASE write_failed
  <2>1. unresolved' \in BOOLEAN /\ unresolved'
    BY <1>8, Zenon DEF write_failed
  <2>2. received' \in Seq(Received)
    <3>1. CASE Sent
      BY <1>8, <3>1, SentFacts DEF write_failed, Pending
    <3>2. QED
      BY <1>8, <3>1 DEF write_failed
  <2>3. QED
    BY <1>8, <2>1, <2>2 DEF write_failed, Between, Pending, AcceptedTrue
<1>9. CASE wait_for_ack
  <2>1. /\ hpc = "wait" /\ hpc' = "idle" /\ inbox # <<>> /\ inbox' = Tail(inbox)
        /\ UNCHANGED <<command, socket, received, role>>
    BY <1>9 DEF wait_for_ack
  <2>2. inbox' \in Seq({"ack", "other"})
    BY <2>1
  <2>3. CASE Head(inbox) = "ack"
    <3>1. ~Quiet(inbox)
      BY <2>1, <2>3 DEF Quiet
    <3>2. received = <<>> /\ role = command
      BY <2>1, <3>1 DEF Pending
    <3>3. Dead(received)
      BY <3>2 DEF Dead
    <3>4. QED
      BY <1>9, <2>1, <2>2, <2>3, <3>2, <3>3 DEF wait_for_ack, Between, Pending, AcceptedTrue
  <2>4. CASE Head(inbox) # "ack"
    <3>1. unresolved' \in BOOLEAN /\ unresolved'
      BY <1>9, <2>4, Zenon DEF wait_for_ack
    <3>2. QED
      BY <1>9, <2>1, <2>2, <2>4, <3>1 DEF wait_for_ack, Between, Pending, AcceptedTrue
  <2>5. QED
    BY <2>3, <2>4
<1>10. CASE ack_missing
  <2>1. unresolved' \in BOOLEAN /\ unresolved'
    BY <1>10, Zenon DEF ack_missing
  <2>2. QED
    BY <1>10, <2>1 DEF ack_missing, Between, Pending, AcceptedTrue
<1>11. QED
  BY <1>1, <1>2, <1>3, <1>4, <1>5, <1>6, <1>7, <1>8, <1>9, <1>10, Zenon DEF Command

\* A core that has sent nothing yet.
LEMMA InitChannel ==
    ASSUME HInit
    PROVE  ChannelInv
<1>1. unresolved \in BOOLEAN
  BY Zenon DEF HInit
<1>2. HTypeOK
  BY <1>1 DEF HInit, HTypeOK, HSteps, Commands
<1>3. Between /\ Pending /\ AcceptedTrue
  BY DEF HInit, Between, Pending, AcceptedTrue, Dead
<1>4. QED
  BY <1>2, <1>3 DEF ChannelInv

-----------------------------------------------------------------------------
(* Theorems about the channel *)

\* The inductive invariant: which commands can still be acknowledged, at every
\* step of a call and between two.
THEOREM ChannelInvariant == HSpec => []ChannelInv
<1>1. ChannelInv /\ UNCHANGED channel => ChannelInv'
  BY DEF ChannelInv, HTypeOK, Between, Pending, AcceptedTrue, channel, core
<1>2. ChannelInv /\ [HNext]_hvars => ChannelInv'
  BY <1>1, CoreKeeps, SpeakerKeeps, Zenon DEF HNext, hvars, Acquire
<1>3. QED
  BY <1>2, InitChannel, PTL DEF HSpec

\* An accepted command is the one the speaker carried out last, however late it
\* answers earlier ones.
THEOREM AcceptedIsTrue == HSpec => []AcceptedTrue
<1>1. ChannelInv => AcceptedTrue
  BY DEF ChannelInv
<1>2. QED
  BY <1>1, ChannelInvariant, PTL

\* The channel acquires its bearers as AuraAcquire does, so that what holds of
\* every acquisition holds of those made by core_connect_verified.
THEOREM ChannelAcquires == HSpec => ASpec
<1>1. HInit => AInit
  BY DEF HInit
<1>2. [HNext]_hvars => [ANext]_avars
  BY Zenon DEF HNext, hvars, Acquire, ANext
<1>3. QED
  BY <1>1, <1>2, PTL DEF HSpec, ASpec

\* Every acquisition the core asks for keeps its deadline, releases its profile
\* in time, falls back only when it is released, and reports one that is held.
THEOREM CoreAcquisitionSafe ==
    HSpec => [](DeadlineKept /\ ReleaseInTime /\ FallbackReleased /\ HeldReported)
BY ChannelAcquires, AcquisitionDeadline, WakeReleasedInTime, FallbackOnlyReleased, HeldProfileReported, PTL
-----------------------------------------------------------------------------
(* How long an acquisition may take *)

\* The phases in front of the scan, from the last to the first; an attempt of
\* the scan and the delay before the next one take two steps together.
Before ==
    [phase \in {"attempt", "delay", "le", "stable_again", "release", "disconnect", "fddf",
                "profile", "inspect", "stable"} |->
        CASE phase = "attempt" -> 0
          [] phase \in {"delay", "le"} -> 1
          [] phase = "stable_again" -> 2
          [] phase = "release" -> 3
          [] phase = "disconnect" -> 4
          [] phase = "fddf" -> 5
          [] phase = "profile" -> 6
          [] phase = "inspect" -> 7
          [] phase = "stable" -> 8]

\* At most so many steps of a running acquisition are still to come.
StepsLeft == IF apc \in Ended THEN 0 ELSE 2 * (ScanAttempts - attempt) + Before[apc]

\* What a step does to them: one of the acquisition uses at least one of them
\* up, and neither BlueZ nor the caller ever adds one to a running acquisition.
CountsDown ==
    /\ Acquisition => StepsLeft' < StepsLeft
    /\ StepsLeft' > StepsLeft => apc = "idle" /\ StepsLeft' = 2 * ScanAttempts + 8

\* What each phase counts.
LEMMA PhaseCount ==
    /\ Before["attempt"] = 0 /\ Before["delay"] = 1 /\ Before["le"] = 1
    /\ Before["stable_again"] = 2 /\ Before["release"] = 3 /\ Before["disconnect"] = 4
    /\ Before["fddf"] = 5 /\ Before["profile"] = 6 /\ Before["inspect"] = 7 /\ Before["stable"] = 8
BY DEF Before

\* The steps left are a number, zero exactly when the acquisition has ended.
LEMMA StepsLeftCounts == AInv => StepsLeft \in Nat /\ (StepsLeft = 0 <=> apc \in Ended)
BY PhaseCount, Timings DEF AInv, ATypeOK, AttemptsLeft, StepsLeft, Ended

\* Each phase hands over to a later one, and an attempt to the next, if any.
LEMMA PhaseDescends == AInv /\ AInv' /\ Acquisition => StepsLeft' < StepsLeft
<1> SUFFICES ASSUME AInv, AInv', Acquisition PROVE StepsLeft' < StepsLeft
  OBVIOUS
<1>1. /\ ScanAttempts \in Nat /\ attempt \in Nat /\ attempt' \in Nat
      /\ apc \notin Ended \cup {"attempt", "delay"} => attempt = 0
      /\ apc \in {"attempt", "delay"} => attempt < ScanAttempts
      /\ apc' \in {"attempt", "delay"} => attempt' < ScanAttempts
      /\ ScanAttempts > 0
  BY Timings DEF AInv, ATypeOK, AttemptsLeft
<1>2. /\ apc' \in Ended => StepsLeft' = 0
      /\ apc' \notin Ended => StepsLeft' = 2 * (ScanAttempts - attempt') + Before[apc']
  BY DEF StepsLeft
<1>3. /\ apc \in Ended => StepsLeft = 0
      /\ apc \notin Ended => StepsLeft = 2 * (ScanAttempts - attempt) + Before[apc]
  BY DEF StepsLeft
<1>4. CASE connect_raw_att
  BY <1>1, <1>2, <1>3, <1>4, PhaseCount DEF connect_raw_att, Ended, Fail
<1>5. CASE inspect_stable_device
  BY <1>1, <1>2, <1>3, <1>5, PhaseCount DEF inspect_stable_device, Ended
<1>6. CASE connect_profile
  BY <1>1, <1>2, <1>3, <1>6, PhaseCount DEF connect_profile, Ended
<1>7. CASE wait_for_fresh_fddf
  BY <1>1, <1>2, <1>3, <1>7, PhaseCount DEF wait_for_fresh_fddf, Ended
<1>8. CASE disconnect_profile
  BY <1>1, <1>2, <1>3, <1>8, PhaseCount DEF disconnect_profile, Ended
<1>9. CASE wait_profile_released
  BY <1>1, <1>2, <1>3, <1>9, PhaseCount DEF wait_profile_released, Ended, Fail
<1>10. CASE connect_le_raw
  BY <1>1, <1>2, <1>3, <1>10, PhaseCount DEF connect_le_raw, Ended, Fail
<1>11. CASE connect_le_raw_attempt
  BY <1>1, <1>2, <1>3, <1>11, PhaseCount DEF connect_le_raw_attempt, Ended, Fail
<1>12. CASE retry_connect_attempts
  BY <1>1, <1>2, <1>3, <1>12, PhaseCount DEF retry_connect_attempts, Ended, Fail
<1> QED
  BY <1>4, <1>5, <1>6, <1>7, <1>8, <1>9, <1>10, <1>11, <1>12, Zenon DEF Acquisition

\* Only a new acquisition starts the count again.
LEMMA OthersKeepCount ==
    ASSUME AInv, [ANext]_avars, ~Acquisition
    PROVE  \/ StepsLeft' <= StepsLeft
           \/ apc = "idle" /\ StepsLeft' = 2 * ScanAttempts + 8
<1>1. StepsLeft \in Nat
  BY StepsLeftCounts
<1>2. CASE connect_verified
  BY <1>2, PhaseCount, Timings DEF connect_verified, StepsLeft, Ended
<1>3. CASE Return
  <2>1. StepsLeft' = 0
    BY <1>3 DEF Return, StepsLeft, Ended
  <2> QED
    BY <1>1, <2>1
<1>4. CASE ProfileSettles \/ UNCHANGED avars
  <2>1. StepsLeft' = StepsLeft
    BY <1>4, Zenon DEF ProfileSettles, avars, StepsLeft
  <2> QED
    BY <1>1, <2>1
<1> QED
  BY <1>2, <1>3, <1>4, Zenon DEF ANext

\* An acquisition of connect_verified is over after at most eight phases and two
\* steps for each scan attempt: no phase is entered twice, no retry is free, and
\* a count of zero is the end.
THEOREM AcquisitionCountsDown ==
    ASpec => [](StepsLeft = 0 <=> apc \in Ended) /\ [][CountsDown]_avars
<1>1. AInv => (StepsLeft = 0 <=> apc \in Ended)
  BY StepsLeftCounts
<1>2. AInv /\ AInv' /\ [ANext]_avars => [CountsDown]_avars
  <2> SUFFICES ASSUME AInv, AInv', [ANext]_avars PROVE CountsDown
    OBVIOUS
  <2>1. StepsLeft \in Nat /\ StepsLeft' \in Nat
    BY StepsLeftCounts, PhaseCount, Timings DEF AInv, ATypeOK, AttemptsLeft, StepsLeft, Ended
  <2>2. CASE Acquisition
    <3>1. StepsLeft' < StepsLeft
      BY <2>2, PhaseDescends
    <3>2. ~(StepsLeft' > StepsLeft)
      BY <2>1, <3>1
    <3> QED
      BY <3>1, <3>2, Zenon DEF CountsDown
  <2>3. CASE ~Acquisition
    <3>1. \/ StepsLeft' <= StepsLeft
          \/ apc = "idle" /\ StepsLeft' = 2 * ScanAttempts + 8
      BY <2>3, OthersKeepCount
    <3>2. StepsLeft' <= StepsLeft => ~(StepsLeft' > StepsLeft)
      BY <2>1
    <3> QED
      BY <2>3, <3>1, <3>2, Zenon DEF CountsDown
  <2> QED
    BY <2>2, <2>3
<1>3. QED
  BY <1>1, <1>2, AcquisitionInvariant, PTL DEF ASpec

\* So it is for the acquisitions the core asks for.
THEOREM CoreAcquisitionCountsDown ==
    HSpec => [](StepsLeft = 0 <=> apc \in Ended) /\ [][CountsDown]_avars
BY ChannelAcquires, AcquisitionCountsDown, PTL
=============================================================================
