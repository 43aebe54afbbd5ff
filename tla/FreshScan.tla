------------------------------ MODULE FreshScan ------------------------------
(***************************************************************************)
(* scan_once of rust/src/aura_bluez.rs: find the speaker by an             *)
(* advertisement of this scan, although BlueZ keeps device objects with    *)
(* the service data of earlier ones, replays them when discovery starts,   *)
(* and removes and creates objects while the scan reads its events.        *)
(***************************************************************************)
EXTENDS Naturals, Sequences, FiniteSets, Functions

CONSTANTS
    Addresses,      \* addresses that may carry the advertisement
    NoAddress,
    MaxEvents       \* bound on the events under way in each stream

ASSUME AddressesAssumption == IsFiniteSet(Addresses) /\ NoAddress \notin Addresses

VARIABLES
    scan,           \* "snapshot", "prepare", "loop", "found", "none", "error"
    object,         \* in BlueZ: "absent", or the service data of the object: "bare" (no
                    \* matching data), "cached" (from before the scan) or "fresh"
    preexisting, subscribed,    \* the two sets of scan_once
    streams,        \* addresses with an event stream, also of a removed object
    todo,           \* snapshot objects still to be subscribed
    adapter, device,            \* the events of the adapter and of the subscribed devices
    added,          \* the new object that is subscribed and not yet read
    evidence,       \* the data the scan returned on
    owed            \* history: addresses whose fresh data an event under way leads to

bluez == <<object, adapter, device>>
sets == <<preexisting, subscribed, streams, todo>>
cvars == <<scan, bluez, sets, added, evidence, owed>>

Present == {a \in Addresses : object[a] # "absent"}
Added(a) == [kind |-> "added", address |-> a]
Removed(a) == [kind |-> "removed", address |-> a]
Open == scan = "loop"       \* discover_devices delivers events
Scanning == scan \in {"snapshot", "prepare", "loop"}

\* Append an event if somebody listens.
Emit(queue, event, heard) == IF heard THEN Append(queue, event) ELSE queue
Room == Len(adapter) < MaxEvents /\ Len(device) < MaxEvents

-----------------------------------------------------------------------------
(* BlueZ and the speakers *)

\* An added event of a will be taken for a new object.
WillBeNew(a) == a \notin preexisting \/ Removed(a) \in Range(adapter)

\* Data that a gets now reaches the scan: in an event, or when it reads a.
Reaches(a) ==
    \/ a \in Present \cap streams
    \/ a \notin Present /\ Open /\ WillBeNew(a)
    \/ WillBeNew(a) /\ (scan = "prepare" \/ Added(a) \in Range(adapter) \/ added = a)

\* An advertisement, with the data of the speaker or with none of it yet.
Advertise(a, data) ==
    /\ Scanning /\ scan # "snapshot" /\ Room
    /\ object[a] = "absent" \/ data = "fresh"
    /\ object' = [object EXCEPT ![a] = data]
    /\ adapter' = Emit(adapter, Added(a), Open /\ a \notin Present)
    /\ device' = Emit(device, [address |-> a, data |-> data], a \in Present \cap streams)
    /\ owed' = IF data = "fresh" /\ Reaches(a) THEN owed \cup {a} ELSE owed
    /\ UNCHANGED <<scan, sets, added, evidence>>

\* A change of another property, of an object that may hold cached data.
OtherChange(a) ==
    /\ Scanning /\ a \in Present \cap streams /\ Room
    /\ device' = Append(device, [address |-> a, data |-> "bare"])
    /\ UNCHANGED <<scan, object, adapter, sets, added, evidence, owed>>

Vanish(a) ==
    /\ Scanning /\ a \in Present /\ Room
    /\ object' = [object EXCEPT ![a] = "absent"]
    /\ adapter' = Emit(adapter, Removed(a), Open)
    /\ owed' = owed \ {a}
    /\ UNCHANGED <<scan, device, sets, added, evidence>>

-----------------------------------------------------------------------------
(* scan_once *)

CInit ==
    /\ scan = "snapshot"
    /\ object \in [Addresses -> {"absent", "bare", "cached"}]
    /\ preexisting = {} /\ subscribed = {} /\ streams = {} /\ todo = {}
    /\ adapter = <<>> /\ device = <<>>
    /\ added = NoAddress /\ evidence = "none" /\ owed = {}

\* device_addresses of the caller.
device_addresses ==
    /\ scan = "snapshot"
    /\ scan' = "prepare"
    /\ preexisting' = Present /\ todo' = Present
    /\ UNCHANGED <<bluez, subscribed, streams, added, evidence, owed>>

Subscribe(a) == subscribed' = subscribed \cup {a} /\ streams' = streams \cup {a}
SubscribeFailed(a) == UNCHANGED <<subscribed, streams>>

subscribe_preexisting(a) ==
    /\ scan = "prepare" /\ a \in todo
    /\ todo' = todo \ {a}
    /\ Subscribe(a) \/ SubscribeFailed(a)
    /\ UNCHANGED <<scan, bluez, preexisting, added, evidence, owed>>

\* The objects of S in any order.
Orders(S) == Bijection(1 .. Cardinality(S), S)

\* Discovery starts and replays every object there is as added.  One that was
\* created while the replay was prepared is announced a second time.
discover_devices ==
    /\ scan = "prepare" /\ todo = {}
    /\ scan' = "loop"
    /\ \E twice \in SUBSET (Present \ preexisting) :
       \E replay \in Orders(Present), again \in Orders(twice) :
          adapter' = [i \in DOMAIN (replay \o again) |-> Added((replay \o again)[i])]
    /\ UNCHANGED <<object, device, sets, added, evidence, owed>>

Reading == Open /\ added = NoAddress
NextEvent(kind) == Reading /\ adapter # <<>> /\ Head(adapter).kind = kind /\ adapter' = Tail(adapter)

device_removed_known ==
    /\ NextEvent("removed")
    /\ subscribed' = subscribed \ {Head(adapter).address}
    /\ UNCHANGED <<scan, object, device, preexisting, streams, todo, added, evidence, owed>>
device_removed ==
    /\ NextEvent("removed")
    /\ preexisting' = preexisting \ {Head(adapter).address}
    /\ subscribed' = subscribed \ {Head(adapter).address}
    /\ UNCHANGED <<scan, object, device, streams, todo, added, evidence, owed>>

\* The object is of the snapshot: retry its subscription, never read it.
preexisting_added ==
    /\ NextEvent("added")
    /\ LET a == Head(adapter).address IN
          /\ a \in preexisting
          /\ \/ a \in subscribed /\ UNCHANGED <<subscribed, streams>>
             \/ a \notin subscribed /\ (Subscribe(a) \/ SubscribeFailed(a))
    /\ UNCHANGED <<scan, object, device, preexisting, todo, added, evidence, owed>>

duplicate_added ==
    /\ NextEvent("added")
    /\ Head(adapter).address \in subscribed \ preexisting
    /\ UNCHANGED <<scan, object, device, sets, added, evidence, owed>>

NewIfUnsubscribed(a) == a \notin subscribed
New(a) == a \notin preexisting /\ a \notin subscribed
\* A new object: subscribe before its properties are read.
device_added ==
    /\ NextEvent("added") /\ New(Head(adapter).address)
    /\ LET a == Head(adapter).address IN
          \/ Subscribe(a) /\ added' = a /\ UNCHANGED owed
          \/ SubscribeFailed(a) /\ owed' = owed \ {a} /\ UNCHANGED added
    /\ UNCHANGED <<scan, object, device, preexisting, todo, evidence>>

\* Return on matching data, go on otherwise.
reduce_fresh_advertisement(data) ==
    IF data \in {"fresh", "cached"}
    THEN scan' = "found" /\ evidence' = data
    ELSE UNCHANGED <<scan, evidence>>

\* The current service data of the new object, if it is still there and BlueZ answers.
read_new_object ==
    /\ Open /\ added # NoAddress
    /\ added' = NoAddress
    /\ \/ reduce_fresh_advertisement(object[added]) /\ UNCHANGED owed
       \/ owed' = owed \ {added} /\ UNCHANGED <<scan, evidence>>
    /\ UNCHANGED <<bluez, sets>>

\* The data in the event decides, never the one of the object.
device_event ==
    /\ Reading /\ device # <<>>
    /\ device' = Tail(device)
    /\ \/ reduce_fresh_advertisement(Head(device).data) /\ UNCHANGED owed
       \/ owed' = owed \ {Head(device).address} /\ UNCHANGED <<scan, evidence>>
    /\ UNCHANGED <<object, adapter, sets, added>>

\* The deadline in the loop, or the end of the discovery before or in it.
scan_ends ==
    /\ \/ Open /\ scan' \in {"none", "error"}
       \/ scan = "prepare" /\ todo = {} /\ scan' = "error"
    /\ UNCHANGED <<bluez, sets, added, evidence, owed>>

CNext ==
    \/ device_addresses \/ discover_devices
    \/ \E a \in Addresses : subscribe_preexisting(a)
    \/ device_removed \/ preexisting_added \/ duplicate_added \/ device_added
    \/ read_new_object \/ device_event \/ scan_ends
    \/ \E a \in Addresses : \/ \E data \in {"bare", "fresh"} : Advertise(a, data)
                            \/ OtherChange(a) \/ Vanish(a)

-----------------------------------------------------------------------------
(* Properties *)

\* "A replayed DeviceAdded or an unrelated property change must never unlock
\* cached ServiceData" (scan_once): the scan returns only on an advertisement
\* received after its snapshot, however objects come, go and fail to subscribe.
FreshOnly == scan = "found" => evidence = "fresh"

\* Once its events are read, the scan has missed no advertisement of an object it
\* subscribed to or met as new: also not one whose data came after the object,
\* or between the snapshot and the start of the discovery.
NothingMissed == Reading /\ adapter = <<>> /\ device = <<>> => owed = {}
=============================================================================
