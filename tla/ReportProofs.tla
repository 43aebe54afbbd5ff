--------------------------- MODULE ReportProofs -----------------------------
(***************************************************************************)
(* Proofs about the two reports that leave the service: the status answer, *)
(* for every reply the speaker may give and every way its channels are     *)
(* spelled, and the report of a failed action.                             *)
(***************************************************************************)
EXTENDS StatusProjection, FailureReport, FiniteSetTheorems, WellFoundedInduction, TLAPS

-----------------------------------------------------------------------------
(* The status answer: StatusProjection *)

\* A set of positions that is not empty has a least one.
LEMMA LeastPosition ==
  ASSUME NEW T, T \subseteq Nat, T # {}
  PROVE  \E x \in T : \A y \in T : x <= y
<1> DEFINE Less == {ss \in Nat \X Nat : ss[1] < ss[2]}
<1>1. IsWellFoundedOn(Less, Nat)
  BY NatLessThanWellFounded, Zenon DEF OpToRel
<1> HIDE DEF Less
<1>2. PICK x \in T : \A y \in T : ~(<<y, x>> \in Less)
  BY <1>1, WFMin, Zenon
<1>3. ASSUME NEW y \in T PROVE x <= y
  <2>1. x \in Nat /\ y \in Nat
    BY <1>2, Zenon
  <2>2. ~(y < x)
    BY <1>2, <2>1, Zenon DEF Less
  <2> QED
    BY <2>1, <2>2
<1> QED
  BY <1>2, <1>3, Zenon

\* What the fold of observed_member makes of a list: no channel twice, the
\* same channels.
LEMMA UniqueLists ==
  ASSUME NEW S, NEW channels \in Seq(S)
  PROVE  /\ Unique(channels) \in Seq(S)
         /\ \A j, k \in 1 .. Len(Unique(channels)) : Unique(channels)[j] = Unique(channels)[k] => j = k
         /\ Range(Unique(channels)) = Range(channels)
<1> DEFINE first == {i \in DOMAIN channels : \A j \in 1 .. i - 1 : channels[j] # channels[i]}
           upto(i) == {j \in first : j <= i}
           rank(i) == Cardinality(upto(i))
           n == Cardinality(first)
           ranks == [i \in first |-> rank(i)]
<1>1. /\ Len(channels) \in Nat
      /\ DOMAIN channels = 1 .. Len(channels)
      /\ \A i \in 1 .. Len(channels) : channels[i] \in S
  OBVIOUS
<1>2. IsFiniteSet(first) /\ n \in Nat
  <2>1. IsFiniteSet(1 .. Len(channels))
    BY <1>1, FS_Interval
  <2>2. first \subseteq 1 .. Len(channels)
    BY <1>1, Zenon
  <2> QED
    BY <2>1, <2>2, FS_Subset, FS_CardinalityType, Zenon
<1>3. ASSUME NEW i \in first PROVE IsFiniteSet(upto(i)) /\ rank(i) \in 1 .. n
  <2>1. upto(i) \subseteq first /\ i \in upto(i)
    BY <1>1
  <2>2. IsFiniteSet(upto(i)) /\ rank(i) \in Nat /\ rank(i) <= n
    BY <2>1, <1>2, FS_Subset, FS_CardinalityType, Zenon
  <2>3. rank(i) # 0
    BY <2>1, <2>2, FS_EmptySet, Zenon
  <2> QED
    BY <2>2, <2>3, <1>2
<1>4. ASSUME NEW i \in first, NEW j \in first, i < j PROVE rank(i) # rank(j)
  <2>1. upto(i) \subseteq upto(j) /\ j \in upto(j) /\ j \notin upto(i)
    BY <1>1, <1>4
  <2> QED
    BY <2>1, <1>3, FS_Subset, Zenon
<1>5. ranks \in Injection(first, 1 .. n)
  <2>1. ranks \in [first -> 1 .. n]
    BY <1>3, Zenon
  <2>2. ASSUME NEW i \in first, NEW j \in first, i # j PROVE ranks[i] # ranks[j]
    <3>1. i < j \/ j < i
      BY <1>1, <2>2
    <3> QED
      BY <3>1, <1>4, Zenon
  <2> QED
    BY <2>1, <2>2, Zenon DEF Injection, IsInjective
<1>6. ranks \in Surjection(first, 1 .. n)
  <2>1. IsFiniteSet(1 .. n) /\ Cardinality(1 .. n) = n
    BY <1>2, FS_Interval
  <2> QED
    BY <1>5, <2>1, FS_Injection, Zenon
<1> DEFINE at(k) == CHOOSE i \in first : rank(i) = k
<1>7. ASSUME NEW k \in 1 .. n PROVE at(k) \in first /\ rank(at(k)) = k
  <2>1. \E i \in first : ranks[i] = k
    BY <1>6, Zenon DEF Surjection
  <2>2. \E i \in first : rank(i) = k
    BY <2>1, Zenon
  <2> QED
    BY <2>2, Zenon
<1>8. ASSUME NEW i \in first PROVE rank(i) \in 1 .. n /\ at(rank(i)) = i
  <2>1. rank(i) \in 1 .. n
    BY <1>3, Zenon
  <2>2. at(rank(i)) \in first /\ rank(at(rank(i))) = rank(i)
    BY <2>1, <1>7, Zenon
  <2>3. ~(at(rank(i)) < i) /\ ~(i < at(rank(i)))
    BY <2>2, <1>4, Zenon
  <2> QED
    BY <2>1, <2>2, <2>3, <1>1
<1> DEFINE u == Unique(channels)
<1>9. u = [k \in 1 .. n |-> channels[at(k)]]
  BY Zenon DEF Unique
<1> HIDE DEF u
<1>10. u \in Seq(S) /\ Len(u) = n /\ DOMAIN u = 1 .. n
  <2>1. ASSUME NEW k \in 1 .. n PROVE channels[at(k)] \in S
    <3>1. at(k) \in DOMAIN channels
      BY <1>7, Zenon
    <3> HIDE DEF at
    <3> QED
      BY <3>1, <1>1, Zenon
  <2> HIDE DEF at, n
  <2>2. u \in [1 .. n -> S]
    BY <2>1, <1>9, Zenon
  <2> QED
    BY ONLY <2>2, <1>2, SMT DEF Seq
<1>11. ASSUME NEW j \in 1 .. n, NEW k \in 1 .. n, u[j] = u[k] PROVE j = k
  <2>1. at(j) \in first /\ at(k) \in first /\ rank(at(j)) = j /\ rank(at(k)) = k
    BY <1>7, Zenon
  <2>2. channels[at(j)] = channels[at(k)]
    BY <1>11, <1>9, Zenon
  <2>3. at(j) = at(k)
    <3> HIDE DEF at, rank
    <3> QED
      BY <2>1, <2>2, <1>1
  <2> QED
    BY <2>1, <2>3, Zenon
<1>12. ASSUME NEW i \in DOMAIN channels PROVE \E k \in 1 .. n : u[k] = channels[i]
  <2> DEFINE same == {j \in DOMAIN channels : channels[j] = channels[i]}
  <2>1. same \subseteq Nat /\ i \in same
    BY <1>1
  <2>2. PICK j \in same : \A y \in same : j <= y
    BY <2>1, LeastPosition, Zenon
  <2>3. j \in first
    BY <2>2, <1>1
  <2>4. rank(j) \in 1 .. n /\ at(rank(j)) = j
    BY <2>3, <1>8, Zenon
  <2>5. u[rank(j)] = channels[j]
    BY <2>4, <1>9, Zenon
  <2> QED
    BY <2>2, <2>4, <2>5, Zenon
<1>13. Range(u) = Range(channels)
  <2>1. ASSUME NEW k \in 1 .. n PROVE \E i \in DOMAIN channels : channels[i] = u[k]
    <3>1. at(k) \in DOMAIN channels
      BY <1>7, Zenon
    <3>2. u[k] = channels[at(k)]
      BY <1>9, Zenon
    <3> HIDE DEF at
    <3> QED
      BY <3>1, <3>2, Zenon
  <2> HIDE DEF n
  <2>2. DOMAIN u = 1 .. n
    BY <1>10, Zenon
  <2>3. Range(u) \subseteq Range(channels)
    BY <2>1, <2>2, Zenon DEF Range
  <2>4. Range(channels) \subseteq Range(u)
    BY <1>12, <2>2, Zenon DEF Range
  <2> QED
    BY <2>3, <2>4, Zenon
<1> QED
  BY <1>10, <1>11, <1>13, Zenon DEF u

\* A list that is not empty has entries.
LEMMA NotEmpty == ASSUME NEW S, NEW s \in Seq(S), s # <<>> PROVE Len(s) # 0
  OBVIOUS

\* The positions of a list of n entries are n.
LEMMA PositionsCount == \A n \in Nat : IsFiniteSet(1 .. n) /\ Cardinality(1 .. n) = n
<1> TAKE n \in Nat
<1>1. IsFiniteSet(1 .. n) /\ Cardinality(1 .. n) = IF 1 > n THEN 0 ELSE n - 1 + 1
  BY FS_Interval
<1> QED
  BY <1>1

\* There are six channels a speaker may play.
LEMMA SixChannels == IsFiniteSet(ALLOWED_CHANNELS) /\ Cardinality(ALLOWED_CHANNELS) <= 6
<1> DEFINE six == [k \in 1 .. 6 |-> CASE k = 1 -> "front_left" [] k = 2 -> "front_right" [] k = 3 -> "left"
                                      [] k = 4 -> "right" [] k = 5 -> "mono" [] k = 6 -> "stereo"]
<1>1. DOMAIN six = 1 .. 6
  BY Zenon
<1>2. six[1] = "front_left" /\ six[2] = "front_right" /\ six[3] = "left" /\ six[4] = "right" /\ six[5] = "mono"
      /\ six[6] = "stereo"
  OBVIOUS
<1> HIDE DEF six
<1>3. \A c \in ALLOWED_CHANNELS : \E k \in 1 .. 6 : six[k] = c
  BY <1>2 DEF ALLOWED_CHANNELS
<1>4. six \in Surjection(1 .. 6, ALLOWED_CHANNELS)
  <2>1. six = [k \in 1 .. 6 |-> six[k]]
    BY DEF six
  <2>2. ASSUME NEW k \in 1 .. 6 PROVE six[k] \in ALLOWED_CHANNELS
    <3>1. k = 1 \/ k = 2 \/ k = 3 \/ k = 4 \/ k = 5 \/ k = 6
      OBVIOUS
    <3> QED
      BY <3>1, <1>2, Zenon DEF ALLOWED_CHANNELS
  <2>3. six \in [1 .. 6 -> ALLOWED_CHANNELS]
    BY <2>1, <2>2, Zenon
  <2> QED
    BY <2>3, <1>3, Zenon DEF Surjection
<1>5. IsFiniteSet(1 .. 6) /\ Cardinality(1 .. 6) = 6
  <2>1. 6 \in Nat
    BY Zenon
  <2> QED
    BY <2>1, PositionsCount, Zenon
<1> QED
  BY <1>4, <1>5, FS_Surjection

\* A list of allowed channels without repetition has at most six of them.
LEMMA AtMostSix ==
  ASSUME NEW u \in Seq(ALLOWED_CHANNELS),
         \A j, k \in 1 .. Len(u) : u[j] = u[k] => j = k
  PROVE  Len(u) <= 6
<1>1. Len(u) \in Nat /\ DOMAIN u = 1 .. Len(u) /\ u \in [1 .. Len(u) -> ALLOWED_CHANNELS]
  OBVIOUS
<1>2. u \in Injection(1 .. Len(u), ALLOWED_CHANNELS)
  BY <1>1, Zenon DEF Injection, IsInjective
<1>3. Cardinality(1 .. Len(u)) = Len(u)
  BY <1>1, FS_Interval, SMTT(30)
<1>4. Len(u) <= Cardinality(ALLOWED_CHANNELS) /\ Cardinality(ALLOWED_CHANNELS) \in Nat
  BY <1>2, <1>3, SixChannels, FS_Injection, FS_CardinalityType
<1> QED
  BY <1>1, <1>4, SixChannels

\* What the client is shown for the channels of one member: one to six, none
\* twice, unknown only by itself, and the listed ones when all are known.
ShowsChannels(shown, raw) ==
    LET listed == {Spelled(c) : c \in Range(raw)} IN
    /\ Len(shown) \in 1 .. 6
    /\ "unknown" \in Range(shown) => Len(shown) = 1
    /\ IsInjective(shown)
    /\ Range(shown) = IF listed # {} /\ listed \subseteq ALLOWED_CHANNELS THEN listed ELSE {"unknown"}

\* The list of one unknown channel.
LEMMA UnknownList ==
  /\ Len(<<"unknown">>) = 1
  /\ IsInjective(<<"unknown">>)
  /\ Range(<<"unknown">>) = {"unknown"}
  BY DEF IsInjective, Range

\* KnownChannels after parse_group_status shows the channels of the reply,
\* however often and in whatever spelling it lists them.
LEMMA ChannelsReadable ==
  ASSUME NEW raw \in Seq(STRING)
  PROVE  ShowsChannels(KnownChannels([j \in DOMAIN raw |-> Channel(raw[j])]), raw)
<1> DEFINE c == [j \in DOMAIN raw |-> Channel(raw[j])]
           listed == {Spelled(x) : x \in Range(raw)}
<1>1. Len(raw) \in Nat /\ DOMAIN raw = 1 .. Len(raw)
  OBVIOUS
<1>2. DOMAIN c = 1 .. Len(raw) /\ \A j \in 1 .. Len(raw) : c[j] = Channel(raw[j])
  BY <1>1, Zenon
<1>3. "unknown" \notin ALLOWED_CHANNELS
  BY Zenon DEF ALLOWED_CHANNELS
<1> HIDE DEF c
<1>4. CASE c = <<>> \/ "unknown" \in Range(c)
  <2>1. KnownChannels(c) = <<"unknown">>
    BY <1>4, Zenon DEF KnownChannels
  <2>2. ~(listed # {} /\ listed \subseteq ALLOWED_CHANNELS)
    <3>1. CASE c = <<>>
      <4>1. 1 .. Len(raw) = {}
        BY <3>1, <1>2
      <4> QED
        BY <4>1, <1>1, Zenon DEF Range
    <3>2. CASE "unknown" \in Range(c)
      <4>1. PICK j \in 1 .. Len(raw) : c[j] = "unknown"
        BY <3>2, <1>2, Zenon DEF Range
      <4>2. Channel(raw[j]) = "unknown"
        BY <4>1, <1>2, Zenon
      <4>3. Spelled(raw[j]) \notin ALLOWED_CHANNELS
        BY <4>2, <1>3, Zenon DEF Channel
      <4>4. Spelled(raw[j]) \in listed
        BY <1>1, Zenon DEF Range
      <4> QED
        BY <4>3, <4>4, Zenon
    <3> QED
      BY <3>1, <3>2, <1>4, Zenon
  <2>3. ShowsChannels(<<"unknown">>, raw)
    <3>1. Len(<<"unknown">>) \in 1 .. 6
      BY UnknownList
    <3> QED
      BY <3>1, <2>2, UnknownList, Zenon DEF ShowsChannels
  <2> QED
    BY <2>1, <2>3, Zenon DEF c
<1>5. CASE ~(c = <<>> \/ "unknown" \in Range(c))
  <2>1. ASSUME NEW j \in 1 .. Len(raw) PROVE c[j] = Spelled(raw[j]) /\ c[j] \in ALLOWED_CHANNELS
    <3>1. c[j] # "unknown"
      BY <1>5, <1>2, Zenon DEF Range
    <3> QED
      BY <3>1, <1>2, Zenon DEF Channel
  <2>2. c \in [1 .. Len(raw) -> ALLOWED_CHANNELS]
    BY <2>1, <1>2, <1>1, Zenon DEF c
  <2>3. c \in Seq(ALLOWED_CHANNELS) /\ Len(c) = Len(raw)
    BY ONLY <2>2, <1>1, SMT DEF Seq
  <2>4. Range(c) = listed
    BY <2>1, <1>1, <1>2, Zenon DEF Range
  <2>5. listed # {} /\ listed \subseteq ALLOWED_CHANNELS
    <3>1. Len(c) # 0
      BY <1>5, <2>3, NotEmpty, Zenon
    <3>2. 1 \in DOMAIN c
      BY <3>1, <2>3, <1>2, <1>1
    <3>3. c[1] \in Range(c)
      BY <3>2, Zenon DEF Range
    <3>4. Range(c) \subseteq ALLOWED_CHANNELS
      BY <2>1, <1>2, Zenon DEF Range
    <3> QED
      BY <3>3, <3>4, <2>4, Zenon
  <2> DEFINE u == Unique(c)
  <2>6. KnownChannels(c) = u
    BY <1>5, Zenon DEF KnownChannels
  <2>7. u \in Seq(ALLOWED_CHANNELS) /\ (\A j, k \in 1 .. Len(u) : u[j] = u[k] => j = k) /\ Range(u) = Range(c)
    BY <2>3, UniqueLists, Zenon
  <2> HIDE DEF u
  <2>8. Len(u) \in Nat /\ DOMAIN u = 1 .. Len(u)
    BY <2>7
  <2>9. Len(u) <= 6
    BY <2>7, AtMostSix, Zenon
  <2>10. Len(u) # 0
    <3>1. SUFFICES ASSUME Len(u) = 0 PROVE FALSE
      BY Zenon
    <3>2. DOMAIN u = {}
      BY <3>1, <2>8
    <3> QED
      BY <3>2, <2>7, <2>4, <2>5, Zenon DEF Range
  <2>11. IsInjective(u)
    BY <2>7, <2>8, Zenon DEF IsInjective
  <2>12. Len(u) \in 1 .. 6
    <3>1. \A n \in Nat : n # 0 /\ n <= 6 => n \in 1 .. 6
      OBVIOUS
    <3> QED
      BY <3>1, <2>8, <2>9, <2>10, Zenon
  <2>13. "unknown" \notin Range(u)
    BY <2>7, <1>5, Zenon
  <2>14. Range(u) = listed
    BY <2>7, <2>4, Zenon
  <2>15. ShowsChannels(u, raw)
    BY <2>5, <2>11, <2>12, <2>13, <2>14, Zenon DEF ShowsChannels
  <2> QED
    BY <2>15, <2>6, Zenon DEF c
<1> QED
  BY <1>4, <1>5, Zenon

\* What StatusReadable asks of the projection of a reply.
Faithful(config, members) ==
    /\ config \in {"ready", "not_ready", "unavailable"}
    /\ config = "ready" <=> Usable /\ preply.disabled = "false" /\ Carries("jbl") # {} /\ Carries("aura") # {}
    /\ config = "unavailable" <=> ~Usable
    /\ \A i \in 1 .. 2 :
         /\ members[i].name = Roles[i]
         /\ valid_member_projection(members[i])
         /\ members[i].verification = "unavailable" <=> ~Usable
         /\ config = "ready" => members[i].verification = "verified"
         /\ members[i].verification = "verified" <=> Usable /\ \E k \in 1 .. 2 : Carries(Roles[i]) = {k}
         /\ members[i].verification = "verified" =>
              \E k \in Carries(Roles[i]) : ShowsChannels(members[i].channels, preply.members[k].channel)

\* The roles are the two names, by their positions.
LEMMA TheRoles == Roles[1] = "jbl" /\ Roles[2] = "aura" /\ Range(Roles) = {"jbl", "aura"}
  BY DEF Roles, Range

\* A member takes a role exactly when it has its name and its identity.
LEMMA RoleCarried ==
  ASSUME NEW role \in {"jbl", "aura"}, NEW k \in DOMAIN preply.members
  PROVE  MemberRole(preply.members[k]) = role <=> k \in Carries(role)
  BY TheRoles, Zenon DEF MemberRole, Carries

\* Of two members, one carries a role when the positions that do are one.
LEMMA OneCarries ==
  ASSUME NEW T, T \subseteq 1 .. 2
  PROVE  /\ IsFiniteSet(T)
         /\ Cardinality(T) = 1 <=> \E k \in 1 .. 2 : T = {k}
<1>1. IsFiniteSet(1 .. 2)
  <2>1. 2 \in Nat
    BY Zenon
  <2> QED
    BY <2>1, PositionsCount, Zenon
<1>2. IsFiniteSet(T)
  BY <1>1, FS_Subset, Zenon
<1> QED
  BY <1>2, FS_Singleton, Zenon

\* A member that nothing is known of is one the client accepts.
LEMMA UnknownMember ==
  ASSUME NEW role, NEW verification
  PROVE  /\ fixed_member(role, verification, <<"unknown">>).name = role
         /\ fixed_member(role, verification, <<"unknown">>).verification = verification
         /\ valid_member_projection(fixed_member(role, verification, <<"unknown">>))
<1> DEFINE m == fixed_member(role, verification, <<"unknown">>)
<1>1. m.name = role /\ m.verification = verification /\ m.channels = <<"unknown">>
  BY Zenon DEF fixed_member
<1>2. Len(<<"unknown">>) \in 1 .. 6
  BY UnknownList
<1> QED
  BY <1>1, <1>2, UnknownList, Zenon DEF valid_member_projection

\* A reply that cannot be used gives two unavailable members.
LEMMA UnusableFaithful ==
  ASSUME ~Usable
  PROVE  Faithful("unavailable", unavailable_members("unavailable"))
<1> DEFINE members == unavailable_members("unavailable")
<1>1. ASSUME NEW i \in 1 .. 2
      PROVE  /\ members[i].name = Roles[i] /\ members[i].verification = "unavailable"
             /\ valid_member_projection(members[i])
  <2>1. members[i] = fixed_member(Roles[i], "unavailable", <<"unknown">>)
    BY Zenon DEF unavailable_members
  <2>2. /\ fixed_member(Roles[i], "unavailable", <<"unknown">>).name = Roles[i]
        /\ fixed_member(Roles[i], "unavailable", <<"unknown">>).verification = "unavailable"
        /\ valid_member_projection(fixed_member(Roles[i], "unavailable", <<"unknown">>))
    BY UnknownMember, Zenon
  <2> QED
    BY <2>1, <2>2, Zenon
<1> HIDE DEF members
<1>2. "unavailable" # "verified" /\ "unavailable" # "ready"
  BY Zenon
<1>3. Faithful("unavailable", members)
  BY <1>1, <1>2, Zenon DEF Faithful
<1> QED
  BY <1>3, Zenon DEF members

\* The member the controller shows for one role, from the positions that carry it.
Observed(i) ==
    observed_member(Roles[i], Carries(Roles[i]),
                    [k \in 1 .. 2 |-> [name |-> MemberRole(preply.members[k]),
                                       channels |-> [j \in DOMAIN preply.members[k].channel |->
                                                        Channel(preply.members[k].channel[j])]]])

\* One member of a usable reply: verified when one listed device carries the
\* role, with the channels listed for that device.
LEMMA ObservedFaithful ==
  ASSUME preply \in AnyReply, Usable, NEW i \in 1 .. 2
  PROVE  /\ Observed(i).name = Roles[i]
         /\ valid_member_projection(Observed(i))
         /\ Observed(i).verification \in {"verified", "not_verified"}
         /\ Observed(i).verification = "verified" <=> \E k \in 1 .. 2 : Carries(Roles[i]) = {k}
         /\ Observed(i).verification = "verified" =>
              \E k \in Carries(Roles[i]) : ShowsChannels(Observed(i).channels, preply.members[k].channel)
<1> DEFINE role == Roles[i]
           T == Carries(role)
           parsed == [k \in 1 .. 2 |-> [name |-> MemberRole(preply.members[k]),
                                        channels |-> [j \in DOMAIN preply.members[k].channel |->
                                                         Channel(preply.members[k].channel[j])]]]
<1>1. preply.members \in Seq([name : STRING, id : STRING, channel : Seq(STRING)]) /\ Len(preply.members) = 2
  BY Zenon DEF AnyReply, Usable
<1>2. DOMAIN preply.members = 1 .. 2 /\ \A k \in 1 .. 2 : preply.members[k].channel \in Seq(STRING)
  <2> DEFINE Members == [name : STRING, id : STRING, channel : Seq(STRING)]
  <2>1. \A m \in Members : m.channel \in Seq(STRING)
    BY Zenon
  <2> HIDE DEF Members
  <2>2. preply.members \in Seq(Members) /\ Len(preply.members) = 2
    BY <1>1, Zenon DEF Members
  <2>3. DOMAIN preply.members = 1 .. 2 /\ \A k \in 1 .. 2 : preply.members[k] \in Members
    BY ONLY <2>2, SMT
  <2> QED
    BY <2>1, <2>3, Zenon
<1>3. T \subseteq 1 .. 2
  BY <1>2, Zenon DEF Carries
<1> HIDE DEF T
<1>4. Cardinality(T) = 1 <=> \E k \in 1 .. 2 : T = {k}
  BY <1>3, OneCarries, Zenon
<1> USE DEF T
<1>5. Observed(i) = observed_member(role, T, parsed)
  BY Zenon DEF Observed
<1>6. CASE Cardinality(T) # 1
  <2>1. Observed(i) = fixed_member(role, "not_verified", <<"unknown">>)
    BY <1>5, <1>6, Zenon DEF observed_member
  <2>2. /\ Observed(i).name = role /\ Observed(i).verification = "not_verified"
        /\ valid_member_projection(Observed(i))
    BY <2>1, UnknownMember
  <2>3. "not_verified" # "verified"
    BY Zenon
  <2> QED
    BY <2>2, <2>3, <1>6, <1>4, Zenon
<1>7. CASE Cardinality(T) = 1
  <2>1. PICK k \in 1 .. 2 : T = {k}
    BY <1>7, <1>4, Zenon
  <2>2. (CHOOSE x \in T : TRUE) = k
    BY <2>1, Zenon
  <2> DEFINE raw == preply.members[k].channel
             shown == KnownChannels([j \in DOMAIN raw |-> Channel(raw[j])])
  <2>3. parsed[k].channels = [j \in DOMAIN raw |-> Channel(raw[j])]
    BY Zenon
  <2>4. Observed(i) = fixed_member(role, "verified", KnownChannels(parsed[k].channels))
    BY <1>5, <1>7, <2>2, Zenon DEF observed_member
  <2>5. Observed(i) = fixed_member(role, "verified", shown)
    BY <2>4, <2>3, Zenon
  <2>6. ShowsChannels(shown, raw)
    BY <1>2, ChannelsReadable, Zenon
  <2> HIDE DEF shown, parsed
  <2>7. Observed(i).name = role /\ Observed(i).verification = "verified" /\ Observed(i).channels = shown
    BY <2>5 DEF fixed_member
  <2>8. valid_member_projection(Observed(i))
    BY <2>6, <2>7, Zenon DEF valid_member_projection, ShowsChannels
  <2>9. k \in Carries(role)
    BY <2>1, Zenon
  <2> QED
    BY <2>1, <2>6, <2>7, <2>8, <2>9, Zenon
<1> QED
  BY <1>6, <1>7, Zenon

\* In a usable reply each device is listed once when both are listed.
LEMMA BothOnce ==
  ASSUME preply \in AnyReply, Usable
  PROVE  Cardinality(Carries("jbl")) = 1 /\ Cardinality(Carries("aura")) = 1
            <=> Carries("jbl") # {} /\ Carries("aura") # {}
<1>1. DOMAIN preply.members = 1 .. 2
  BY DEF AnyReply, Usable
<1>2. Carries("jbl") \subseteq 1 .. 2 /\ Carries("aura") \subseteq 1 .. 2 /\ Carries("jbl") \cap Carries("aura") = {}
  BY <1>1, Zenon DEF Carries
<1>3. /\ Cardinality(Carries("jbl")) = 1 <=> \E k \in 1 .. 2 : Carries("jbl") = {k}
      /\ Cardinality(Carries("aura")) = 1 <=> \E k \in 1 .. 2 : Carries("aura") = {k}
  BY <1>2, OneCarries, Zenon
<1>4. ASSUME NEW A, NEW B, A \subseteq 1 .. 2, B \subseteq 1 .. 2, A \cap B = {}, A # {}, B # {}
      PROVE  (\E k \in 1 .. 2 : A = {k}) /\ (\E k \in 1 .. 2 : B = {k})
  <2>1. PICK a \in A, b \in B : a \in 1 .. 2 /\ b \in 1 .. 2 /\ a # b
    BY <1>4, Zenon
  <2>2. \A k \in 1 .. 2 : k = a \/ k = b
    BY <2>1
  <2>3. A = {a} /\ B = {b}
    BY <1>4, <2>1, <2>2, Zenon
  <2> QED
    BY <2>1, <2>3, Zenon
<1>5. ASSUME Carries("jbl") # {}, Carries("aura") # {}
      PROVE  (\E k \in 1 .. 2 : Carries("jbl") = {k}) /\ (\E k \in 1 .. 2 : Carries("aura") = {k})
  BY <1>2, <1>4, <1>5, Zenon
<1> QED
  BY <1>3, <1>5, Zenon

\* What read_pair_configuration makes of any reply is true of it.
LEMMA ProjectionFaithful ==
  ASSUME preply \in AnyReply, ppc = "reply", read_pair_configuration
  PROVE  Faithful(pview'.pair_configuration, pview'.members)
<1> DEFINE group == parse_group_status(preply)
<1>1. CASE ~Usable
  <2>1. group = GroupError
    <3>1. \/ preply.code # "zero" \/ Len(preply.members) # 2 \/ preply.disabled = "missing"
          \/ \E i \in DOMAIN preply.members : ~MemberValid(preply.members[i])
      <4>1. Len(preply.members) = 2 => DOMAIN preply.members = 1 .. 2
        BY DEF AnyReply
      <4> QED
        BY <1>1, <4>1, Zenon DEF Usable
    <3> QED
      BY <3>1, Zenon DEF parse_group_status
  <2>2. group.error
    BY <2>1 DEF GroupError
  <2>3. pview' = [pair_configuration |-> "unavailable", members |-> unavailable_members("unavailable")]
    BY <2>2, Zenon DEF read_pair_configuration
  <2>4. pview'.pair_configuration = "unavailable" /\ pview'.members = unavailable_members("unavailable")
    BY <2>3, Zenon
  <2> QED
    BY <2>4, <1>1, UnusableFaithful, Zenon
<1>2. CASE Usable
  <2> DEFINE parsed == [k \in 1 .. 2 |-> [name |-> MemberRole(preply.members[k]),
                                          channels |-> [j \in DOMAIN preply.members[k].channel |->
                                                           Channel(preply.members[k].channel[j])]]]
             exact == /\ Cardinality(Carries("jbl")) = 1 /\ Cardinality(Carries("aura")) = 1
                      /\ preply.disabled = "false"
  <2>1. DOMAIN preply.members = 1 .. 2
    BY <1>2 DEF Usable, AnyReply
  <2>2. /\ {i \in DOMAIN preply.members : MemberRole(preply.members[i]) = "jbl"} = Carries("jbl")
        /\ {i \in DOMAIN preply.members : MemberRole(preply.members[i]) = "aura"} = Carries("aura")
    <3>1. ASSUME NEW role \in {"jbl", "aura"}
          PROVE  {i \in DOMAIN preply.members : MemberRole(preply.members[i]) = role} = Carries(role)
      <4>1. Carries(role) \subseteq DOMAIN preply.members
        BY Zenon DEF Carries
      <4> QED
        BY <4>1, RoleCarried, Zenon
    <3> QED
      BY <3>1, Zenon
  <2>3. group = [error |-> FALSE, exact |-> exact, members |-> parsed]
    <3>1. ~(\/ preply.code # "zero" \/ Len(preply.members) # 2 \/ preply.disabled = "missing"
            \/ \E i \in DOMAIN preply.members : ~MemberValid(preply.members[i]))
      BY <1>2, <2>1, Zenon DEF Usable
    <3> QED
      BY <3>1, <2>1, <2>2, Zenon DEF parse_group_status
  <2>4. ~group.error /\ group.exact = exact /\ group.members = parsed
    BY <2>3
  <2> HIDE DEF group
  <2>5. pview' = [pair_configuration |-> IF group.exact THEN "ready" ELSE "not_ready",
                  members |-> from_group_status(group)]
    BY <2>4, Zenon DEF read_pair_configuration, group
  <2>6. /\ pview'.pair_configuration = (IF exact THEN "ready" ELSE "not_ready")
        /\ pview'.members = from_group_status(group)
    BY <2>4, <2>5, Zenon
  <2>7. ASSUME NEW i \in 1 .. 2 PROVE pview'.members[i] = Observed(i)
    <3> DEFINE role == Roles[i]
    <3>1. role \in {"jbl", "aura"}
      BY TheRoles
    <3>2. {k \in DOMAIN group.members : group.members[k].name = role} = Carries(role)
      <4>1. DOMAIN group.members = 1 .. 2 /\ \A k \in 1 .. 2 : group.members[k].name = MemberRole(preply.members[k])
        BY <2>4
      <4> HIDE DEF role
      <4>2. {k \in DOMAIN group.members : group.members[k].name = role}
              = {k \in DOMAIN preply.members : MemberRole(preply.members[k]) = role}
        BY <4>1, <2>1, Zenon
      <4> QED
        BY <4>2, <3>1, <2>2, ZenonT(30)
    <3>3. pview'.members[i]
            = observed_member(role, {k \in DOMAIN group.members : group.members[k].name = role}, group.members)
      BY <2>6, Zenon DEF from_group_status
    <3>4. pview'.members[i] = observed_member(role, Carries(role), parsed)
      BY <3>2, <3>3, <2>4, Zenon
    <3> QED
      BY <3>4, Zenon DEF Observed
  <2> HIDE DEF parsed
  <2>8. exact <=> preply.disabled = "false" /\ Carries("jbl") # {} /\ Carries("aura") # {}
    BY <1>2, BothOnce, Zenon
  <2>9. exact => \A i \in 1 .. 2 : \E k \in 1 .. 2 : Carries(Roles[i]) = {k}
    <3>1. Carries("jbl") \subseteq 1 .. 2 /\ Carries("aura") \subseteq 1 .. 2
      BY <2>1, Zenon DEF Carries
    <3>2. ASSUME exact, NEW i \in 1 .. 2 PROVE \E k \in 1 .. 2 : Carries(Roles[i]) = {k}
      <4>1. Roles[i] = "jbl" \/ Roles[i] = "aura"
        BY TheRoles
      <4> QED
        BY <4>1, <3>1, <3>2, OneCarries, Zenon
    <3> QED
      BY <3>2, Zenon
  <2> QED
    <3>1. "ready" # "unavailable" /\ "not_ready" # "unavailable" /\ "ready" # "not_ready"
          /\ "unavailable" \notin {"verified", "not_verified"}
      BY Zenon
    <3> HIDE DEF exact
    <3>2. ASSUME NEW i \in 1 .. 2
          PROVE  /\ pview'.members[i].name = Roles[i]
                 /\ valid_member_projection(pview'.members[i])
                 /\ pview'.members[i].verification = "unavailable" <=> ~Usable
                 /\ pview'.members[i].verification = "verified" <=> Usable /\ \E k \in 1 .. 2 : Carries(Roles[i]) = {k}
                 /\ pview'.members[i].verification = "verified" =>
                      \E k \in Carries(Roles[i]) : ShowsChannels(pview'.members[i].channels, preply.members[k].channel)
      BY <1>2, <2>7, <3>1, ObservedFaithful, Zenon
    <3> QED
      BY <1>2, <2>6, <2>8, <2>9, <3>1, <3>2, Zenon DEF Faithful
<1> QED
  BY <1>1, <1>2, Zenon

\* A status body with nothing in it that the client compares and could refuse.
Consistent(view) ==
    /\ view.revision \in Nat /\ view.last_action \in Int /\ view.last_action <= view.revision
    /\ view.etag = view.revision
    /\ view.backend_health # <<>> => valid_health_projection(view.backend_health)

\* The inductive strengthening: from the probe on, the two members and the
\* verdict are true of the reply, and a served body is consistent.
PInv ==
    /\ ppc \in {"reply", "probed", "served", "shown"}
    /\ preply \in GroupReplies
    /\ ppc # "reply" => Faithful(pview.pair_configuration, pview.members)
    /\ ppc = "served" => Consistent(pview)

\* The bearers of an acquisition and no bearer are routes the client accepts.
LEMMA HealthAccepted == \A health \in {NoBearer} \cup Bearers : valid_health_projection(health)
  BY DEF NoBearer, Bearers, valid_health_projection

\* The client accepts a body that is faithful and consistent.
LEMMA ClientAccepts ==
  ASSUME NEW view, Faithful(view.pair_configuration, view.members), Consistent(view)
  PROVE  valid_status_projection(view) /\ view.etag = view.revision
<1>1. view.pair_configuration \in {"ready", "not_ready", "unavailable"}
  BY Zenon DEF Faithful
<1>2. ASSUME NEW i \in 1 .. 2
      PROVE  /\ view.members[i].name = Roles[i] /\ valid_member_projection(view.members[i])
             /\ view.members[i].verification = "unavailable" <=> view.pair_configuration = "unavailable"
             /\ view.pair_configuration = "ready" => view.members[i].verification = "verified"
  BY Zenon DEF Faithful
<1>3. ASSUME NEW i \in 1 .. 2
      PROVE  CASE view.pair_configuration = "ready" -> view.members[i].verification = "verified"
               [] view.pair_configuration = "not_ready" -> view.members[i].verification # "unavailable"
               [] view.pair_configuration = "unavailable" -> view.members[i].verification = "unavailable"
  BY <1>1, <1>2, Zenon
<1> QED
  BY <1>2, <1>3, Zenon DEF Consistent, valid_status_projection

\* The three stages keep it.
LEMMA StatusStep == PInv /\ [PNext]_pvars => PInv'
<1> SUFFICES ASSUME PInv, [PNext]_pvars PROVE PInv'
  BY ZenonT(30)
<1>1. CASE read_pair_configuration
  <2>1. preply \in AnyReply
    BY StatusAssumption, Zenon DEF PInv
  <2>2. ppc = "reply" /\ ppc' = "probed" /\ preply' = preply
    BY <1>1, Zenon DEF read_pair_configuration
  <2>3. Faithful(pview'.pair_configuration, pview'.members)
    BY <1>1, <2>1, <2>2, ProjectionFaithful, ZenonT(30)
  <2> QED
    BY <2>2, <2>3 DEF PInv, Faithful, Usable, Carries
<1>2. CASE status_response
  <2>1. ppc = "probed" /\ ppc' = "served" /\ preply' = preply
    BY <1>2, Zenon DEF status_response
  <2>2. PICK health \in {<<>>, NoBearer} \cup Bearers, revision \in 0 .. MaxRevision :
          \E last \in {NoLastAction} \cup 0 .. revision :
             pview' = [pair_configuration |-> pview.pair_configuration, members |-> pview.members,
                       backend_health |-> health, revision |-> revision, last_action |-> last, etag |-> revision]
    BY <1>2, Zenon DEF status_response
  <2>3. PICK last \in {NoLastAction} \cup 0 .. revision :
             pview' = [pair_configuration |-> pview.pair_configuration, members |-> pview.members,
                       backend_health |-> health, revision |-> revision, last_action |-> last, etag |-> revision]
    BY <2>2, Zenon
  <2>4. /\ pview'.pair_configuration = pview.pair_configuration /\ pview'.members = pview.members
        /\ pview'.backend_health = health /\ pview'.revision = revision /\ pview'.last_action = last
        /\ pview'.etag = revision
    BY <2>3, Zenon
  <2>5. revision \in Nat /\ last \in Int /\ last <= revision
    BY StatusAssumption DEF NoLastAction
  <2>6. health # <<>> => valid_health_projection(health)
    BY HealthAccepted, Zenon
  <2>7. Consistent(pview')
    BY <2>4, <2>5, <2>6, Zenon DEF Consistent
  <2>8. Faithful(pview.pair_configuration, pview.members)
    BY <2>1, ZenonT(30) DEF PInv
  <2> QED
    BY <2>1, <2>4, <2>7, <2>8 DEF PInv, Faithful, Usable, Carries, Consistent
<1>3. CASE ClientStatus
  <2>1. ppc = "served" /\ ppc' = "shown" /\ preply' = preply
    BY <1>3, Zenon DEF ClientStatus
  <2>2. Faithful(pview.pair_configuration, pview.members) /\ Consistent(pview)
    BY <2>1, Zenon DEF PInv
  <2>3. pview' = pview
    BY <1>3, <2>2, ClientAccepts, ZenonT(30) DEF ClientStatus
  <2> QED
    BY <2>1, <2>2, <2>3 DEF PInv, Faithful, Usable, Carries
<1>4. CASE UNCHANGED pvars
  BY <1>4 DEF pvars, PInv, Faithful, Usable, Carries, Consistent
<1> QED
  BY <1>1, <1>2, <1>3, <1>4, Zenon DEF PNext

\* Whatever the speaker replies, in any spelling and with any number of
\* members and channels, the client accepts the status the service makes of
\* it, and what it shows is so.
THEOREM StatusAlwaysReadable == PInit /\ [][PNext]_pvars => []StatusReadable
<1>1. PInit => PInv
  BY Zenon DEF PInit, PInv
<1>2. PInv => StatusReadable
  <2> SUFFICES ASSUME PInv, ppc = "shown" PROVE
        /\ pview # InvalidResponse
        /\ pview.pair_configuration = "ready" <=>
               Usable /\ preply.disabled = "false" /\ Carries("jbl") # {} /\ Carries("aura") # {}
        /\ pview.pair_configuration = "unavailable" <=> ~Usable
        /\ \A i \in 1 .. 2 :
             LET role == Roles[i]  member == pview.members[i] IN
             /\ member.verification = "verified" <=> Usable /\ \E k \in 1 .. 2 : Carries(role) = {k}
             /\ member.verification = "verified" =>
                  \E k \in Carries(role) :
                      LET listed == {Spelled(c) : c \in Range(preply.members[k].channel)} IN
                      Range(member.channels) =
                          IF listed # {} /\ listed \subseteq ALLOWED_CHANNELS THEN listed ELSE {"unknown"}
    BY Zenon DEF StatusReadable
  <2>1. Faithful(pview.pair_configuration, pview.members)
    BY Zenon DEF PInv
  <2>2. pview # InvalidResponse
    <3>1. pview.pair_configuration \in {"ready", "not_ready", "unavailable"}
      BY <2>1, Zenon DEF Faithful
    <3>2. InvalidResponse.pair_configuration \notin {"ready", "not_ready", "unavailable"}
      BY Zenon DEF InvalidResponse
    <3> QED
      BY <3>1, <3>2, Zenon
  <2> QED
    BY <2>1, <2>2, Zenon DEF Faithful, ShowsChannels
<1> QED
  BY <1>1, <1>2, StatusStep, PTL

-----------------------------------------------------------------------------
(* The failure report: FailureReport *)

\* The names of the controller and of the backend, by the step they belong to.
BroadcastNames == {"JblBroadcastResultTimedOut", "JblBroadcastResultUnavailable", "JblBroadcastResultRejected"}
GateNames == {"UnresolvedPriorAction", "RecoveryNotAllowed", "ExpectedPairNotConfigured",
              "PairConfigurationUnavailable", "JournalUnavailable"}
AckNames == {"AuraWriteUnknown", "AuraAckTimeout", "AuraAckChannelClosed", "AuraUnexpectedAck"}
AckReasons == {"AuraWriteUnknown", "AcknowledgementTimedOut", "AcknowledgementChannelClosed",
               "UnexpectedAcknowledgement"}

\* An answer of the backend blames the step that failed, and rejects only
\* what cannot have been written.
BackendTrue ==
    \/ /\ fanswer.outcome = "RejectedBeforeSend" /\ ~MayHaveWritten
       /\ fanswer.reason \in AcquisitionReasons => fcause.step = "connect_verified"
    \/ /\ fanswer.outcome = "OutcomeUnknown"
       /\ \/ fanswer.reason = "Unavailable"
          \/ fanswer.reason = "JblEnterOutcomeUnknown" /\ fcause.step = "jbl_enter"
          \/ fanswer.reason \in BroadcastNames /\ fcause.step = "execute"
          \/ fanswer.reason = "AuraStartOutcomeUnknown" /\ fcause.step = "aura_start"
          \/ fanswer.reason \in AckReasons /\ fcause.step \in {"aura_start", "aura_stop"}
          \/ fanswer.reason = "JblExitOutcomeUnknown" /\ fcause.step = "jbl_exit"

\* The same of the failure the controller keeps.
ControllerTrue ==
    \/ /\ fanswer.outcome = "RejectedBeforeSend" /\ ~MayHaveWritten
       /\ \/ fanswer.reason \in AcquisitionReasons /\ fcause.step = "connect_verified"
          \/ fanswer.reason \in GateNames \cup {"BackendRejectedBeforeSend"}
    \/ /\ fanswer.outcome = "OutcomeUnknown"
       /\ \/ fanswer.reason \in {"BackendOutcomeUnknown", "JournalCommitFailed", "UnexpectedBackendLifecycle"}
          \/ fanswer.reason = "JblEnterOutcomeUnknown" /\ fcause.step = "jbl_enter"
          \/ fanswer.reason \in BroadcastNames /\ fcause.step = "execute"
          \/ fanswer.reason = "AuraStartOutcomeUnknown" /\ fcause.step = "aura_start"
          \/ fanswer.reason \in AckNames /\ fcause.step \in {"aura_start", "aura_stop"}
          \/ fanswer.reason = "JblExitOutcomeUnknown" /\ fcause.step = "jbl_exit"
    \/ fanswer.outcome = "PostconditionFailed" /\ fanswer.reason = "MembershipPostconditionFailed"

\* And of the words on the wire.
WordsTrue ==
    \/ /\ fanswer.outcome = "rejected_before_send" /\ ~MayHaveWritten
       /\ \/ fanswer.reason \in AcquisitionWords /\ fcause.step = "connect_verified"
          \/ fanswer.reason \in GateWords \cup {"backend_rejected_before_send"}
    \/ /\ fanswer.outcome = "outcome_unknown"
       /\ \/ fanswer.reason \in {"backend_outcome_unknown", "journal_commit_failed", "unexpected_backend_lifecycle"}
          \/ fanswer.reason = "jbl_enter_outcome_unknown" /\ fcause.step = "jbl_enter"
          \/ fanswer.reason \in BroadcastWords /\ fcause.step = "execute"
          \/ fanswer.reason = "aura_start_outcome_unknown" /\ fcause.step = "aura_start"
          \/ fanswer.reason \in AckWords /\ fcause.step \in {"aura_start", "aura_stop"}
          \/ fanswer.reason = "jbl_exit_outcome_unknown" /\ fcause.step = "jbl_exit"
    \/ fanswer.outcome = "postcondition_failed" /\ fanswer.reason = "membership_postcondition_failed"

\* The inductive strengthening: each stage hands on what is true of the cause.
FInv ==
    /\ fpc \in {"backend", "controller", "web", "client", "shown"}
    /\ fcause \in Causes
    /\ fpc = "controller" => BackendTrue
    /\ fpc = "web" => ControllerTrue
    /\ fpc \in {"client", "shown"} => WordsTrue

\* The steps at which a method of the backend may end.
BackendSteps == {"shutdown_bearer", "release", "connect_verified", "arm", "execute", "jbl_enter", "jbl_exit",
                 "aura_start", "aura_stop"}

\* The fields of an answer.
LEMMA FailureFields == \A outcome, reason : Failure(outcome, reason).outcome = outcome /\ Failure(outcome, reason).reason = reason
  BY Zenon DEF Failure

\* The steps of the backend, with what may have failed at them.
LEMMA CauseSteps ==
  ASSUME NEW cause \in Causes
  PROVE  /\ cause.step \in BackendSteps \cup {"gate", "accepted"}
         /\ cause.step \in {"aura_start", "aura_stop"} => cause.how \in {"TransportNotReady"} \cup WriteReasons
         /\ cause.step = "gate" => cause.how \in GateNames
         /\ cause.step = "accepted" => cause.how \in {"UnexpectedBackendLifecycle", "MembershipPostconditionFailed",
                                                "JournalCommitFailed"}
<1>1. \A step, how : Cause(step, how).step = step /\ Cause(step, how).how = how
  BY Zenon DEF Cause
<1> DEFINE Kept == \/ cause.step \in {"shutdown_bearer", "release", "connect_verified", "arm", "execute", "jbl_enter",
                                       "jbl_exit"}
                   \/ cause.step \in {"aura_start", "aura_stop"} /\ cause.how \in {"TransportNotReady"} \cup WriteReasons
                   \/ cause.step = "gate" /\ cause.how \in GateNames
                   \/ cause.step = "accepted" /\ cause.how \in {"UnexpectedBackendLifecycle",
                                                "MembershipPostconditionFailed", "JournalCommitFailed"}
<1>2. cause \in {Cause("shutdown_bearer", "DisconnectFailed"), Cause("release", "DisconnectFailed")} => Kept
  BY <1>1
<1>3. cause \in {Cause("connect_verified", how) : how \in AuraFailureReason} => Kept
  BY <1>1
<1>4. cause \in {Cause(step, how) : step \in {"arm", "execute"}, how \in JblGattFailure \cup GenaFailure} => Kept
  BY <1>1
<1>5. cause \in {Cause(step, how) : step \in {"jbl_enter", "jbl_exit"},
                                        how \in {"NotSent", "ControlCommandRejected", "OutcomeUnknown"}} => Kept
  BY <1>1
<1>6. cause \in {Cause(step, how) : step \in {"aura_start", "aura_stop"}, how \in {"TransportNotReady"} \cup WriteReasons} => Kept
  BY <1>1
<1>7. cause \in {Cause("gate", how) : how \in GateNames} => Kept
  BY <1>1
<1>8. cause \in {Cause("accepted", how) : how \in {"UnexpectedBackendLifecycle", "MembershipPostconditionFailed",
                                                        "JournalCommitFailed"}} => Kept
  BY <1>1
<1>9. Kept
  BY <1>2, <1>3, <1>4, <1>5, <1>6, <1>7, <1>8 DEF Causes, GateNames
<1> QED
  BY <1>9, Zenon DEF BackendSteps

\* The three reductions of the native backend stay in their own lists.
LEMMA BackendNames ==
  /\ \A how : map_broadcast_result_failure(how) \in BroadcastNames
  /\ \A how \in WriteReasons : map_aura_action_unknown(how) \in AckReasons
  /\ \A how : map_aura_transport_error(how) \in AcquisitionReasons \cup {"Unavailable"}
<1>1. \A how : map_broadcast_result_failure(how) \in BroadcastNames
  BY Zenon DEF map_broadcast_result_failure, BroadcastNames
<1>2. \A how \in WriteReasons : map_aura_action_unknown(how) \in AckReasons
  BY Zenon DEF map_aura_action_unknown, WriteReasons, AckReasons
<1>3. "AdapterUnavailable" \in AcquisitionReasons
  BY Zenon DEF AcquisitionReasons
<1>4. \A how : map_aura_transport_error(how) \in AcquisitionReasons \cup {"Unavailable"}
  BY <1>3, Zenon DEF map_aura_transport_error
<1> QED
  BY <1>1, <1>2, <1>4, Zenon

\* What the backend answers for each of its steps is true of the step.
LEMMA BackendStep == FInv /\ Backend => FInv'
<1> SUFFICES ASSUME FInv, Backend PROVE FInv'
  BY Zenon
<1> DEFINE step == fcause.step
           how == fcause.how
           answer == BackendAnswer(step, how)
<1>1. fpc = "backend" /\ fpc' = "controller" /\ fanswer' = answer /\ fcause' = fcause
  BY Zenon DEF Backend
<1>2. /\ step \in BackendSteps
      /\ step \in {"aura_start", "aura_stop"} => how \in {"TransportNotReady"} \cup WriteReasons
  BY CauseSteps, Zenon DEF FInv, Backend
<1> HIDE DEF step, how
<1> DEFINE Rej(reason) == answer.outcome = "RejectedBeforeSend" /\ answer.reason = reason
           Unk(reason) == answer.outcome = "OutcomeUnknown" /\ answer.reason = reason
<1>3. /\ step = "shutdown_bearer" => Rej("Unavailable")
      /\ step = "connect_verified" => Rej(map_aura_transport_error(how))
      /\ step = "arm" => Rej(map_broadcast_result_failure(how))
      /\ step = "jbl_enter" /\ how = "NotSent" => Rej("BackendReportedFailure")
      /\ step = "jbl_enter" /\ how # "NotSent" => Unk("JblEnterOutcomeUnknown")
      /\ step = "execute" => Unk(map_broadcast_result_failure(how))
      /\ step = "aura_start" /\ how \notin WriteReasons => Unk("AuraStartOutcomeUnknown")
      /\ step = "aura_stop" /\ how \notin WriteReasons => Rej("BackendReportedFailure")
      /\ step \in {"aura_start", "aura_stop"} /\ how \in WriteReasons => Unk(map_aura_action_unknown(how))
      /\ step = "jbl_exit" => Unk("JblExitOutcomeUnknown")
      /\ step = "release" => Unk("Unavailable")
  BY FailureFields, Zenon DEF BackendAnswer, Rejected, Unknown
<1> HIDE DEF answer
<1>4. \A x \in BroadcastNames \cup {"Unavailable", "BackendReportedFailure"} : x \notin AcquisitionReasons
  BY Zenon DEF BroadcastNames, AcquisitionReasons
<1>5. \/ /\ answer.outcome = "RejectedBeforeSend"
         /\ ~(\/ step \in {"execute", "aura_start", "jbl_exit", "release", "accepted"}
              \/ step = "jbl_enter" /\ how # "NotSent"
              \/ step = "aura_stop" /\ how \in WriteReasons)
         /\ answer.reason \in AcquisitionReasons => step = "connect_verified"
      \/ /\ answer.outcome = "OutcomeUnknown"
         /\ \/ answer.reason = "Unavailable"
            \/ answer.reason = "JblEnterOutcomeUnknown" /\ step = "jbl_enter"
            \/ answer.reason \in BroadcastNames /\ step = "execute"
            \/ answer.reason = "AuraStartOutcomeUnknown" /\ step = "aura_start"
            \/ answer.reason \in AckReasons /\ step \in {"aura_start", "aura_stop"}
            \/ answer.reason = "JblExitOutcomeUnknown" /\ step = "jbl_exit"
  BY <1>2, <1>3, <1>4, BackendNames, Zenon DEF BackendSteps
<1>6. BackendTrue'
  BY <1>1, <1>5, Zenon DEF BackendTrue, MayHaveWritten, step, how
<1> QED
  BY <1>1, <1>6, Zenon DEF FInv

\* The controller rejects only what the backend rejected, and keeps the name
\* of an acquisition or of an unknown command.
LEMMA ControllerStep == FInv /\ reduce_backend_result => FInv'
<1> SUFFICES ASSUME FInv, reduce_backend_result PROVE FInv'
  BY Zenon
<1>1. fpc = "controller" /\ fpc' = "web" /\ fcause' = fcause
  BY Zenon DEF reduce_backend_result
<1>2. BackendTrue
  BY <1>1, Zenon DEF FInv
<1>3. MayHaveWritten' <=> MayHaveWritten
  BY <1>1, Zenon DEF MayHaveWritten
<1> DEFINE reason == fanswer.reason
<1>4. CASE fanswer.outcome = "RejectedBeforeSend"
  <2>1. ~MayHaveWritten /\ (reason \in AcquisitionReasons => fcause.step = "connect_verified")
    BY <1>2, <1>4, Zenon DEF BackendTrue
  <2>2. fanswer' = Rejected(controller_failure_from_backend(reason)) \/ fanswer' = Unknown("JournalCommitFailed")
    BY <1>4, Zenon DEF reduce_backend_result
  <2>3. ASSUME fanswer' = Rejected(controller_failure_from_backend(reason)) PROVE ControllerTrue'
    <3>1. /\ fanswer'.outcome = "RejectedBeforeSend"
          /\ fanswer'.reason = IF reason \in AcquisitionReasons THEN reason ELSE "BackendRejectedBeforeSend"
      BY <2>3, FailureFields, Zenon DEF Rejected, controller_failure_from_backend
    <3> QED
      BY <3>1, <2>1, <1>1, <1>3, Zenon DEF ControllerTrue
  <2>4. ASSUME fanswer' = Unknown("JournalCommitFailed") PROVE ControllerTrue'
    <3>1. fanswer'.outcome = "OutcomeUnknown" /\ fanswer'.reason = "JournalCommitFailed"
      BY <2>4, FailureFields, Zenon DEF Unknown
    <3> QED
      BY <3>1, Zenon DEF ControllerTrue
  <2>5. ControllerTrue'
    BY <2>2, <2>3, <2>4, Zenon
  <2> QED
    BY <2>5, <1>1, Zenon DEF FInv
<1>5. CASE fanswer.outcome # "RejectedBeforeSend"
  <2> DEFINE kept == controller_failure_from_unknown_backend(reason)
  <2>1. fanswer' = Unknown(kept)
    BY <1>5, Zenon DEF reduce_backend_result
  <2>2. fanswer'.outcome = "OutcomeUnknown" /\ fanswer'.reason = kept
    BY <2>1, FailureFields, Zenon DEF Unknown
  <2>3. \/ reason = "Unavailable"
        \/ reason = "JblEnterOutcomeUnknown" /\ fcause.step = "jbl_enter"
        \/ reason \in BroadcastNames /\ fcause.step = "execute"
        \/ reason = "AuraStartOutcomeUnknown" /\ fcause.step = "aura_start"
        \/ reason \in AckReasons /\ fcause.step \in {"aura_start", "aura_stop"}
        \/ reason = "JblExitOutcomeUnknown" /\ fcause.step = "jbl_exit"
    BY <1>2, <1>5, Zenon DEF BackendTrue
  <2>4. /\ reason = "Unavailable" => kept = "BackendOutcomeUnknown"
        /\ reason \in BroadcastNames \cup {"JblEnterOutcomeUnknown", "AuraStartOutcomeUnknown", "JblExitOutcomeUnknown"}
             => kept = reason
        /\ reason \in AckReasons => kept \in AckNames
    <3> HIDE DEF reason
    <3> QED
      BY Zenon DEF controller_failure_from_unknown_backend, BroadcastNames, AckReasons, AckNames, AcquisitionReasons
  <2> HIDE DEF kept, reason
  <2>5. ControllerTrue'
    BY <2>2, <2>3, <2>4, <1>1, Zenon DEF ControllerTrue
  <2> QED
    BY <2>5, <1>1, Zenon DEF FInv
<1> QED
  BY <1>4, <1>5, Zenon

\* The exits of the controller itself: nothing was written at its gate.
LEMMA OwnStep == FInv /\ OwnFailure => FInv'
<1> SUFFICES ASSUME FInv, OwnFailure PROVE FInv'
  BY Zenon
<1>1. fpc = "backend" /\ fpc' = "web" /\ fcause' = fcause
  BY Zenon DEF OwnFailure
<1>2. /\ fcause.step = "gate" => fcause.how \in GateNames
      /\ fcause.step = "accepted" => fcause.how \in {"UnexpectedBackendLifecycle", "MembershipPostconditionFailed",
                                                    "JournalCommitFailed"}
  BY CauseSteps, Zenon DEF FInv
<1>3. CASE fcause.step = "gate"
  <2>1. fcause.how # "MembershipPostconditionFailed"
    BY <1>2, <1>3, Zenon DEF GateNames
  <2>2. fanswer' = Rejected(fcause.how)
    BY <1>3, <2>1, Zenon DEF OwnFailure
  <2>3. fanswer'.outcome = "RejectedBeforeSend" /\ fanswer'.reason = fcause.how
    BY <2>2, FailureFields, Zenon DEF Rejected
  <2>4. ~MayHaveWritten'
    BY <1>1, <1>3, Zenon DEF MayHaveWritten
  <2>5. ControllerTrue'
    BY <2>3, <2>4, <1>2, <1>3, Zenon DEF ControllerTrue
  <2> QED
    BY <2>5, <1>1, Zenon DEF FInv
<1>4. CASE fcause.step = "accepted"
  <2>1. fanswer' = IF fcause.how = "MembershipPostconditionFailed" THEN Failure("PostconditionFailed", fcause.how)
                   ELSE Unknown(fcause.how)
    BY <1>4, Zenon DEF OwnFailure
  <2>2. /\ fanswer'.outcome = IF fcause.how = "MembershipPostconditionFailed" THEN "PostconditionFailed" ELSE "OutcomeUnknown"
        /\ fanswer'.reason = fcause.how
    BY <2>1, FailureFields, ZenonT(30) DEF Unknown
  <2>3. ControllerTrue'
    BY <2>2, <1>2, <1>4, Zenon DEF ControllerTrue
  <2> QED
    BY <2>3, <1>1, Zenon DEF FInv
<1> QED
  BY <1>3, <1>4, Zenon DEF OwnFailure

\* The table of WebApp spells each list of the controller in the words the
\* client keeps for it.
LEMMA Spelling ==
  /\ \A reason \in AcquisitionReasons : failure_name[reason] \in AcquisitionWords
  /\ \A reason \in GateNames : failure_name[reason] \in GateWords
  /\ \A reason \in AckNames : failure_name[reason] \in AckWords
  /\ \A reason \in BroadcastNames : failure_name[reason] \in BroadcastWords
  /\ failure_name["BackendRejectedBeforeSend"] = "backend_rejected_before_send"
  /\ failure_name["BackendOutcomeUnknown"] = "backend_outcome_unknown"
  /\ failure_name["JournalCommitFailed"] = "journal_commit_failed"
  /\ failure_name["UnexpectedBackendLifecycle"] = "unexpected_backend_lifecycle"
  /\ failure_name["MembershipPostconditionFailed"] = "membership_postcondition_failed"
  /\ failure_name["JblEnterOutcomeUnknown"] = "jbl_enter_outcome_unknown"
  /\ failure_name["JblExitOutcomeUnknown"] = "jbl_exit_outcome_unknown"
  /\ failure_name["AuraStartOutcomeUnknown"] = "aura_start_outcome_unknown"
<1>1. \A reason \in AcquisitionReasons : failure_name[reason] \in AcquisitionWords
  BY DEF failure_name, AcquisitionReasons, AcquisitionWords
<1>2. \A reason \in GateNames : failure_name[reason] \in GateWords
  BY DEF failure_name, GateNames, GateWords
<1>3. \A reason \in AckNames : failure_name[reason] \in AckWords
  BY DEF failure_name, AckNames, AckWords
<1>4. \A reason \in BroadcastNames : failure_name[reason] \in BroadcastWords
  BY DEF failure_name, BroadcastNames, BroadcastWords
<1>5. /\ failure_name["BackendRejectedBeforeSend"] = "backend_rejected_before_send"
      /\ failure_name["BackendOutcomeUnknown"] = "backend_outcome_unknown"
      /\ failure_name["JournalCommitFailed"] = "journal_commit_failed"
      /\ failure_name["UnexpectedBackendLifecycle"] = "unexpected_backend_lifecycle"
  BY Zenon DEF failure_name
<1>6. /\ failure_name["MembershipPostconditionFailed"] = "membership_postcondition_failed"
      /\ failure_name["JblEnterOutcomeUnknown"] = "jbl_enter_outcome_unknown"
      /\ failure_name["JblExitOutcomeUnknown"] = "jbl_exit_outcome_unknown"
      /\ failure_name["AuraStartOutcomeUnknown"] = "aura_start_outcome_unknown"
  BY Zenon DEF failure_name
<1> QED
  BY <1>1, <1>2, <1>3, <1>4, <1>5, <1>6, Zenon

\* What WebApp spells says what the controller kept.
LEMMA WebStep == FInv /\ action_response => FInv'
<1> SUFFICES ASSUME FInv, action_response PROVE FInv'
  BY Zenon
<1>1. fpc = "web" /\ fpc' = "client" /\ fcause' = fcause
  BY Zenon DEF action_response
<1>2. fanswer' = Failure(outcome_name[fanswer.outcome], failure_name[fanswer.reason])
  BY Zenon DEF action_response
<1>3. fanswer'.outcome = outcome_name[fanswer.outcome] /\ fanswer'.reason = failure_name[fanswer.reason]
  BY <1>2, FailureFields, ZenonT(30)
<1>4. /\ outcome_name["RejectedBeforeSend"] = "rejected_before_send"
      /\ outcome_name["OutcomeUnknown"] = "outcome_unknown"
      /\ outcome_name["PostconditionFailed"] = "postcondition_failed"
  BY Zenon DEF outcome_name
<1>5. MayHaveWritten' <=> MayHaveWritten
  BY <1>1, Zenon DEF MayHaveWritten
<1>6. ControllerTrue
  BY <1>1, Zenon DEF FInv
<1>7. WordsTrue'
  BY <1>1, <1>3, <1>4, <1>5, <1>6, Spelling, ZenonT(30) DEF ControllerTrue, WordsTrue
<1> QED
  BY <1>1, <1>7, Zenon DEF FInv

\* Every word the service spells is one the client parses.
LEMMA ClientStep == FInv /\ ClientAction => FInv'
<1> SUFFICES ASSUME FInv, ClientAction PROVE FInv'
  BY Zenon
<1>1. fpc = "client" /\ fpc' = "shown" /\ fcause' = fcause
  BY Zenon DEF ClientAction
<1>2. WordsTrue
  BY <1>1, Zenon DEF FInv
<1>3. fanswer.reason \in LocalFailure
  BY <1>2, Zenon DEF WordsTrue, LocalFailure
<1>4. fanswer' = fanswer
  BY <1>3, Zenon DEF ClientAction
<1>5. WordsTrue'
  BY <1>1, <1>2, <1>4, Zenon DEF WordsTrue, MayHaveWritten
<1> QED
  BY <1>1, <1>5, Zenon DEF FInv

\* The lists of words have none in common, and no word is the refusal.
LEMMA WordsApart ==
  /\ \A w \in AcquisitionWords : w \notin GateWords \cup AckWords \cup BroadcastWords
  /\ \A w \in GateWords : w \notin AckWords \cup BroadcastWords
  /\ \A w \in AckWords : w \notin BroadcastWords
  /\ \A w \in {"backend_rejected_before_send", "backend_outcome_unknown", "journal_commit_failed",
               "unexpected_backend_lifecycle", "membership_postcondition_failed", "jbl_enter_outcome_unknown",
               "jbl_exit_outcome_unknown", "aura_start_outcome_unknown"} :
       w \notin AcquisitionWords \cup GateWords \cup AckWords \cup BroadcastWords
<1>1. \A w \in AcquisitionWords : w \notin GateWords \cup AckWords \cup BroadcastWords
  BY Zenon DEF AcquisitionWords, GateWords, AckWords, BroadcastWords
<1>2. \A w \in GateWords : w \notin AckWords \cup BroadcastWords
  BY Zenon DEF GateWords, AckWords, BroadcastWords
<1>3. \A w \in AckWords : w \notin BroadcastWords
  BY Zenon DEF AckWords, BroadcastWords
<1>4. \A w \in {"backend_rejected_before_send", "backend_outcome_unknown", "journal_commit_failed",
               "unexpected_backend_lifecycle", "membership_postcondition_failed", "jbl_enter_outcome_unknown",
               "jbl_exit_outcome_unknown", "aura_start_outcome_unknown"} :
        w \notin AcquisitionWords \cup GateWords \cup AckWords \cup BroadcastWords
  BY Zenon DEF AcquisitionWords, GateWords, AckWords, BroadcastWords
<1> QED
  BY <1>1, <1>2, <1>3, <1>4, Zenon

\* A failed action is reported in a word the client knows, and the word is
\* true of the step that failed, for every step and every way it fails.
THEOREM FailureAlwaysTrue == FInit /\ [][FNext]_fvars => []FailureTrue
<1>1. FInit => FInv
  BY Zenon DEF FInit, FInv
<1>2. FInv /\ [FNext]_fvars => FInv'
  <2>1. FInv /\ UNCHANGED fvars => FInv'
    BY ZenonT(30) DEF fvars, FInv, BackendTrue, ControllerTrue, WordsTrue, MayHaveWritten
  <2> QED
    BY <2>1, BackendStep, ControllerStep, OwnStep, WebStep, ClientStep, Zenon DEF FNext
<1>3. FInv => FailureTrue
  <2> SUFFICES ASSUME FInv, fpc = "shown" PROVE FailureTrue
    BY Zenon DEF FailureTrue
  <2>1. WordsTrue
    BY Zenon DEF FInv
  <2>2. fanswer # InvalidAnswer
    <3>1. fanswer.outcome \in {"rejected_before_send", "outcome_unknown", "postcondition_failed"}
      BY <2>1, Zenon DEF WordsTrue
    <3>2. InvalidAnswer.outcome \notin {"rejected_before_send", "outcome_unknown", "postcondition_failed"}
      BY FailureFields DEF InvalidAnswer
    <3> QED
      BY <3>1, <3>2, Zenon
  <2>3. CASE fanswer.outcome = "rejected_before_send"
    <3>1. /\ ~MayHaveWritten
          /\ \/ fanswer.reason \in AcquisitionWords /\ fcause.step = "connect_verified"
             \/ fanswer.reason \in GateWords \cup {"backend_rejected_before_send"}
      BY <2>1, <2>3, Zenon DEF WordsTrue
    <3>2. fanswer.reason \notin BroadcastWords \cup AckWords
      BY <3>1, WordsApart, Zenon
    <3>3. fanswer.reason \notin {"aura_start_outcome_unknown", "jbl_enter_outcome_unknown", "jbl_exit_outcome_unknown"}
      <4>1. "backend_rejected_before_send" \notin
              {"aura_start_outcome_unknown", "jbl_enter_outcome_unknown", "jbl_exit_outcome_unknown"}
        BY Zenon
      <4> QED
        BY <3>1, <4>1, WordsApart, Zenon
    <3>4. fanswer.reason \in AcquisitionWords => fcause.step = "connect_verified"
      BY <3>1, WordsApart, Zenon
    <3> QED
      BY <2>2, <2>3, <3>1, <3>2, <3>3, <3>4, Zenon DEF FailureTrue
  <2>4. CASE fanswer.outcome # "rejected_before_send"
    <3>1. \/ fanswer.reason \in {"backend_outcome_unknown", "journal_commit_failed", "unexpected_backend_lifecycle",
                                 "membership_postcondition_failed"}
          \/ fanswer.reason = "jbl_enter_outcome_unknown" /\ fcause.step = "jbl_enter"
          \/ fanswer.reason \in BroadcastWords /\ fcause.step = "execute"
          \/ fanswer.reason = "aura_start_outcome_unknown" /\ fcause.step = "aura_start"
          \/ fanswer.reason \in AckWords /\ fcause.step \in {"aura_start", "aura_stop"}
          \/ fanswer.reason = "jbl_exit_outcome_unknown" /\ fcause.step = "jbl_exit"
      BY <2>1, <2>4, Zenon DEF WordsTrue
    <3>2. fanswer.reason \notin AcquisitionWords \cup GateWords \cup {"backend_rejected_before_send"}
      BY <3>1, WordsApart, Zenon
    <3>3. /\ fanswer.reason \in BroadcastWords => fcause.step = "execute"
          /\ fanswer.reason \in AckWords => fcause.step \in {"aura_start", "aura_stop"}
      BY <3>1, WordsApart, Zenon
    <3>4. /\ fanswer.reason = "aura_start_outcome_unknown" => fcause.step = "aura_start"
          /\ fanswer.reason = "jbl_enter_outcome_unknown" => fcause.step = "jbl_enter"
          /\ fanswer.reason = "jbl_exit_outcome_unknown" => fcause.step = "jbl_exit"
      BY <3>1, WordsApart, Zenon
    <3> QED
      BY <2>2, <2>4, <3>2, <3>3, <3>4, Zenon DEF FailureTrue
  <2> QED
    BY <2>3, <2>4, Zenon
<1> QED
  BY <1>1, <1>2, <1>3, PTL
=============================================================================
