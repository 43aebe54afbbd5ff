-------------------------- MODULE StatusProjection --------------------------
(***************************************************************************)
(* One status answer, from the group reply of the JBL speaker to what the  *)
(* jblctl client accepts.  parse_group_status of rust/src/model.rs         *)
(* compares the raw members with the configured pair, the controller       *)
(* reduces them to the two fixed members, WebApp writes the body, and      *)
(* rust/src/local_client.rs parses it and refuses a body that contradicts  *)
(* itself.                                                                 *)
(***************************************************************************)
EXTENDS Integers, Sequences, FiniteSets, Functions

CONSTANTS
    MaxRevision,    \* bound: controller revisions seen in a status
    GroupReplies,   \* the replies the speaker may give
    Spellings       \* what trim and to_ascii_lowercase make of the strings they change

\* A member of a reply has some name and identity, malformed ones included,
\* and a list of channels.  The code stands for the error code and the two
\* objects around the list of members.
AnyReply ==
    [code : {"zero", "error", "unread", "no_members"},
     members : Seq([name : STRING, id : STRING, channel : Seq(STRING)]),
     disabled : {"true", "false", "missing"}]

ASSUME StatusAssumption == MaxRevision \in Nat /\ GroupReplies \subseteq AnyReply

VARIABLES
    ppc,        \* "reply", "probed", "served", "shown"
    preply,     \* the reply of the speaker, fixed
    pview       \* what the stage reached so far has made of it

pvars == <<ppc, preply, pview>>

-----------------------------------------------------------------------------
(* Group replies *)

Roles == <<"jbl", "aura">>

ALLOWED_CHANNELS == {"front_left", "front_right", "left", "right", "mono", "stereo"}

\* A channel that is not a JSON string, and a channel as it is compared.
NotAString == "not a string"
Spelled(channel) == IF channel \in DOMAIN Spellings THEN Spellings[channel] ELSE channel

-----------------------------------------------------------------------------
(* rust/src/model.rs *)

MemberValid(m) == m.name # "none" /\ m.id # "malformed" /\ \A i \in DOMAIN m.channel : m.channel[i] # NotAString

\* A parser that takes the friendly name alone for the device.
RoleByName(m) == IF m.name \in Range(Roles) THEN m.name ELSE "unknown"

MemberRole(m) == IF m.name = m.id /\ m.name \in Range(Roles) THEN m.name ELSE "unknown"

Channel(raw) == IF Spelled(raw) \in ALLOWED_CHANNELS THEN Spelled(raw) ELSE "unknown"

GroupError == [error |-> TRUE]

parse_group_status(reply) ==
    LET count(role) == Cardinality({i \in DOMAIN reply.members : MemberRole(reply.members[i]) = role}) IN
    IF \/ reply.code # "zero" \/ Len(reply.members) # 2 \/ reply.disabled = "missing"
       \/ \E i \in DOMAIN reply.members : ~MemberValid(reply.members[i])
    THEN GroupError
    ELSE [error |-> FALSE,
          exact |-> count("jbl") = 1 /\ count("aura") = 1 /\ reply.disabled = "false",
          members |-> [i \in DOMAIN reply.members |->
                          [name |-> MemberRole(reply.members[i]),
                           channels |-> [j \in DOMAIN reply.members[i].channel |-> Channel(reply.members[i].channel[j])]]]]

-----------------------------------------------------------------------------
(* rust/src/controller.rs *)

fixed_member(role, verification, channels) == [name |-> role, verification |-> verification, channels |-> channels]

unavailable_members(verification) == [i \in 1 .. 2 |-> fixed_member(Roles[i], verification, <<"unknown">>)]

\* The fold of observed_member: the first occurrence of each channel, in order.
Unique(channels) ==
    LET first == {i \in DOMAIN channels : \A j \in 1 .. i - 1 : channels[j] # channels[i]}
        rank(i) == Cardinality({j \in first : j <= i})
    IN [k \in 1 .. Cardinality(first) |-> channels[CHOOSE i \in first : rank(i) = k]]

\* A projection that shows the channels as often as the speaker lists them.
ChannelsAsListed(channels) == IF channels = <<>> \/ "unknown" \in Range(channels) THEN <<"unknown">> ELSE channels

KnownChannels(channels) == IF channels = <<>> \/ "unknown" \in Range(channels) THEN <<"unknown">> ELSE Unique(channels)

\* matches are the positions of the members with the name of the role.
observed_member(role, matches, members) ==
    IF Cardinality(matches) # 1 THEN fixed_member(role, "not_verified", <<"unknown">>)
    ELSE fixed_member(role, "verified", KnownChannels(members[CHOOSE i \in matches : TRUE].channels))

from_group_status(group) ==
    [i \in 1 .. 2 |->
        observed_member(Roles[i], {k \in DOMAIN group.members : group.members[k].name = Roles[i]}, group.members)]

\* read_pair_configuration: the probe's group status, or the failed probe.
read_pair_configuration ==
    LET group == parse_group_status(preply) IN
    /\ ppc = "reply" /\ ppc' = "probed"
    /\ pview' = IF group.error
                THEN [pair_configuration |-> "unavailable", members |-> unavailable_members("unavailable")]
                ELSE [pair_configuration |-> IF group.exact THEN "ready" ELSE "not_ready",
                      members |-> from_group_status(group)]
    /\ UNCHANGED preply

-----------------------------------------------------------------------------
(* rust/src/aura_bluez.rs, rust/src/backend_native.rs and rust/src/web.rs *)

\* The bearers an acquisition ends with, and no bearer.
Bearers == {<<"br_edr", "stable_direct">>, <<"br_edr", "a2dp_wake_then_stable">>, <<"le", "fresh_le">>}
NoBearer == <<"unresolved", "unresolved">>

NoLastAction == -1

\* WebApp answers with the controller's status at some revision; the health
\* is left out when the backend has none to give.
status_response ==
    /\ ppc = "probed" /\ ppc' = "served"
    /\ \E health \in {<<>>, NoBearer} \cup Bearers, revision \in 0 .. MaxRevision :
         \E last \in {NoLastAction} \cup 0 .. revision :
             pview' = [pair_configuration |-> pview.pair_configuration, members |-> pview.members,
                       backend_health |-> health, revision |-> revision, last_action |-> last, etag |-> revision]
    /\ UNCHANGED preply

-----------------------------------------------------------------------------
(* rust/src/local_client.rs *)

valid_health_projection(health) ==
    CASE health[2] \in {"stable_direct", "a2dp_wake_then_stable"} -> health[1] = "br_edr"
      [] health[2] = "fresh_le" -> health[1] = "le"
      [] OTHER -> TRUE

valid_member_projection(member) ==
    /\ Len(member.channels) \in 1 .. 6
    /\ "unknown" \in Range(member.channels) => Len(member.channels) = 1
    /\ IsInjective(member.channels)

valid_status_projection(status) ==
    /\ \A i \in 1 .. 2 : status.members[i].name = Roles[i] /\ valid_member_projection(status.members[i])
    /\ status.last_action <= status.revision
    /\ status.backend_health # <<>> => valid_health_projection(status.backend_health)
    /\ \A i \in 1 .. 2 :
         CASE status.pair_configuration = "ready" -> status.members[i].verification = "verified"
           [] status.pair_configuration = "not_ready" -> status.members[i].verification # "unavailable"
           [] status.pair_configuration = "unavailable" -> status.members[i].verification = "unavailable"

InvalidResponse == [pair_configuration |-> "invalid_response"]

\* status(): the parsed body, or the refusal of the client.
ClientStatus ==
    /\ ppc = "served" /\ ppc' = "shown"
    /\ pview' = IF valid_status_projection(pview) /\ pview.etag = pview.revision THEN pview ELSE InvalidResponse
    /\ UNCHANGED preply

-----------------------------------------------------------------------------
PInit == ppc = "reply" /\ preply \in GroupReplies /\ pview = InvalidResponse

PNext == read_pair_configuration \/ status_response \/ ClientStatus

-----------------------------------------------------------------------------
(* Properties *)

\* The members of the reply that carry both the name and the identity of a role.
Carries(role) == {i \in DOMAIN preply.members : preply.members[i].name = role /\ preply.members[i].id = role}

Usable ==
    /\ preply.code = "zero" /\ Len(preply.members) = 2 /\ preply.disabled # "missing"
    /\ \A i \in 1 .. 2 : MemberValid(preply.members[i])

\* Whatever the speaker replies, the client accepts what the service makes of
\* it, and what it shows is so: the pair is ready exactly when the reply lists
\* each configured device once, by name and identity, in an enabled group; it
\* is unavailable exactly when the reply cannot be used; a member is verified
\* exactly when one listed device carries its name and identity; and its
\* channels are those listed for that device, or unknown when any of them is.
StatusReadable ==
    ppc = "shown" =>
        /\ pview # InvalidResponse
        /\ pview.pair_configuration = "ready" <=>
               Usable /\ preply.disabled = "false" /\ Carries("jbl") # {} /\ Carries("aura") # {}
        /\ pview.pair_configuration = "unavailable" <=> ~Usable
        /\ \A i \in 1 .. 2 :
             LET role == Roles[i]  member == pview.members[i] IN
             /\ member.verification = "verified" <=> Usable /\ \E k \in 1 .. 2 : Carries(role) = {k}
             /\ member.verification = "verified" =>
                  \E k \in Carries(role) :
                      LET listed == {Spelled(c) : c \in Range(preply.members[k].channel)} IN
                      Range(member.channels) =
                          IF listed # {} /\ listed \subseteq ALLOWED_CHANNELS THEN listed ELSE {"unknown"}
=============================================================================
