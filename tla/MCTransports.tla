---------------------------- MODULE MCTransports ----------------------------
(***************************************************************************)
(* Transports with the real lengths of the two frames of pl_frame, and the *)
(* replies of the JBL speaker that differ for the status projection.       *)
(***************************************************************************)
EXTENDS Transports, SequencesExt

StartAndStop == [Start |-> 199, Stop |-> 18]

\* The spelling that trim and to_ascii_lowercase undo.
OddSpelling == [c \in {" LEFT"} |-> "left"]

RawChannels ==
    {<<>>, <<"left">>, <<" LEFT", "left">>, <<"left", "right">>, <<"left", "loud">>, <<NotAString>>,
     <<"front_left", "front_right", "left", "right", "mono", "stereo", " LEFT">>}

\* Names and identities that are one of the pair's, well-formed but another
\* device's, or malformed: no name, no twelve hexadecimal digits.
RawMembers == [name : {"jbl", "aura", "other"}, id : {"jbl", "aura", "other"}, channel : RawChannels]
PlainMembers == {m \in RawMembers : m.channel = <<"left">>}
Malformed == {[name |-> "none", id |-> "jbl", channel |-> <<"left">>],
              [name |-> "jbl", id |-> "malformed", channel |-> <<"left">>]}
TheJbl == [name |-> "jbl", id |-> "jbl", channel |-> <<"left">>]
TheAura == [name |-> "aura", id |-> "aura", channel |-> <<"right">>]

Group(code, members, disabled) == [code |-> code, members |-> members, disabled |-> disabled]

\* Any two members in either order, one of them with plain channels, in a group
\* that is not disabled; and the exact pair in a reply with something else
\* wrong: no reply at all, an error code, no member list, one or three members,
\* and the disabled flag set or missing.
SmallReplies ==
    {Group("zero", <<m, n>>, "false") : m \in RawMembers, n \in PlainMembers}
        \cup {Group("zero", <<n, m>>, "false") : m \in RawMembers, n \in PlainMembers}
        \cup {Group("zero", <<m, TheAura>>, "false") : m \in Malformed}
        \cup {Group(code, <<TheJbl, TheAura>>, d) : code \in {"zero", "error", "unread"}, d \in {"true", "missing"}}
        \cup {Group("zero", s, "false") : s \in {<<TheJbl>>, <<TheJbl, TheAura, TheAura>>}}
        \cup {Group("no_members", <<>>, "false"), Group("error", <<TheJbl, TheAura>>, "false")}

\* The fold of observed_member as the code writes it: the definition by
\* positions gives the same list.
PushIfNew(unique, c) == IF Contains(unique, c) THEN unique ELSE Append(unique, c)
ASSUME UniqueIsTheFold ==
    \A s \in SeqOf({"left", "right", "mono"}, 5) : Unique(s) = FoldLeft(PushIfNew, <<>>, s)
=============================================================================
