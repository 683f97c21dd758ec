------------------------------ MODULE Channels ------------------------------
(***************************************************************************)
(* channel.service.js: one channel's document with its members and pins,   *)
(* and the names of the workspace's channels.  A channel is named by the   *)
(* call that created it.                                                   *)
(***************************************************************************)
EXTENDS CollabState

CONSTANTS
    Names,      \* channel names
    First,      \* the name of the channel that is there
    Pages,      \* messages that can be pinned
    PinLimit    \* pins a channel may have

ASSUME ChannelsAssumption ==
    /\ First \in Names /\ Nil \notin Names
    /\ Pages # {} /\ PinLimit \in Nat

VARIABLES
    channel,    \* the document of channel Before
    name        \* of every channel; Nil: there is no such channel

channelVars == <<channel, name>>

\* posts is the counter messageCount; v is __v.
ChannelDocs == [private : BOOLEAN, archived : BOOLEAN, members : SUBSET Users,
                pins : Seq(Pages), posts : Nat, v : Nat]

ChannelsType ==
    /\ channel \in ChannelDocs
    /\ name \in [Ids -> Names \cup {Nil}]

\* The author is in the channel, nothing is pinned or as much as may be.
ChannelsInit ==
    /\ \E p \in BOOLEAN, pinned \in {0, PinLimit} :
          /\ "channel" \notin busy => ~p /\ pinned = 0
          /\ channel = [private |-> p, archived |-> FALSE, members |-> {Author},
                        pins |-> [i \in 1..pinned |-> CHOOSE m \in Pages : TRUE],
                        posts |-> 0, v |-> 0]
    /\ name = [i \in Ids |-> IF i = Before THEN First ELSE Nil]

Rest == UNCHANGED <<member, channelVars>>

\* findOne of the channel: goes on at `step' with the document if `ok'.
ReadChannel(c, from, ok, step) ==
    /\ At(c, from)
    /\ Unless(c, ok, With(c, step, channel))
    /\ Rest

Visible(u) == channel.private => u \in channel.members

-----------------------------------------------------------------------------
(* Creation, renaming and archiving *)

CreateChannel(c, u, n) ==
    /\ AnyRole(u)
    /\ Begin(c, "findName", u, n, Nil)
    /\ Rest

FindName(c) ==
    /\ At(c, "findName")
    /\ Unless(c, \A i \in Ids : name[i] # call[c].arg, Onto(c, "insertChannel"))
    /\ Rest

\* The unique index on workspaceId and name, archived channels included.
Unique(n, i) == \A j \in Ids \ {i} : name[j] # n

InsertChannel(c) ==
    LET n == call[c].arg IN
    /\ At(c, "insertChannel")
    /\ name' = IF Unique(n, c) THEN [name EXCEPT ![c] = n] ELSE name
    /\ Answer(c)
    /\ UNCHANGED <<member, channel>>

\* updateChannel with a name, then deleteChannel: getChannel, the role, and for
\* a name the other channels' names.
RenameChannel(c, u, n) ==
    /\ AnyRole(u)
    /\ Begin(c, "readForRename", u, n, Nil)
    /\ Rest

ArchiveChannel(c, u) ==
    /\ AnyRole(u)
    /\ Begin(c, "readForArchive", u, Nil, Nil)
    /\ Rest

ReadForChange(c) ==
    \/ ReadChannel(c, "readForRename", Visible(call[c].who), "roleForRename")
    \/ ReadChannel(c, "readForArchive", Visible(call[c].who), "roleForArchive")

CheckRole(c) ==
    /\ \/ At(c, "roleForRename")
          /\ Unless(c, HasRole(call[c].who, Managers), Onto(c, "findOther"))
       \/ At(c, "roleForArchive")
          /\ Unless(c, HasRole(call[c].who, Managers), Onto(c, "archive"))
    /\ Rest

FindOther(c) ==
    /\ At(c, "findOther")
    /\ Unless(c, \A i \in Ids \ {Before} : name[i] # call[c].arg,
              Onto(c, "rename"))
    /\ Rest

Rename(c) ==
    LET n == call[c].arg IN
    /\ At(c, "rename")
    /\ name' = IF Unique(n, Before) THEN [name EXCEPT ![Before] = n] ELSE name
    /\ Answer(c)
    /\ UNCHANGED <<member, channel>>

Archive(c) ==
    /\ At(c, "archive")
    /\ channel' = [channel EXCEPT !.archived = TRUE]
    /\ Answer(c)
    /\ UNCHANGED <<member, name>>

-----------------------------------------------------------------------------
(* Members and pins: the document is read, changed and saved *)

SaveChannel(c, from, ok, d) ==
    /\ At(c, from)
    /\ channel' = IF ok THEN [d EXCEPT !.v = channel.v + 1] ELSE channel
    /\ Answer(c)
    /\ UNCHANGED <<member, name>>

JoinChannel(c, u) ==
    /\ AnyRole(u)
    /\ Begin(c, "readForJoin", u, Nil, Nil)
    /\ Rest

ReadForJoin(c) ==
    ReadChannel(c, "readForJoin", ~channel.private /\ call[c].who \notin channel.members,
                "saveJoin")

SaveJoin(c) ==
    SaveChannel(c, "saveJoin", TRUE, [channel EXCEPT !.members = @ \cup {call[c].who}])

\* Leaving asks nobody whether the user still is in the workspace.
LeaveChannel(c, u) ==
    /\ u \in channel.members
    /\ Begin(c, "saveLeave", u, Nil, channel)
    /\ Rest

SaveLeave(c) ==
    LET d == call[c].doc IN
    SaveChannel(c, "saveLeave", Fresh(d, channel),
                [channel EXCEPT !.members = d.members \ {call[c].who}])

PinMessage(c, u, m) ==
    /\ AnyRole(u)
    /\ Begin(c, "readForPin", u, m, Nil)
    /\ Rest

Pinned(m) == \E i \in DOMAIN channel.pins : channel.pins[i] = m
HasRoom_OneMore(pins) == Len(pins) <= PinLimit
HasRoom(pins) == Len(pins) < PinLimit

ReadForPin(c) ==
    ReadChannel(c, "readForPin", ~Pinned(call[c].arg) /\ HasRoom(channel.pins), "savePin")

SavePin(c) ==
    SaveChannel(c, "savePin", TRUE, [channel EXCEPT !.pins = Append(@, call[c].arg)])

UnpinMessage(c, u, m) ==
    /\ AnyRole(u)
    /\ Begin(c, "readForUnpin", u, m, Nil)
    /\ Rest

ReadForUnpin(c) == ReadChannel(c, "readForUnpin", Pinned(call[c].arg), "saveUnpin")

\* The pins without message m.
Without(pins, m) ==
    LET left[i \in 0..Len(pins)] ==
            IF i = 0 THEN <<>>
            ELSE IF pins[i] = m THEN left[i - 1] ELSE Append(left[i - 1], pins[i]) IN
    left[Len(pins)]

SaveUnpin(c) ==
    LET d == call[c].doc IN
    SaveChannel(c, "saveUnpin", Fresh(d, channel),
                [channel EXCEPT !.pins = Without(d.pins, call[c].arg)])

-----------------------------------------------------------------------------
ChannelRequest(c) ==
    /\ Free(c, "channel")
    /\ \E u \in Users :
          \/ \E n \in Names : CreateChannel(c, u, n) \/ RenameChannel(c, u, n)
          \/ ArchiveChannel(c, u) \/ JoinChannel(c, u) \/ LeaveChannel(c, u)
          \/ \E m \in Pages : PinMessage(c, u, m) \/ UnpinMessage(c, u, m)

ChannelStep(c) ==
    \/ ChannelRequest(c)
    \/ FindName(c) \/ InsertChannel(c) \/ ReadForChange(c) \/ CheckRole(c)
    \/ FindOther(c) \/ Rename(c) \/ Archive(c)
    \/ ReadForJoin(c) \/ SaveJoin(c) \/ SaveLeave(c)
    \/ ReadForPin(c) \/ SavePin(c) \/ ReadForUnpin(c) \/ SaveUnpin(c)
=============================================================================
