---------------------------- MODULE Collaboration ----------------------------
(***************************************************************************)
(* The parts of a workspace together: every operation on channels, messages *)
(* and direct messages asks the members, which the workspace's operations   *)
(* change.                                                                  *)
(***************************************************************************)
EXTENDS Workspaces, DirectMessages

vars == <<busy, call, workspaceVars, channelVars, messageVars, dmVars>>

Init ==
    /\ busy \in Mixes
    /\ call = [c \in Calls |-> Idle]
    /\ WorkspacesInit /\ ChannelsInit /\ MessagesInit /\ DirectMessagesInit

OnWorkspace == UNCHANGED <<channelVars, messageVars, dmVars>>
OnChannel == UNCHANGED <<space, cache, strays, messageVars, dmVars>>
OnMessage == UNCHANGED <<space, cache, strays, dmVars>>
OnDm == UNCHANGED <<space, cache, strays>>

Next ==
    \/ \E c \in Calls :
          \/ WorkspaceStep(c) /\ OnWorkspace
          \/ ChannelStep(c) /\ OnChannel
          \/ MessageStep(c) /\ OnMessage
          \/ DmStep(c) /\ OnDm
    \/ ExpireCached /\ OnWorkspace
    \/ InboxStep /\ OnMessage

Spec == Init /\ [][Next]_vars

-----------------------------------------------------------------------------
(* Properties *)

Waiting(step) == Cardinality({c \in Calls : At(c, step)})

\* memberCount is the number of active members but for the calls about to
\* count, for two invitations that found the same removed member, and for
\* removals of somebody who was no member.
CountTellsMembers ==
    space # Nil =>
       space.count + Waiting("countIn") - Waiting("countOut") =
          Cardinality({u \in Users : IsMember(u)}) + Waiting("addOwner") + strays

\* The cached workspace shows the document unless the update that drops the
\* copy is still at work or a slower reader put back what it had read before.
CachedIsCurrent ==
    cache # Nil /\ ~cache.late =>
       ~Outdated(cache) \/ Waiting("bust") > 0

\* What is derived from the members and from the workspace's document is true
\* of them, up to the overlaps named above.
WorkspaceSound == WorkspacesType /\ CountTellsMembers /\ CachedIsCurrent

\* A name is one channel's, whichever creations and renamings race.
NamesUnique == \A i, j \in Ids : i # j /\ name[i] # Nil => name[i] # name[j]

\* The limit is exceeded only by calls that all found room.
PinsBounded == Len(channel.pins) <= PinLimit + Cardinality(Calls) - 1

\* Every document stays one, within its limits and under its own name; the edits
\* a message remembers are limited by its type.
DocumentsSound ==
    /\ ChannelsType /\ MessagesType /\ DirectMessagesType
    /\ NamesUnique /\ PinsBounded

\* No save over an older document loses the change of another call: a member
\* goes by leaving, a pin by being unpinned.
Saving(step, u) == \E c \in Calls : At(c, step) /\ call[c].who = u
Pins == {channel.pins[i] : i \in DOMAIN channel.pins}
OthersKept ==
    [][/\ \A u \in channel.members \ channel'.members : Saving("saveLeave", u)
       /\ \A m \in Pins \ Pins' : \E c \in Calls : At(c, "saveUnpin") /\ call[c].arg = m]_vars

\* The count next to a reaction is the number of its users.
CountsTellReactions ==
    \A i \in DOMAIN message.reactions :
       message.reactions[i].count = Cardinality(message.reactions[i].users)

\* A user's reaction goes by that user's removal, unless two first reactions at
\* once had made two elements: then the last one out of the first takes both.
ReactedBy(m) == UNION {m.reactions[i].users : i \in DOMAIN m.reactions}
ReactionsKept ==
    [][\A u \in ReactedBy(message) \ ReactedBy(message') :
          Saving("saveUnreact", u) \/ Len(message.reactions) > 1]_vars

\* Once a deletion is answered, the text is back only through an edit that was
\* under way by then: who begins later finds no message to edit.
BegunBefore == {c \in Calls : At(c, "saveEdit") /\ ~call[c].doc.gone}
DeletedStaysDeleted ==
    [][message.gone => /\ message'.gone
                       /\ message'.text \in {message.text, Removed} \cup BegunBefore]_vars

\* A document is saved as it was read, perhaps long ago; nothing another call did
\* since is taken back by that.
ChangesKept == OthersKept /\ ReactionsKept /\ DeletedStaysDeleted

\* dm.service.js:15 "calling it twice is safe": whoever asks for a conversation
\* that exists gets that one, only calls that overlap create two.
OneConversation ==
    [][\A c \in Calls : dms[c] = Nil /\ dms'[c] # Nil => ~call[c].doc.there]_vars

\* A conversation is hidden from exactly those who closed it and have not
\* reopened it or got a message since, until a reopening that had read the
\* document before a message puts another's closing back.
HiddenByChoice ==
    ~overwritten =>
       \A i \in Existing : dms[i].closed = hidden[i]
=============================================================================
