------------------------ MODULE CollaborationProofs ------------------------
(***************************************************************************)
(* Theorems about channels, messages and conversations, for any number of  *)
(* calls and users and with all parts of the workspace busy at once.       *)
(***************************************************************************)
EXTENDS Collaboration, FiniteSetTheorems, SequenceTheorems, TLAPS

-----------------------------------------------------------------------------
(* Names *)

NamesInv == name = [i \in Ids |-> name[i]] /\ NamesUnique

LEMMA NamesInvInit == Init => NamesInv
  BY DEF Init, ChannelsInit, NamesInv, NamesUnique

\* A name that is given passes the unique index.
LEMMA NameIsGiven ==
  ASSUME NamesInv, NEW i \in Ids, NEW n, Unique(n, i), name' = [name EXCEPT ![i] = n]
  PROVE  NamesInv'
  BY DEF NamesInv, NamesUnique, Unique

LEMMA NamesStutter == NamesInv /\ UNCHANGED name => NamesInv'
  BY DEF NamesInv, NamesUnique

LEMMA ChannelKeepsNames ==
  ASSUME NamesInv, NEW c \in Calls, ChannelStep(c)
  PROVE  NamesInv'
<1>1. CASE InsertChannel(c)
  BY <1>1, NameIsGiven, NamesStutter DEF InsertChannel, Ids
<1>2. CASE Rename(c)
  BY <1>2, NameIsGiven, NamesStutter DEF Rename, Ids
<1>3. CASE ~InsertChannel(c) /\ ~Rename(c)
  <2>1. UNCHANGED name
    BY <1>3 DEF ChannelStep, ChannelRequest, CreateChannel, RenameChannel, ArchiveChannel,
           JoinChannel, LeaveChannel, PinMessage, UnpinMessage, FindName, ReadForChange,
           CheckRole, FindOther, Archive, ReadForJoin, SaveJoin, SaveLeave, ReadForPin,
           SavePin, ReadForUnpin, SaveUnpin, ReadChannel, SaveChannel, Rest, channelVars
  <2> QED BY <2>1, NamesStutter
<1> QED BY <1>1, <1>2, <1>3

LEMMA MessageKeepsNames ==
  ASSUME NEW c \in Calls, MessageStep(c)
  PROVE  UNCHANGED name
  BY DEF MessageStep, MessageRequest, SendMessage, EditMessage, DeleteMessage, BeginOn,
         FindChannel, CreateMessage, BumpThread, BumpChannel, NotifyMentioned, SaveEdit,
         RoleForDelete, SaveDelete, ReadToReact, SaveReact, ReadToUnreact, SaveUnreact,
         ReadToMark, SaveMark, Unmark, ReadMessage, SaveMessage, Quiet, OnlyMessage,
         channelVars

LEMMA DmKeepsRest ==
  ASSUME NEW c \in Calls, DmStep(c)
  PROVE  UNCHANGED <<name, message>>
  BY DEF DmStep, DmRequest, StartDM, SendDM, CloseDM, CheckOther, FindDm, CreateDm, Reopen,
         ReadDm, CreateDmMessage, UpdateDm, NotifyOther, SaveClose, Silent, channelVars,
         messageVars

LEMMA NamesInvNext == NamesInv /\ [Next]_vars => NamesInv'
<1> SUFFICES ASSUME NamesInv, [Next]_vars PROVE NamesInv'
  OBVIOUS
<1>1. ASSUME NEW c \in Calls, WorkspaceStep(c) /\ OnWorkspace PROVE NamesInv'
  BY <1>1, NamesStutter DEF OnWorkspace, channelVars
<1>2. CASE (ExpireCached /\ OnWorkspace) \/ (InboxStep /\ OnMessage)
  BY <1>2, NamesStutter
     DEF OnWorkspace, InboxStep, MarkAsRead, DeleteNotification, channelVars
<1>3. CASE UNCHANGED vars
  BY <1>3, NamesStutter DEF vars, channelVars
<1> QED BY <1>1, <1>2, <1>3, ChannelKeepsNames, MessageKeepsNames, DmKeepsRest, NamesStutter
    DEF Next

(* Whichever creations and renamings race, a name is one channel's         *)
(* (channel.service.js, createChannel and updateChannel).                  *)
THEOREM NamesAreUnique == Spec => []NamesUnique
<1>1. NamesInv => NamesUnique
  BY DEF NamesInv
<1> QED BY <1>1, NamesInvInit, NamesInvNext, PTL DEF Spec

-----------------------------------------------------------------------------
(* Where calls go on *)

Nexts == {"done", "findMember", "setRole", "deactivateMember"}
WorkspaceSteps ==
    Nexts \cup {"createSpace", "addOwner", "addGeneral", "addRandom", "getCached",
                "findSpace", "fill", "setName", "deactivate", "bust", "saveMember",
                "countIn", "countOut"}
ChannelSteps ==
    {"done", "findName", "insertChannel", "readForRename", "roleForRename", "findOther",
     "rename", "readForArchive", "roleForArchive", "archive", "readForJoin", "saveJoin",
     "saveLeave", "readForPin", "savePin", "readForUnpin", "saveUnpin"}
MessageSteps ==
    {"done", "findChannel", "createMessage", "bumpThread", "bumpChannel", "notify",
     "saveEdit", "roleForDelete", "saveDelete", "readToReact", "saveReact",
     "readToUnreact", "saveUnreact", "readToMark", "saveMark", "unmark"}
DmSteps ==
    {"done", "checkOther", "findDm", "createDm", "reopen", "readDm", "createDmMessage",
     "updateDm", "notifyOther", "saveClose"}

CallInv ==
    /\ call = [c \in Calls |-> call[c]]
    /\ \A c \in Calls : call[c].then \in Nexts

\* Call c begins, or goes on from one step of S to another.
Goes(c, S) ==
    /\ call[c].at \in (S \ {"done"}) \cup {"idle"}
    /\ \E k : call' = [call EXCEPT ![c] = k] /\ k.at \in S /\ k.then \in Nexts

LEMMA WorkspaceGoes ==
  ASSUME CallInv, NEW c \in Calls, WorkspaceStep(c)
  PROVE  Goes(c, WorkspaceSteps)
<1> USE DEF CallInv, Goes, WorkspaceSteps, Nexts, Begin, BeginGet, Change, Proceed, Answer,
            Unless, Onto, With, Suspended, Over, At
<1>1. CASE WorkspaceRequest(c)
  BY <1>1 DEF WorkspaceRequest, FindSlug, GetWorkspace, UpdateWorkspace, DeleteWorkspace,
         InviteMember, ChangeMemberRole, RemoveMember
<1>2. CASE CreateSpace(c) \/ AddOwner(c) \/ AddDefaultChannel(c)
  BY <1>2 DEF CreateSpace, AddOwner, AddDefaultChannel
<1>3. CASE GetCached(c) \/ FindSpace(c) \/ Fill(c)
  BY <1>3 DEF GetCached, FindSpace, Fill, Resumed
<1>4. CASE StoreSpace(c) \/ Bust(c)
  BY <1>4 DEF StoreSpace, Bust
<1>5. CASE FindMember(c) \/ SaveMember(c) \/ SetRole(c) \/ DeactivateMember(c) \/ CountMember(c)
  BY <1>5 DEF FindMember, SaveMember, SetRole, DeactivateMember, CountMember
<1> QED BY <1>1, <1>2, <1>3, <1>4, <1>5 DEF WorkspaceStep

LEMMA ChannelGoes ==
  ASSUME CallInv, NEW c \in Calls, ChannelStep(c)
  PROVE  Goes(c, ChannelSteps)
<1> USE DEF CallInv, Goes, ChannelSteps, Nexts, Begin, Change, Proceed, Answer,
            Unless, Onto, With, Suspended, Over, At
<1>1. CASE ChannelRequest(c)
  BY <1>1 DEF ChannelRequest, CreateChannel, RenameChannel, ArchiveChannel, JoinChannel,
         LeaveChannel, PinMessage, UnpinMessage
<1>2. CASE FindName(c) \/ InsertChannel(c) \/ ReadForChange(c) \/ CheckRole(c)
  BY <1>2 DEF FindName, InsertChannel, ReadForChange, CheckRole, ReadChannel
<1>3. CASE FindOther(c) \/ Rename(c) \/ Archive(c)
  BY <1>3 DEF FindOther, Rename, Archive
<1>4. CASE ReadForJoin(c) \/ SaveJoin(c) \/ SaveLeave(c)
  BY <1>4 DEF ReadForJoin, SaveJoin, SaveLeave, ReadChannel, SaveChannel
<1>5. CASE ReadForPin(c) \/ SavePin(c) \/ ReadForUnpin(c) \/ SaveUnpin(c)
  BY <1>5 DEF ReadForPin, SavePin, ReadForUnpin, SaveUnpin, ReadChannel, SaveChannel
<1> QED BY <1>1, <1>2, <1>3, <1>4, <1>5 DEF ChannelStep

LEMMA MessageGoes ==
  ASSUME CallInv, NEW c \in Calls, MessageStep(c)
  PROVE  Goes(c, MessageSteps)
<1> USE DEF CallInv, Goes, MessageSteps, Nexts, Begin, Change, Proceed, Answer,
            Unless, Onto, With, Suspended, Over, At
<1>1. CASE MessageRequest(c)
  BY <1>1 DEF MessageRequest, SendMessage, EditMessage, DeleteMessage, BeginOn
<1>2. CASE FindChannel(c) \/ CreateMessage(c) \/ BumpThread(c) \/ BumpChannel(c)
  BY <1>2 DEF FindChannel, CreateMessage, BumpThread, BumpChannel
<1>3. CASE NotifyMentioned(c) \/ SaveEdit(c) \/ RoleForDelete(c) \/ SaveDelete(c)
  BY <1>3 DEF NotifyMentioned, SaveEdit, RoleForDelete, SaveDelete, SaveMessage
<1>4. CASE ReadToReact(c) \/ SaveReact(c) \/ ReadToUnreact(c) \/ SaveUnreact(c)
  BY <1>4 DEF ReadToReact, SaveReact, ReadToUnreact, SaveUnreact, ReadMessage, SaveMessage
<1>5. CASE ReadToMark(c) \/ SaveMark(c) \/ Unmark(c)
  BY <1>5 DEF ReadToMark, SaveMark, Unmark, ReadMessage, SaveMessage
<1> QED BY <1>1, <1>2, <1>3, <1>4, <1>5 DEF MessageStep

LEMMA DmGoes ==
  ASSUME CallInv, NEW c \in Calls, DmStep(c)
  PROVE  Goes(c, DmSteps)
<1> USE DEF CallInv, Goes, DmSteps, Nexts, Begin, Change, Proceed, Answer,
            Unless, Onto, With, Suspended, Over, At
<1>1. CASE DmRequest(c)
  BY <1>1 DEF DmRequest, StartDM, SendDM, CloseDM
<1>2. CASE CheckOther(c) \/ FindDm(c) \/ CreateDm(c) \/ Reopen(c)
  BY <1>2 DEF CheckOther, FindDm, CreateDm, Reopen
<1>3. CASE ReadDm(c) \/ CreateDmMessage(c) \/ UpdateDm(c) \/ NotifyOther(c) \/ SaveClose(c)
  BY <1>3 DEF ReadDm, CreateDmMessage, UpdateDm, NotifyOther, SaveClose
<1> QED BY <1>1, <1>2, <1>3 DEF DmStep

LEMMA CallInvInit == Init => CallInv
  BY DEF Init, CallInv, Idle, Suspended, Nexts

LEMMA CallInvNext == CallInv /\ [Next]_vars => CallInv'
<1> SUFFICES ASSUME CallInv, [Next]_vars PROVE CallInv'
  OBVIOUS
<1>1. ASSUME NEW c \in Calls, NEW S, Goes(c, S) PROVE CallInv'
  BY <1>1 DEF Goes, CallInv
<1>2. CASE UNCHANGED call
  BY <1>2 DEF CallInv
<1>3. CASE ExpireCached \/ InboxStep \/ UNCHANGED vars
  BY <1>2, <1>3 DEF ExpireCached, InboxStep, MarkAsRead, DeleteNotification, vars
<1> QED BY <1>1, <1>3, WorkspaceGoes, ChannelGoes, MessageGoes, DmGoes DEF Next

LEMMA CallsAreFinite ==
  ASSUME NEW S \in SUBSET Calls
  PROVE  /\ IsFiniteSet(S) /\ Cardinality(S) \in Nat
         /\ Cardinality(S) <= Cardinality(Calls)
         /\ \A T \in SUBSET S : Cardinality(T) <= Cardinality(S)
         /\ \A c \in S : Cardinality(S \ {c}) = Cardinality(S) - 1
         /\ \A c \in Calls \ S : Cardinality(S \cup {c}) = Cardinality(S) + 1
<1>1. IsFiniteSet(Calls) /\ IsFiniteSet(S)
  BY CollabAssumption, FS_Subset
<1> QED BY <1>1, FS_Subset, FS_CardinalityType, FS_AddElement, FS_RemoveElement

LEMMA SomebodyCalls == Cardinality(Calls) \in Nat /\ Cardinality(Calls) >= 1
<1>1. IsFiniteSet(Calls) /\ Calls # {}
  BY CollabAssumption
<1> QED BY <1>1, FS_CardinalityType, FS_EmptySet

\* How many calls wait at a step when call c goes on as k.
LEMMA WaitingMoves ==
  ASSUME CallInv, NEW c \in Calls, NEW k, call' = [call EXCEPT ![c] = k], NEW step
  PROVE  /\ Waiting(step) \in Nat
         /\ call[c].at # step /\ k.at # step => Waiting(step)' = Waiting(step)
         /\ call[c].at = step /\ k.at # step => Waiting(step)' = Waiting(step) - 1
         /\ call[c].at # step /\ k.at = step => Waiting(step)' = Waiting(step) + 1
<1> DEFINE S == {q \in Calls : call[q].at = step}
           T == {q \in Calls : call'[q].at = step}
<1>1. Waiting(step) = Cardinality(S) /\ Waiting(step)' = Cardinality(T)
  BY DEF Waiting, At
<1>2. call'[c] = k /\ \A q \in Calls : q # c => call'[q] = call[q]
  BY DEF CallInv
<1>3. S \in SUBSET Calls /\ (c \in S <=> call[c].at = step)
  OBVIOUS
<1>4. T = IF k.at = step THEN S \cup {c} ELSE S \ {c}
  BY <1>2
<1> HIDE DEF S, T
<1>5. Cardinality(S) \in Nat
  BY <1>3, CallsAreFinite
<1>6. c \in S => Cardinality(S \ {c}) = Cardinality(S) - 1
  BY <1>3, CallsAreFinite
<1>7. c \notin S => Cardinality(S \cup {c}) = Cardinality(S) + 1
  BY <1>3, CallsAreFinite
<1>8. (c \in S => S \cup {c} = S) /\ (c \notin S => S \ {c} = S)
  OBVIOUS
<1> QED BY <1>1, <1>3, <1>4, <1>5, <1>6, <1>7, <1>8

LEMMA WaitingStutter == UNCHANGED call => \A step : Waiting(step)' = Waiting(step)
  BY DEF Waiting, At

-----------------------------------------------------------------------------
(* The workspace and its members *)

MemberSteps ==
    {"setName", "deactivate", "bust", "findMember", "setRole", "deactivateMember", "saveMember",
     "countIn", "countOut"}
Founding == {"addOwner", "addGeneral", "addRandom"}
Looking == {"getCached", "findSpace", "fill"}

Invitations == [user : Users, role : Roles]
Removals == [user : Users, role : {Nil}]

\* Nobody is or was a member.
Ownerless(m) == \A u \in Users : m[u] = Nil

\* What the call k holds while the workspace is s and its members are m: only
\* members change anything, and the owner comes before all others.
Acts(k, s, m) ==
    /\ k.at \in Looking =>
         \/ k.then = "done"
         \/ k.then \in {"findMember", "setRole"} /\ k.arg \in Invitations
         \/ k.then = "deactivateMember" /\ k.arg \in Removals
    /\ k.at \in {"findMember", "setRole", "saveMember"} => k.arg \in Invitations
    /\ k.at = "deactivateMember" => k.arg \in Removals
    /\ k.at = "fill" => k.doc \in Spaces
    /\ k.at = "saveMember" => k.doc = Nil \/ (k.doc \in Memberships /\ ~k.doc.active)
    /\ s = Nil => k.at \notin Founding \cup {"fill"}
    /\ Ownerless(m) => k.at \notin MemberSteps /\ (k.at \in Looking => k.then = "done")
    /\ k.at = "addOwner" => Ownerless(m)
    /\ k.at \in {"addOwner", "addGeneral"} => s.channels = 0
    /\ k.at = "addRandom" => s.channels = 1

\* One call at most is still creating the workspace.
SpaceInv ==
    /\ WorkspacesType
    /\ \A c \in Calls : Acts(call[c], space, member)
    /\ space = Nil => cache = Nil /\ Ownerless(member)
    /\ Ownerless(member) => strays = 0
    /\ \A c, q \in Calls : call[c].at \in Founding /\ call[q].at \in Founding => c = q
    /\ CountTellsMembers /\ CachedIsCurrent

Headcount(m) == Cardinality({u \in Users : m[u] # Nil /\ m[u].active})

\* The count, the calls about to change it, the members, the owner to come and
\* how far the count was led astray.
Balanced(count, in, out, heads, new, led) == count + in - out = heads + new + led

LEMMA CountIs ==
  CountTellsMembers <=>
     (space # Nil => Balanced(space.count, Waiting("countIn"), Waiting("countOut"),
                              Headcount(member), Waiting("addOwner"), strays))
<1>1. Headcount(member) = Cardinality({u \in Users : IsMember(u)})
  BY Zenon DEF Headcount, IsMember
<1> QED BY <1>1 DEF CountTellsMembers, Balanced

\* The membership of user v becomes e.
LEMMA HeadcountMoves ==
  ASSUME WorkspacesType, NEW v \in Users, NEW e \in Memberships,
         NEW m, m = [member EXCEPT ![v] = e]
  PROVE  /\ Headcount(member) \in Nat
         /\ m \in [Users -> Memberships \cup {Nil}] /\ ~Ownerless(m)
         /\ e.active = IsMember(v) => Headcount(m) = Headcount(member)
         /\ e.active /\ ~IsMember(v) => Headcount(m) = Headcount(member) + 1
         /\ ~e.active /\ IsMember(v) => Headcount(m) = Headcount(member) - 1
<1> DEFINE S == {u \in Users : member[u] # Nil /\ member[u].active}
           T == {u \in Users : m[u] # Nil /\ m[u].active}
<1>1. Headcount(member) = Cardinality(S) /\ Headcount(m) = Cardinality(T)
  BY DEF Headcount
<1>2. e # Nil
  BY WorkspacesAssumption
<1>3. /\ member \in [Users -> Memberships \cup {Nil}]
      /\ m \in [Users -> Memberships \cup {Nil}] /\ m[v] = e
      /\ \A u \in Users : u # v => m[u] = member[u]
  BY DEF WorkspacesType
<1>4. S \in SUBSET Users /\ (v \in S <=> IsMember(v))
  BY DEF IsMember
<1>5. T = IF e.active THEN S \cup {v} ELSE S \ {v}
  BY <1>2, <1>3
<1>6. ~Ownerless(m)
  BY <1>2, <1>3 DEF Ownerless
<1> HIDE DEF S, T
<1>7. IsFiniteSet(S)
  BY <1>4, CollabAssumption, FS_Subset
<1>8. Cardinality(S) \in Nat
  BY <1>7, FS_CardinalityType
<1>9. v \in S => S \cup {v} = S /\ Cardinality(S \ {v}) = Cardinality(S) - 1
  BY <1>7, FS_RemoveElement
<1>10. v \notin S => S \ {v} = S /\ Cardinality(S \cup {v}) = Cardinality(S) + 1
  BY <1>7, FS_AddElement
<1>11. e.active \in BOOLEAN
  BY DEF Memberships
<1> QED BY <1>1, <1>3, <1>4, <1>5, <1>6, <1>8, <1>9, <1>10, <1>11

\* What a call holds it still holds when the workspace is there and has as
\* many channels, and there still are members, or none if it adds the first.
LEMMA ActsKept ==
  ASSUME NEW k, NEW s, NEW m, Acts(k, s, m), NEW s2, NEW m2,
         s2 = Nil => s = Nil,
         Ownerless(m2) => Ownerless(m),
         k.at = "addOwner" => Ownerless(m2),
         k.at \in Founding => s2.channels = s.channels
  PROVE  Acts(k, s2, m2)
  BY DEF Acts, Founding

LEMMA SpaceInvInit == Init => SpaceInv
<1> SUFFICES ASSUME Init PROVE SpaceInv
  OBVIOUS
<1>1. \A c \in Calls : call[c].at = "idle"
  BY DEF Init, Idle, Suspended
<1>2. \A step : step # "idle" => Waiting(step) = 0
  <2> SUFFICES ASSUME NEW step, step # "idle" PROVE Waiting(step) = 0
    OBVIOUS
  <2>1. {c \in Calls : At(c, step)} = {}
    BY <1>1 DEF At
  <2> QED BY <2>1, FS_EmptySet DEF Waiting
<1>3. cache = Nil /\ strays = 0
  BY DEF Init, WorkspacesInit
<1>4. \A c \in Calls : Acts(call[c], space, member)
  BY <1>1 DEF Acts, Founding, Looking, MemberSteps
<1>5. /\ space \in Spaces \cup {Nil} /\ member \in [Users -> Memberships \cup {Nil}]
      /\ space = Nil => Ownerless(member)
      /\ space # Nil => space.count = Headcount(member)
      /\ Headcount(member) \in Nat
  <2>1. ASSUME NEW m PROVE Headcount(m) \in Nat
    <3> DEFINE S == {u \in Users : m[u] # Nil /\ m[u].active}
    <3>1. IsFiniteSet(S)
      BY CollabAssumption, FS_Subset
    <3> QED BY <3>1, FS_CardinalityType DEF Headcount
  <2>2. CASE busy = {"workspace"} /\ space = Nil /\ member = [u \in Users |-> Nil]
    BY <2>1, <2>2 DEF Ownerless
  <2>3. CASE /\ member = [u \in Users |->
                CASE u = Owner  -> [role |-> "owner", active |-> TRUE]
                  [] u = Author -> [role |-> "admin", active |-> TRUE]
                  [] "workspace" \in busy -> Nil
                  [] OTHER      -> [role |-> "guest", active |-> TRUE]]
             /\ space = [OpenSpace EXCEPT !.count = Cardinality({u \in Users : IsMember(u)})]
    <3>1. \A r \in Roles : [role |-> r, active |-> TRUE] \in Memberships
      BY DEF Memberships
    <3>2. member \in [Users -> Memberships \cup {Nil}]
      BY <2>3, <3>1 DEF Roles
    <3>3. Headcount(member) = Cardinality({u \in Users : IsMember(u)})
      BY Zenon DEF Headcount, IsMember
    <3> DEFINE n == Headcount(member)
    <3>4. space = [OpenSpace EXCEPT !.count = n] /\ n \in Nat
      BY <2>1, <2>3, <3>3
    <3> HIDE DEF n
    <3>5. Before \in Ids /\ 0 \in 0..2 /\ 2 \in 0..2 /\ 1 \in Int /\ n \in Int
      BY <3>4 DEF Ids
    <3>6. Created(Before) \in Spaces
      BY <3>5 DEF Created, Spaces
    <3>7. OpenSpace \in Spaces
      BY <3>5, <3>6 DEF OpenSpace, Spaces
    <3>8. space \in Spaces /\ space.count = n
      BY <3>4, <3>5, <3>7 DEF Spaces
    <3> QED BY <3>2, <3>4, <3>8, WorkspacesAssumption DEF n
  <2> QED BY <2>2, <2>3 DEF Init, WorkspacesInit
<1>6. WorkspacesType
  BY <1>3, <1>5 DEF WorkspacesType
<1>7. CountTellsMembers
  <2>1. Waiting("countIn") = 0 /\ Waiting("countOut") = 0 /\ Waiting("addOwner") = 0
    BY <1>2
  <2>2. space \in Spaces => space.count \in Int
    BY DEF Spaces
  <2> QED BY <1>3, <1>5, <2>1, <2>2, CountIs DEF Balanced
<1>8. CachedIsCurrent
  BY <1>3 DEF CachedIsCurrent
<1> QED BY <1>1, <1>3, <1>4, <1>5, <1>6, <1>7, <1>8 DEF SpaceInv, Founding

\* The same of the next state.
LEMMA CountIsThen ==
  CountTellsMembers' <=>
     (space' # Nil => Balanced(space'.count, Waiting("countIn")', Waiting("countOut")',
                               Headcount(member'), Waiting("addOwner")', strays'))
<1>1. Headcount(member') = Cardinality({u \in Users : IsMember(u)})'
  BY Zenon DEF Headcount, IsMember
<1> QED BY <1>1 DEF CountTellsMembers, Balanced

LEMMA SpaceInvStep ==
  ASSUME SpaceInv, CallInv, NEW c \in Calls, NEW k, call' = [call EXCEPT ![c] = k],
         WorkspacesType', Acts(k, space', member'),
         space' = Nil => space = Nil /\ cache' = Nil,
         Ownerless(member') => Ownerless(member) /\ strays' = 0,
         space' = Nil => Ownerless(member'),
         \A q \in Calls : q # c /\ call[q].at = "addOwner" => Ownerless(member'),
         \A q \in Calls : q # c /\ call[q].at \in Founding => space'.channels = space.channels,
         k.at \in Founding => \A q \in Calls : q # c => call[q].at \notin Founding,
         CountTellsMembers', CachedIsCurrent'
  PROVE  SpaceInv'
<1>1. call'[c] = k /\ \A q \in Calls : q # c => call'[q] = call[q]
  BY DEF CallInv
<1>2. ASSUME NEW q \in Calls PROVE Acts(call'[q], space', member')
  <2>1. CASE q = c
    BY <1>1, <2>1
  <2>2. CASE q # c
    <3>1. Acts(call[q], space, member)
      BY DEF SpaceInv
    <3>2. Acts(call[q], space', member')
      BY <2>2, <3>1, ActsKept
    <3> QED BY <1>1, <2>2, <3>2
  <2> QED BY <2>1, <2>2
<1>3. \A p, q \in Calls : call'[p].at \in Founding /\ call'[q].at \in Founding => p = q
  BY <1>1 DEF SpaceInv
<1> QED BY <1>2, <1>3 DEF SpaceInv

\* The counts when call c goes on as k.
LEMMA CountsStay ==
  ASSUME CallInv, NEW c \in Calls, NEW k, call' = [call EXCEPT ![c] = k],
         call[c].at \notin {"countIn", "countOut", "addOwner"},
         k.at \notin {"countIn", "countOut", "addOwner"}
  PROVE  /\ Waiting("countIn")' = Waiting("countIn")
         /\ Waiting("countOut")' = Waiting("countOut")
         /\ Waiting("addOwner")' = Waiting("addOwner")
  BY WaitingMoves

LEMMA CopyStays ==
  ASSUME CachedIsCurrent, CallInv, NEW c \in Calls, NEW k, call' = [call EXCEPT ![c] = k],
         call[c].at # "bust", k.at # "bust", UNCHANGED cache,
         space'.name = space.name, space'.active = space.active
  PROVE  CachedIsCurrent'
<1>1. Waiting("bust")' = Waiting("bust")
  BY WaitingMoves
<1> QED BY <1>1 DEF CachedIsCurrent, Outdated

\* Call c goes on as k, and nothing of the workspace changes.
LEMMA SpaceInvQuiet ==
  ASSUME SpaceInv, CallInv, NEW c \in Calls, NEW k, call' = [call EXCEPT ![c] = k],
         call[c].at \notin {"countIn", "countOut", "addOwner", "bust"},
         k.at \notin Founding \cup {"countIn", "countOut", "bust"},
         UNCHANGED workspaceVars, Acts(k, space, member)
  PROVE  SpaceInv'
<1>1. space' = space /\ cache' = cache /\ member' = member /\ strays' = strays
  BY DEF workspaceVars
<1>2. CountTellsMembers'
  <2>1. /\ Waiting("countIn")' = Waiting("countIn")
        /\ Waiting("countOut")' = Waiting("countOut")
        /\ Waiting("addOwner")' = Waiting("addOwner")
    BY CountsStay DEF Founding
  <2>2. CountTellsMembers
    BY DEF SpaceInv
  <2> QED BY <1>1, <2>1, <2>2 DEF CountTellsMembers, IsMember
<1>3. CachedIsCurrent'
  BY <1>1, CopyStays DEF SpaceInv
<1>4. WorkspacesType'
  BY <1>1 DEF SpaceInv, WorkspacesType
<1>5. \A q \in Calls : call[q].at = "addOwner" => Ownerless(member)
  BY DEF SpaceInv, Acts
<1> QED BY <1>1, <1>2, <1>3, <1>4, <1>5, SpaceInvStep DEF SpaceInv

LEMMA OthersKeepSpace ==
  ASSUME SpaceInv, CallInv, NEW c \in Calls, UNCHANGED workspaceVars,
         Goes(c, ChannelSteps) \/ Goes(c, MessageSteps) \/ Goes(c, DmSteps)
  PROVE  SpaceInv'
<1>1. PICK k : /\ call' = [call EXCEPT ![c] = k]
               /\ k.at \in ChannelSteps \cup MessageSteps \cup DmSteps
               /\ call[c].at \in ChannelSteps \cup MessageSteps \cup DmSteps \cup {"idle"}
  BY DEF Goes
<1>2. /\ k.at \notin Founding \cup MemberSteps \cup Looking
      /\ call[c].at \notin Founding \cup MemberSteps \cup Looking
  BY <1>1 DEF ChannelSteps, MessageSteps, DmSteps, Founding, MemberSteps, Looking
<1>3. Acts(k, space, member)
  BY <1>2 DEF Acts, Founding, MemberSteps, Looking
<1>4. /\ call[c].at \notin {"countIn", "countOut", "addOwner", "bust"}
      /\ k.at \notin Founding \cup {"countIn", "countOut", "bust"}
  BY <1>2 DEF Founding, MemberSteps
<1> QED BY <1>1, <1>3, <1>4, SpaceInvQuiet

LEMMA ReadsKeepSpace ==
  ASSUME SpaceInv, CallInv, NEW c \in Calls,
         WorkspaceRequest(c) \/ GetCached(c) \/ FindSpace(c) \/ FindMember(c)
  PROVE  SpaceInv'
<1>1. PICK k : call' = [call EXCEPT ![c] = k]
  BY WorkspaceGoes DEF WorkspaceStep, Goes
<1>2. k = call'[c]
  BY <1>1 DEF CallInv
<1>3. Acts(call[c], space, member) /\ space \in Spaces \cup {Nil}
  BY DEF SpaceInv, WorkspacesType
<1> DEFINE Goal == /\ call[c].at \notin {"countIn", "countOut", "addOwner", "bust"}
                   /\ k.at \notin Founding \cup {"countIn", "countOut", "bust"}
                   /\ UNCHANGED workspaceVars /\ Acts(k, space, member)
<1> SUFFICES Goal
  BY <1>1, SpaceInvQuiet
<1> USE DEF CallInv, Begin, Change, Unless, Onto, With, Suspended, Over, At, Founding, Looking,
            MemberSteps
<1>4. CASE WorkspaceRequest(c)
  <2>1. CASE FindSlug(c) \/ GetWorkspace(c)
    BY <1>2, <2>1 DEF FindSlug, GetWorkspace, BeginGet, Acts
  <2>2. ASSUME NEW u \in Users, UpdateWorkspace(c, u) \/ DeleteWorkspace(c, u) PROVE Goal
    <3>1. ~Ownerless(member)
      BY <2>2 DEF UpdateWorkspace, DeleteWorkspace, HasRole, IsMember, Ownerless
    <3> QED BY <1>2, <2>2, <3>1 DEF UpdateWorkspace, DeleteWorkspace, Acts
  <2>3. ASSUME NEW u \in Users, NEW v \in Users, NEW r \in Granted,
               InviteMember(c, u, v, r) \/ ChangeMemberRole(c, u, v, r)
        PROVE  Goal
    <3>1. ~Ownerless(member) /\ [user |-> v, role |-> r] \in Invitations
      BY <2>3, WorkspacesAssumption
         DEF InviteMember, ChangeMemberRole, HasRole, IsMember, Ownerless, Invitations
    <3> QED BY <1>2, <2>3, <3>1 DEF InviteMember, ChangeMemberRole, BeginGet, Acts
  <2>4. ASSUME NEW u \in Users, NEW v \in Users, RemoveMember(c, u, v) PROVE Goal
    <3>1. ~Ownerless(member) /\ [user |-> v, role |-> Nil] \in Removals
      BY <2>4 DEF RemoveMember, HasRole, IsMember, Ownerless, Removals
    <3> QED BY <1>2, <2>4, <3>1 DEF RemoveMember, BeginGet, Acts
  <2> HIDE DEF Goal
  <2> QED BY <1>4, <2>1, <2>2, <2>3, <2>4 DEF WorkspaceRequest
<1>5. CASE GetCached(c)
  BY <1>2, <1>3, <1>5 DEF GetCached, Resumed, Acts
<1>6. CASE FindSpace(c)
  BY <1>2, <1>3, <1>6 DEF FindSpace, Acts
<1>7. CASE FindMember(c)
  <2>1. call[c].arg \in Invitations /\ ~Ownerless(member)
    BY <1>3, <1>7 DEF FindMember, Acts
  <2>2. member[call[c].arg.user] \in Memberships \cup {Nil}
    BY <2>1 DEF SpaceInv, WorkspacesType, Invitations
  <2> QED BY <1>2, <1>3, <1>7, <2>1, <2>2 DEF FindMember, Invitable, Acts
<1> QED BY <1>4, <1>5, <1>6, <1>7

LEMMA NobodyWaits ==
  ASSUME NEW step, \A c \in Calls : call[c].at # step
  PROVE  Waiting(step) = 0
<1>1. {c \in Calls : At(c, step)} = {}
  BY DEF At
<1> QED BY <1>1, FS_EmptySet DEF Waiting

LEMMA NobodyCounts ==
  ASSUME NEW m, Ownerless(m)
  PROVE  Headcount(m) = 0
<1>1. {u \in Users : m[u] # Nil /\ m[u].active} = {}
  BY DEF Ownerless
<1> QED BY <1>1, FS_EmptySet DEF Headcount

\* The types of what is counted.
LEMMA CountTypes ==
  ASSUME SpaceInv, CallInv
  PROVE  /\ \A step : Waiting(step) \in Nat
         /\ Headcount(member) \in Nat /\ strays \in Int
         /\ space # Nil => /\ space \in Spaces /\ space.count \in Int
                           /\ Balanced(space.count, Waiting("countIn"), Waiting("countOut"),
                                       Headcount(member), Waiting("addOwner"), strays)
<1>1. ASSUME NEW step PROVE Waiting(step) \in Nat
  <2>1. {c \in Calls : At(c, step)} \in SUBSET Calls
    OBVIOUS
  <2> QED BY <2>1, CallsAreFinite DEF Waiting
<1>2. Headcount(member) \in Nat
  <2>1. IsFiniteSet({u \in Users : member[u] # Nil /\ member[u].active})
    BY CollabAssumption, FS_Subset
  <2> QED BY <2>1, FS_CardinalityType DEF Headcount
<1>3. space # Nil => space \in Spaces /\ space.count \in Int
  BY DEF SpaceInv, WorkspacesType, Spaces
<1> QED BY <1>1, <1>2, <1>3, CountIs DEF SpaceInv, WorkspacesType

LEMMA CreateKeepsSpace ==
  ASSUME SpaceInv, CallInv, NEW c \in Calls, CreateSpace(c)
  PROVE  SpaceInv'
<1>1. call[c].at = "createSpace" /\ UNCHANGED <<cache, member, strays>>
  BY DEF CreateSpace, At
<1>2. CASE space # Nil
  <2>1. call' = [call EXCEPT ![c] = Over] /\ UNCHANGED workspaceVars
    BY <1>2 DEF CreateSpace, Unless, Change, workspaceVars
  <2>2. Acts(Over, space, member) /\ Over.at = "done"
    BY DEF Acts, Over, Suspended, Founding, MemberSteps, Looking
  <2> QED BY <1>1, <2>1, <2>2, SpaceInvQuiet DEF Founding
<1>3. CASE space = Nil
  <2> DEFINE k == Onto(c, "addOwner")
  <2>1. /\ call' = [call EXCEPT ![c] = k] /\ k.at = "addOwner" /\ space' = Created(c)
    BY <1>3 DEF CreateSpace, Unless, Change, Onto, With, Suspended
  <2>2. /\ cache = Nil /\ Ownerless(member) /\ strays = 0
        /\ \A q \in Calls : call[q].at \notin Founding \cup MemberSteps
    BY <1>3 DEF SpaceInv, Acts
  <2>3. Created(c) \in Spaces /\ Created(c) # Nil /\ Created(c).count = 1
        /\ Created(c).channels = 0
    <3>1. Created(c) \in Spaces
      BY DEF Created, Spaces, Ids
    <3> QED BY <3>1, WorkspacesAssumption DEF Created
  <2> HIDE DEF k
  <2>4. Acts(k, space', member')
    BY <1>1, <2>1, <2>2, <2>3 DEF Acts, Founding, MemberSteps, Looking
  <2>5. CountTellsMembers'
    <3>1. Waiting("countIn") = 0 /\ Waiting("countOut") = 0 /\ Waiting("addOwner") = 0
      BY <2>2, NobodyWaits DEF Founding, MemberSteps
    <3>2. /\ Waiting("countIn")' = Waiting("countIn")
          /\ Waiting("countOut")' = Waiting("countOut")
          /\ Waiting("addOwner")' = Waiting("addOwner") + 1
      BY <1>1, <2>1, WaitingMoves
    <3>3. Headcount(member') = 0
      BY <1>1, <2>2, NobodyCounts
    <3>4. Balanced(1, 0, 0, 0, 1, 0)
      BY DEF Balanced
    <3>5. Waiting("countIn")' = 0 /\ Waiting("countOut")' = 0 /\ Waiting("addOwner")' = 1
      BY <3>1, <3>2
    <3> QED BY <1>1, <2>1, <2>2, <2>3, <3>3, <3>4, <3>5, CountIsThen
  <2>6. CachedIsCurrent' /\ WorkspacesType'
    BY <1>1, <2>1, <2>2, <2>3 DEF CachedIsCurrent, SpaceInv, WorkspacesType
  <2> QED BY <1>1, <2>1, <2>2, <2>3, <2>4, <2>5, <2>6, SpaceInvStep DEF Founding
<1> QED BY <1>2, <1>3

LEMMA AddOwnerKeepsSpace ==
  ASSUME SpaceInv, CallInv, NEW c \in Calls, AddOwner(c)
  PROVE  SpaceInv'
<1> DEFINE k == Onto(c, "addGeneral")
           e == [role |-> "owner", active |-> TRUE]
<1>1. /\ call[c].at = "addOwner" /\ UNCHANGED <<space, cache, strays>>
      /\ call' = [call EXCEPT ![c] = k] /\ k.at = "addGeneral"
      /\ member' = [member EXCEPT ![Owner] = e]
  BY DEF AddOwner, At, Proceed, Change, Onto, With, Suspended
<1>2. /\ space # Nil /\ Ownerless(member) /\ space.channels = 0 /\ strays = 0
      /\ \A q \in Calls : q # c => call[q].at \notin Founding
      /\ WorkspacesType /\ CachedIsCurrent
  BY <1>1 DEF SpaceInv, Acts, Founding
<1>3. Owner \in Users /\ e \in Memberships /\ e.active = TRUE /\ ~IsMember(Owner)
  BY <1>2, CollabAssumption DEF Memberships, Roles, IsMember, Ownerless
<1> HIDE DEF k, e
<1>4. /\ Headcount(member') = Headcount(member) + 1 /\ ~Ownerless(member')
      /\ member' \in [Users -> Memberships \cup {Nil}]
  BY <1>1, <1>2, <1>3, HeadcountMoves
<1>5. Acts(k, space', member')
  BY <1>1, <1>2, <1>4 DEF Acts, Founding, MemberSteps, Looking
<1>6. CountTellsMembers'
  <2>1. /\ Waiting("countIn")' = Waiting("countIn")
        /\ Waiting("countOut")' = Waiting("countOut")
        /\ Waiting("addOwner")' = Waiting("addOwner") - 1
    BY <1>1, WaitingMoves
  <2>2. \A n, i, o, h, w, l \in Int : Balanced(n, i, o, h, w, l) => Balanced(n, i, o, h + 1, w - 1, l)
    BY DEF Balanced
  <2>3. /\ space.count \in Int /\ Waiting("countIn") \in Int /\ Waiting("countOut") \in Int
        /\ Headcount(member) \in Int /\ Waiting("addOwner") \in Int /\ strays \in Int
        /\ Balanced(space.count, Waiting("countIn"), Waiting("countOut"), Headcount(member),
                    Waiting("addOwner"), strays)
    BY <1>2, CountTypes
  <2>4. Balanced(space.count, Waiting("countIn"), Waiting("countOut"), Headcount(member) + 1,
                 Waiting("addOwner") - 1, strays)
    BY <2>2, <2>3
  <2> QED BY <1>1, <1>4, <2>1, <2>4, CountIsThen
<1>7. CachedIsCurrent' /\ WorkspacesType'
  BY <1>1, <1>2, <1>4, CopyStays DEF WorkspacesType
<1> QED BY <1>1, <1>2, <1>4, <1>5, <1>6, <1>7, SpaceInvStep DEF Founding

LEMMA DefaultChannelKeepsSpace ==
  ASSUME SpaceInv, CallInv, NEW c \in Calls, AddDefaultChannel(c)
  PROVE  SpaceInv'
<1>1. PICK k : call' = [call EXCEPT ![c] = k] /\
               \/ call[c].at = "addGeneral" /\ k.at = "addRandom"
               \/ call[c].at = "addRandom" /\ k.at = "done"
  <2>1. CASE At(c, "addGeneral") /\ Proceed(c, "addRandom")
    <3>1. call' = [call EXCEPT ![c] = Onto(c, "addRandom")]
      BY <2>1 DEF Proceed, Change
    <3>2. call[c].at = "addGeneral" /\ Onto(c, "addRandom").at = "addRandom"
      BY <2>1 DEF At, Onto, With, Suspended
    <3> QED BY <3>1, <3>2
  <2>2. CASE At(c, "addRandom") /\ Answer(c)
    <3>1. call' = [call EXCEPT ![c] = Over]
      BY <2>2 DEF Answer, Change
    <3>2. call[c].at = "addRandom" /\ Over.at = "done"
      BY <2>2 DEF At, Over, Suspended
    <3> QED BY <3>1, <3>2
  <2> QED BY <2>1, <2>2 DEF AddDefaultChannel
<1> DEFINE s == [space EXCEPT !.channels = space.channels + 1]
<1>2. space' = s /\ UNCHANGED <<cache, member, strays>>
  BY DEF AddDefaultChannel
<1>3. /\ space \in Spaces /\ space # Nil /\ WorkspacesType /\ CachedIsCurrent
      /\ call[c].at = "addGeneral" => space.channels = 0
      /\ call[c].at = "addRandom" => space.channels = 1
      /\ \A q \in Calls : q # c => call[q].at \notin Founding
      /\ Ownerless(member) => strays = 0
      /\ \A q \in Calls : call[q].at = "addOwner" => Ownerless(member)
  BY <1>1 DEF SpaceInv, WorkspacesType, Acts, Founding
<1>4. /\ s \in Spaces /\ s.channels = space.channels + 1 /\ s.count = space.count
      /\ s.name = space.name /\ s.active = space.active
  BY <1>1, <1>3 DEF Spaces
<1> HIDE DEF s
<1>5. s # Nil
  BY <1>4, WorkspacesAssumption
<1>6. Acts(k, space', member')
  BY <1>1, <1>2, <1>3, <1>4, <1>5 DEF Acts, Founding, MemberSteps, Looking
<1>7. CountTellsMembers'
  <2>1. /\ Waiting("countIn")' = Waiting("countIn")
        /\ Waiting("countOut")' = Waiting("countOut")
        /\ Waiting("addOwner")' = Waiting("addOwner")
    BY <1>1, CountsStay
  <2> QED BY <1>2, <1>3, <1>4, <2>1, CountTypes, CountIsThen
<1>8. CachedIsCurrent' /\ WorkspacesType'
  BY <1>1, <1>2, <1>3, <1>4, CopyStays DEF WorkspacesType
<1> QED BY <1>1, <1>2, <1>3, <1>5, <1>6, <1>7, <1>8, SpaceInvStep

LEMMA FillKeepsSpace ==
  ASSUME SpaceInv, CallInv, NEW c \in Calls, Fill(c)
  PROVE  SpaceInv'
<1> DEFINE k == Resumed(call[c])
           d == call[c].doc
           copy == [name |-> d.name, active |-> d.active, late |-> Outdated(d)]
<1>1. /\ call' = [call EXCEPT ![c] = k] /\ cache' = copy
      /\ UNCHANGED <<space, member, strays>> /\ call[c].at = "fill"
  BY DEF Fill, Change, At
<1>2. Acts(call[c], space, member) /\ d \in Spaces /\ space # Nil /\ WorkspacesType
  BY <1>1 DEF SpaceInv, Acts
<1>3. Acts(k, space, member) /\ k.at \in {"done", "findMember", "setRole", "deactivateMember"}
  BY <1>1, <1>2 DEF Acts, Resumed, Over, Suspended, Founding, MemberSteps, Looking
<1>4. copy \in Copies /\ (copy.late <=> Outdated(d)) /\ (Outdated(copy) <=> Outdated(d))
  <2>1. Outdated(d) \in BOOLEAN
    BY DEF Outdated
  <2> DEFINE late == Outdated(d)
  <2>2. copy = [name |-> d.name, active |-> d.active, late |-> late]
    OBVIOUS
  <2>3. Outdated(copy) <=> late
    BY DEF Outdated
  <2> HIDE DEF late
  <2>4. copy \in Copies /\ copy.late = late
    BY <1>2, <2>1, <2>2 DEF Spaces, Copies, late
  <2> QED BY <2>3, <2>4 DEF late
<1> HIDE DEF k, copy
<1>5. CountTellsMembers'
  <2>1. /\ Waiting("countIn")' = Waiting("countIn")
        /\ Waiting("countOut")' = Waiting("countOut")
        /\ Waiting("addOwner")' = Waiting("addOwner")
    BY <1>1, <1>3, CountsStay
  <2> QED BY <1>1, <1>2, <2>1, CountTypes, CountIsThen
<1>6. CachedIsCurrent'
  BY <1>1, <1>4 DEF CachedIsCurrent, Outdated
<1>7. WorkspacesType'
  BY <1>1, <1>2, <1>4 DEF WorkspacesType
<1> QED BY <1>1, <1>2, <1>3, <1>5, <1>6, <1>7, SpaceInvStep DEF SpaceInv, Acts, Founding

LEMMA StoreKeepsSpace ==
  ASSUME SpaceInv, CallInv, NEW c \in Calls, StoreSpace(c)
  PROVE  SpaceInv'
<1> DEFINE k == Onto(c, "bust")
<1>1. /\ call' = [call EXCEPT ![c] = k] /\ k.at = "bust"
      /\ UNCHANGED <<cache, member, strays>> /\ call[c].at \in {"setName", "deactivate"}
  BY DEF StoreSpace, Proceed, Change, Onto, With, Suspended, At
<1> HIDE DEF k
<1>2. ~Ownerless(member) /\ space # Nil /\ space \in Spaces /\ WorkspacesType
  BY <1>1 DEF SpaceInv, WorkspacesType, Acts, MemberSteps
<1>3. space' \in Spaces /\ space'.count = space.count /\ space'.channels = space.channels
  BY <1>2 DEF StoreSpace, Spaces, Ids
<1>4. space' # Nil
  BY <1>3, WorkspacesAssumption
<1>5. Acts(k, space', member')
  BY <1>1, <1>2, <1>4 DEF Acts, Founding, MemberSteps, Looking
<1>6. CountTellsMembers'
  <2>1. /\ Waiting("countIn")' = Waiting("countIn")
        /\ Waiting("countOut")' = Waiting("countOut")
        /\ Waiting("addOwner")' = Waiting("addOwner")
    BY <1>1, CountsStay
  <2> QED BY <1>1, <1>2, <1>3, <2>1, CountTypes, CountIsThen
<1>7. CachedIsCurrent'
  <2>1. Waiting("bust")' = Waiting("bust") + 1 /\ Waiting("bust") \in Nat
    BY <1>1, WaitingMoves
  <2>2. Waiting("bust")' > 0
    BY <2>1
  <2> QED BY <2>2 DEF CachedIsCurrent
<1>8. WorkspacesType'
  BY <1>1, <1>2, <1>3 DEF WorkspacesType
<1> QED BY <1>1, <1>2, <1>3, <1>4, <1>5, <1>6, <1>7, <1>8, SpaceInvStep
    DEF SpaceInv, Acts, Founding

LEMMA BustKeepsSpace ==
  ASSUME SpaceInv, CallInv, NEW c \in Calls, Bust(c)
  PROVE  SpaceInv'
<1>1. /\ call' = [call EXCEPT ![c] = Over] /\ cache' = Nil
      /\ UNCHANGED <<space, member, strays>> /\ call[c].at = "bust"
  BY DEF Bust, Busted, Answer, Change, At
<1>2. Acts(Over, space, member) /\ Over.at = "done"
  BY DEF Acts, Over, Suspended, Founding, MemberSteps, Looking
<1>3. CountTellsMembers'
  <2>1. /\ Waiting("countIn")' = Waiting("countIn")
        /\ Waiting("countOut")' = Waiting("countOut")
        /\ Waiting("addOwner")' = Waiting("addOwner")
    BY <1>1, <1>2, CountsStay
  <2> QED BY <1>1, <2>1, CountTypes, CountIsThen
<1>4. CachedIsCurrent' /\ WorkspacesType'
  BY <1>1 DEF CachedIsCurrent, SpaceInv, WorkspacesType
<1> QED BY <1>1, <1>2, <1>3, <1>4, SpaceInvStep DEF SpaceInv, Acts, Founding

\* A membership changes, the call goes on to count or is over.
LEMMA MemberKeepsSpace ==
  ASSUME SpaceInv, CallInv, NEW c \in Calls, NEW k, call' = [call EXCEPT ![c] = k],
         call[c].at \in {"saveMember", "setRole", "deactivateMember"},
         k.at \in {"countIn", "countOut", "done"},
         UNCHANGED <<space, cache>>, strays' \in Int,
         member' \in [Users -> Memberships \cup {Nil}], ~Ownerless(member'),
         CountTellsMembers'
  PROVE  SpaceInv'
<1>1. ~Ownerless(member) /\ space # Nil /\ WorkspacesType /\ CachedIsCurrent
  BY DEF SpaceInv, Acts, MemberSteps
<1>2. Acts(k, space', member')
  BY <1>1 DEF Acts, Founding, MemberSteps, Looking
<1>3. CachedIsCurrent' /\ WorkspacesType'
  BY <1>1, CopyStays DEF WorkspacesType
<1>4. \A q \in Calls : call[q].at # "addOwner"
  BY <1>1 DEF SpaceInv, Acts
<1> QED BY <1>1, <1>2, <1>3, <1>4, SpaceInvStep DEF Founding

LEMMA SaveMemberKeepsSpace ==
  ASSUME SpaceInv, CallInv, NEW c \in Calls, SaveMember(c)
  PROVE  SpaceInv'
<1> DEFINE x == call[c].arg
           d == call[c].doc
           k == With(c, "countIn", Nil)
           e == [role |-> x.role, active |-> TRUE]
<1>1. /\ call[c].at = "saveMember" /\ UNCHANGED <<space, cache>>
      /\ strays' = IF d # Nil /\ ~d.active /\ IsMember(x.user) THEN strays + 1 ELSE strays
  BY DEF SaveMember, At
<1>2. /\ x \in Invitations /\ (d = Nil \/ (d \in Memberships /\ ~d.active))
      /\ ~Ownerless(member) /\ space # Nil /\ WorkspacesType
  BY <1>1 DEF SpaceInv, Acts, MemberSteps
<1>3. CASE ~(d = Nil => member[x.user] = Nil)
  <2>1. call' = [call EXCEPT ![c] = Over] /\ UNCHANGED workspaceVars
    BY <1>1, <1>3 DEF SaveMember, Unless, Change, workspaceVars
  <2>2. Acts(Over, space, member) /\ Over.at = "done"
    BY DEF Acts, Over, Suspended, Founding, MemberSteps, Looking
  <2> QED BY <1>1, <2>1, <2>2, SpaceInvQuiet DEF Founding
<1>4. CASE d = Nil => member[x.user] = Nil
  <2>1. /\ call' = [call EXCEPT ![c] = k] /\ k.at = "countIn"
        /\ member' = [member EXCEPT ![x.user] = e]
    BY <1>4 DEF SaveMember, Unless, Change, With, Suspended
  <2>2. x.user \in Users /\ e \in Memberships /\ e.active = TRUE
    BY <1>2 DEF Invitations, Memberships
  <2> HIDE DEF k, e, x, d
  <2>3. /\ Headcount(member) \in Nat /\ ~Ownerless(member')
        /\ member' \in [Users -> Memberships \cup {Nil}]
        /\ IsMember(x.user) => Headcount(member') = Headcount(member)
        /\ ~IsMember(x.user) => Headcount(member') = Headcount(member) + 1
    BY <1>2, <2>1, <2>2, HeadcountMoves
  <2>4. /\ IsMember(x.user) => strays' = strays + 1
        /\ ~IsMember(x.user) => strays' = strays
    BY <1>1, <1>2, <1>4 DEF IsMember
  <2>5. /\ Waiting("countIn")' = Waiting("countIn") + 1
        /\ Waiting("countOut")' = Waiting("countOut")
        /\ Waiting("addOwner")' = Waiting("addOwner")
    BY <1>1, <2>1, WaitingMoves
  <2>6. \A n, i, o, h, w, l \in Int : Balanced(n, i, o, h, w, l) =>
           Balanced(n, i + 1, o, h + 1, w, l) /\ Balanced(n, i + 1, o, h, w, l + 1)
    BY DEF Balanced
  <2>7. /\ space.count \in Int /\ Waiting("countIn") \in Int /\ Waiting("countOut") \in Int
        /\ Headcount(member) \in Int /\ Waiting("addOwner") \in Int /\ strays \in Int
        /\ Balanced(space.count, Waiting("countIn"), Waiting("countOut"), Headcount(member),
                    Waiting("addOwner"), strays)
    BY <1>2, CountTypes
  <2>8. /\ Balanced(space.count, Waiting("countIn") + 1, Waiting("countOut"),
                    Headcount(member) + 1, Waiting("addOwner"), strays)
        /\ Balanced(space.count, Waiting("countIn") + 1, Waiting("countOut"),
                    Headcount(member), Waiting("addOwner"), strays + 1)
    BY <2>6, <2>7
  <2>9. CountTellsMembers'
    BY <1>1, <2>3, <2>4, <2>5, <2>8, CountIsThen
  <2>10. strays' \in Int
    BY <2>4, <2>7
  <2> QED BY <1>1, <2>1, <2>3, <2>9, <2>10, MemberKeepsSpace
<1> QED BY <1>3, <1>4

LEMMA SetRoleKeepsSpace ==
  ASSUME SpaceInv, CallInv, NEW c \in Calls, SetRole(c)
  PROVE  SpaceInv'
<1> DEFINE x == call[c].arg
           e == [member[x.user] EXCEPT !.role = x.role]
<1>1. /\ call[c].at = "setRole" /\ UNCHANGED <<space, cache, strays>>
      /\ call' = [call EXCEPT ![c] = Over] /\ Over.at = "done"
  BY DEF SetRole, At, Answer, Change, Over, Suspended
<1>2. x \in Invitations /\ ~Ownerless(member) /\ space # Nil /\ WorkspacesType
  BY <1>1 DEF SpaceInv, Acts, MemberSteps
<1>3. CASE ~(Touchable(x.user) /\ IsMember(x.user))
  <2>1. UNCHANGED workspaceVars
    BY <1>1, <1>3 DEF SetRole, workspaceVars
  <2>2. Acts(Over, space, member)
    BY DEF Acts, Over, Suspended, Founding, MemberSteps, Looking
  <2> QED BY <1>1, <2>1, <2>2, SpaceInvQuiet DEF Founding
<1>4. CASE Touchable(x.user) /\ IsMember(x.user)
  <2>1. x.user \in Users /\ x.role \in Roles
    BY <1>2 DEF Invitations
  <2>2. member[x.user] \in Memberships /\ member[x.user].active = TRUE
    BY <1>2, <1>4, <2>1 DEF IsMember, WorkspacesType, Memberships
  <2>3. e \in Memberships /\ e.active = TRUE
    BY <2>1, <2>2 DEF Memberships
  <2>4. member' = [member EXCEPT ![x.user] = e]
    BY <1>4 DEF SetRole
  <2> HIDE DEF e, x
  <2>5. /\ ~Ownerless(member') /\ member' \in [Users -> Memberships \cup {Nil}]
        /\ Headcount(member') = Headcount(member)
    BY <1>2, <1>4, <2>1, <2>3, <2>4, HeadcountMoves
  <2>6. /\ Waiting("countIn")' = Waiting("countIn")
        /\ Waiting("countOut")' = Waiting("countOut")
        /\ Waiting("addOwner")' = Waiting("addOwner")
    BY <1>1, CountsStay
  <2>7. CountTellsMembers'
    BY <1>1, <1>2, <2>5, <2>6, CountTypes, CountIsThen
  <2>8. strays' \in Int
    BY <1>1, <1>2 DEF WorkspacesType
  <2> QED BY <1>1, <2>5, <2>7, <2>8, MemberKeepsSpace
<1> QED BY <1>3, <1>4

LEMMA DeactivateKeepsSpace ==
  ASSUME SpaceInv, CallInv, NEW c \in Calls, DeactivateMember(c)
  PROVE  SpaceInv'
<1> DEFINE v == call[c].arg.user
           k == Onto(c, "countOut")
           e == [member[v] EXCEPT !.active = FALSE]
<1>1. /\ call[c].at = "deactivateMember" /\ UNCHANGED <<space, cache>>
      /\ strays' = IF Touchable(v) /\ ~IsMember(v) THEN strays - 1 ELSE strays
  BY DEF DeactivateMember, At
<1>2. v \in Users /\ ~Ownerless(member) /\ space # Nil /\ WorkspacesType
  BY <1>1 DEF SpaceInv, Acts, MemberSteps, Removals
<1>3. CASE ~Touchable(v)
  <2>1. call' = [call EXCEPT ![c] = Over] /\ UNCHANGED workspaceVars
    BY <1>1, <1>3 DEF DeactivateMember, Unless, Change, workspaceVars
  <2>2. Acts(Over, space, member) /\ Over.at = "done"
    BY DEF Acts, Over, Suspended, Founding, MemberSteps, Looking
  <2> QED BY <1>1, <2>1, <2>2, SpaceInvQuiet DEF Founding
<1>4. CASE Touchable(v)
  <2>1. /\ call' = [call EXCEPT ![c] = k] /\ k.at = "countOut"
        /\ member' = IF member[v] # Nil THEN [member EXCEPT ![v] = e] ELSE member
    BY <1>4 DEF DeactivateMember, Unless, Change, Onto, With, Suspended
  <2>2. member[v] # Nil => e \in Memberships /\ e.active = FALSE
    BY <1>2 DEF WorkspacesType, Memberships
  <2> HIDE DEF k, e, v
  <2>4. /\ Headcount(member) \in Nat /\ ~Ownerless(member')
        /\ member' \in [Users -> Memberships \cup {Nil}]
        /\ ~IsMember(v) => Headcount(member') = Headcount(member)
        /\ IsMember(v) => Headcount(member') = Headcount(member) - 1
    <3>1. CASE member[v] = Nil
      BY <1>2, <2>1, <3>1, CountTypes DEF WorkspacesType, IsMember
    <3>2. CASE member[v] # Nil
      <4>1. IsMember(v) \in BOOLEAN
        BY <1>2, <3>2 DEF WorkspacesType, IsMember, Memberships
      <4> QED BY <1>2, <2>1, <2>2, <3>2, <4>1, HeadcountMoves
    <3> QED BY <3>1, <3>2
  <2>5. /\ Waiting("countIn")' = Waiting("countIn")
        /\ Waiting("countOut")' = Waiting("countOut") + 1
        /\ Waiting("addOwner")' = Waiting("addOwner")
    BY <1>1, <2>1, WaitingMoves
  <2>6. \A n, i, o, h, w, l \in Int : Balanced(n, i, o, h, w, l) =>
           Balanced(n, i, o + 1, h - 1, w, l) /\ Balanced(n, i, o + 1, h, w, l - 1)
    BY DEF Balanced
  <2>7. /\ space.count \in Int /\ Waiting("countIn") \in Int /\ Waiting("countOut") \in Int
        /\ Headcount(member) \in Int /\ Waiting("addOwner") \in Int /\ strays \in Int
        /\ Balanced(space.count, Waiting("countIn"), Waiting("countOut"), Headcount(member),
                    Waiting("addOwner"), strays)
    BY <1>2, CountTypes
  <2>8. /\ Balanced(space.count, Waiting("countIn"), Waiting("countOut") + 1,
                    Headcount(member) - 1, Waiting("addOwner"), strays)
        /\ Balanced(space.count, Waiting("countIn"), Waiting("countOut") + 1,
                    Headcount(member), Waiting("addOwner"), strays - 1)
    BY <2>6, <2>7
  <2>9. CountTellsMembers'
    BY <1>1, <1>4, <2>4, <2>5, <2>8, CountIsThen
  <2>10. strays' \in Int
    BY <1>1, <2>7
  <2> QED BY <1>1, <2>1, <2>4, <2>9, <2>10, MemberKeepsSpace
<1> QED BY <1>3, <1>4

LEMMA CountKeepsSpace ==
  ASSUME SpaceInv, CallInv, NEW c \in Calls, CountMember(c)
  PROVE  SpaceInv'
<1>1. /\ call' = [call EXCEPT ![c] = Over] /\ Over.at = "done"
      /\ UNCHANGED <<cache, member, strays>>
  BY DEF CountMember, Answer, Change, Over, Suspended
<1>2. call[c].at \in {"countIn", "countOut"}
  BY DEF CountMember, At
<1>3. ~Ownerless(member) /\ space # Nil /\ WorkspacesType /\ CachedIsCurrent
  BY <1>2 DEF SpaceInv, Acts, MemberSteps
<1>4. /\ space \in Spaces /\ space.count \in Int /\ Waiting("countIn") \in Int
      /\ Waiting("countOut") \in Int /\ Headcount(member) \in Int
      /\ Waiting("addOwner") \in Int /\ strays \in Int
      /\ Balanced(space.count, Waiting("countIn"), Waiting("countOut"), Headcount(member),
                  Waiting("addOwner"), strays)
  BY <1>3, CountTypes
<1>5. \A n, i, o, h, w, l \in Int : Balanced(n, i, o, h, w, l) =>
         Balanced(n + 1, i - 1, o, h, w, l) /\ Balanced(n - 1, i, o - 1, h, w, l)
  BY DEF Balanced
<1>6. /\ Balanced(space.count + 1, Waiting("countIn") - 1, Waiting("countOut"),
                  Headcount(member), Waiting("addOwner"), strays)
      /\ Balanced(space.count - 1, Waiting("countIn"), Waiting("countOut") - 1,
                  Headcount(member), Waiting("addOwner"), strays)
  BY <1>4, <1>5
<1>7. /\ space' \in Spaces /\ space'.name = space.name /\ space'.active = space.active
      /\ space'.channels = space.channels /\ CountTellsMembers'
  <2>1. CASE call[c].at = "countIn"
    <3> DEFINE s == [space EXCEPT !.count = space.count + 1]
    <3>1. space' = s
      BY <2>1 DEF CountMember, At
    <3>2. /\ s \in Spaces /\ s.count = space.count + 1 /\ s.name = space.name
          /\ s.active = space.active /\ s.channels = space.channels
      BY <1>4 DEF Spaces
    <3> HIDE DEF s
    <3>3. /\ Waiting("countIn")' = Waiting("countIn") - 1
          /\ Waiting("countOut")' = Waiting("countOut")
          /\ Waiting("addOwner")' = Waiting("addOwner")
      BY <1>1, <2>1, WaitingMoves
    <3> QED BY <1>1, <1>6, <3>1, <3>2, <3>3, CountIsThen
  <2>2. CASE call[c].at = "countOut"
    <3> DEFINE s == [space EXCEPT !.count = space.count - 1]
    <3>1. space' = s
      BY <2>2 DEF CountMember, At
    <3>2. /\ s \in Spaces /\ s.count = space.count - 1 /\ s.name = space.name
          /\ s.active = space.active /\ s.channels = space.channels
      BY <1>4 DEF Spaces
    <3> HIDE DEF s
    <3>3. /\ Waiting("countIn")' = Waiting("countIn")
          /\ Waiting("countOut")' = Waiting("countOut") - 1
          /\ Waiting("addOwner")' = Waiting("addOwner")
      BY <1>1, <2>2, WaitingMoves
    <3> QED BY <1>1, <1>6, <3>1, <3>2, <3>3, CountIsThen
  <2> QED BY <1>2, <2>1, <2>2
<1>8. space' # Nil
  BY <1>7, WorkspacesAssumption
<1>9. Acts(Over, space', member')
  BY <1>1, <1>3, <1>8 DEF Acts, Over, Suspended, Founding, MemberSteps, Looking
<1>10. CachedIsCurrent' /\ WorkspacesType'
  BY <1>1, <1>2, <1>3, <1>7, CopyStays DEF WorkspacesType
<1> QED BY <1>1, <1>3, <1>7, <1>8, <1>9, <1>10, SpaceInvStep DEF SpaceInv, Acts, Founding

LEMMA SpaceInvNext == SpaceInv /\ CallInv /\ [Next]_vars => SpaceInv'
<1> SUFFICES ASSUME SpaceInv, CallInv, [Next]_vars PROVE SpaceInv'
  OBVIOUS
<1>1. ASSUME NEW c \in Calls, WorkspaceStep(c) PROVE SpaceInv'
  BY <1>1, ReadsKeepSpace, CreateKeepsSpace, AddOwnerKeepsSpace, DefaultChannelKeepsSpace,
     FillKeepsSpace, StoreKeepsSpace, BustKeepsSpace, SaveMemberKeepsSpace, SetRoleKeepsSpace,
     DeactivateKeepsSpace, CountKeepsSpace DEF WorkspaceStep
<1>2. ASSUME NEW c \in Calls, ChannelStep(c) /\ OnChannel PROVE SpaceInv'
  <2>1. UNCHANGED member
    BY <1>2 DEF ChannelStep, ChannelRequest, CreateChannel, RenameChannel, ArchiveChannel,
           JoinChannel, LeaveChannel, PinMessage, UnpinMessage, FindName, InsertChannel,
           ReadForChange, CheckRole, FindOther, Rename, Archive, ReadForJoin, SaveJoin,
           SaveLeave, ReadForPin, SavePin, ReadForUnpin, SaveUnpin, ReadChannel, SaveChannel,
           Rest, channelVars
  <2> QED BY <1>2, <2>1, ChannelGoes, OthersKeepSpace DEF OnChannel, workspaceVars
<1>3. ASSUME NEW c \in Calls, MessageStep(c) /\ OnMessage PROVE SpaceInv'
  <2>1. UNCHANGED member
    BY <1>3 DEF MessageStep, MessageRequest, SendMessage, EditMessage, DeleteMessage, BeginOn,
           FindChannel, CreateMessage, BumpThread, BumpChannel, NotifyMentioned, SaveEdit,
           RoleForDelete, SaveDelete, ReadToReact, SaveReact, ReadToUnreact, SaveUnreact,
           ReadToMark, SaveMark, Unmark, ReadMessage, SaveMessage, Quiet, OnlyMessage
  <2> QED BY <1>3, <2>1, MessageGoes, OthersKeepSpace DEF OnMessage, workspaceVars
<1>4. ASSUME NEW c \in Calls, DmStep(c) /\ OnDm PROVE SpaceInv'
  <2>1. UNCHANGED member
    BY <1>4 DEF DmStep, DmRequest, StartDM, SendDM, CloseDM, CheckOther, FindDm, CreateDm,
           Reopen, ReadDm, CreateDmMessage, UpdateDm, NotifyOther, SaveClose, Silent
  <2> QED BY <1>4, <2>1, DmGoes, OthersKeepSpace DEF OnDm, workspaceVars
<1>5. ASSUME UNCHANGED <<call, space, member, strays>>, cache' \in {Nil, cache} PROVE SpaceInv'
  <2>1. \A step : Waiting(step)' = Waiting(step)
    BY <1>5, WaitingStutter
  <2>2. CountTellsMembers'
    BY <1>5, <2>1 DEF SpaceInv, CountTellsMembers, IsMember
  <2>3. CachedIsCurrent' /\ WorkspacesType'
    BY <1>5, <2>1 DEF SpaceInv, CachedIsCurrent, Outdated, WorkspacesType
  <2> QED BY <1>5, <2>2, <2>3 DEF SpaceInv
<1>6. CASE (ExpireCached /\ OnWorkspace) \/ (InboxStep /\ OnMessage) \/ UNCHANGED vars
  BY <1>5, <1>6 DEF ExpireCached, InboxStep, OnMessage, MarkAsRead, DeleteNotification,
                    workspaceVars, vars
<1> QED BY <1>1, <1>2, <1>3, <1>4, <1>6 DEF Next

(* The member count is the number of active members but for the calls at   *)
(* work and the two ways it is led astray; the cached workspace shows the  *)
(* document until an update drops it or a slow reader put it back, in      *)
(* whatever order calls create the workspace, ask for it, change it and    *)
(* change its members (workspace.service.js).                              *)
THEOREM WorkspaceIsSound == Spec => []WorkspaceSound
<1>1. SpaceInv => WorkspaceSound
  BY DEF SpaceInv, WorkspaceSound
<1> QED BY <1>1, CallInvInit, CallInvNext, SpaceInvInit, SpaceInvNext, PTL DEF Spec

-----------------------------------------------------------------------------
(* Reactions *)

\* MessageDocs without a bound on the edits.
Docs == [text : Ids \cup {Removed}, gone : BOOLEAN, edits : Nat, reactions : Seq(Reactions),
         marks : SUBSET Users, threads : Nat, v : Nat]

Agrees(d) == \A i \in DOMAIN d.reactions :
                d.reactions[i].count = Cardinality(d.reactions[i].users)

\* d was read: a version that is the same has the same reactions and edits.
WasRead(d, m) ==
    /\ d \in Docs /\ d.v <= m.v
    /\ d.v = m.v => d.reactions = m.reactions /\ d.edits = m.edits

\* An edit has found the message; a reaction that is added is a new one, a
\* removed one was there.
Held(k, m) ==
    /\ k.at \in {"readToReact", "saveReact", "readToUnreact", "saveUnreact", "readToMark",
                 "saveMark", "unmark"} => k.who \in Users
    /\ k.at \in {"saveEdit", "saveReact", "saveUnreact"} => WasRead(k.doc, m)
    /\ k.at = "saveEdit" => ~k.doc.gone
    /\ k.at = "saveReact" /\ k.doc.reactions # <<>> =>
          k.who \notin k.doc.reactions[1].users
    /\ k.at = "saveUnreact" => k.doc.reactions # <<>>

MessageInv ==
    /\ message \in Docs /\ Agrees(message)
    /\ \A c \in Calls : Held(call[c], message)

LEMMA UsersAreFinite ==
  ASSUME NEW S \in SUBSET Users
  PROVE  /\ IsFiniteSet(S) /\ Cardinality(S) \in Nat
         /\ \A u \in Users : Cardinality({u}) = 1
         /\ \A u \in Users \ S : Cardinality(S \cup {u}) = Cardinality(S) + 1
  BY CollabAssumption, FS_Subset, FS_CardinalityType, FS_Singleton, FS_AddElement

LEMMA MessageInvInit == Init => MessageInv
<1> SUFFICES ASSUME Init PROVE MessageInv
  OBVIOUS
<1>1. PICK edited \in {EditsKept - 1, EditsKept} :
          message = [text |-> Before, gone |-> FALSE, edits |-> edited,
                     reactions |-> <<>>, marks |-> {}, threads |-> 0, v |-> 0]
  BY DEF Init, MessagesInit
<1>2. message \in Docs
  BY <1>1, MessagesAssumption DEF Docs, Ids
<1>3. message.reactions = <<>>
  BY <1>1
<1>4. \A c \in Calls : call[c].at = "idle"
  BY DEF Init, Idle, Suspended
<1> QED BY <1>2, <1>3, <1>4 DEF MessageInv, Agrees, Held

\* A save counts a version, or leaves version, reactions and edits as they are.
Kept(m) ==
    /\ m \in Docs /\ Agrees(m)
    /\ \/ m.v = message.v /\ m.reactions = message.reactions /\ m.edits = message.edits
       \/ m.v = message.v + 1

LEMMA MessageInvStep ==
  ASSUME MessageInv, CallInv, NEW c \in Calls, NEW k, call' = [call EXCEPT ![c] = k],
         Kept(message'), Held(k, message')
  PROVE  MessageInv'
<1>1. ASSUME NEW q \in Calls, q # c PROVE Held(call'[q], message')
  <2>1. call'[q] = call[q] /\ Held(call[q], message)
    BY <1>1 DEF CallInv, MessageInv
  <2>2. message.v \in Nat /\ message'.v \in Nat
    BY DEF MessageInv, Kept, Docs
  <2>3. \A d : WasRead(d, message) => WasRead(d, message')
    <3>1. \A d \in Docs : d.v \in Nat
      BY DEF Docs
    <3> QED BY <2>2, <3>1 DEF WasRead, Kept
  <2> QED BY <2>1, <2>3 DEF Held
<1>2. call'[c] = k
  BY DEF CallInv
<1> QED BY <1>1, <1>2 DEF MessageInv, Kept

LEMMA MessageKept == MessageInv => Kept(message)
  BY DEF MessageInv, Kept

\* The calls on the other parts hold nothing of the message.
LEMMA OthersKeepReactions ==
  ASSUME MessageInv, CallInv, NEW c \in Calls, UNCHANGED message,
         Goes(c, WorkspaceSteps) \/ Goes(c, ChannelSteps) \/ Goes(c, DmSteps)
  PROVE  MessageInv'
<1>1. PICK k : /\ call' = [call EXCEPT ![c] = k]
               /\ k.at \in WorkspaceSteps \cup ChannelSteps \cup DmSteps
  BY DEF Goes
<1>2. Held(k, message)
  BY <1>1 DEF Held, WorkspaceSteps, ChannelSteps, DmSteps, Nexts
<1> QED BY <1>1, <1>2, MessageKept, MessageInvStep

LEMMA RequestKeepsReactions ==
  ASSUME MessageInv, CallInv, NEW c \in Calls, MessageRequest(c)
  PROVE  MessageInv'
<1>1. UNCHANGED message
  BY DEF MessageRequest, SendMessage, DeleteMessage, EditMessage, BeginOn, Quiet, messageVars
<1>2. PICK step, u, x, d :
          /\ call' = [call EXCEPT ![c] = Suspended(step, "done", u, x, d)]
          /\ \/ step \in {"findChannel", "roleForDelete"}
             \/ step = "saveEdit" /\ d = message /\ ~message.gone
             \/ step \in {"readToReact", "readToUnreact", "readToMark", "unmark"} /\ u \in Users
  BY DEF MessageRequest, SendMessage, DeleteMessage, EditMessage, BeginOn, Begin, Found
<1>3. Held(Suspended(step, "done", u, x, d), message)
  BY <1>2 DEF Held, Suspended, MessageInv, WasRead, Docs
<1> QED BY <1>1, <1>2, <1>3, MessageKept, MessageInvStep

\* A saved message and an answered call.
LEMMA SavedMessage ==
  ASSUME MessageInv, CallInv, NEW c \in Calls, NEW from, NEW ok \in BOOLEAN, NEW d,
         SaveMessage(c, from, ok, d), ok => Kept(d)
  PROVE  MessageInv'
<1>1. call' = [call EXCEPT ![c] = Over] /\ message' = IF ok THEN d ELSE message
  BY DEF SaveMessage, Answer, Change
<1>2. Held(Over, message')
  BY DEF Held, Over, Suspended
<1> QED BY <1>1, <1>2, MessageKept, MessageInvStep

LEMMA PostKeepsReactions ==
  ASSUME MessageInv, CallInv, NEW c \in Calls,
         \/ FindChannel(c) \/ CreateMessage(c) \/ BumpThread(c) \/ BumpChannel(c)
         \/ NotifyMentioned(c) \/ RoleForDelete(c)
  PROVE  MessageInv'
<1>1. Kept(message')
  <2>1. CASE BumpThread(c)
    <3>1. message \in Docs
      BY DEF MessageInv
    <3>2. /\ message' \in Docs /\ message'.v = message.v
          /\ message'.reactions = message.reactions /\ message'.edits = message.edits
      BY <2>1, <3>1 DEF BumpThread, Docs
    <3> QED BY <3>2 DEF Kept, MessageInv, Agrees
  <2>2. CASE ~BumpThread(c)
    <3>1. UNCHANGED message
      BY <2>2 DEF FindChannel, CreateMessage, BumpChannel, NotifyMentioned, RoleForDelete,
             Quiet, messageVars
    <3> QED BY <3>1, MessageKept
  <2> QED BY <2>1, <2>2
<1>2. Goes(c, {"done", "findChannel", "createMessage", "bumpThread", "bumpChannel", "notify",
               "roleForDelete", "saveDelete"})
  <2> USE DEF CallInv, Goes, Nexts, Proceed, Answer, Unless, Change, Onto, With, Suspended,
              Over, At
  <2>1. CASE FindChannel(c) \/ RoleForDelete(c)
    BY <2>1 DEF FindChannel, RoleForDelete
  <2>2. CASE CreateMessage(c) \/ BumpThread(c)
    BY <2>2 DEF CreateMessage, BumpThread
  <2>3. CASE BumpChannel(c) \/ NotifyMentioned(c)
    BY <2>3 DEF BumpChannel, NotifyMentioned
  <2> QED BY <2>1, <2>2, <2>3
<1>3. PICK k : call' = [call EXCEPT ![c] = k] /\ Held(k, message')
  BY <1>2 DEF Goes, Held
<1> QED BY <1>1, <1>3, MessageInvStep

LEMMA ReadKeepsReactions ==
  ASSUME MessageInv, CallInv, NEW c \in Calls,
         ReadToReact(c) \/ ReadToUnreact(c) \/ ReadToMark(c)
  PROVE  MessageInv'
<1>1. UNCHANGED message
  BY DEF ReadToReact, ReadToUnreact, ReadToMark, ReadMessage, Quiet, messageVars
<1>2. message \in Docs /\ WasRead(message, message)
  BY DEF MessageInv, WasRead, Docs
<1>3. call[c].who \in Users
  BY DEF ReadToReact, ReadToUnreact, ReadToMark, ReadMessage, At, MessageInv, Held
<1>4. PICK k : /\ call' = [call EXCEPT ![c] = k]
               /\ \/ k = Over
                  \/ k = With(c, "saveReact", message) /\ ~Reacted(message, call[c].who)
                  \/ k = With(c, "saveUnreact", message) /\ Reacted(message, call[c].who)
                  \/ k = With(c, "saveMark", message)
  <2>1. CASE ReadToReact(c)
    BY <2>1 DEF ReadToReact, ReadMessage, Unless, Change
  <2>2. CASE ReadToUnreact(c)
    BY <2>2 DEF ReadToUnreact, ReadMessage, Unless, Change
  <2>3. CASE ReadToMark(c)
    BY <2>3 DEF ReadToMark, ReadMessage, Unless, Change
  <2> QED BY <2>1, <2>2, <2>3
<1>5. Held(k, message)
  BY <1>2, <1>3, <1>4 DEF Held, With, Over, Suspended, Reacted
<1> QED BY <1>1, <1>4, <1>5, MessageKept, MessageInvStep

LEMMA EditKeepsReactions ==
  ASSUME MessageInv, CallInv, NEW c \in Calls,
         SaveEdit(c) \/ SaveDelete(c) \/ SaveMark(c) \/ Unmark(c)
  PROVE  MessageInv'
<1>0. message \in Docs /\ Agrees(message)
  BY DEF MessageInv
<1>1. CASE SaveEdit(c)
  <2> DEFINE d == call[c].doc
             shift == Full(d.edits)
             edited == [message EXCEPT !.text = c, !.edits = IF shift THEN d.edits ELSE @ + 1]
  <2>1. d.edits \in Nat
    BY <1>1 DEF SaveEdit, SaveMessage, At, MessageInv, Held, WasRead, Docs
  <2>2. edited \in Docs /\ edited.v = message.v /\ edited.reactions = message.reactions
    <3>1. (IF shift THEN d.edits ELSE message.edits + 1) \in Nat /\ c \in Ids
      BY <1>0, <2>1 DEF Docs, Ids
    <3> QED BY <1>0, <3>1 DEF Docs
  <2>3. Kept(Bumped(edited))
    <3> HIDE DEF edited
    <3>1. Bumped(edited) \in Docs /\ Bumped(edited).reactions = message.reactions
          /\ Bumped(edited).v = message.v + 1
      BY <1>0, <2>2 DEF Bumped, Docs
    <3> QED BY <1>0, <3>1 DEF Kept, Agrees
  <2>4. SaveMessage(c, "saveEdit", shift \/ call[c].arg.changed => Fresh(d, message),
                    Bumped(edited))
    BY <1>1 DEF SaveEdit
  <2> QED BY <2>3, <2>4, SavedMessage
<1>2. CASE SaveDelete(c)
  <2> DEFINE text == IF call[c].doc.text = Removed THEN message.text ELSE Removed
             d == [message EXCEPT !.gone = TRUE, !.text = text]
  <2>1. text \in Ids \cup {Removed}
    BY <1>0 DEF Docs
  <2>2. d \in Docs /\ d.v = message.v /\ d.reactions = message.reactions
             /\ d.edits = message.edits
    <3> HIDE DEF text
    <3> QED BY <1>0, <2>1 DEF Docs
  <2>3. Kept(d)
    <3> HIDE DEF d
    <3> QED BY <1>0, <2>2 DEF Kept, Agrees
  <2>4. SaveMessage(c, "saveDelete", TRUE, d)
    BY <1>2 DEF SaveDelete
  <2> QED BY <2>3, <2>4, SavedMessage
<1>3. CASE SaveMark(c)
  <2> DEFINE d == [message EXCEPT !.marks = message.marks \cup {call[c].who}]
  <2>1. call[c].who \in Users
    BY <1>3 DEF SaveMark, SaveMessage, At, MessageInv, Held
  <2>2. d \in Docs /\ d.v = message.v /\ d.reactions = message.reactions
             /\ d.edits = message.edits
    BY <1>0, <2>1 DEF Docs
  <2>3. Kept(Bumped(d))
    <3> HIDE DEF d
    <3>1. Bumped(d) \in Docs /\ Bumped(d).reactions = message.reactions
          /\ Bumped(d).v = message.v + 1
      BY <1>0, <2>2 DEF Bumped, Docs
    <3> QED BY <1>0, <3>1 DEF Kept, Agrees
  <2>4. SaveMessage(c, "saveMark", TRUE, Bumped(d))
    BY <1>3 DEF SaveMark
  <2> QED BY <2>3, <2>4, SavedMessage
<1>4. CASE Unmark(c)
  <2> DEFINE d == [message EXCEPT !.marks = message.marks \ {call[c].who}]
  <2>1. d \in Docs /\ d.v = message.v /\ d.reactions = message.reactions
             /\ d.edits = message.edits
    BY <1>0 DEF Docs
  <2>2. Kept(d)
    <3> HIDE DEF d
    <3> QED BY <1>0, <2>1 DEF Kept, Agrees
  <2>3. SaveMessage(c, "unmark", TRUE, d)
    BY <1>4 DEF Unmark
  <2> QED BY <2>2, <2>3, SavedMessage
<1> QED BY <1>1, <1>2, <1>3, <1>4

\* The message with the reactions R, one version on.
LEMMA NewReactions ==
  ASSUME message \in Docs, NEW R \in Seq(Reactions),
         \A i \in DOMAIN R : R[i].count = Cardinality(R[i].users)
  PROVE  Kept(Bumped([message EXCEPT !.reactions = R]))
<1> DEFINE d == [message EXCEPT !.reactions = R]
<1>1. d \in Docs /\ d.reactions = R /\ message.v + 1 \in Nat
  BY DEF Docs
<1>2. Bumped(d) \in Docs /\ Bumped(d).reactions = R /\ Bumped(d).v = message.v + 1
  <2> HIDE DEF d
  <2> QED BY <1>1 DEF Bumped, Docs
<1> HIDE DEF d
<1> QED BY <1>2 DEF Kept, Agrees, d

LEMMA FirstReaction ==
  ASSUME NEW R \in Seq(Reactions), R # <<>>
  PROVE  1 \in DOMAIN R /\ R[1].users \in SUBSET Users /\ R[1].count \in Nat
<1>1. Len(R) \in Nat /\ Len(R) # 0
  BY EmptySeq
<1>2. R[1] \in Reactions
  BY <1>1
<1> QED BY <1>1, <1>2 DEF Reactions

LEMMA ReactKeepsReactions ==
  ASSUME MessageInv, CallInv, NEW c \in Calls, SaveReact(c)
  PROVE  MessageInv'
<1> DEFINE d == call[c].doc
           u == call[c].who
           S == d.reactions[1].users
           element == [users |-> S \cup {u}, count |-> d.reactions[1].count + 1]
<1>0. /\ message \in Docs /\ Agrees(message) /\ message.reactions \in Seq(Reactions)
      /\ u \in Users /\ WasRead(d, message)
      /\ d.reactions # <<>> => u \notin S
  BY DEF SaveReact, At, MessageInv, Held, Docs
<1>1. CASE d.reactions = <<>>
  <2> DEFINE new == [users |-> {u}, count |-> 1]
             R == Append(message.reactions, new)
  <2>1. new \in Reactions /\ new.count = Cardinality(new.users)
    BY <1>0, UsersAreFinite DEF Reactions
  <2>2. R \in Seq(Reactions) /\ \A i \in DOMAIN R : R[i].count = Cardinality(R[i].users)
    <3> HIDE DEF new
    <3> QED BY <1>0, <2>1 DEF Agrees
  <2>3. Kept(Bumped([message EXCEPT !.reactions = R]))
    <3> HIDE DEF R
    <3> QED BY <1>0, <2>2, NewReactions
  <2>4. SaveMessage(c, "saveReact", TRUE, Bumped([message EXCEPT !.reactions = R]))
    BY <1>1 DEF SaveReact
  <2> QED BY <2>3, <2>4, SavedMessage
<1>2. CASE d.reactions # <<>>
  <2> DEFINE R == [message.reactions EXCEPT ![1] = [users |-> message.reactions[1].users \cup {u},
                                                    count |-> d.reactions[1].count + 1]]
  <2>1. SaveMessage(c, "saveReact", Fresh(d, message), Bumped([message EXCEPT !.reactions = R]))
    BY <1>0, <1>2 DEF SaveReact
  <2>2. ASSUME Fresh(d, message) PROVE Kept(Bumped([message EXCEPT !.reactions = R]))
    <3>1. d.reactions = message.reactions
      BY <1>0, <2>2 DEF Fresh, WasRead
    <3>2. /\ 1 \in DOMAIN message.reactions
          /\ S \in SUBSET Users /\ d.reactions[1].count = Cardinality(S)
      BY <1>0, <1>2, <3>1, FirstReaction DEF Agrees
    <3>3. element \in Reactions /\ element.count = Cardinality(element.users)
      <4>1. S \cup {u} \in SUBSET Users /\ Cardinality(S) \in Nat
        BY <1>0, <3>2, UsersAreFinite
      <4>2. Cardinality(S \cup {u}) = Cardinality(S) + 1
        BY <1>0, <1>2, <3>2, UsersAreFinite
      <4> QED BY <3>2, <4>1, <4>2 DEF Reactions
    <3>4. R = [message.reactions EXCEPT ![1] = element]
      BY <3>1
    <3> HIDE DEF element, R
    <3>5. R \in Seq(Reactions) /\ \A i \in DOMAIN R : R[i].count = Cardinality(R[i].users)
      BY <1>0, <3>2, <3>3, <3>4 DEF Agrees
    <3> QED BY <1>0, <3>5, NewReactions
  <2> HIDE DEF R
  <2> QED BY <2>1, <2>2, SavedMessage DEF Fresh
<1> QED BY <1>1, <1>2

LEMMA UnreactKeepsReactions ==
  ASSUME MessageInv, CallInv, NEW c \in Calls, SaveUnreact(c)
  PROVE  MessageInv'
<1> DEFINE d == call[c].doc
           left == d.reactions[1].users \ {call[c].who}
           element == [users |-> left, count |-> Cardinality(left)]
           R == IF left = {} THEN <<>> ELSE [message.reactions EXCEPT ![1] = element]
<1>0. /\ message \in Docs /\ Agrees(message) /\ message.reactions \in Seq(Reactions)
      /\ WasRead(d, message) /\ d.reactions # <<>>
  BY DEF SaveUnreact, SaveMessage, At, MessageInv, Held, Docs
<1>1. SaveMessage(c, "saveUnreact", Fresh(d, message), Bumped([message EXCEPT !.reactions = R]))
  BY <1>0 DEF SaveUnreact
<1>2. ASSUME Fresh(d, message) PROVE Kept(Bumped([message EXCEPT !.reactions = R]))
  <2>1. 1 \in DOMAIN message.reactions /\ left \in SUBSET Users
    BY <1>0, <1>2, FirstReaction DEF Fresh, WasRead
  <2>2. element \in Reactions /\ element.count = Cardinality(element.users)
    BY <2>1, UsersAreFinite DEF Reactions
  <2> HIDE DEF element
  <2>3. R \in Seq(Reactions) /\ \A i \in DOMAIN R : R[i].count = Cardinality(R[i].users)
    BY <1>0, <2>1, <2>2 DEF Agrees
  <2> HIDE DEF R
  <2> QED BY <1>0, <2>3, NewReactions
<1> HIDE DEF R
<1> QED BY <1>1, <1>2, SavedMessage DEF Fresh

LEMMA MessageInvNext == MessageInv /\ CallInv /\ [Next]_vars => MessageInv'
<1> SUFFICES ASSUME MessageInv, CallInv, [Next]_vars PROVE MessageInv'
  OBVIOUS
<1>1. ASSUME NEW c \in Calls, WorkspaceStep(c) /\ OnWorkspace PROVE MessageInv'
  BY <1>1, WorkspaceGoes, OthersKeepReactions DEF OnWorkspace, messageVars
<1>2. ASSUME NEW c \in Calls, ChannelStep(c) /\ OnChannel PROVE MessageInv'
  BY <1>2, ChannelGoes, OthersKeepReactions DEF OnChannel, messageVars
<1>3. ASSUME NEW c \in Calls, DmStep(c) PROVE MessageInv'
  BY <1>3, DmGoes, DmKeepsRest, OthersKeepReactions
<1>4. ASSUME NEW c \in Calls, MessageStep(c) PROVE MessageInv'
  BY <1>4, RequestKeepsReactions, PostKeepsReactions, ReadKeepsReactions, EditKeepsReactions,
     ReactKeepsReactions, UnreactKeepsReactions DEF MessageStep
<1>5. ASSUME UNCHANGED <<call, message>> PROVE MessageInv'
  BY <1>5 DEF MessageInv, Agrees, Held, WasRead
<1>6. CASE (ExpireCached /\ OnWorkspace) \/ InboxStep \/ UNCHANGED vars
  BY <1>5, <1>6 DEF ExpireCached, OnWorkspace, InboxStep, MarkAsRead, DeleteNotification,
                    messageVars, vars
<1> QED BY <1>1, <1>2, <1>3, <1>4, <1>6 DEF Next

(* The number next to a reaction is the number of users who have it, in    *)
(* whatever order calls read and save the message (message.service.js,     *)
(* addReaction and removeReaction).                                        *)
THEOREM ReactionsAreCounted == Spec => []CountsTellReactions
<1>1. MessageInv => CountsTellReactions
  BY DEF MessageInv, Agrees, CountsTellReactions
<1> QED BY <1>1, CallInvInit, CallInvNext, MessageInvInit, MessageInvNext, PTL DEF Spec

-----------------------------------------------------------------------------
(* What is not taken back of the message *)

\* The steps that change the message.
LEMMA MessageChanges ==
  ASSUME [Next]_vars
  PROVE  \/ UNCHANGED message
         \/ \E c \in Calls : \/ BumpThread(c) \/ SaveEdit(c) \/ SaveDelete(c) \/ SaveMark(c)
                             \/ Unmark(c) \/ SaveReact(c) \/ SaveUnreact(c)
<1>1. ASSUME NEW c \in Calls, ChannelStep(c) /\ OnChannel PROVE UNCHANGED message
  BY <1>1 DEF OnChannel, messageVars
<1>2. ASSUME NEW c \in Calls, MessageStep(c)
      PROVE  \/ UNCHANGED message
             \/ BumpThread(c) \/ SaveEdit(c) \/ SaveDelete(c) \/ SaveMark(c)
             \/ Unmark(c) \/ SaveReact(c) \/ SaveUnreact(c)
  BY <1>2 DEF MessageStep, MessageRequest, SendMessage, EditMessage, DeleteMessage, BeginOn,
         FindChannel, CreateMessage, BumpChannel, NotifyMentioned, RoleForDelete, ReadToReact,
         ReadToUnreact, ReadToMark, ReadMessage, Quiet, messageVars
<1>3. CASE (\E c \in Calls : WorkspaceStep(c) /\ OnWorkspace)
           \/ (ExpireCached /\ OnWorkspace) \/ InboxStep \/ UNCHANGED vars
  BY <1>3 DEF OnWorkspace, InboxStep, MarkAsRead, DeleteNotification, messageVars, vars
<1> QED BY <1>1, <1>2, <1>3, DmKeepsRest DEF Next

\* Apart from the two saves of reactions these stay.
LEMMA OtherStepsKeepReactions ==
  ASSUME MessageInv, NEW c \in Calls,
         BumpThread(c) \/ SaveEdit(c) \/ SaveDelete(c) \/ SaveMark(c) \/ Unmark(c)
  PROVE  message'.reactions = message.reactions
<1>1. message \in Docs
  BY DEF MessageInv
<1>2. CASE BumpThread(c)
  BY <1>1, <1>2 DEF BumpThread, Docs
<1>3. CASE SaveEdit(c)
  BY <1>1, <1>3 DEF SaveEdit, SaveMessage, Bumped, Docs
<1>4. CASE SaveDelete(c)
  BY <1>1, <1>4 DEF SaveDelete, SaveMessage, Docs
<1>5. CASE SaveMark(c)
  BY <1>1, <1>5 DEF SaveMark, SaveMessage, Bumped, Docs
<1>6. CASE Unmark(c)
  BY <1>1, <1>6 DEF Unmark, SaveMessage, Docs
<1> QED BY <1>2, <1>3, <1>4, <1>5, <1>6

LEMMA ReactTakesNothing ==
  ASSUME MessageInv, NEW c \in Calls, SaveReact(c)
  PROVE  ReactedBy(message) \subseteq ReactedBy(message')
<1> DEFINE d == call[c].doc
           R == message.reactions
<1>1. message \in Docs /\ R \in Seq(Reactions) /\ WasRead(d, message)
  BY DEF SaveReact, At, MessageInv, Held, Docs
<1>2. ASSUME NEW Q, message' = Bumped([message EXCEPT !.reactions = Q]) PROVE message'.reactions = Q
  BY <1>1, <1>2 DEF Bumped, Docs
<1>3. \A i \in DOMAIN R : i \in DOMAIN message'.reactions /\ R[i].users \subseteq message'.reactions[i].users
  <2>1. CASE d.reactions = <<>>
    <3> DEFINE Q == Append(R, [users |-> {call[c].who}, count |-> 1])
    <3>1. message'.reactions = Q
      <4>1. message' = Bumped([message EXCEPT !.reactions = Q])
        BY <2>1 DEF SaveReact, SaveMessage
      <4> HIDE DEF Q
      <4> QED BY <1>2, <4>1
    <3> QED BY <1>1, <3>1
  <2>2. CASE d.reactions # <<>> /\ ~Fresh(d, message)
    BY <2>2 DEF SaveReact, SaveMessage
  <2>3. CASE d.reactions # <<>> /\ Fresh(d, message)
    <3> DEFINE S == R[1].users \cup {call[c].who}
               e == [users |-> S, count |-> d.reactions[1].count + 1]
               Q == [R EXCEPT ![1] = e]
    <3>1. message'.reactions = Q
      <4>1. message' = Bumped([message EXCEPT !.reactions = Q])
        BY <2>3 DEF SaveReact, SaveMessage
      <4> HIDE DEF Q
      <4> QED BY <1>2, <4>1
    <3>2. e.users = S
      OBVIOUS
    <3> HIDE DEF e
    <3> QED BY <1>1, <3>1, <3>2
  <2> QED BY <2>1, <2>2, <2>3
<1> QED BY <1>3 DEF ReactedBy

LEMMA UnreactTakesOne ==
  ASSUME MessageInv, NEW c \in Calls, SaveUnreact(c), Len(message.reactions) <= 1,
         NEW u \in ReactedBy(message), u \notin ReactedBy(message')
  PROVE  u = call[c].who
<1> DEFINE d == call[c].doc
           R == message.reactions
           left == d.reactions[1].users \ {call[c].who}
           e == [users |-> left, count |-> Cardinality(left)]
           Q == [R EXCEPT ![1] = e]
<1>1. /\ message \in Docs /\ R \in Seq(Reactions) /\ WasRead(d, message)
      /\ At(c, "saveUnreact")
  BY DEF SaveUnreact, SaveMessage, At, MessageInv, Held, Docs
<1>2. Fresh(d, message)
  BY DEF SaveUnreact, SaveMessage
<1>3. d.reactions = R
  BY <1>1, <1>2 DEF Fresh, WasRead
<1>4. PICK i \in DOMAIN R : u \in R[i].users
  BY DEF ReactedBy
<1>5. i = 1
  BY <1>1, <1>4
<1>6. SUFFICES ASSUME left # {}, u \in left PROVE FALSE
  BY <1>3, <1>4, <1>5
<1>7. message'.reactions = Q
  <2>1. message' = Bumped([message EXCEPT !.reactions = Q])
    BY <1>2, <1>6 DEF SaveUnreact, SaveMessage
  <2> HIDE DEF Q
  <2> QED BY <1>1, <2>1 DEF Bumped, Docs
<1>8. e.users = left
  OBVIOUS
<1> HIDE DEF e, left
<1>9. 1 \in DOMAIN message'.reactions /\ message'.reactions[1].users = left
  BY <1>1, <1>4, <1>5, <1>7, <1>8
<1> QED BY <1>6, <1>9 DEF ReactedBy

LEMMA ReactionsStay ==
  ASSUME MessageInv, [Next]_vars, NEW u \in ReactedBy(message) \ ReactedBy(message')
  PROVE  Saving("saveUnreact", u) \/ Len(message.reactions) > 1
<1>1. message'.reactions # message.reactions
  BY DEF ReactedBy
<1>2. PICK c \in Calls : SaveReact(c) \/ SaveUnreact(c)
  BY <1>1, MessageChanges, OtherStepsKeepReactions
<1>3. SaveUnreact(c)
  BY <1>2, ReactTakesNothing
<1>4. Len(message.reactions) \in Nat
  BY DEF MessageInv, Docs
<1>5. Len(message.reactions) <= 1 => u = call[c].who
  BY <1>3, UnreactTakesOne
<1>6. At(c, "saveUnreact")
  BY <1>3 DEF SaveUnreact, SaveMessage
<1> QED BY <1>4, <1>5, <1>6 DEF Saving

\* The two saves of reactions set nothing else.
LEMMA ReactionsAreSet ==
  ASSUME MessageInv, NEW c \in Calls, SaveReact(c) \/ SaveUnreact(c)
  PROVE  \E R, ok, from : SaveMessage(c, from, ok, Bumped([message EXCEPT !.reactions = R]))
<1> DEFINE d == call[c].doc
<1>1. CASE SaveReact(c) /\ d.reactions = <<>>
  BY <1>1 DEF SaveReact
<1>2. CASE SaveReact(c) /\ d.reactions # <<>>
  <2> DEFINE Q == [message.reactions EXCEPT ![1] =
                      [users |-> message.reactions[1].users \cup {call[c].who},
                       count |-> d.reactions[1].count + 1]]
  <2>1. SaveMessage(c, "saveReact", Fresh(d, message), Bumped([message EXCEPT !.reactions = Q]))
    BY <1>2 DEF SaveReact, MessageInv, Docs
  <2> HIDE DEF Q
  <2> QED BY <2>1
<1>3. CASE SaveUnreact(c)
  <2> DEFINE left == d.reactions[1].users \ {call[c].who}
             Q == IF left = {} THEN <<>>
                  ELSE [message.reactions EXCEPT ![1] =
                           [users |-> left, count |-> Cardinality(left)]]
  <2>1. SaveMessage(c, "saveUnreact", Fresh(d, message), Bumped([message EXCEPT !.reactions = Q]))
    BY <1>3 DEF SaveUnreact, MessageInv, Docs
  <2> HIDE DEF Q
  <2> QED BY <2>1
<1> QED BY <1>1, <1>2, <1>3

LEMMA StaysDeleted ==
  ASSUME MessageInv, [Next]_vars, message.gone
  PROVE  message'.gone /\ message'.text \in {message.text, Removed} \cup BegunBefore
<1> DEFINE Stays == message'.gone /\ message'.text \in {message.text, Removed} \cup BegunBefore
<1>0. message \in Docs
  BY DEF MessageInv
<1>1. ASSUME NEW c \in Calls, BumpThread(c) PROVE Stays
  BY <1>0, <1>1 DEF BumpThread, Docs
<1>2. ASSUME NEW c \in Calls, SaveEdit(c) PROVE Stays
  <2>1. c \in BegunBefore
    BY <1>2 DEF SaveEdit, SaveMessage, At, MessageInv, Held, BegunBefore
  <2>2. message' = message \/ (message'.gone = message.gone /\ message'.text = c)
    BY <1>0, <1>2 DEF SaveEdit, SaveMessage, Bumped, Docs
  <2> QED BY <2>1, <2>2
<1>3. ASSUME NEW c \in Calls, SaveDelete(c) PROVE Stays
  BY <1>0, <1>3 DEF SaveDelete, SaveMessage, Docs
<1>4. ASSUME NEW c \in Calls, SaveMark(c) PROVE Stays
  BY <1>0, <1>4 DEF SaveMark, SaveMessage, Bumped, Docs
<1>5. ASSUME NEW c \in Calls, Unmark(c) PROVE Stays
  BY <1>0, <1>5 DEF Unmark, SaveMessage, Docs
<1>6. ASSUME NEW c \in Calls, NEW R, NEW ok, NEW from,
             SaveMessage(c, from, ok, Bumped([message EXCEPT !.reactions = R]))
      PROVE  Stays
  BY <1>0, <1>6 DEF SaveMessage, Bumped, Docs
<1>7. ASSUME NEW c \in Calls, SaveReact(c) \/ SaveUnreact(c) PROVE Stays
  <2>1. PICK R, ok, from : SaveMessage(c, from, ok, Bumped([message EXCEPT !.reactions = R]))
    BY <1>7, ReactionsAreSet
  <2> QED BY <1>6, <2>1
<1> QED BY <1>1, <1>2, <1>3, <1>4, <1>5, <1>7, MessageChanges

-----------------------------------------------------------------------------
(* The edits a message keeps, the posts and the inbox *)

\* The calls that are about to add an edit to the list they have read.
Growing == {c \in Calls : At(c, "saveEdit") /\ ~Full(call[c].doc.edits)}

EditsBounded == message.edits + Cardinality(Growing) <= EditsKept + Cardinality(Calls) - 1

LEMMA GrowingMoves ==
  ASSUME CallInv, NEW c \in Calls, NEW k, call' = [call EXCEPT ![c] = k]
  PROVE  Growing' = IF k.at = "saveEdit" /\ ~Full(k.doc.edits) THEN Growing \cup {c}
                                                              ELSE Growing \ {c}
<1>1. call'[c] = k /\ \A q \in Calls : q # c => call'[q] = call[q]
  BY DEF CallInv
<1> QED BY <1>1 DEF Growing, At

LEMMA OtherStepsKeepEdits ==
  ASSUME MessageInv, CallInv, EditsBounded, NEW c \in Calls, NEW k,
         call' = [call EXCEPT ![c] = k], k.at # "saveEdit", message'.edits = message.edits
  PROVE  EditsBounded'
<1>1. Growing' \in SUBSET Growing /\ Growing \in SUBSET Calls
  BY GrowingMoves DEF Growing
<1>2. /\ Cardinality(Growing') <= Cardinality(Growing) /\ Cardinality(Growing) \in Nat
      /\ Cardinality(Growing') \in Nat
  BY <1>1, CallsAreFinite
<1>3. message.edits \in Nat /\ Cardinality(Calls) \in Nat /\ EditsKept \in Nat
  BY SomebodyCalls, MessagesAssumption DEF MessageInv, Docs
<1> QED BY <1>2, <1>3 DEF EditsBounded

\* What the calls on the message do that do not edit it.
LEMMA NoEdit ==
  ASSUME MessageInv, CallInv, NEW c \in Calls, MessageStep(c), ~SaveEdit(c),
         \A mentions \in BOOLEAN : ~EditMessage(c, mentions)
  PROVE  message'.edits = message.edits /\ call'[c].at # "saveEdit"
<1>0. message \in Docs
  BY DEF MessageInv
<1> USE DEF CallInv, Proceed, Answer, Unless, Change, Onto, With, Suspended, Over, Begin
<1>1. CASE MessageRequest(c)
  BY <1>1 DEF MessageRequest, SendMessage, DeleteMessage, BeginOn, Quiet, messageVars
<1>2. CASE FindChannel(c) \/ CreateMessage(c) \/ BumpChannel(c)
  BY <1>2 DEF FindChannel, CreateMessage, BumpChannel, Quiet, messageVars
<1>3. CASE BumpThread(c)
  BY <1>0, <1>3 DEF BumpThread, Docs
<1>4. CASE NotifyMentioned(c) \/ RoleForDelete(c)
  BY <1>4 DEF NotifyMentioned, RoleForDelete, Quiet, messageVars
<1>5. CASE ReadToReact(c) \/ ReadToUnreact(c) \/ ReadToMark(c)
  BY <1>5 DEF ReadToReact, ReadToUnreact, ReadToMark, ReadMessage, Quiet, messageVars
<1>6. CASE SaveDelete(c)
  BY <1>0, <1>6 DEF SaveDelete, SaveMessage, Docs
<1>7. CASE Unmark(c)
  BY <1>0, <1>7 DEF Unmark, SaveMessage, Docs
<1>8. CASE SaveMark(c)
  BY <1>0, <1>8 DEF SaveMark, SaveMessage, Bumped, Docs
<1>9. ASSUME NEW R, NEW ok, NEW from,
             SaveMessage(c, from, ok, Bumped([message EXCEPT !.reactions = R]))
      PROVE  message'.edits = message.edits /\ call'[c].at # "saveEdit"
  BY <1>0, <1>9 DEF SaveMessage, Bumped, Docs
<1>10. CASE SaveReact(c) \/ SaveUnreact(c)
  <2>1. PICK R, ok, from : SaveMessage(c, from, ok, Bumped([message EXCEPT !.reactions = R]))
    BY <1>10, ReactionsAreSet
  <2> QED BY <1>9, <2>1
<1> QED BY <1>1, <1>2, <1>3, <1>4, <1>5, <1>6, <1>7, <1>8, <1>10 DEF MessageStep

LEMMA EditIsBounded ==
  ASSUME MessageInv, CallInv, EditsBounded, NEW c \in Calls, NEW mentions,
         EditMessage(c, mentions)
  PROVE  EditsBounded'
<1> DEFINE k == Suspended("saveEdit", "done", Author, [changed |-> mentions], message)
<1>1. /\ call' = [call EXCEPT ![c] = k] /\ UNCHANGED message
      /\ k.at = "saveEdit" /\ k.doc = message /\ c \notin Growing
  BY DEF EditMessage, Begin, Quiet, messageVars, Suspended, Growing, At
<1>2. /\ message.edits \in Nat /\ Cardinality(Calls) \in Nat
      /\ EditsKept \in Nat
  BY SomebodyCalls, MessagesAssumption DEF MessageInv, Docs
<1>3. Growing \in SUBSET Calls /\ Growing' \in SUBSET Calls
  BY DEF Growing
<1>4. Cardinality(Growing') \in Nat /\ Cardinality(Growing') <= Cardinality(Calls)
  BY <1>3, CallsAreFinite
<1>5. CASE Full(message.edits)
  <2>1. Growing' = Growing
    <3> HIDE DEF k
    <3> QED BY <1>1, <1>5, GrowingMoves
  <2> QED BY <1>1, <2>1 DEF EditsBounded
<1>6. CASE ~Full(message.edits)
  BY <1>1, <1>2, <1>4, <1>6 DEF EditsBounded, Full
<1> QED BY <1>5, <1>6

LEMMA SaveIsBounded ==
  ASSUME MessageInv, CallInv, EditsBounded, NEW c \in Calls, SaveEdit(c)
  PROVE  EditsBounded'
<1> DEFINE d == call[c].doc
<1>1. /\ call' = [call EXCEPT ![c] = Over] /\ Over.at # "saveEdit"
      /\ call[c].at = "saveEdit" /\ WasRead(d, message) /\ message \in Docs
  BY DEF SaveEdit, SaveMessage, Answer, Change, Over, Suspended, At, MessageInv, Held
<1>2. /\ message.edits \in Nat /\ Cardinality(Calls) \in Nat /\ EditsKept \in Nat
  BY SomebodyCalls, MessagesAssumption DEF MessageInv, Docs
<1>3. CASE Full(d.edits)
  <2>1. message'.edits = message.edits
    <3>1. CASE Fresh(d, message)
      <4>1. d.edits = message.edits
        BY <1>1, <3>1 DEF WasRead, Fresh
      <4> QED BY <1>1, <1>3, <4>1 DEF SaveEdit, SaveMessage, Bumped, Docs
    <3>2. CASE ~Fresh(d, message)
      BY <1>3, <3>2 DEF SaveEdit, SaveMessage
    <3> QED BY <3>1, <3>2
  <2> QED BY <1>1, <2>1, OtherStepsKeepEdits
<1>4. CASE ~Full(d.edits)
  <2>1. message'.edits \in {message.edits, message.edits + 1}
    BY <1>1, <1>4 DEF SaveEdit, SaveMessage, Bumped, Docs
  <2>2. c \in Growing /\ Growing' = Growing \ {c} /\ Growing \in SUBSET Calls
    BY <1>1, <1>4, GrowingMoves DEF Growing, At
  <2>3. Cardinality(Growing') = Cardinality(Growing) - 1 /\ Cardinality(Growing) \in Nat
    BY <2>2, CallsAreFinite
  <2> QED BY <1>2, <2>1, <2>3 DEF EditsBounded
<1> QED BY <1>3, <1>4

LEMMA EditsBoundedInit == Init => EditsBounded
<1> SUFFICES ASSUME Init PROVE EditsBounded
  OBVIOUS
<1>1. message.edits \in {EditsKept - 1, EditsKept} /\ EditsKept \in Nat
  BY MessagesAssumption DEF Init, MessagesInit
<1>2. Growing = {}
  BY DEF Init, Growing, At, Idle, Suspended
<1>3. Cardinality(Growing) = 0
  BY <1>2, FS_EmptySet
<1> QED BY <1>1, <1>3, SomebodyCalls DEF EditsBounded

LEMMA EditsBoundedNext ==
  EditsBounded /\ MessageInv /\ CallInv /\ [Next]_vars => EditsBounded'
<1> SUFFICES ASSUME EditsBounded, MessageInv, CallInv, [Next]_vars PROVE EditsBounded'
  OBVIOUS
<1>1. ASSUME NEW c \in Calls, UNCHANGED message,
             Goes(c, WorkspaceSteps) \/ Goes(c, ChannelSteps) \/ Goes(c, DmSteps)
      PROVE  EditsBounded'
  <2>1. PICK k : call' = [call EXCEPT ![c] = k] /\ k.at # "saveEdit"
    BY <1>1 DEF Goes, WorkspaceSteps, ChannelSteps, DmSteps, Nexts
  <2> QED BY <1>1, <2>1, OtherStepsKeepEdits
<1>2. ASSUME NEW c \in Calls, WorkspaceStep(c) /\ OnWorkspace PROVE EditsBounded'
  BY <1>1, <1>2, WorkspaceGoes DEF OnWorkspace, messageVars
<1>3. ASSUME NEW c \in Calls, ChannelStep(c) /\ OnChannel PROVE EditsBounded'
  BY <1>1, <1>3, ChannelGoes DEF OnChannel, messageVars
<1>4. ASSUME NEW c \in Calls, DmStep(c) PROVE EditsBounded'
  BY <1>1, <1>4, DmGoes, DmKeepsRest
<1>5. ASSUME NEW c \in Calls, MessageStep(c) PROVE EditsBounded'
  <2>1. CASE SaveEdit(c) \/ \E mentions \in BOOLEAN : EditMessage(c, mentions)
    BY <2>1, EditIsBounded, SaveIsBounded
  <2>2. CASE ~SaveEdit(c) /\ \A mentions \in BOOLEAN : ~EditMessage(c, mentions)
    <3>1. PICK k : call' = [call EXCEPT ![c] = k]
      BY <1>5, MessageGoes DEF Goes
    <3>2. k.at # "saveEdit" /\ message'.edits = message.edits
      BY <1>5, <2>2, <3>1, NoEdit DEF CallInv
    <3> QED BY <3>1, <3>2, OtherStepsKeepEdits
  <2> QED BY <2>1, <2>2
<1>6. ASSUME UNCHANGED <<call, message>> PROVE EditsBounded'
  <2>1. Growing' = Growing
    BY <1>6 DEF Growing, At
  <2> QED BY <1>6, <2>1 DEF EditsBounded
<1>7. CASE (ExpireCached /\ OnWorkspace) \/ InboxStep \/ UNCHANGED vars
  BY <1>6, <1>7 DEF ExpireCached, OnWorkspace, InboxStep, MarkAsRead, DeleteNotification,
                    messageVars, vars
<1> QED BY <1>2, <1>3, <1>4, <1>5, <1>7 DEF Next

Posting == {"findChannel", "createMessage", "bumpThread", "bumpChannel", "notify"}

PostsInv ==
    /\ posted \in SUBSET Calls /\ inbox \in SUBSET Notifications
    /\ \A c \in Calls : call[c].at \in Posting => call[c].arg.mentions \subseteq Users

LEMMA PostsInvStep ==
  ASSUME PostsInv, CallInv, NEW c \in Calls, NEW k, call' = [call EXCEPT ![c] = k],
         posted' \in SUBSET Calls, inbox' \in SUBSET Notifications,
         k.at \in Posting => k.arg.mentions \subseteq Users
  PROVE  PostsInv'
<1>1. call'[c] = k /\ \A q \in Calls : q # c => call'[q] = call[q]
  BY DEF CallInv
<1> QED BY <1>1 DEF PostsInv

LEMMA NotifiedIsTyped ==
  ASSUME PostsInv, NEW c \in Calls, NEW S \in SUBSET Users,
         inbox' = inbox \cup {[of |-> c, to |-> u, read |-> FALSE] : u \in S}
  PROVE  inbox' \in SUBSET Notifications
<1>1. \A u \in S : [of |-> c, to |-> u, read |-> FALSE] \in Notifications
  BY DEF Notifications
<1> QED BY <1>1 DEF PostsInv

LEMMA MessageKeepsPosts ==
  ASSUME PostsInv, CallInv, NEW c \in Calls, MessageStep(c)
  PROVE  PostsInv'
<1>1. PICK k : call' = [call EXCEPT ![c] = k]
  BY MessageGoes DEF Goes
<1>2. k = call'[c]
  BY <1>1 DEF CallInv
<1> DEFINE Typed == posted' \in SUBSET Calls /\ inbox' \in SUBSET Notifications
           Mentions == k.at \in Posting => k.arg.mentions \subseteq Users
<1>3. ASSUME UNCHANGED <<posted, inbox>> PROVE Typed
  BY <1>3 DEF PostsInv
<1>4. ASSUME k.at \notin Posting PROVE Mentions
  BY <1>4
<1>5. ASSUME call[c].at \in Posting, k.arg = call[c].arg PROVE Mentions
  BY <1>5 DEF PostsInv
<1> SUFFICES Typed /\ Mentions
  BY <1>1, PostsInvStep
<1> HIDE DEF Typed, Mentions
<1> USE DEF Proceed, Answer, Unless, Change, Onto, With, Suspended, Over, Begin, At
<1>6. CASE MessageRequest(c)
  <2>1. UNCHANGED <<posted, inbox>>
    BY <1>6 DEF MessageRequest, SendMessage, DeleteMessage, EditMessage, BeginOn, Quiet,
           messageVars
  <2>2. k.at \in Posting => k.arg.mentions \subseteq {Author}
    BY <1>2, <1>6 DEF MessageRequest, SendMessage, DeleteMessage, EditMessage, BeginOn,
           CallInv, Posting
  <2>3. {Author} \subseteq Users
    BY CollabAssumption
  <2>4. Mentions
    BY <2>2, <2>3 DEF Mentions
  <2> QED BY <1>3, <2>1, <2>4
<1>7. CASE FindChannel(c) \/ BumpThread(c) \/ BumpChannel(c)
  <2>1. UNCHANGED <<posted, inbox>>
    BY <1>7 DEF FindChannel, BumpThread, BumpChannel, Quiet, OnlyMessage, messageVars
  <2>2. call[c].at \in Posting /\ (k.arg = call[c].arg \/ k.at \notin Posting)
    BY <1>2, <1>7 DEF FindChannel, BumpThread, BumpChannel, CallInv, Posting
  <2> QED BY <1>3, <1>4, <1>5, <2>1, <2>2
<1>8. CASE CreateMessage(c)
  <2>1. Typed
    BY <1>8 DEF CreateMessage, PostsInv, Typed
  <2>2. call[c].at \in Posting /\ k.arg = call[c].arg
    BY <1>2, <1>8 DEF CreateMessage, CallInv, Posting
  <2> QED BY <1>5, <2>1, <2>2
<1>9. CASE NotifyMentioned(c)
  <2>1. call[c].arg.mentions \in SUBSET Users
    BY <1>9 DEF NotifyMentioned, PostsInv, Posting
  <2>2. Typed
    BY <1>9, <2>1, NotifiedIsTyped DEF NotifyMentioned, PostsInv, Typed
  <2>3. k.at \notin Posting
    BY <1>2, <1>9 DEF NotifyMentioned, CallInv, Posting
  <2> QED BY <1>4, <2>2, <2>3
<1>10. CASE ReadToReact(c) \/ ReadToUnreact(c) \/ ReadToMark(c) \/ RoleForDelete(c)
  <2>1. UNCHANGED <<posted, inbox>> /\ k.at \notin Posting
    BY <1>2, <1>10 DEF ReadToReact, ReadToUnreact, ReadToMark, ReadMessage, RoleForDelete,
           Quiet, messageVars, CallInv, Posting
  <2> QED BY <1>3, <1>4, <2>1
<1>11. CASE \/ SaveEdit(c) \/ SaveDelete(c) \/ SaveReact(c) \/ SaveUnreact(c) \/ SaveMark(c)
            \/ Unmark(c)
  <2>1. \E ok, from, d : SaveMessage(c, from, ok, d)
    BY <1>11 DEF SaveEdit, SaveDelete, SaveReact, SaveUnreact, SaveMark, Unmark
  <2>2. UNCHANGED <<posted, inbox>> /\ call' = [call EXCEPT ![c] = Over]
    BY <2>1 DEF SaveMessage, OnlyMessage
  <2>3. k.at \notin Posting
    BY <1>2, <2>2 DEF CallInv, Posting
  <2> QED BY <1>3, <1>4, <2>2, <2>3
<1> QED BY <1>6, <1>7, <1>8, <1>9, <1>10, <1>11 DEF MessageStep

LEMMA DmKeepsPosts ==
  ASSUME PostsInv, CallInv, NEW c \in Calls, DmStep(c)
  PROVE  PostsInv'
<1>1. PICK k : call' = [call EXCEPT ![c] = k] /\ k.at \notin Posting
  BY DmGoes DEF Goes, DmSteps, Posting
<1>2. posted' \in SUBSET Calls /\ inbox' \in SUBSET Notifications
  <2>1. CASE CreateDmMessage(c)
    BY <2>1 DEF CreateDmMessage, PostsInv
  <2>2. CASE NotifyOther(c)
    <3>1. Pair \ {call[c].who} \in SUBSET Users
      BY CollabAssumption DEF Pair
    <3>2. inbox' \in SUBSET Notifications
      BY <2>2, <3>1, NotifiedIsTyped DEF NotifyOther
    <3> QED BY <2>2, <3>2 DEF NotifyOther, PostsInv
  <2>3. CASE ~CreateDmMessage(c) /\ ~NotifyOther(c)
    <3>1. UNCHANGED <<posted, inbox>>
      BY <2>3 DEF DmStep, DmRequest, StartDM, SendDM, CloseDM, CheckOther, FindDm, CreateDm,
             Reopen, ReadDm, UpdateDm, SaveClose, Silent, messageVars
    <3> QED BY <3>1 DEF PostsInv
  <2> QED BY <2>1, <2>2, <2>3
<1> QED BY <1>1, <1>2, PostsInvStep

LEMMA PostsInvInit == Init => PostsInv
  BY DEF Init, MessagesInit, PostsInv, Posting, Idle, Suspended

LEMMA PostsInvNext == PostsInv /\ CallInv /\ [Next]_vars => PostsInv'
<1> SUFFICES ASSUME PostsInv, CallInv, [Next]_vars PROVE PostsInv'
  OBVIOUS
<1>1. ASSUME NEW c \in Calls, UNCHANGED messageVars,
             Goes(c, WorkspaceSteps) \/ Goes(c, ChannelSteps)
      PROVE  PostsInv'
  <2>1. PICK k : call' = [call EXCEPT ![c] = k] /\ k.at \notin Posting
    BY <1>1 DEF Goes, WorkspaceSteps, ChannelSteps, Nexts, Posting
  <2> QED BY <1>1, <2>1, PostsInvStep DEF PostsInv, messageVars
<1>2. ASSUME NEW c \in Calls, WorkspaceStep(c) /\ OnWorkspace PROVE PostsInv'
  BY <1>1, <1>2, WorkspaceGoes DEF OnWorkspace
<1>3. ASSUME NEW c \in Calls, ChannelStep(c) /\ OnChannel PROVE PostsInv'
  BY <1>1, <1>3, ChannelGoes DEF OnChannel
<1>4. CASE InboxStep
  <2>1. inbox' \in SUBSET Notifications
    <3>1. ASSUME NEW u, NEW S, MarkAsRead(u, S) PROVE inbox' \in SUBSET Notifications
      <4>1. \A n \in Notifications : [n EXCEPT !.read = TRUE] \in Notifications
        BY DEF Notifications
      <4> QED BY <3>1, <4>1 DEF MarkAsRead, PostsInv
    <3> QED BY <1>4, <3>1 DEF InboxStep, DeleteNotification, PostsInv
  <2> QED BY <1>4, <2>1 DEF InboxStep, MarkAsRead, DeleteNotification, PostsInv
<1>5. CASE (ExpireCached /\ OnWorkspace) \/ UNCHANGED vars
  BY <1>5 DEF ExpireCached, OnWorkspace, PostsInv, messageVars, vars
<1> QED BY <1>2, <1>3, <1>4, <1>5, MessageKeepsPosts, DmKeepsPosts DEF Next

\* The message's type and the bound on its edits make up MessagesType.
LEMMA MessagesTyped == MessageInv /\ EditsBounded /\ PostsInv => MessagesType
<1> SUFFICES ASSUME MessageInv, EditsBounded, PostsInv PROVE MessagesType
  OBVIOUS
<1>1. message \in Docs /\ Growing \in SUBSET Calls
  BY DEF MessageInv, Growing
<1>2. /\ message.edits \in Nat /\ Cardinality(Growing) \in Nat /\ Cardinality(Calls) \in Nat
      /\ EditsKept \in Nat
  BY <1>1, CallsAreFinite, SomebodyCalls, MessagesAssumption DEF Docs
<1>3. message.edits \in 0..EditsKept + Cardinality(Calls) - 1
  BY <1>2 DEF EditsBounded
<1> QED BY <1>1, <1>3 DEF MessagesType, MessageDocs, Docs, PostsInv

-----------------------------------------------------------------------------
(* What is left of the pins when one is taken out *)

\* Of the numbers up to n that are in Bad one is the smallest.
LEMMA SmallestNumber ==
  ASSUME NEW n \in Nat, NEW Bad \in SUBSET (0..n), Bad # {}
  PROVE  \E i \in Bad : \A j \in Bad : i <= j
<1> DEFINE S == 0..n
           T == {0..i : i \in Bad}
<1>1. IsFiniteSet(S)
  BY FS_Interval
<1>2. IsWellFoundedOn(StrictSubsetOrdering(S), SUBSET S)
  BY <1>1, FS_FiniteSubsetsOfFinite, FS_StrictSubsetOrderingWellFounded
<1>3. T \in SUBSET SUBSET S /\ T # {}
  <2>1. \A i \in Bad : 0..i \in SUBSET S
    OBVIOUS
  <2> HIDE DEF S
  <2> QED BY <2>1
<1>4. PICK U \in T : \A V \in T : ~(<<V, U>> \in StrictSubsetOrdering(S))
  <2> HIDE DEF T, S
  <2> QED BY <1>2, <1>3, WFMin
<1>5. PICK i \in Bad : U = 0..i
  OBVIOUS
<1>6. ASSUME NEW j \in Bad, ~(i <= j) PROVE FALSE
  <2>1. 0..j \in SUBSET S /\ 0..i \in SUBSET S /\ 0..j \subseteq 0..i /\ 0..j # 0..i
    <3>1. i \in 0..i /\ i \notin 0..j
      BY <1>6
    <3> QED BY <3>1, <1>6
  <2>2. <<0..j, U>> \in StrictSubsetOrdering(S)
    BY <1>5, <2>1 DEF StrictSubsetOrdering
  <2> QED BY <1>4, <2>2
<1> QED BY <1>6

\* The function that goes through the first n elements of s.
LeftOf(f, s, x, n) ==
    f = [i \in 0..n |-> IF i = 0 THEN <<>>
                        ELSE IF s[i] = x THEN f[i - 1] ELSE Append(f[i - 1], s[i])]
LEMMA WithoutIs ==
  ASSUME NEW s, NEW x
  PROVE  Without(s, x) = (CHOOSE f : LeftOf(f, s, x, Len(s)))[Len(s)]
  BY DEF Without, LeftOf

LEMMA LeftOfExists ==
  ASSUME NEW s, NEW x, NEW n \in Nat
  PROVE  \E f : LeftOf(f, s, x, n)
<1> DEFINE Bad == {i \in 0..n : ~ \E f : LeftOf(f, s, x, i)}
<1> SUFFICES ASSUME Bad # {} PROVE FALSE
  BY DEF Bad
<1>1. PICK i \in Bad : \A j \in Bad : i <= j
  BY SmallestNumber
<1>2. i \in 0..n /\ ~ \E f : LeftOf(f, s, x, i)
  OBVIOUS
<1>3. CASE i = 0
  <2>1. LeftOf([j \in 0..0 |-> <<>>], s, x, 0)
    BY DEF LeftOf
  <2> QED BY <1>2, <1>3, <2>1
<1>4. CASE i # 0
  <2>1. i - 1 \in 0..n /\ i - 1 \notin Bad
    BY <1>1, <1>2, <1>4
  <2>2. PICK f : LeftOf(f, s, x, i - 1)
    BY <2>1
  <2> DEFINE e == IF s[i] = x THEN f[i - 1] ELSE Append(f[i - 1], s[i])
             g == [j \in 0..i |-> IF j = i THEN e ELSE f[j]]
  <2>3. \A j \in 0..i : g[j] = IF j = i THEN e ELSE f[j]
    OBVIOUS
  <2>4. \A j \in 0..(i - 1) : f[j] = IF j = 0 THEN <<>>
                        ELSE IF s[j] = x THEN f[j - 1] ELSE Append(f[j - 1], s[j])
    BY <2>2 DEF LeftOf
  <2>5. ASSUME NEW j \in 0..i
        PROVE  g[j] = IF j = 0 THEN <<>>
                      ELSE IF s[j] = x THEN g[j - 1] ELSE Append(g[j - 1], s[j])
    <3>1. CASE j = i
      <4>1. g[j - 1] = f[j - 1]
        BY <1>2, <1>4, <2>3, <3>1
      <4> QED BY <1>4, <2>3, <3>1, <4>1
    <3>2. CASE j # i /\ j # 0
      <4>1. g[j - 1] = f[j - 1] /\ g[j] = f[j] /\ j \in 0..(i - 1)
        BY <1>2, <2>3, <3>2
      <4> QED BY <2>4, <3>2, <4>1
    <3>3. CASE j # i /\ j = 0
      <4>1. g[j] = f[j] /\ j \in 0..(i - 1)
        BY <1>2, <2>3, <3>3
      <4> QED BY <2>4, <3>3, <4>1
    <3> QED BY <3>1, <3>2, <3>3
  <2>6. LeftOf(g, s, x, i)
    <3> HIDE DEF e
    <3> QED BY <2>5 DEF LeftOf
  <2> QED BY <1>2, <2>6
<1> QED BY <1>3, <1>4

\* What the function says at every index.
LEMMA LeftOfType ==
  ASSUME NEW A, NEW s \in Seq(A), NEW x, NEW f, LeftOf(f, s, x, Len(s))
  PROVE  \A n \in 0..Len(s) :
            /\ f[n] \in Seq(A) /\ Len(f[n]) <= n
            /\ \A i \in 1..n : s[i] # x => \E j \in 1..Len(f[n]) : f[n][j] = s[i]
<1> DEFINE Good(n) == /\ f[n] \in Seq(A) /\ Len(f[n]) <= n
                      /\ \A i \in 1..n : s[i] # x => \E j \in 1..Len(f[n]) : f[n][j] = s[i]
           Bad == {n \in 0..Len(s) : ~Good(n)}
<1> SUFFICES ASSUME Bad # {} PROVE FALSE
  OBVIOUS
<1>0. Len(s) \in Nat /\ \A i \in 1..Len(s) : s[i] \in A
  OBVIOUS
<1>1. PICK n \in Bad : \A j \in Bad : n <= j
  <2> HIDE DEF Good
  <2> QED BY <1>0, SmallestNumber
<1>2. n \in 0..Len(s) /\ ~Good(n)
  OBVIOUS
<1>3. f[n] = IF n = 0 THEN <<>> ELSE IF s[n] = x THEN f[n - 1] ELSE Append(f[n - 1], s[n])
  BY <1>2 DEF LeftOf
<1>4. CASE n = 0
  BY <1>2, <1>3, <1>4
<1>5. CASE n # 0
  <2>1. n - 1 \in 0..Len(s) /\ n - 1 \notin Bad /\ s[n] \in A
    BY <1>0, <1>1, <1>2, <1>5
  <2>2. Good(n - 1)
    <3> HIDE DEF Good
    <3> QED BY <2>1
  <2> DEFINE g == f[n - 1]
  <2>3. /\ g \in Seq(A) /\ Len(g) <= n - 1 /\ Len(g) \in Nat
        /\ \A i \in 1..(n - 1) : s[i] # x => \E j \in 1..Len(g) : g[j] = s[i]
    BY <2>2
  <2>4. CASE s[n] = x
    <3>1. f[n] = g
      BY <1>3, <1>5, <2>4
    <3> HIDE DEF g
    <3>2. \A i \in 1..n : s[i] # x => i \in 1..(n - 1)
      BY <1>2, <2>4
    <3> QED BY <1>2, <2>3, <3>1, <3>2
  <2>5. CASE s[n] # x
    <3>1. f[n] = Append(g, s[n])
      BY <1>3, <1>5, <2>5
    <3> HIDE DEF g
    <3>2. /\ f[n] \in Seq(A) /\ Len(f[n]) = Len(g) + 1 /\ f[n][Len(g) + 1] = s[n]
          /\ \A j \in 1..Len(g) : f[n][j] = g[j]
      BY <2>1, <2>3, <3>1
    <3>3. ASSUME NEW i \in 1..n, s[i] # x PROVE \E j \in 1..Len(f[n]) : f[n][j] = s[i]
      <4>1. CASE i = n
        BY <2>3, <3>2, <4>1
      <4>2. CASE i # n
        <5>1. i \in 1..(n - 1)
          BY <1>2, <4>2
        <5>2. PICK j \in 1..Len(g) : g[j] = s[i]
          BY <2>3, <3>3, <5>1
        <5> QED BY <2>3, <3>2, <5>2
      <4> QED BY <4>1, <4>2
    <3> QED BY <1>2, <2>3, <3>2, <3>3
  <2> QED BY <2>4, <2>5
<1> QED BY <1>4, <1>5

\* What is left of a sequence is no longer, and has all members but x.
LEMMA WhatIsLeft ==
  ASSUME NEW A, NEW s \in Seq(A), NEW x
  PROVE  /\ Without(s, x) \in Seq(A) /\ Len(Without(s, x)) <= Len(s)
         /\ \A i \in DOMAIN s :
               s[i] # x => \E j \in DOMAIN Without(s, x) : Without(s, x)[j] = s[i]
<1> DEFINE f == CHOOSE f : LeftOf(f, s, x, Len(s))
<1>1. Len(s) \in Nat /\ DOMAIN s = 1..Len(s)
  OBVIOUS
<1>2. LeftOf(f, s, x, Len(s))
  BY <1>1, LeftOfExists
<1>3. Without(s, x) = f[Len(s)]
  BY WithoutIs
<1> HIDE DEF f
<1>4. /\ f[Len(s)] \in Seq(A) /\ Len(f[Len(s)]) <= Len(s)
      /\ \A i \in 1..Len(s) : s[i] # x => \E j \in 1..Len(f[Len(s)]) : f[Len(s)][j] = s[i]
  <2>1. \A n \in 0..Len(s) :
            /\ f[n] \in Seq(A) /\ Len(f[n]) <= n
            /\ \A i \in 1..n : s[i] # x => \E j \in 1..Len(f[n]) : f[n][j] = s[i]
    BY <1>2, LeftOfType
  <2> QED BY <1>1, <2>1
<1> QED BY <1>1, <1>3, <1>4

-----------------------------------------------------------------------------
(* The channel's document *)

\* Whoever is to be let in is a user; a document that was read and has the same
\* version still has the same members and pins.
Knows(k, d) ==
    /\ k.at \in {"findName", "insertChannel", "readForRename", "roleForRename", "findOther",
                 "rename"} => k.arg \in Names
    /\ k.at \in {"readForJoin", "saveJoin"} => k.who \in Users
    /\ k.at \in {"readForPin", "savePin", "readForUnpin", "saveUnpin"} => k.arg \in Pages
    /\ k.at \in {"saveLeave", "saveUnpin"} =>
          /\ k.doc \in ChannelDocs /\ k.doc.v <= d.v
          /\ k.doc.v = d.v => k.doc.members = d.members /\ k.doc.pins = d.pins

\* Every call that is about to pin has found room.
PinsInv == Len(channel.pins) + Waiting("savePin") <= PinLimit + Cardinality(Calls) - 1

ChannelInv ==
    /\ ChannelsType
    /\ \A c \in Calls : Knows(call[c], channel)
    /\ PinsInv

LEMMA ChannelInvInit == Init => ChannelInv
<1> SUFFICES ASSUME Init PROVE ChannelInv
  OBVIOUS
<1>1. PICK p \in BOOLEAN, pinned \in {0, PinLimit} :
         channel = [private |-> p, archived |-> FALSE, members |-> {Author},
                    pins |-> [i \in 1..pinned |-> CHOOSE m \in Pages : TRUE],
                    posts |-> 0, v |-> 0]
  BY DEF Init, ChannelsInit
<1>2. (CHOOSE m \in Pages : TRUE) \in Pages /\ pinned \in Nat /\ pinned <= PinLimit
      /\ PinLimit \in Nat /\ Author \in Users
  BY ChannelsAssumption, CollabAssumption
<1>3. channel.pins \in Seq(Pages) /\ Len(channel.pins) = pinned
  <2> DEFINE m == CHOOSE m \in Pages : TRUE
             pins == [i \in 1..pinned |-> m]
  <2>1. pins \in [1..pinned -> Pages] /\ channel.pins = pins
    BY <1>1, <1>2
  <2> HIDE DEF pins
  <2>2. pins \in Seq(Pages) /\ Len(pins) = pinned
    BY <1>2, <2>1, SeqDef, LenProperties
  <2> QED BY <2>1, <2>2
<1>4. ChannelsType
  <2>1. channel \in ChannelDocs
    BY <1>1, <1>2, <1>3 DEF ChannelDocs
  <2>2. name \in [Ids -> Names \cup {Nil}]
    BY ChannelsAssumption DEF Init, ChannelsInit
  <2> QED BY <2>1, <2>2 DEF ChannelsType
<1>5. \A c \in Calls : call[c].at = "idle"
  BY DEF Init, Idle, Suspended
<1>6. Waiting("savePin") = 0
  <2>1. {c \in Calls : At(c, "savePin")} = {}
    BY <1>5 DEF At
  <2> QED BY <2>1, FS_EmptySet DEF Waiting
<1>7. PinsInv
  BY <1>2, <1>3, <1>6, SomebodyCalls DEF PinsInv
<1> QED BY <1>4, <1>5, <1>7 DEF ChannelInv, Knows

\* A save counts a version; what does not leaves members and pins as they are.
Moves(d) ==
    \/ d.v = channel.v /\ d.members = channel.members /\ d.pins = channel.pins
    \/ d.v = channel.v + 1

LEMMA ChannelInvStep ==
  ASSUME ChannelInv, CallInv, NEW c \in Calls, NEW k, call' = [call EXCEPT ![c] = k],
         ChannelsType', Moves(channel'), Knows(k, channel'), PinsInv'
  PROVE  ChannelInv'
<1>1. call'[c] = k /\ \A q \in Calls : q # c => call'[q] = call[q]
  BY DEF CallInv
<1>2. channel.v \in Nat /\ channel'.v \in Nat
  BY DEF ChannelInv, ChannelsType, ChannelDocs
<1>3. ASSUME NEW q \in Calls, Knows(call[q], channel) PROVE Knows(call[q], channel')
  <2>1. \A d \in ChannelDocs : d.v \in Nat
    BY DEF ChannelDocs
  <2> QED BY <1>2, <1>3, <2>1 DEF Knows, Moves
<1> QED BY <1>1, <1>3 DEF ChannelInv

LEMMA NoMorePins ==
  ASSUME ChannelInv, CallInv, NEW c \in Calls, NEW k, call' = [call EXCEPT ![c] = k],
         call[c].at # "savePin", k.at # "savePin", ChannelsType',
         Len(channel'.pins) <= Len(channel.pins)
  PROVE  PinsInv'
<1>1. Waiting("savePin")' = Waiting("savePin") /\ Waiting("savePin") \in Nat
  BY WaitingMoves
<1>2. Len(channel'.pins) \in Nat /\ Len(channel.pins) \in Nat
  BY DEF ChannelInv, ChannelsType, ChannelDocs
<1>3. PinsInv /\ PinLimit \in Nat /\ Cardinality(Calls) \in Nat
  BY SomebodyCalls, ChannelsAssumption DEF ChannelInv
<1>4. \A p, q, w, n, m \in Nat : q <= p /\ p + w <= n + m - 1 => q + w <= n + m - 1
  OBVIOUS
<1> QED BY <1>1, <1>2, <1>3, <1>4 DEF PinsInv

\* Call c goes on as k, and the document stays.
LEMMA ChannelInvQuiet ==
  ASSUME ChannelInv, CallInv, NEW c \in Calls, NEW k, call' = [call EXCEPT ![c] = k],
         call[c].at # "savePin", k.at # "savePin", UNCHANGED channel, ChannelsType',
         Knows(k, channel)
  PROVE  ChannelInv'
<1>1. Moves(channel') /\ Len(channel'.pins) <= Len(channel.pins) /\ Knows(k, channel')
  BY DEF Moves, ChannelInv, ChannelsType, ChannelDocs
<1> QED BY <1>1, ChannelInvStep, NoMorePins

\* The steps before the last one of a call read; a call about to pin has found
\* room.
LEMMA ReadsKeepChannel ==
  ASSUME ChannelInv, CallInv, NEW c \in Calls,
         \/ ChannelRequest(c) \/ FindName(c) \/ ReadForChange(c) \/ CheckRole(c) \/ FindOther(c)
         \/ ReadForJoin(c) \/ ReadForUnpin(c)
  PROVE  ChannelInv'
<1>1. PICK k : call' = [call EXCEPT ![c] = k]
  BY ChannelGoes DEF ChannelStep, Goes
<1>2. k = call'[c]
  BY <1>1 DEF CallInv
<1>3. Knows(call[c], channel) /\ channel \in ChannelDocs /\ channel.v \in Nat
  BY DEF ChannelInv, ChannelsType, ChannelDocs
<1> DEFINE Goal == /\ call[c].at # "savePin" /\ k.at # "savePin" /\ UNCHANGED channelVars
                   /\ Knows(k, channel)
<1> SUFFICES Goal
  BY <1>1, ChannelInvQuiet DEF channelVars, ChannelInv, ChannelsType
<1> USE DEF CallInv, Begin, Change, Unless, Onto, With, Suspended, Over, At
<1>4. CASE ChannelRequest(c)
  <2>1. PICK u \in Users :
            \/ \E n \in Names : CreateChannel(c, u, n) \/ RenameChannel(c, u, n)
            \/ ArchiveChannel(c, u) \/ JoinChannel(c, u) \/ LeaveChannel(c, u)
            \/ \E m \in Pages : PinMessage(c, u, m) \/ UnpinMessage(c, u, m)
    BY <1>4 DEF ChannelRequest
  <2>2. CASE \E n \in Names : CreateChannel(c, u, n) \/ RenameChannel(c, u, n)
    BY <1>2, <2>2 DEF CreateChannel, RenameChannel, Rest, Knows
  <2>3. CASE ArchiveChannel(c, u) \/ JoinChannel(c, u)
    BY <1>2, <2>3 DEF ArchiveChannel, JoinChannel, Rest, Knows
  <2>4. CASE LeaveChannel(c, u)
    BY <1>2, <1>3, <2>4 DEF LeaveChannel, Rest, Knows
  <2>5. CASE \E m \in Pages : PinMessage(c, u, m) \/ UnpinMessage(c, u, m)
    BY <1>2, <2>5 DEF PinMessage, UnpinMessage, Rest, Knows
  <2> QED BY <2>1, <2>2, <2>3, <2>4, <2>5
<1>5. CASE FindName(c) \/ FindOther(c)
  BY <1>2, <1>3, <1>5 DEF FindName, FindOther, Rest, Knows
<1>6. CASE ReadForChange(c) \/ CheckRole(c)
  BY <1>2, <1>3, <1>6 DEF ReadForChange, ReadChannel, CheckRole, Rest, Knows
<1>7. CASE ReadForJoin(c)
  BY <1>2, <1>3, <1>7 DEF ReadForJoin, ReadChannel, Rest, Knows
<1>8. CASE ReadForUnpin(c)
  BY <1>2, <1>3, <1>8 DEF ReadForUnpin, ReadChannel, Rest, Knows
<1> QED BY <1>4, <1>5, <1>6, <1>7, <1>8

LEMMA RoomKeepsChannel ==
  ASSUME ChannelInv, CallInv, NEW c \in Calls, ReadForPin(c)
  PROVE  ChannelInv'
<1> DEFINE k == IF ~Pinned(call[c].arg) /\ HasRoom(channel.pins) THEN With(c, "savePin", channel)
                ELSE Over
<1>1. /\ call' = [call EXCEPT ![c] = k] /\ UNCHANGED channelVars
      /\ call[c].at = "readForPin"
  BY DEF ReadForPin, ReadChannel, Unless, Change, Rest, At
<1>2. Knows(k, channel)
  BY <1>1 DEF ChannelInv, Knows, With, Suspended, Over
<1>3. ChannelsType' /\ Moves(channel')
  BY <1>1 DEF ChannelInv, ChannelsType, channelVars, Moves
<1>4. CASE k.at # "savePin"
  <2> HIDE DEF k
  <2> QED BY <1>1, <1>2, <1>3, <1>4, ChannelInvQuiet DEF channelVars
<1>5. CASE k.at = "savePin"
  <2>1. Len(channel.pins) < PinLimit
    BY <1>5 DEF HasRoom, Over, Suspended
  <2>2. Waiting("savePin")' \in Nat /\ Waiting("savePin")' <= Cardinality(Calls)
    <3>1. {q \in Calls : At(q, "savePin")}' \in SUBSET Calls
      OBVIOUS
    <3> QED BY <3>1, CallsAreFinite DEF Waiting
  <2>3. Len(channel.pins) \in Nat /\ PinLimit \in Nat /\ Cardinality(Calls) \in Nat
    BY SomebodyCalls, ChannelsAssumption DEF ChannelInv, ChannelsType, ChannelDocs
  <2>4. \A p, w, n, m \in Nat : p < n /\ w <= m => p + w <= n + m - 1
    OBVIOUS
  <2>5. PinsInv'
    BY <1>1, <2>1, <2>2, <2>3, <2>4 DEF PinsInv, channelVars
  <2> HIDE DEF k
  <2> QED BY <1>1, <1>2, <1>3, <2>5, ChannelInvStep DEF channelVars
<1> QED BY <1>4, <1>5

\* Document d is saved by an answered call that does not pin.
LEMMA SavedChannel ==
  ASSUME ChannelInv, CallInv, NEW c \in Calls, call' = [call EXCEPT ![c] = Over],
         call[c].at # "savePin", ChannelsType', Moves(channel'),
         Len(channel'.pins) <= Len(channel.pins)
  PROVE  ChannelInv'
<1>1. Knows(Over, channel') /\ Over.at # "savePin"
  BY DEF Knows, Over, Suspended
<1>2. PinsInv'
  BY <1>1, NoMorePins
<1> QED BY <1>1, <1>2, ChannelInvStep

LEMMA NameKeepsChannel ==
  ASSUME ChannelInv, CallInv, NEW c \in Calls, InsertChannel(c) \/ Rename(c) \/ Archive(c)
  PROVE  ChannelInv'
<1>1. call' = [call EXCEPT ![c] = Over] /\ call[c].at # "savePin"
  BY DEF InsertChannel, Rename, Archive, Answer, Change, At
<1>2. /\ channel \in ChannelDocs /\ name \in [Ids -> Names \cup {Nil}]
      /\ Knows(call[c], channel) /\ Len(channel.pins) \in Nat
  BY DEF ChannelInv, ChannelsType, ChannelDocs
<1>3. channel' \in ChannelDocs /\ Moves(channel') /\ channel'.pins = channel.pins
  BY <1>2 DEF InsertChannel, Rename, Archive, Moves, ChannelDocs
<1>4. name' \in [Ids -> Names \cup {Nil}]
  BY <1>2 DEF InsertChannel, Rename, Archive, At, Knows
<1>5. ChannelsType' /\ Len(channel'.pins) <= Len(channel.pins)
  BY <1>2, <1>3, <1>4 DEF ChannelsType
<1> QED BY <1>1, <1>3, <1>5, SavedChannel

\* What is stored is the document with other members or other pins.
LEMMA NewMembers ==
  ASSUME ChannelInv, CallInv, NEW c \in Calls, NEW from, NEW ok \in BOOLEAN, from # "savePin",
         NEW M \in SUBSET Users, SaveChannel(c, from, ok, [channel EXCEPT !.members = M])
  PROVE  ChannelInv' /\ channel'.pins = channel.pins
<1> DEFINE d == [channel EXCEPT !.members = M]
           e == [d EXCEPT !.v = channel.v + 1]
<1>1. /\ channel \in ChannelDocs /\ channel.v \in Nat /\ Len(channel.pins) \in Nat
      /\ name \in [Ids -> Names \cup {Nil}]
  BY DEF ChannelInv, ChannelsType, ChannelDocs
<1>2. d \in ChannelDocs /\ d.pins = channel.pins
  BY <1>1 DEF ChannelDocs
<1>3. e \in ChannelDocs /\ e.pins = channel.pins /\ e.v = channel.v + 1
  <2> HIDE DEF d
  <2> QED BY <1>1, <1>2 DEF ChannelDocs
<1>4. /\ channel' = IF ok THEN e ELSE channel
      /\ call' = [call EXCEPT ![c] = Over] /\ call[c].at # "savePin" /\ name' = name
  BY DEF SaveChannel, Answer, Change, At
<1> HIDE DEF e
<1>5. /\ ChannelsType' /\ Moves(channel') /\ channel'.pins = channel.pins
      /\ Len(channel'.pins) <= Len(channel.pins)
  BY <1>1, <1>3, <1>4 DEF ChannelsType, Moves
<1> QED BY <1>4, <1>5, SavedChannel

LEMMA NewPins ==
  ASSUME ChannelInv, NEW c \in Calls, NEW from, NEW ok \in BOOLEAN,
         NEW P \in Seq(Pages), SaveChannel(c, from, ok, [channel EXCEPT !.pins = P])
  PROVE  /\ ChannelsType' /\ Moves(channel') /\ channel'.members = channel.members
         /\ channel'.pins = IF ok THEN P ELSE channel.pins
         /\ call' = [call EXCEPT ![c] = Over] /\ call[c].at = from
<1> DEFINE d == [channel EXCEPT !.pins = P]
           e == [d EXCEPT !.v = channel.v + 1]
<1>1. /\ channel \in ChannelDocs /\ channel.v \in Nat
      /\ name \in [Ids -> Names \cup {Nil}]
  BY DEF ChannelInv, ChannelsType, ChannelDocs
<1>2. d \in ChannelDocs /\ d.pins = P /\ d.members = channel.members
  BY <1>1 DEF ChannelDocs
<1>3. e \in ChannelDocs /\ e.pins = P /\ e.members = channel.members /\ e.v = channel.v + 1
  <2> HIDE DEF d
  <2> QED BY <1>1, <1>2 DEF ChannelDocs
<1>4. /\ channel' = IF ok THEN e ELSE channel
      /\ call' = [call EXCEPT ![c] = Over] /\ call[c].at = from /\ name' = name
  BY DEF SaveChannel, Answer, Change, At
<1> HIDE DEF e
<1> QED BY <1>1, <1>3, <1>4 DEF ChannelsType, Moves

LEMMA MembersKeepChannel ==
  ASSUME ChannelInv, CallInv, NEW c \in Calls, SaveJoin(c) \/ SaveLeave(c)
  PROVE  ChannelInv' /\ channel'.pins = channel.pins
<1>1. channel \in ChannelDocs /\ channel.members \in SUBSET Users /\ Knows(call[c], channel)
  BY DEF ChannelInv, ChannelsType, ChannelDocs
<1>2. CASE SaveJoin(c)
  <2> DEFINE M == channel.members \cup {call[c].who}
  <2>1. M \in SUBSET Users
    BY <1>1, <1>2 DEF SaveJoin, SaveChannel, At, Knows
  <2>2. SaveChannel(c, "saveJoin", TRUE, [channel EXCEPT !.members = M])
    BY <1>1, <1>2 DEF SaveJoin, ChannelDocs
  <2> HIDE DEF M
  <2> QED BY <2>1, <2>2, NewMembers
<1>3. CASE SaveLeave(c)
  <2> DEFINE M == call[c].doc.members \ {call[c].who}
  <2>1. M \in SUBSET Users
    BY <1>1, <1>3 DEF SaveLeave, SaveChannel, At, Knows, ChannelDocs
  <2>2. SaveChannel(c, "saveLeave", Fresh(call[c].doc, channel), [channel EXCEPT !.members = M])
    BY <1>3 DEF SaveLeave
  <2> HIDE DEF M
  <2> QED BY <2>1, <2>2, NewMembers DEF Fresh
<1> QED BY <1>2, <1>3

LEMMA PinKeepsChannel ==
  ASSUME ChannelInv, CallInv, NEW c \in Calls, SavePin(c)
  PROVE  /\ ChannelInv' /\ channel'.members = channel.members
         /\ channel'.pins = Append(channel.pins, call[c].arg)
<1> DEFINE P == Append(channel.pins, call[c].arg)
<1>1. channel \in ChannelDocs /\ channel.pins \in Seq(Pages) /\ Knows(call[c], channel)
  BY DEF ChannelInv, ChannelsType, ChannelDocs
<1>2. SaveChannel(c, "savePin", TRUE, [channel EXCEPT !.pins = P])
  BY <1>1 DEF SavePin, ChannelDocs
<1>3. P \in Seq(Pages) /\ Len(P) = Len(channel.pins) + 1 /\ Len(channel.pins) \in Nat
  <2>1. call[c].arg \in Pages
    BY <1>1, <1>2 DEF SaveChannel, At, Knows
  <2> QED BY <1>1, <2>1
<1> HIDE DEF P
<1>4. /\ ChannelsType' /\ Moves(channel') /\ channel'.members = channel.members
      /\ channel'.pins = P /\ call' = [call EXCEPT ![c] = Over] /\ call[c].at = "savePin"
  BY <1>2, <1>3, NewPins
<1>5. Knows(Over, channel') /\ Over.at # "savePin"
  BY DEF Knows, Over, Suspended
<1>6. PinsInv'
  <2>1. Waiting("savePin")' = Waiting("savePin") - 1 /\ Waiting("savePin") \in Nat
    BY <1>4, <1>5, WaitingMoves
  <2>2. PinsInv /\ PinLimit \in Nat /\ Cardinality(Calls) \in Nat
    BY SomebodyCalls, ChannelsAssumption DEF ChannelInv
  <2>3. \A p, w, n, m \in Nat : p + w <= n + m - 1 => (p + 1) + (w - 1) <= n + m - 1
    OBVIOUS
  <2> QED BY <1>3, <1>4, <2>1, <2>2, <2>3 DEF PinsInv
<1> QED BY <1>4, <1>5, <1>6, ChannelInvStep DEF P

LEMMA UnpinKeepsChannel ==
  ASSUME ChannelInv, CallInv, NEW c \in Calls, SaveUnpin(c)
  PROVE  /\ ChannelInv' /\ channel'.members = channel.members
         /\ channel'.pins \in {channel.pins, Without(channel.pins, call[c].arg)}
<1> DEFINE d == call[c].doc
           P == Without(d.pins, call[c].arg)
<1>1. channel \in ChannelDocs /\ channel.pins \in Seq(Pages) /\ Knows(call[c], channel)
  BY DEF ChannelInv, ChannelsType, ChannelDocs
<1>2. SaveChannel(c, "saveUnpin", Fresh(d, channel), [channel EXCEPT !.pins = P])
  BY DEF SaveUnpin
<1>3. d.pins \in Seq(Pages) /\ (Fresh(d, channel) => d.pins = channel.pins)
  BY <1>1, <1>2 DEF SaveChannel, At, Knows, Fresh, ChannelDocs
<1>4. P \in Seq(Pages) /\ Len(P) <= Len(d.pins)
  BY <1>3, WhatIsLeft
<1> HIDE DEF P
<1>5. /\ ChannelsType' /\ Moves(channel') /\ channel'.members = channel.members
      /\ channel'.pins = (IF Fresh(d, channel) THEN P ELSE channel.pins)
      /\ call' = [call EXCEPT ![c] = Over] /\ call[c].at = "saveUnpin"
  BY <1>2, <1>4, NewPins DEF Fresh
<1>6. channel'.pins \in {channel.pins, Without(channel.pins, call[c].arg)}
  BY <1>3, <1>5 DEF P
<1>7. Len(channel'.pins) <= Len(channel.pins)
  <2>1. Len(channel.pins) \in Nat
    BY <1>1
  <2> QED BY <1>3, <1>4, <1>5, <2>1
<1> QED BY <1>5, <1>6, <1>7, SavedChannel

LEMMA MessageKeepsChannel ==
  ASSUME ChannelInv, CallInv, NEW c \in Calls, MessageStep(c)
  PROVE  ChannelInv' /\ channel'.members = channel.members /\ channel'.pins = channel.pins
<1>1. PICK k : call' = [call EXCEPT ![c] = k] /\ k.at \in MessageSteps
               /\ call[c].at \in MessageSteps \cup {"idle"}
  BY MessageGoes DEF Goes
<1>2. /\ call[c].at # "savePin" /\ k.at # "savePin"
      /\ \A d : Knows(k, d)
  BY <1>1 DEF MessageSteps, Knows
<1>3. channel \in ChannelDocs /\ name' = name /\ name \in [Ids -> Names \cup {Nil}]
  BY MessageKeepsNames DEF ChannelInv, ChannelsType
<1>4. /\ channel' \in ChannelDocs /\ Moves(channel')
      /\ channel'.members = channel.members /\ channel'.pins = channel.pins
  <2>1. CASE BumpChannel(c)
    BY <1>3, <2>1 DEF BumpChannel, ChannelDocs, Moves
  <2>2. CASE ~BumpChannel(c)
    <3>1. UNCHANGED channel
      BY <2>2 DEF MessageStep, MessageRequest, SendMessage, EditMessage, DeleteMessage, BeginOn,
             FindChannel, CreateMessage, BumpThread, NotifyMentioned, SaveEdit,
             RoleForDelete, SaveDelete, ReadToReact, SaveReact, ReadToUnreact, SaveUnreact,
             ReadToMark, SaveMark, Unmark, ReadMessage, SaveMessage, Quiet, OnlyMessage,
             channelVars
    <3> QED BY <1>3, <3>1 DEF Moves
  <2> QED BY <2>1, <2>2
<1>5. ChannelsType' /\ Len(channel'.pins) <= Len(channel.pins)
  <2>1. Len(channel.pins) \in Nat
    BY <1>3 DEF ChannelDocs
  <2> QED BY <1>3, <1>4, <2>1 DEF ChannelsType
<1>6. PinsInv'
  BY <1>1, <1>2, <1>5, NoMorePins
<1> QED BY <1>1, <1>2, <1>4, <1>5, <1>6, ChannelInvStep

LEMMA DmKeepsChannel ==
  ASSUME NEW c \in Calls, DmStep(c)
  PROVE  UNCHANGED channelVars
  BY DEF DmStep, DmRequest, StartDM, SendDM, CloseDM, CheckOther, FindDm, CreateDm, Reopen,
         ReadDm, CreateDmMessage, UpdateDm, NotifyOther, SaveClose, Silent, channelVars

LEMMA ChannelStepKeepsChannel ==
  ASSUME ChannelInv, CallInv, NEW c \in Calls, ChannelStep(c)
  PROVE  ChannelInv'
  BY ReadsKeepChannel, RoomKeepsChannel, NameKeepsChannel, MembersKeepChannel, PinKeepsChannel,
     UnpinKeepsChannel DEF ChannelStep

LEMMA ChannelInvNext == ChannelInv /\ CallInv /\ [Next]_vars => ChannelInv'
<1> SUFFICES ASSUME ChannelInv, CallInv, [Next]_vars PROVE ChannelInv'
  OBVIOUS
<1>1. ASSUME NEW c \in Calls, UNCHANGED channelVars,
             Goes(c, WorkspaceSteps) \/ Goes(c, DmSteps)
      PROVE  ChannelInv'
  <2>1. PICK k : /\ call' = [call EXCEPT ![c] = k]
                 /\ k.at \in WorkspaceSteps \cup DmSteps
                 /\ call[c].at \in WorkspaceSteps \cup DmSteps \cup {"idle"}
    BY <1>1 DEF Goes
  <2>2. k.at # "savePin" /\ call[c].at # "savePin" /\ Knows(k, channel)
    BY <2>1 DEF WorkspaceSteps, DmSteps, Nexts, Knows
  <2>3. ChannelsType' /\ UNCHANGED channel
    BY <1>1 DEF ChannelInv, ChannelsType, channelVars
  <2> QED BY <2>1, <2>2, <2>3, ChannelInvQuiet
<1>2. ASSUME NEW c \in Calls, WorkspaceStep(c) /\ OnWorkspace PROVE ChannelInv'
  BY <1>1, <1>2, WorkspaceGoes DEF OnWorkspace
<1>3. ASSUME NEW c \in Calls, DmStep(c) PROVE ChannelInv'
  BY <1>1, <1>3, DmGoes, DmKeepsChannel
<1>4. ASSUME UNCHANGED <<call, channelVars>> PROVE ChannelInv'
  <2>1. Waiting("savePin")' = Waiting("savePin")
    BY <1>4, WaitingStutter
  <2>2. PinsInv'
    BY <1>4, <2>1 DEF ChannelInv, PinsInv, channelVars
  <2> QED BY <1>4, <2>2 DEF ChannelInv, ChannelsType, Knows, channelVars
<1>5. CASE (ExpireCached /\ OnWorkspace) \/ InboxStep \/ UNCHANGED vars
  BY <1>4, <1>5 DEF ExpireCached, OnWorkspace, InboxStep, MarkAsRead, DeleteNotification, vars
<1> QED BY <1>2, <1>3, <1>5, ChannelStepKeepsChannel, MessageKeepsChannel DEF Next

\* The steps that change the members or the pins.
LEMMA ChannelChanges ==
  ASSUME ChannelInv, CallInv, [Next]_vars
  PROVE  \/ channel'.members = channel.members /\ channel'.pins = channel.pins
         \/ \E c \in Calls : SaveJoin(c) \/ SaveLeave(c) \/ SavePin(c) \/ SaveUnpin(c)
<1> DEFINE Stay == channel'.members = channel.members /\ channel'.pins = channel.pins
<1>1. ASSUME NEW c \in Calls, ChannelStep(c)
      PROVE  Stay \/ SaveJoin(c) \/ SaveLeave(c) \/ SavePin(c) \/ SaveUnpin(c)
  <2>1. CASE Archive(c)
    <3>1. channel \in ChannelDocs
      BY DEF ChannelInv, ChannelsType
    <3> QED BY <2>1, <3>1 DEF Archive, ChannelDocs
  <2>2. CASE InsertChannel(c) \/ Rename(c)
    BY <2>2 DEF InsertChannel, Rename
  <2>3. CASE \/ ChannelRequest(c) \/ FindName(c) \/ ReadForChange(c) \/ CheckRole(c)
             \/ FindOther(c) \/ ReadForJoin(c) \/ ReadForUnpin(c) \/ ReadForPin(c)
    BY <2>3 DEF ChannelRequest, CreateChannel, RenameChannel, ArchiveChannel, JoinChannel,
           LeaveChannel, PinMessage, UnpinMessage, FindName, ReadForChange, CheckRole, FindOther,
           ReadForJoin, ReadForUnpin, ReadForPin, ReadChannel, Rest, channelVars
  <2> QED BY <1>1, <2>1, <2>2, <2>3 DEF ChannelStep
<1>2. CASE (\E c \in Calls : WorkspaceStep(c) /\ OnWorkspace) \/ (ExpireCached /\ OnWorkspace)
           \/ InboxStep \/ UNCHANGED vars
  BY <1>2 DEF OnWorkspace, InboxStep, MarkAsRead, DeleteNotification, channelVars, vars
<1>3. ASSUME NEW c \in Calls, DmStep(c) PROVE Stay
  BY <1>3, DmKeepsChannel DEF channelVars
<1> QED BY <1>1, <1>2, <1>3, MessageKeepsChannel DEF Next

LEMMA MembersStay ==
  ASSUME ChannelInv, CallInv, [Next]_vars, NEW u \in channel.members \ channel'.members
  PROVE  Saving("saveLeave", u)
<1>1. PICK c \in Calls : SaveJoin(c) \/ SaveLeave(c) \/ SavePin(c) \/ SaveUnpin(c)
  BY ChannelChanges
<1>2. channel \in ChannelDocs /\ Knows(call[c], channel)
  BY DEF ChannelInv, ChannelsType
<1>3. ~SavePin(c) /\ ~SaveUnpin(c)
  BY PinKeepsChannel, UnpinKeepsChannel
<1>4. ~SaveJoin(c)
  BY <1>2 DEF SaveJoin, SaveChannel, ChannelDocs
<1>5. SaveLeave(c) /\ At(c, "saveLeave")
  BY <1>1, <1>3, <1>4 DEF SaveLeave, SaveChannel
<1>6. Fresh(call[c].doc, channel)
  BY <1>5 DEF SaveLeave, SaveChannel
<1>7. call[c].doc.members = channel.members
  BY <1>2, <1>5, <1>6 DEF Knows, At, Fresh
<1>8. channel'.members = channel.members \ {call[c].who}
  BY <1>2, <1>5, <1>6, <1>7 DEF SaveLeave, SaveChannel, ChannelDocs
<1> QED BY <1>5, <1>8 DEF Saving

LEMMA PinsStay ==
  ASSUME ChannelInv, CallInv, [Next]_vars, NEW m \in Pins, m \notin Pins'
  PROVE  \E c \in Calls : At(c, "saveUnpin") /\ call[c].arg = m
<1>1. PICK i \in DOMAIN channel.pins : channel.pins[i] = m
  BY DEF Pins
<1>2. ~ \E j \in DOMAIN channel'.pins : channel'.pins[j] = m
  BY DEF Pins
<1>3. channel'.pins # channel.pins /\ channel.pins \in Seq(Pages)
  BY <1>1, <1>2 DEF ChannelInv, ChannelsType, ChannelDocs
<1>4. PICK c \in Calls : SaveJoin(c) \/ SaveLeave(c) \/ SavePin(c) \/ SaveUnpin(c)
  BY <1>3, ChannelChanges
<1>5. ~SavePin(c)
  <2> DEFINE P == Append(channel.pins, call[c].arg)
  <2>1. i \in DOMAIN P /\ P[i] = m
    BY <1>1, <1>3
  <2> HIDE DEF P
  <2>2. channel'.pins # P
    BY <1>2, <2>1
  <2> QED BY <2>2, PinKeepsChannel DEF P
<1>6. SaveUnpin(c)
  BY <1>3, <1>4, <1>5, MembersKeepChannel
<1>7. channel'.pins = Without(channel.pins, call[c].arg)
  BY <1>3, <1>6, UnpinKeepsChannel
<1>8. At(c, "saveUnpin")
  BY <1>6 DEF SaveUnpin, SaveChannel
<1>9. call[c].arg = m
  BY <1>1, <1>2, <1>3, <1>7, WhatIsLeft
<1> QED BY <1>8, <1>9

(* A save of the channel or of the message over an older document takes    *)
(* nothing back that another call did since: members go by leaving, pins   *)
(* by being unpinned, reactions by their users' removal, and a deleted     *)
(* message stays deleted (channel.service.js and message.service.js).      *)
THEOREM ChangesAreKept == Spec => ChangesKept
<1>1. ChannelInv /\ CallInv /\ [Next]_vars =>
         [/\ \A u \in channel.members \ channel'.members : Saving("saveLeave", u)
          /\ \A m \in Pins \ Pins' : \E c \in Calls : At(c, "saveUnpin") /\ call[c].arg = m]_vars
  BY MembersStay, PinsStay
<1>2. MessageInv /\ [Next]_vars =>
         [\A u \in ReactedBy(message) \ ReactedBy(message') :
             Saving("saveUnreact", u) \/ Len(message.reactions) > 1]_vars
  BY ReactionsStay
<1>3. MessageInv /\ [Next]_vars =>
         [message.gone => /\ message'.gone
                          /\ message'.text \in {message.text, Removed} \cup BegunBefore]_vars
  BY StaysDeleted
<1> QED
  BY <1>1, <1>2, <1>3, CallInvInit, CallInvNext, ChannelInvInit, ChannelInvNext, MessageInvInit,
     MessageInvNext, PTL
     DEF Spec, ChangesKept, OthersKept, ReactionsKept, DeletedStaysDeleted

-----------------------------------------------------------------------------
(* Closed conversations *)

\* A conversation that a call has read: a message may have brought it back for
\* somebody since, which does not count a version; nobody closed it.  A call that
\* has found none to be there has begun when there was none.
Pending(k, D) ==
    /\ k.at = "reopen" =>
          /\ k.arg \in Ids /\ D[k.arg] \in Conversations /\ k.doc \in Conversations
          /\ k.doc.v <= D[k.arg].v
          /\ k.doc.v = D[k.arg].v => D[k.arg].closed \subseteq k.doc.closed
    /\ k.at \in {"readDm", "createDmMessage", "updateDm", "saveClose"} =>
          k.arg \in Ids /\ D[k.arg] \in Conversations /\ k.who \in Pair
    /\ k.at \in {"checkOther", "findDm"} /\ k.doc.there => \E i \in Ids : D[i] # Nil
    /\ k.at = "createDm" => ~k.doc.there

DmInv ==
    /\ DirectMessagesType
    /\ \A i \in Ids : dms[i] = Nil => hidden[i] = {}
    /\ \A c \in Calls : call[c].at # "done" => dms[c] = Nil
    /\ \A c \in Calls : Pending(call[c], dms)
    /\ HiddenByChoice

LEMMA DmInvInit == Init => DmInv
<1> SUFFICES ASSUME Init PROVE DmInv
  OBVIOUS
<1>1. PICK there \in BOOLEAN :
          dms = [i \in Ids |-> IF there /\ i = Before THEN [closed |-> {}, v |-> 0] ELSE Nil]
  BY DEF Init, DirectMessagesInit
<1>2. [closed |-> {}, v |-> 0] \in Conversations
  BY DEF Conversations
<1>3. \A i \in Ids : hidden[i] = {} /\ dms[i] # Nil => dms[i].closed = {}
  BY <1>1 DEF Init, DirectMessagesInit
<1>4. /\ hidden = [i \in Ids |-> {}] /\ overwritten = FALSE
      /\ \A c \in Calls : call[c].at = "idle"
  BY DEF Init, DirectMessagesInit, Idle, Suspended
<1>5. \A c \in Calls : dms[c] = Nil
  BY <1>1, CollabAssumption DEF Ids
<1> QED BY <1>1, <1>2, <1>3, <1>4, <1>5
    DEF DmInv, DirectMessagesType, Pending, HiddenByChoice, Existing

\* From one version of conversation i to a later one, or to one that fewer
\* have closed.
Follows(d, old) ==
    /\ d \in Conversations
    /\ old # Nil => \/ d.v = old.v + 1
                    \/ d.v = old.v /\ d.closed \subseteq old.closed

LEMMA PendingKept ==
  ASSUME DmInv, NEW i \in Ids, NEW d, Follows(d, dms[i]), NEW k, Pending(k, dms)
  PROVE  Pending(k, [dms EXCEPT ![i] = d])
<1> DEFINE D == [dms EXCEPT ![i] = d]
<1>1. \A j \in Ids : D[j] = IF j = i THEN d ELSE dms[j]
  BY DEF DmInv, DirectMessagesType
<1>2. \A j \in Ids : dms[j] \in Conversations => D[j] \in Conversations
  BY <1>1 DEF Follows
<1>3. ASSUME k.at = "reopen" PROVE Pending(k, D)
  <2>1. /\ k.arg \in Ids /\ dms[k.arg] \in Conversations /\ k.doc \in Conversations
        /\ k.doc.v <= dms[k.arg].v
        /\ k.doc.v = dms[k.arg].v => dms[k.arg].closed \subseteq k.doc.closed
    BY <1>3 DEF Pending
  <2>2. D[k.arg] \in Conversations
    BY <1>2, <2>1
  <2>3. dms[k.arg].v \in Nat /\ D[k.arg].v \in Nat /\ k.doc.v \in Nat
    BY <2>1, <2>2 DEF Conversations
  <2>4. \/ D[k.arg] = dms[k.arg]
        \/ D[k.arg].v = dms[k.arg].v + 1
        \/ D[k.arg].v = dms[k.arg].v /\ D[k.arg].closed \subseteq dms[k.arg].closed
    BY <1>1, <2>1, ConversationsAssumption DEF Follows
  <2> HIDE DEF D
  <2> QED BY <1>3, <2>1, <2>2, <2>3, <2>4 DEF Pending
<1>4. ASSUME k.at # "reopen" PROVE Pending(k, D)
  <2>1. (\E j \in Ids : dms[j] # Nil) => \E j \in Ids : D[j] # Nil
    BY <1>1, ConversationsAssumption DEF Follows
  <2> HIDE DEF D
  <2> QED BY <1>2, <1>4, <2>1 DEF Pending
<1> QED BY <1>3, <1>4

\* Call c goes on as k, and no conversation changes.
LEMMA DmInvQuiet ==
  ASSUME DmInv, CallInv, NEW c \in Calls, NEW k, call' = [call EXCEPT ![c] = k],
         call[c].at # "done", Pending(k, dms), UNCHANGED <<dms, hidden>>,
         overwritten' \in BOOLEAN, overwritten => overwritten'
  PROVE  DmInv'
<1>1. call'[c] = k /\ \A q \in Calls : q # c => call'[q] = call[q]
  BY DEF CallInv
<1>2. \A q \in Calls : Pending(call'[q], dms) /\ (call'[q].at # "done" => dms[q] = Nil)
  BY <1>1 DEF DmInv, DirectMessagesType
<1>3. HiddenByChoice'
  BY DEF DmInv, DirectMessagesType, HiddenByChoice, Existing
<1> QED BY <1>2, <1>3 DEF DmInv, DirectMessagesType

\* Call c is done or goes on, and conversation i is d, closed by the users S.
LEMMA DmInvWrite ==
  ASSUME DmInv, CallInv, NEW c \in Calls, NEW k, call' = [call EXCEPT ![c] = k],
         call[c].at # "done", NEW i \in Ids, NEW d, NEW S \in SUBSET Pair,
         i = c => k.at = "done",
         dms[i] # Nil \/ i = c,
         dms' = [dms EXCEPT ![i] = d], hidden' = [hidden EXCEPT ![i] = S],
         Follows(d, dms[i]), Pending(k, dms'),
         overwritten' \in BOOLEAN, overwritten => overwritten',
         ~overwritten' => d.closed = S
  PROVE  DmInv'
<1>1. call'[c] = k /\ \A q \in Calls : q # c => call'[q] = call[q]
  BY DEF CallInv
<1>2. \A q \in Calls : Pending(call'[q], dms')
  BY <1>1, PendingKept DEF DmInv, DirectMessagesType
<1>3. d \in Conversations /\ d # Nil
  BY ConversationsAssumption DEF Follows
<1>4. /\ dms' \in [Ids -> Conversations \cup {Nil}]
      /\ hidden' \in [Ids -> SUBSET Pair]
      /\ \A j \in Ids : j # i => dms'[j] = dms[j] /\ hidden'[j] = hidden[j]
      /\ dms'[i] = d /\ hidden'[i] = S
  BY <1>3 DEF DmInv, DirectMessagesType
<1>5. \A q \in Calls : call'[q].at # "done" => dms'[q] = Nil
  BY <1>1, <1>4 DEF DmInv, DirectMessagesType
<1>6. HiddenByChoice'
  BY <1>4 DEF DmInv, DirectMessagesType, HiddenByChoice, Existing
<1>7. \A j \in Ids : dms'[j] = Nil => hidden'[j] = {}
  BY <1>3, <1>4 DEF DmInv, DirectMessagesType
<1> QED BY <1>2, <1>4, <1>5, <1>6, <1>7 DEF DmInv, DirectMessagesType

LEMMA OthersKeepDms ==
  ASSUME DmInv, CallInv, NEW c \in Calls, UNCHANGED dmVars,
         Goes(c, WorkspaceSteps) \/ Goes(c, ChannelSteps) \/ Goes(c, MessageSteps)
  PROVE  DmInv'
<1>1. PICK k : /\ call' = [call EXCEPT ![c] = k] /\ call[c].at # "done"
               /\ k.at \in WorkspaceSteps \cup ChannelSteps \cup MessageSteps
  BY DEF Goes
<1>2. Pending(k, dms) /\ overwritten \in BOOLEAN
  BY <1>1 DEF Pending, WorkspaceSteps, ChannelSteps, MessageSteps, Nexts, DmInv,
         DirectMessagesType
<1> QED BY <1>1, <1>2, DmInvQuiet DEF dmVars

LEMMA QuietDmSteps ==
  ASSUME DmInv, CallInv, NEW c \in Calls,
         \/ DmRequest(c) \/ CheckOther(c) \/ FindDm(c) \/ ReadDm(c) \/ CreateDmMessage(c)
         \/ NotifyOther(c)
  PROVE  DmInv'
<1> USE DEF Change, Proceed, Answer, Unless, Onto, With, Suspended, Over, At
<1>1. /\ UNCHANGED dmVars
      /\ \E k : call' = [call EXCEPT ![c] = k]
      /\ call[c].at # "done"
  BY DEF DmRequest, StartDM, SendDM, CloseDM, Begin, CheckOther, FindDm, ReadDm,
         CreateDmMessage, NotifyOther, Silent
<1>2. \E k : call' = [call EXCEPT ![c] = k] /\ Pending(k, dms)
  <2>1. CASE DmRequest(c)
    <3>1. PICK u \in Pair : StartDM(c, u) \/ \E i \in Ids : SendDM(c, u, i) \/ CloseDM(c, u, i)
      BY <2>1 DEF DmRequest
    <3>2. CASE StartDM(c, u)
      <4> DEFINE there == Existing # {}
                 k == Suspended("checkOther", "done", u, Nil, [there |-> there])
      <4>1. Pending(k, dms)
        <5>1. there => \E i \in Ids : dms[i] # Nil
          BY DEF Existing
        <5> HIDE DEF there
        <5> QED BY <5>1 DEF Pending
      <4>2. call' = [call EXCEPT ![c] = k]
        BY <3>2 DEF StartDM, Begin
      <4> QED BY <4>1, <4>2
    <3>3. ASSUME NEW i \in Ids, SendDM(c, u, i) \/ CloseDM(c, u, i)
          PROVE  \E k : call' = [call EXCEPT ![c] = k] /\ Pending(k, dms)
      <4>1. dms[i] \in Conversations
        BY <3>3 DEF SendDM, CloseDM, DmInv, DirectMessagesType
      <4> QED BY <3>3, <4>1 DEF SendDM, CloseDM, Begin, Pending
    <3> QED BY <3>1, <3>2, <3>3
  <2>2. CASE CheckOther(c) \/ NotifyOther(c)
    <3>1. Pending(Over, dms) /\ (At(c, "checkOther") => Pending(Onto(c, "findDm"), dms))
      BY DEF Pending, DmInv
    <3>2. \/ At(c, "checkOther") /\ call' = [call EXCEPT ![c] = Onto(c, "findDm")]
          \/ call' = [call EXCEPT ![c] = Over]
      BY <2>2 DEF CheckOther, NotifyOther
    <3> QED BY <3>1, <3>2
  <2>3. CASE FindDm(c)
    <3>1. CASE Proceed(c, "createDm") /\ \A i \in Ids : ~Matches(i, call[c].who)
      <4>1. Pending(Onto(c, "createDm"), dms)
        <5>1. ~call[c].doc.there
          BY <2>3, <3>1 DEF FindDm, Matches, DmInv, Pending
        <5> QED BY <5>1 DEF Pending
      <4>2. call' = [call EXCEPT ![c] = Onto(c, "createDm")]
        BY <3>1
      <4> QED BY <4>1, <4>2
    <3>2. ASSUME NEW i \in Ids, Matches(i, call[c].who),
                 Unless(c, call[c].who \in dms[i].closed,
                        Suspended("reopen", "done", call[c].who, i, dms[i]))
          PROVE  \E k : call' = [call EXCEPT ![c] = k] /\ Pending(k, dms)
      <4>1. dms[i] \in Conversations /\ dms[i].v \in Nat
        BY <3>2 DEF Matches, DmInv, DirectMessagesType, Conversations
      <4>2. Pending(Suspended("reopen", "done", call[c].who, i, dms[i]), dms) /\ Pending(Over, dms)
        BY <4>1 DEF Pending
      <4> QED BY <3>2, <4>2
    <3> QED BY <2>3, <3>1, <3>2 DEF FindDm
  <2>4. CASE ReadDm(c) \/ CreateDmMessage(c)
    <3>1. Pending(call[c], dms)
      BY DEF DmInv, DirectMessagesType
    <3>2. /\ call[c].at \in {"readDm", "createDmMessage"}
          /\ \E step \in {"createDmMessage", "updateDm"} :
                call' = [call EXCEPT ![c] = Onto(c, step)]
      BY <2>4 DEF ReadDm, CreateDmMessage
    <3>3. \A step \in {"createDmMessage", "updateDm"} : Pending(Onto(c, step), dms)
      BY <3>1, <3>2 DEF Pending
    <3> QED BY <3>2, <3>3
  <2> QED BY <2>1, <2>2, <2>3, <2>4
<1>3. overwritten \in BOOLEAN
  BY DEF DmInv, DirectMessagesType
<1> QED BY <1>1, <1>2, <1>3, DmInvQuiet DEF dmVars

LEMMA CreateKeepsDms ==
  ASSUME DmInv, CallInv, NEW c \in Calls, CreateDm(c)
  PROVE  DmInv'
<1> DEFINE d == [closed |-> {}, v |-> 0]
<1>1. /\ dms[c] = Nil /\ hidden[c] = {} /\ c \in Ids /\ call[c].at # "done"
      /\ hidden = [hidden EXCEPT ![c] = {}]
  BY DEF CreateDm, At, DmInv, DirectMessagesType, Ids
<1>2. /\ dms' = [dms EXCEPT ![c] = d] /\ UNCHANGED <<hidden, overwritten>>
      /\ call' = [call EXCEPT ![c] = Over] /\ overwritten \in BOOLEAN
  BY DEF CreateDm, Answer, Change, DmInv, DirectMessagesType
<1>3. Follows(d, dms[c]) /\ Pending(Over, dms') /\ Over.at = "done"
  BY <1>1 DEF Follows, Conversations, Pending, Over, Suspended
<1>4. d.closed = {}
  OBVIOUS
<1> HIDE DEF d
<1> QED BY <1>1, <1>2, <1>3, <1>4, DmInvWrite

LEMMA ReopenKeepsDms ==
  ASSUME DmInv, CallInv, NEW c \in Calls, Reopen(c)
  PROVE  DmInv'
<1> DEFINE d == call[c].doc
           i == call[c].arg
           left == d.closed \ {call[c].who}
           new == [closed |-> left, v |-> dms[i].v + 1]
<1>1. /\ i \in Ids /\ dms[i] \in Conversations /\ d \in Conversations
      /\ d.v = dms[i].v => dms[i].closed \subseteq d.closed
      /\ call[c].at = "reopen" /\ dms[c] = Nil /\ dms[i] # Nil
  BY ConversationsAssumption DEF Reopen, At, DmInv, DirectMessagesType, Pending
<1>2. call' = [call EXCEPT ![c] = Over] /\ Over.at = "done" /\ \A D : Pending(Over, D)
  BY DEF Reopen, Answer, Change, Over, Suspended, Pending
<1>3. CASE ~Fresh(d, dms[i])
  <2>1. UNCHANGED <<dms, hidden>> /\ (overwritten => overwritten')
    BY <1>3 DEF Reopen
  <2>2. overwritten' \in BOOLEAN
    BY DEF Reopen, DmInv, DirectMessagesType
  <2> QED BY <1>1, <1>2, <2>1, <2>2, DmInvQuiet
<1>4. CASE Fresh(d, dms[i])
  <2>1. /\ dms' = [dms EXCEPT ![i] = new]
        /\ hidden' = [hidden EXCEPT ![i] = hidden[i] \ {call[c].who}]
        /\ overwritten' = (overwritten \/ ~(left \subseteq dms[i].closed))
    BY <1>1, <1>4 DEF Reopen
  <2>2. Follows(new, dms[i]) /\ new.closed = left
    BY <1>1 DEF Follows, Conversations
  <2>3. /\ overwritten => overwritten'
        /\ overwritten' \in BOOLEAN /\ hidden[i] \ {call[c].who} \in SUBSET Pair
    BY <1>1, <2>1 DEF DmInv, DirectMessagesType
  <2>4. ASSUME ~overwritten' PROVE left = hidden[i] \ {call[c].who}
    <3>1. dms[i].closed = hidden[i] /\ left \subseteq dms[i].closed
      BY <1>1, <2>1, <2>4 DEF DmInv, DirectMessagesType, HiddenByChoice, Existing
    <3>2. dms[i].closed \subseteq d.closed
      BY <1>1, <1>4 DEF Fresh
    <3> QED BY <3>1, <3>2
  <2> HIDE DEF new, left
  <2> QED BY <1>1, <1>2, <2>1, <2>2, <2>3, <2>4, DmInvWrite
<1> QED BY <1>3, <1>4

LEMMA UpdateKeepsDms ==
  ASSUME DmInv, CallInv, NEW c \in Calls, UpdateDm(c)
  PROVE  DmInv'
<1> DEFINE i == call[c].arg
           new == [dms[i] EXCEPT !.closed = dms[i].closed \ Pair]
<1>1. /\ i \in Ids /\ dms[i] \in Conversations /\ call[c].at = "updateDm" /\ dms[c] = Nil
      /\ dms[i] # Nil
  BY ConversationsAssumption DEF UpdateDm, At, DmInv, DirectMessagesType, Pending
<1>2. /\ dms' = [dms EXCEPT ![i] = new] /\ hidden' = [hidden EXCEPT ![i] = {}]
      /\ UNCHANGED overwritten
  BY <1>1 DEF UpdateDm, Reached, DmInv, DirectMessagesType
<1>3. Follows(new, dms[i]) /\ new.closed = {}
  BY <1>1 DEF Follows, Conversations
<1>4. call' = [call EXCEPT ![c] = Onto(c, "notifyOther")] /\ Pending(Onto(c, "notifyOther"), dms')
  BY DEF UpdateDm, Proceed, Change, Onto, With, Suspended, Pending
<1>5. overwritten \in BOOLEAN /\ {} \in SUBSET Pair
  BY DEF DmInv, DirectMessagesType
<1> HIDE DEF new
<1> QED BY <1>1, <1>2, <1>3, <1>4, <1>5, DmInvWrite

LEMMA CloseKeepsDms ==
  ASSUME DmInv, CallInv, NEW c \in Calls, SaveClose(c)
  PROVE  DmInv'
<1> DEFINE i == call[c].arg
           new == [closed |-> dms[i].closed \cup {call[c].who}, v |-> dms[i].v + 1]
           S == hidden[i] \cup {call[c].who}
<1>1. /\ i \in Ids /\ dms[i] \in Conversations /\ call[c].at = "saveClose" /\ dms[c] = Nil
      /\ dms[i] # Nil /\ call[c].who \in Pair
  BY ConversationsAssumption DEF SaveClose, At, DmInv, DirectMessagesType, Pending
<1>2. /\ dms' = [dms EXCEPT ![i] = new] /\ hidden' = [hidden EXCEPT ![i] = S]
      /\ UNCHANGED overwritten /\ call' = [call EXCEPT ![c] = Over]
  BY <1>1 DEF SaveClose, Answer, Change, DmInv, DirectMessagesType
<1>3. Follows(new, dms[i]) /\ Pending(Over, dms')
  BY <1>1 DEF Follows, Conversations, Over, Suspended, Pending
<1>4. ~overwritten' => new.closed = S
  BY <1>1, <1>2 DEF DmInv, DirectMessagesType, HiddenByChoice, Existing
<1>5. overwritten \in BOOLEAN /\ S \in SUBSET Pair
  BY <1>1 DEF DmInv, DirectMessagesType
<1> HIDE DEF new, S
<1> QED BY <1>1, <1>2, <1>3, <1>4, <1>5, DmInvWrite

LEMMA DmInvNext == DmInv /\ CallInv /\ [Next]_vars => DmInv'
<1> SUFFICES ASSUME DmInv, CallInv, [Next]_vars PROVE DmInv'
  OBVIOUS
<1>1. ASSUME NEW c \in Calls, WorkspaceStep(c) /\ OnWorkspace PROVE DmInv'
  BY <1>1, WorkspaceGoes, OthersKeepDms DEF OnWorkspace
<1>2. ASSUME NEW c \in Calls, ChannelStep(c) /\ OnChannel PROVE DmInv'
  BY <1>2, ChannelGoes, OthersKeepDms DEF OnChannel
<1>3. ASSUME NEW c \in Calls, MessageStep(c) /\ OnMessage PROVE DmInv'
  BY <1>3, MessageGoes, OthersKeepDms DEF OnMessage
<1>4. ASSUME NEW c \in Calls, DmStep(c) PROVE DmInv'
  BY <1>4, QuietDmSteps, CreateKeepsDms, ReopenKeepsDms, UpdateKeepsDms, CloseKeepsDms
     DEF DmStep
<1>5. ASSUME UNCHANGED <<call, dmVars>> PROVE DmInv'
  BY <1>5 DEF DmInv, DirectMessagesType, dmVars, HiddenByChoice, Existing
<1>6. CASE (ExpireCached /\ OnWorkspace) \/ (InboxStep /\ OnMessage) \/ UNCHANGED vars
  BY <1>5, <1>6 DEF ExpireCached, OnWorkspace, OnMessage, InboxStep, MarkAsRead,
                    DeleteNotification, vars
<1> QED BY <1>1, <1>2, <1>3, <1>4, <1>6 DEF Next

(* A conversation is hidden from exactly those who closed it and neither    *)
(* reopened it nor got a message since, until a reopening has put back a    *)
(* closing that a message had undone (dm.service.js, getOrCreateDM,         *)
(* sendDMMessage and closeDM).                                              *)
THEOREM ConversationsAreHiddenByChoice == Spec => []HiddenByChoice
<1>1. DmInv => HiddenByChoice
  BY DEF DmInv, DirectMessagesType
<1> QED BY <1>1, CallInvInit, CallInvNext, DmInvInit, DmInvNext, PTL DEF Spec

\* A conversation comes about by a call that has found none.
LEMMA CreatedWhenNone ==
  ASSUME DmInv, [Next]_vars, NEW c \in Calls, dms[c] = Nil, dms'[c] # Nil
  PROVE  ~call[c].doc.there
<1>1. PICK q \in Calls : CreateDm(q) \/ Reopen(q) \/ UpdateDm(q) \/ SaveClose(q)
  BY DEF Next, vars, dmVars, OnWorkspace, OnChannel, OnMessage, ExpireCached, InboxStep,
         DmStep, DmRequest, StartDM, SendDM, CloseDM, CheckOther, FindDm, ReadDm,
         CreateDmMessage, NotifyOther, Silent
<1>2. dms \in [Ids -> Conversations \cup {Nil}] /\ c \in Ids
  BY DEF DmInv, DirectMessagesType, Ids
<1>3. ASSUME NEW i, NEW d, dms' = [dms EXCEPT ![i] = d] PROVE i = c
  BY <1>2, <1>3
<1>4. dms' # dms
  OBVIOUS
<1>5. ASSUME Reopen(q) \/ UpdateDm(q) \/ SaveClose(q) PROVE FALSE
  <2>1. dms[call[q].arg] # Nil
    BY <1>5, ConversationsAssumption DEF Reopen, UpdateDm, SaveClose, At, DmInv, Pending
  <2>2. \E d : dms' = [dms EXCEPT ![call[q].arg] = d]
    <3>1. CASE Reopen(q)
      BY <1>4, <3>1 DEF Reopen
    <3>2. CASE UpdateDm(q)
      BY <3>2 DEF UpdateDm
    <3>3. CASE SaveClose(q)
      BY <3>3 DEF SaveClose
    <3> QED BY <1>5, <3>1, <3>2, <3>3
  <2> QED BY <1>3, <2>1, <2>2
<1>6. CreateDm(q) /\ q = c
  BY <1>1, <1>3, <1>5 DEF CreateDm
<1> QED BY <1>6 DEF CreateDm, At, DmInv, Pending

(* Whoever asks for the conversation while there is one gets that one; only *)
(* calls that begin before the first is created make another                *)
(* (dm.service.js, getOrCreateDM).                                          *)
THEOREM ConversationsAreFound == Spec => OneConversation
<1>1. DmInv /\ [Next]_vars =>
         [\A c \in Calls : dms[c] = Nil /\ dms'[c] # Nil => ~call[c].doc.there]_vars
  BY CreatedWhenNone
<1> QED BY <1>1, CallInvInit, CallInvNext, DmInvInit, DmInvNext, PTL DEF Spec, OneConversation

-----------------------------------------------------------------------------
(* All documents *)

(* Every document stays one of its kind and within its limits: a name is   *)
(* one channel's, pins and kept edits exceed their limit by no more than   *)
(* the calls that overlap (channel.service.js, message.service.js,         *)
(* dm.service.js).                                                         *)
THEOREM DocumentsAreSound == Spec => []DocumentsSound
<1>1. ChannelInv => ChannelsType /\ PinsBounded
  <2> SUFFICES ASSUME ChannelInv PROVE PinsBounded
    BY DEF ChannelInv
  <2>1. Waiting("savePin") \in Nat
    <3>1. {c \in Calls : At(c, "savePin")} \in SUBSET Calls
      OBVIOUS
    <3> QED BY <3>1, CallsAreFinite DEF Waiting
  <2>2. /\ Len(channel.pins) \in Nat /\ PinLimit \in Nat /\ Cardinality(Calls) \in Nat
        /\ PinsInv
    BY SomebodyCalls, ChannelsAssumption DEF ChannelInv, ChannelsType, ChannelDocs
  <2>3. \A p, w, n, m \in Nat : p + w <= n + m - 1 => p <= n + m - 1
    OBVIOUS
  <2> QED BY <2>1, <2>2, <2>3 DEF PinsInv, PinsBounded
<1>2. MessageInv /\ EditsBounded /\ PostsInv /\ DmInv /\ NamesInv /\ ChannelInv => DocumentsSound
  BY <1>1, MessagesTyped DEF DocumentsSound, DmInv, NamesInv
<1> QED
  BY <1>2, CallInvInit, CallInvNext, ChannelInvInit, ChannelInvNext, MessageInvInit,
     MessageInvNext, EditsBoundedInit, EditsBoundedNext, PostsInvInit, PostsInvNext,
     DmInvInit, DmInvNext, NamesInvInit, NamesInvNext, PTL DEF Spec
=============================================================================
