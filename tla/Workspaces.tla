----------------------------- MODULE Workspaces -----------------------------
(***************************************************************************)
(* workspace.service.js: the workspace document, its cached copy in Redis  *)
(* and its members.                                                        *)
(***************************************************************************)
EXTENDS CollabState

CONSTANT Granted    \* the roles calls give (a bound on the validator's three)

VARIABLES
    space,      \* the document: name is the call that set it
    cache,      \* workspace:<id>
    strays      \* how far memberCount has been led astray (history)

workspaceVars == <<space, cache, member, strays>>

Spaces == [name : Ids, active : BOOLEAN, count : Int, channels : 0..2]
\* late: what was cached was already out of date (history).
Copies == [name : Ids, active : BOOLEAN, late : BOOLEAN]

ASSUME WorkspacesAssumption ==
    /\ Granted \subseteq Roles \ {"owner"}
    /\ Nil \notin Spaces \cup Copies \cup Memberships

\* The document with its default values, then what creation has completed.
Created(c) == [name |-> c, active |-> TRUE, count |-> 1, channels |-> 0]
OpenSpace == [Created(Before) EXCEPT !.channels = 2]

WorkspacesType ==
    /\ space \in Spaces \cup {Nil}
    /\ cache \in Copies \cup {Nil}
    /\ member \in [Users -> Memberships \cup {Nil}]
    /\ strays \in Int

\* A workspace with its owner and one more member, or none yet; where members
\* do not change, everybody is one.
WorkspacesInit ==
    /\ \/ /\ busy = {"workspace"} /\ space = Nil
          /\ member = [u \in Users |-> Nil]
       \/ /\ member = [u \in Users |->
                CASE u = Owner  -> [role |-> "owner", active |-> TRUE]
                  [] u = Author -> [role |-> "admin", active |-> TRUE]
                  [] "workspace" \in busy -> Nil
                  [] OTHER      -> [role |-> "guest", active |-> TRUE]]
          /\ space = [OpenSpace EXCEPT !.count = Cardinality({u \in Users : IsMember(u)})]
    /\ cache = Nil
    /\ strays = 0

-----------------------------------------------------------------------------
(* Creation: four inserts one after the other *)

\* findOne finds the slug free; else a suffix makes it another workspace's.
FindSlug(c) ==
    /\ space = Nil
    /\ Begin(c, "createSpace", Owner, Nil, Nil)
    /\ UNCHANGED workspaceVars

\* The unique slug refuses the second of two.
CreateSpace(c) ==
    /\ At(c, "createSpace")
    /\ Unless(c, space = Nil, Onto(c, "addOwner"))
    /\ space' = IF space = Nil THEN Created(c) ELSE space
    /\ UNCHANGED <<cache, member, strays>>

AddOwner(c) ==
    /\ At(c, "addOwner")
    /\ Proceed(c, "addGeneral")
    /\ member' = [member EXCEPT ![Owner] = [role |-> "owner", active |-> TRUE]]
    /\ UNCHANGED <<space, cache, strays>>

AddDefaultChannel(c) ==
    /\ \/ At(c, "addGeneral") /\ Proceed(c, "addRandom")
       \/ At(c, "addRandom") /\ Answer(c)
    /\ space' = [space EXCEPT !.channels = @ + 1]
    /\ UNCHANGED <<cache, member, strays>>

-----------------------------------------------------------------------------
(* getWorkspace, also on the way of the other operations *)

Resumed(k) == IF k.then = "done" THEN Over
              ELSE Suspended(k.then, k.then, k.who, k.arg, Nil)

BeginGet(c, next, u, x) ==
    /\ At(c, "idle")
    /\ Change(c, Suspended("getCached", next, u, x, Nil))
    /\ UNCHANGED workspaceVars

\* GET, and the statistics after their two counts.
GetWorkspace(c) == BeginGet(c, "done", Nil, Nil)

GetCached(c) ==
    /\ At(c, "getCached")
    /\ Change(c, IF cache # Nil THEN Resumed(call[c]) ELSE Onto(c, "findSpace"))
    /\ UNCHANGED workspaceVars

FindSpace(c) ==
    /\ At(c, "findSpace")
    /\ Unless(c, space # Nil, With(c, "fill", space))
    /\ UNCHANGED workspaceVars

Outdated(d) == d.name # space.name \/ d.active # space.active

Fill(c) ==
    LET d == call[c].doc IN
    /\ At(c, "fill")
    /\ cache' = [name |-> d.name, active |-> d.active, late |-> Outdated(d)]
    /\ Change(c, Resumed(call[c]))
    /\ UNCHANGED <<space, member, strays>>

ExpireCached == cache' = Nil /\ UNCHANGED <<busy, call, space, member, strays>>

-----------------------------------------------------------------------------
(* updateWorkspace and deleteWorkspace *)

UpdateWorkspace(c, u) ==
    /\ HasRole(u, Managers)
    /\ Begin(c, "setName", u, Nil, Nil)
    /\ UNCHANGED workspaceVars

DeleteWorkspace(c, u) ==
    /\ HasRole(u, {"owner"})
    /\ Begin(c, "deactivate", u, Nil, Nil)
    /\ UNCHANGED workspaceVars

StoreSpace(c) ==
    /\ \/ At(c, "setName") /\ space' = [space EXCEPT !.name = c]
       \/ At(c, "deactivate") /\ space' = [space EXCEPT !.active = FALSE]
    /\ Proceed(c, "bust")
    /\ UNCHANGED <<cache, member, strays>>

Busted_Kept(copy) == copy
Busted(copy) == Nil

Bust(c) ==
    /\ At(c, "bust")
    /\ cache' = Busted(cache)
    /\ Answer(c)
    /\ UNCHANGED <<space, member, strays>>

-----------------------------------------------------------------------------
(* Members *)

InviteMember(c, u, v, r) ==
    /\ HasRole(u, Managers)
    /\ BeginGet(c, "findMember", u, [user |-> v, role |-> r])

\* Only somebody who is not an active member can be invited.
Invitable_Anybody(existing) == TRUE
Invitable(existing) == existing # Nil => ~existing.active

FindMember(c) ==
    LET existing == member[call[c].arg.user] IN
    /\ At(c, "findMember")
    /\ Unless(c, Invitable(existing), With(c, "saveMember", existing))
    /\ UNCHANGED workspaceVars

\* create, which the unique index may refuse, or save over what was read: of
\* two that found the member removed both get through, and both count.
SaveMember(c) ==
    LET x == call[c].arg
        saved == call[c].doc = Nil => member[x.user] = Nil IN
    /\ At(c, "saveMember")
    /\ Unless(c, saved, With(c, "countIn", Nil))
    /\ member' = IF saved THEN [member EXCEPT ![x.user] = [role |-> x.role, active |-> TRUE]]
                          ELSE member
    /\ strays' = IF call[c].doc # Nil /\ ~call[c].doc.active /\ IsMember(x.user)
                 THEN strays + 1 ELSE strays
    /\ UNCHANGED <<space, cache>>

ChangeMemberRole(c, u, v, r) ==
    /\ HasRole(u, Managers)
    /\ BeginGet(c, "setRole", u, [user |-> v, role |-> r])

RemoveMember(c, u, v) ==
    /\ HasRole(u, Managers)
    /\ BeginGet(c, "deactivateMember", u, [user |-> v, role |-> Nil])

\* The owner's own membership cannot be changed or removed.
Touchable(v) == v # Owner

SetRole(c) ==
    LET x == call[c].arg IN
    /\ At(c, "setRole")
    /\ member' = IF Touchable(x.user) /\ IsMember(x.user)
                 THEN [member EXCEPT ![x.user].role = x.role] ELSE member
    /\ Answer(c)
    /\ UNCHANGED <<space, cache, strays>>

\* Whoever is no member is counted out all the same.
DeactivateMember(c) ==
    LET v == call[c].arg.user IN
    /\ At(c, "deactivateMember")
    /\ Unless(c, Touchable(v), Onto(c, "countOut"))
    /\ member' = IF Touchable(v) /\ member[v] # Nil
                 THEN [member EXCEPT ![v].active = FALSE] ELSE member
    /\ strays' = IF Touchable(v) /\ ~IsMember(v) THEN strays - 1 ELSE strays
    /\ UNCHANGED <<space, cache>>

CountMember(c) ==
    /\ \/ At(c, "countIn") /\ space' = [space EXCEPT !.count = @ + 1]
       \/ At(c, "countOut") /\ space' = [space EXCEPT !.count = @ - 1]
    /\ Answer(c)
    /\ UNCHANGED <<cache, member, strays>>

-----------------------------------------------------------------------------
WorkspaceRequest(c) ==
    /\ Free(c, "workspace")
    /\ \/ FindSlug(c) \/ GetWorkspace(c)
       \/ \E u \in Users : UpdateWorkspace(c, u) \/ DeleteWorkspace(c, u)
       \/ \E u, v \in Users, r \in Granted :
             InviteMember(c, u, v, r) \/ ChangeMemberRole(c, u, v, r)
       \/ \E u, v \in Users : RemoveMember(c, u, v)

WorkspaceStep(c) ==
    \/ WorkspaceRequest(c)
    \/ CreateSpace(c) \/ AddOwner(c) \/ AddDefaultChannel(c)
    \/ GetCached(c) \/ FindSpace(c) \/ Fill(c) \/ StoreSpace(c) \/ Bust(c)
    \/ FindMember(c) \/ SaveMember(c) \/ SetRole(c) \/ DeactivateMember(c)
    \/ CountMember(c)
=============================================================================
