---------------------------- MODULE CollabState ----------------------------
(***************************************************************************)
(* The calls that work on one workspace: its members, a channel, a message *)
(* in it, the direct messages between two of its users.  A call is one     *)
(* HTTP request; it suspends at every await, and the modules that extend   *)
(* this one give its steps.  No handler undoes what it has done: a call    *)
(* ended by a rejected store call, before or after the call's effect, or   *)
(* by the end of its process is one that takes no further step, which no   *)
(* fairness condition rules out.                                           *)
(***************************************************************************)
EXTENDS Integers, FiniteSets, Sequences

CONSTANTS
    Calls,      \* the requests
    Before,     \* stands for the requests that made what is there initially
    Users,
    Owner,      \* who owns the workspace
    Author,     \* who wrote the message; a member too
    Nil,
    Mixes       \* which parts are busy together in one behaviour (a bound)

Ids == Calls \cup {Before}
Subjects == {"workspace", "channel", "message", "dm"}

ASSUME CollabAssumption ==
    /\ Before \notin Calls
    /\ {Owner, Author} \subseteq Users /\ Owner # Author
    /\ Nil \notin Ids \cup Users
    /\ IsFiniteSet(Calls) /\ Calls # {} /\ IsFiniteSet(Users)
    /\ Mixes \subseteq SUBSET Subjects

VARIABLES
    busy,       \* the parts busy in this behaviour
    call,       \* of each call: where it is suspended, where a nested call
                \* returns to, its user, its argument, the document it read
    member      \* WorkspaceMember of each user

Suspended(step, next, u, x, d) ==
    [at |-> step, then |-> next, who |-> u, arg |-> x, doc |-> d]
Idle == Suspended("idle", "done", Nil, Nil, Nil)
Over == Suspended("done", "done", Nil, Nil, Nil)

At(c, step) == call[c].at = step

\* A request to `subject' can come as call c.
Free(c, subject) == subject \in busy /\ At(c, "idle")

\* User u's request c is accepted and suspended before `step'.
Begin(c, step, u, x, d) ==
    /\ At(c, "idle")
    /\ call' = [call EXCEPT ![c] = Suspended(step, "done", u, x, d)]
    /\ UNCHANGED busy

\* Call c goes on at `step', with document d.
With(c, step, d) == Suspended(step, call[c].then, call[c].who, call[c].arg, d)
Onto(c, step) == With(c, step, call[c].doc)

Change(c, k) == call' = [call EXCEPT ![c] = k] /\ UNCHANGED busy
Proceed(c, step) == Change(c, Onto(c, step))
Answer(c) == Change(c, Over)

\* Answers with an error unless `ok'.
Unless(c, ok, k) == Change(c, IF ok THEN k ELSE Over)

-----------------------------------------------------------------------------
(* Membership *)

Roles == {"owner", "admin", "member", "guest"}
Managers == {"owner", "admin"}
Memberships == [role : Roles, active : BOOLEAN]

IsMember(u) == member[u] # Nil /\ member[u].active

\* assertRole and assertMember: a read of the member, then the check.
HasRole(u, roles) == IsMember(u) /\ member[u].role \in roles
AnyRole(u) == HasRole(u, Roles)

-----------------------------------------------------------------------------
(* What Mongoose's save() sends for an array.  A push is a $push and adds  *)
(* one to __v.  An assigned or shifted array, and a change inside an array *)
(* element, is sent only if __v still is what was read, and else rejects   *)
(* with a VersionError.  An unchanged array is not sent.                   *)

Fresh_Always(d, current) == TRUE
Fresh(d, current) == d.v = current.v
=============================================================================
