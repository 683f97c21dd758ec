--------------------------- MODULE DirectMessages ---------------------------
(***************************************************************************)
(* dm.service.js: the conversations between the owner and the author of    *)
(* the workspace.  A conversation is named by the call that created it.    *)
(***************************************************************************)
EXTENDS Messages

Pair == {Owner, Author}

VARIABLES
    dms,        \* of each conversation: who closed it, and __v
    hidden,     \* who closed it, and neither reopened it nor got a message
                \* since (history)
    overwritten \* a reopening has put back what a message had taken out (history)

dmVars == <<dms, hidden, overwritten>>

Conversations == [closed : SUBSET Pair, v : Nat]

ASSUME ConversationsAssumption == Nil \notin Conversations

DirectMessagesType ==
    /\ dms \in [Ids -> Conversations \cup {Nil}]
    /\ hidden \in [Ids -> SUBSET Pair]
    /\ overwritten \in BOOLEAN

\* There is a conversation, or none.
DirectMessagesInit ==
    /\ \E there \in BOOLEAN :
          /\ "dm" \notin busy => there
          /\ dms = [i \in Ids |-> IF there /\ i = Before THEN [closed |-> {}, v |-> 0] ELSE Nil]
    /\ hidden = [i \in Ids |-> {}]
    /\ overwritten = FALSE

Existing == {i \in Ids : dms[i] # Nil}
Silent == UNCHANGED <<member, channelVars, messageVars, dmVars>>

-----------------------------------------------------------------------------
(* getOrCreateDM.  The call remembers whether there was one when it began  *)
(* (history).                                                              *)

StartDM(c, u) ==
    /\ AnyRole(u)
    /\ Begin(c, "checkOther", u, Nil, [there |-> Existing # {}])
    /\ Silent

CheckOther(c) ==
    /\ At(c, "checkOther")
    /\ Unless(c, \A u \in Pair : AnyRole(u), Onto(c, "findDm"))
    /\ Silent

\* The participants are the same, whoever closed the conversation.
Matches_Open(i, u) == dms[i] # Nil /\ u \notin dms[i].closed
Matches(i, u) == dms[i] # Nil

FindDm(c) ==
    LET u == call[c].who IN
    /\ At(c, "findDm")
    /\ \/ /\ \A i \in Ids : ~Matches(i, u)
          /\ Proceed(c, "createDm")
       \/ \E i \in Ids :
             /\ Matches(i, u)
             /\ Unless(c, u \in dms[i].closed,
                       Suspended("reopen", "done", u, i, dms[i]))
    /\ Silent

CreateDm(c) ==
    /\ At(c, "createDm")
    /\ dms' = [dms EXCEPT ![c] = [closed |-> {}, v |-> 0]]
    /\ Answer(c)
    /\ UNCHANGED <<member, channelVars, messageVars, hidden, overwritten>>

\* The array is sent whole, guarded; a message's $pull does not count in __v.
Reopen(c) ==
    LET d == call[c].doc
        i == call[c].arg
        left == d.closed \ {call[c].who}
        ok == Fresh(d, dms[i]) IN
    /\ At(c, "reopen")
    /\ dms' = IF ok THEN [dms EXCEPT ![i] = [closed |-> left, v |-> @.v + 1]] ELSE dms
    /\ hidden' = IF ok THEN [hidden EXCEPT ![i] = @ \ {call[c].who}] ELSE hidden
    /\ overwritten' = (overwritten \/ (ok /\ ~(left \subseteq dms[i].closed)))
    /\ Answer(c)
    /\ UNCHANGED <<member, channelVars, messageVars>>

-----------------------------------------------------------------------------
(* sendDMMessage and closeDM *)

SendDM(c, u, i) ==
    /\ AnyRole(u)
    /\ dms[i] # Nil
    /\ Begin(c, "readDm", u, i, Nil)
    /\ Silent

ReadDm(c) ==
    /\ At(c, "readDm") /\ Proceed(c, "createDmMessage") /\ Silent

CreateDmMessage(c) ==
    /\ At(c, "createDmMessage")
    /\ posted' = posted \cup {c}
    /\ Proceed(c, "updateDm")
    /\ UNCHANGED <<member, channelVars, message, inbox, dmVars>>

\* Whom a message brings the conversation back for.
Reached_Others(u) == Pair \ {u}
Reached(u) == Pair

UpdateDm(c) ==
    LET i == call[c].arg IN
    /\ At(c, "updateDm")
    /\ dms' = [dms EXCEPT ![i].closed = @ \ Reached(call[c].who)]
    /\ hidden' = [hidden EXCEPT ![i] = {}]
    /\ Proceed(c, "notifyOther")
    /\ UNCHANGED <<member, channelVars, messageVars, overwritten>>

\* A rejection is logged.
NotifyOther(c) ==
    /\ At(c, "notifyOther")
    /\ inbox' = inbox \cup {[of |-> c, to |-> u, read |-> FALSE] : u \in Pair \ {call[c].who}}
    /\ Answer(c)
    /\ UNCHANGED <<member, channelVars, message, posted, dmVars>>

\* Of a participant, a member or not any more; nothing happens if it is closed.
CloseDM(c, u, i) ==
    /\ dms[i] # Nil /\ u \notin dms[i].closed
    /\ Begin(c, "saveClose", u, i, Nil)
    /\ Silent

SaveClose(c) ==
    LET i == call[c].arg IN
    /\ At(c, "saveClose")
    /\ dms' = [dms EXCEPT ![i] = [closed |-> @.closed \cup {call[c].who}, v |-> @.v + 1]]
    /\ hidden' = [hidden EXCEPT ![i] = @ \cup {call[c].who}]
    /\ Answer(c)
    /\ UNCHANGED <<member, channelVars, messageVars, overwritten>>

-----------------------------------------------------------------------------
DmRequest(c) ==
    /\ Free(c, "dm")
    /\ \E u \in Pair :
          \/ StartDM(c, u)
          \/ \E i \in Ids : SendDM(c, u, i) \/ CloseDM(c, u, i)

DmStep(c) ==
    \/ DmRequest(c)
    \/ CheckOther(c) \/ FindDm(c) \/ CreateDm(c) \/ Reopen(c)
    \/ ReadDm(c) \/ CreateDmMessage(c) \/ UpdateDm(c) \/ NotifyOther(c)
    \/ SaveClose(c)
=============================================================================
