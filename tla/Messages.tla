------------------------------ MODULE Messages ------------------------------
(***************************************************************************)
(* message.service.js: posting in the channel, and one message that is     *)
(* edited, deleted, bookmarked and reacted to with one emoji.              *)
(***************************************************************************)
EXTENDS Channels

CONSTANT EditsKept    \* edits a message remembers

ASSUME MessagesAssumption == EditsKept \in Nat \ {0}

VARIABLES
    message,    \* the document: text is the call that wrote it
    posted,     \* calls whose message has been created
    inbox       \* the notifications

messageVars == <<message, posted, inbox>>

Removed == "[Message deleted]"

\* An element of the array reactions; edits is the length of editHistory, which
\* only edits that overlap make longer than it should be; marks is bookmarkedBy,
\* threads is threadCount.
Reactions == [users : SUBSET Users, count : Nat]
MessageDocs == [text : Ids \cup {Removed}, gone : BOOLEAN, edits : 0..EditsKept + Cardinality(Calls) - 1,
                reactions : Seq(Reactions), marks : SUBSET Users, threads : Nat, v : Nat]
Notifications == [of : Calls, to : Users, read : BOOLEAN]

MessagesType ==
    /\ message \in MessageDocs
    /\ posted \in SUBSET Calls
    /\ inbox \in SUBSET Notifications

\* The message, edited as often as is remembered or once less.
MessagesInit ==
    /\ \E edited \in {EditsKept - 1, EditsKept} :
          /\ "message" \notin busy => edited = EditsKept
          /\ message = [text |-> Before, gone |-> FALSE, edits |-> edited,
                        reactions |-> <<>>, marks |-> {}, threads |-> 0, v |-> 0]
    /\ posted = {}
    /\ inbox = {}

Quiet == UNCHANGED <<member, channelVars, messageVars>>
OnlyMessage == UNCHANGED <<member, channelVars, posted, inbox>>

-----------------------------------------------------------------------------
(* sendMessage and what it counts *)

\* A post or a reply, with or without mentioning somebody.
SendMessage(c, u, reply, mentions) ==
    /\ AnyRole(u)
    /\ Begin(c, "findChannel", u, [reply |-> reply, mentions |-> mentions], Nil)
    /\ Quiet

FindChannel(c) ==
    /\ At(c, "findChannel")
    /\ Unless(c, ~channel.archived, Onto(c, "createMessage"))
    /\ Quiet

CreateMessage(c) ==
    /\ At(c, "createMessage")
    /\ posted' = posted \cup {c}
    /\ Proceed(c, IF call[c].arg.reply THEN "bumpThread" ELSE "bumpChannel")
    /\ UNCHANGED <<member, channelVars, message, inbox>>

BumpThread(c) ==
    /\ At(c, "bumpThread")
    /\ message' = [message EXCEPT !.threads = @ + 1]
    /\ Proceed(c, "bumpChannel")
    /\ OnlyMessage

BumpChannel(c) ==
    /\ At(c, "bumpChannel")
    /\ channel' = [channel EXCEPT !.posts = @ + 1]
    /\ IF call[c].arg.mentions = {} THEN Answer(c) ELSE Proceed(c, "notify")
    /\ UNCHANGED <<member, name, messageVars>>

\* Nobody waits for it.
NotifyMentioned(c) ==
    /\ At(c, "notify")
    /\ inbox' = inbox \cup {[of |-> c, to |-> u, read |-> FALSE] : u \in call[c].arg.mentions}
    /\ Answer(c)
    /\ UNCHANGED <<member, channelVars, message, posted>>

-----------------------------------------------------------------------------
(* The message: the document is read, changed and saved *)

\* `ok' of a save that Mongoose guards with __v; d is what is stored.
SaveMessage(c, from, ok, d) ==
    /\ At(c, from)
    /\ message' = IF ok THEN d ELSE message
    /\ Answer(c)
    /\ OnlyMessage

Bumped(d) == [d EXCEPT !.v = message.v + 1]

\* Deleted messages are not found.
Found_AnyMessage(m) == TRUE
Found(m) == ~m.gone

\* Only the author; whether still a member is not asked.  `mentions': they change.
EditMessage(c, mentions) ==
    /\ Found(message)
    /\ Begin(c, "saveEdit", Author, [changed |-> mentions], message)
    /\ Quiet

\* The oldest edit is dropped when there are enough, which sends the array whole.
Full(edits) == edits >= EditsKept

SaveEdit(c) ==
    LET d == call[c].doc
        shift == Full(d.edits)
        edited == [message EXCEPT !.text = c, !.edits = IF shift THEN d.edits ELSE @ + 1] IN
    SaveMessage(c, "saveEdit", shift \/ call[c].arg.changed => Fresh(d, message), Bumped(edited))

DeleteMessage(c, u) ==
    /\ Begin(c, "roleForDelete", u, Nil, message)
    /\ Quiet

RoleForDelete(c) ==
    LET u == call[c].who IN
    /\ At(c, "roleForDelete")
    /\ Unless(c, HasRole(u, Managers) \/ (AnyRole(u) /\ u = Author),
              Onto(c, "saveDelete"))
    /\ Quiet

\* Plain fields: neither guarded nor counted by __v, and sent only if changed.
SaveDelete(c) ==
    SaveMessage(c, "saveDelete", TRUE,
                [message EXCEPT !.gone = TRUE,
                                !.text = IF call[c].doc.text = Removed THEN @ ELSE Removed])

\* The first element with the emoji, the only one the code looks at.
Reacted(d, u) == d.reactions # <<>> /\ u \in d.reactions[1].users

\* bookmarkMessage, addReaction and removeReaction: assertMember, findOne.
BeginOn(c, u, step) ==
    /\ AnyRole(u)
    /\ Begin(c, step, u, Nil, Nil)
    /\ Quiet

ReadMessage(c, from, ok, step) ==
    /\ At(c, from)
    /\ Unless(c, ok, With(c, step, message))
    /\ Quiet

ReadToReact(c) ==
    ReadMessage(c, "readToReact", Found(message) /\ ~Reacted(message, call[c].who), "saveReact")

\* A new element is a $push; the change of an element is guarded.
SaveReact(c) ==
    LET d == call[c].doc
        u == call[c].who IN
    /\ At(c, "saveReact")
    /\ IF d.reactions = <<>> THEN
         SaveMessage(c, "saveReact", TRUE,
            Bumped([message EXCEPT !.reactions = Append(@, [users |-> {u}, count |-> 1])]))
       ELSE
         SaveMessage(c, "saveReact", Fresh(d, message),
            Bumped([message EXCEPT !.reactions[1] =
                       [users |-> @.users \cup {u}, count |-> d.reactions[1].count + 1]]))

ReadToUnreact(c) ==
    ReadMessage(c, "readToUnreact", Found(message) /\ Reacted(message, call[c].who),
                "saveUnreact")

\* The last one out takes every element with the emoji along.
SaveUnreact(c) ==
    LET d == call[c].doc
        left == d.reactions[1].users \ {call[c].who} IN
    SaveMessage(c, "saveUnreact", Fresh(d, message),
        Bumped(IF left = {}
               THEN [message EXCEPT !.reactions = <<>>]
               ELSE [message EXCEPT !.reactions[1] =
                        [users |-> left, count |-> Cardinality(left)]]))

ReadToMark(c) ==
    ReadMessage(c, "readToMark", call[c].who \notin message.marks, "saveMark")

SaveMark(c) ==
    SaveMessage(c, "saveMark", TRUE,
                Bumped([message EXCEPT !.marks = @ \cup {call[c].who}]))

\* $pull, without reading.
Unmark(c) ==
    SaveMessage(c, "unmark", TRUE, [message EXCEPT !.marks = @ \ {call[c].who}])

-----------------------------------------------------------------------------
(* nexus-notification.service.js: single updates *)

MarkAsRead(u, S) ==
    /\ inbox' = {IF n.to = u /\ n \in S THEN [n EXCEPT !.read = TRUE] ELSE n : n \in inbox}
    /\ UNCHANGED <<busy, call, member, channelVars, message, posted>>

DeleteNotification(n) ==
    /\ inbox' = inbox \ {n}
    /\ UNCHANGED <<busy, call, member, channelVars, message, posted>>

InboxStep ==
    \/ \E n \in inbox : DeleteNotification(n) \/ MarkAsRead(n.to, {n})
    \/ \E u \in Users : MarkAsRead(u, inbox)

-----------------------------------------------------------------------------
MessageRequest(c) ==
    /\ Free(c, "message")
    /\ \/ \E u \in Users :
             \/ \E reply \in BOOLEAN, m \in {{}, {Author}} : SendMessage(c, u, reply, m)
             \/ DeleteMessage(c, u)
             \/ \E step \in {"readToReact", "readToUnreact", "readToMark", "unmark"} :
                   BeginOn(c, u, step)
       \/ \E mentions \in BOOLEAN : EditMessage(c, mentions)

MessageStep(c) ==
    \/ MessageRequest(c)
    \/ FindChannel(c) \/ CreateMessage(c) \/ BumpThread(c) \/ BumpChannel(c)
    \/ NotifyMentioned(c)
    \/ SaveEdit(c) \/ RoleForDelete(c) \/ SaveDelete(c)
    \/ ReadToReact(c) \/ SaveReact(c) \/ ReadToUnreact(c) \/ SaveUnreact(c)
    \/ ReadToMark(c) \/ SaveMark(c) \/ Unmark(c)
=============================================================================
