----------------------------- MODULE Conversations -----------------------------
(***************************************************************************)
(* The chats of the Assistant tab (astra/chat_log.py) and the handlers of  *)
(* the chat routes (astra/web.py): turns that are pinned to the chat they  *)
(* were asked in, while other threads open, switch, delete and clear chats *)
(* and the process restarts.  One action is one store call, or several     *)
(* that no other thread can tell from one.                                 *)
(***************************************************************************)
EXTENDS Integers, FiniteSets, Sequences, SequencesExt, FiniteSetsExt

CONSTANTS
    Threads,    \* web threads
    Texts,      \* what users type
    MaxChats,   \* MAX_CONVERSATIONS
    MaxKeep,    \* MAX_KEEP
    LastChat, LastMessage,  \* bounds of the model: ids that can be given out
    Nothing

ASSUME ConversationsAssumption ==
    /\ MaxChats \in Nat \ {0} /\ MaxKeep \in Nat \ {0}
    /\ LastChat \in Nat \ {0} /\ LastMessage \in Nat /\ Nothing \notin Nat \cup Texts

VARIABLES
    chats,      \* the rows, the one touched last at the end
    current,    \* the row "current" of the state table
    messages,   \* the rows of all chats
    ids,        \* what AUTOINCREMENT gives next, and the messages there were when
                \* a chat was made
    running,    \* _running: the chat of a thread's token
    asked,      \* every question and the chat it was asked in
    thread

chatsVars == <<chats, current, messages, ids, running, asked, thread>>

Ids == 1..LastChat
IdleThread == [pc |-> "idle", chat |-> Nothing, text |-> Nothing, of |-> Nothing]
\* What a turn answers: a question and the chat it was asked in, or (question 0)
\* nobody's, and the chat that was open when it came in.
Askings == (0..LastMessage) \X Ids
ThreadLabels == {"idle", "check", "save", "begin", "work", "end",
           "made", "set", "prune", "next", "wiped"}

ChatsTypeOK ==
    /\ chats \in Seq(Ids) /\ IsInjective(chats)
    /\ current \in Ids
    /\ messages \subseteq [id : 1..LastMessage, chat : Ids, role : {"user", "ai"},
                           text : Texts \cup {Nothing}, of : Askings]
    /\ ids \in [message : 1..LastMessage + 1, chat : 2..LastChat + 1, since : [Ids -> Nat]]
    /\ running \in [Threads -> Ids \cup {Nothing}]
    /\ asked \subseteq Askings
    /\ thread \in [Threads -> [pc : ThreadLabels, chat : Ids \cup {Nothing},
                               text : Texts \cup {Nothing}, of : Askings \cup {Nothing}]]

\* _bootstrap() on an empty database.
FirstBoot ==
    /\ chats = <<1>> /\ current = 1 /\ messages = {} /\ asked = {}
    /\ ids = [message |-> 1, chat |-> 2, since |-> [c \in Ids |-> 1]]
    /\ running = [t \in Threads |-> Nothing]
    /\ thread = [t \in Threads |-> IdleThread]

Stands(t, where) == thread[t].pc = where
Go(t, new) == thread' = [thread EXCEPT ![t] = new]
Of(c) == {m \in messages : m.chat = c}
IsNewest(m) == \A n \in Of(m.chat) : n.id <= m.id

\* pending_for(): _prune_stale() has removed the tokens that are too old.
PendingFor(c) == \E t \in Threads : running[t] = c

\* _is_duplicate_pending_submit(): the newest message, when it is this very one.
Same(c, text) == {m \in Of(c) : IsNewest(m) /\ m.role = "user" /\ m.text = text}
IsDuplicate(c, text) == PendingFor(c) /\ Same(c, text) # {}

\* _insert(): the newest ids are kept, over all chats.
Insert(role, c, text, of) ==
    LET id == ids.message
    IN messages' = {m \in messages \cup {[id |-> id, chat |-> c, role |-> role,
                                          text |-> text, of |-> of]} :
                    m.id > id - MaxKeep}

\* _touch(): no effect on a chat that is gone.
Touch(c) == chats' = IF Contains(chats, c) THEN Append(RemoveFirst(chats, c), c) ELSE chats

-------------------------------------------------------------------------------
(* POST /api/chat.                                                          *)

\* The turn is pinned to the chat that is open now; its history is read.
AskIn(t) ==
    /\ Stands(t, "idle")
    /\ \E text \in Texts : Go(t, [IdleThread EXCEPT !.pc = "check", !.chat = current, !.text = text])
    /\ UNCHANGED <<chats, current, messages, ids, running, asked>>

\* is_duplicate_pending(): a retry is answered with nothing.
CheckDuplicate(t) ==
    /\ Stands(t, "check")
    /\ Go(t, IF IsDuplicate(thread[t].chat, thread[t].text) THEN IdleThread
             ELSE [thread[t] EXCEPT !.pc = "save"])
    /\ UNCHANGED <<chats, current, messages, ids, running, asked>>

\* add_user(): looks again, and does not write a duplicate; the turn goes on.
Save(t) ==
    /\ Stands(t, "save")
    /\ LET me == thread[t] IN
       \/ /\ PendingFor(me.chat)
          /\ \E m \in Same(me.chat, me.text) :
               Go(t, [me EXCEPT !.pc = "begin", !.of = <<m.id, me.chat>>])
          /\ UNCHANGED <<chats, messages, ids, asked>>
       \/ /\ ~IsDuplicate(me.chat, me.text) /\ ids.message <= LastMessage
          /\ Go(t, [me EXCEPT !.pc = "begin", !.of = <<ids.message, me.chat>>])
          /\ Insert("user", me.chat, me.text, <<ids.message, me.chat>>) /\ Touch(me.chat)
          /\ asked' = asked \cup {<<ids.message, me.chat>>}
          /\ ids' = [ids EXCEPT !.message = @ + 1]
    /\ UNCHANGED <<current, running>>

Begin(t) ==
    /\ Stands(t, "begin")
    /\ Go(t, [thread[t] EXCEPT !.pc = "work"])
    /\ running' = [running EXCEPT ![t] = thread[t].chat]
    /\ UNCHANGED <<chats, current, messages, ids, asked>>

\* POST /api/chat/resume: the approval's own chat, not the one that is open.
ResumeIn(t) ==
    /\ Stands(t, "idle")
    /\ \E qc \in asked :
         /\ Go(t, [IdleThread EXCEPT !.pc = "work", !.chat = qc[2], !.of = qc])
         /\ running' = [running EXCEPT ![t] = qc[2]]
    /\ UNCHANGED <<chats, current, messages, ids, asked>>

\* ... or, when the id is of no approval (or of none that is kept), the chat that
\* is open now.
ResumeOpen(t) ==
    /\ Stands(t, "idle")
    /\ Go(t, [IdleThread EXCEPT !.pc = "begin", !.chat = current, !.of = <<0, current>>])
    /\ UNCHANGED <<chats, current, messages, ids, running, asked>>

\* Mutant: the reply is written to the chat that is open.
AnswerHere(t) ==
    /\ Stands(t, "work") /\ ids.message <= LastMessage
    /\ Go(t, [thread[t] EXCEPT !.pc = "end"])
    /\ Insert("ai", current, Nothing, thread[t].of) /\ Touch(current)
    /\ ids' = [ids EXCEPT !.message = @ + 1]
    /\ UNCHANGED <<current, running, asked>>
\* The agent has answered: add_reply(), to the chat of the turn.
Answer(t) ==
    /\ Stands(t, "work") /\ ids.message <= LastMessage
    /\ Go(t, [thread[t] EXCEPT !.pc = "end"])
    /\ Insert("ai", thread[t].chat, Nothing, thread[t].of) /\ Touch(thread[t].chat)
    /\ ids' = [ids EXCEPT !.message = @ + 1]
    /\ UNCHANGED <<current, running, asked>>

\* Mutant: end() stands behind the reply, not in a finally block.
FailsOpen(t) ==
    /\ Stands(t, "work")
    /\ Go(t, IdleThread)
    /\ UNCHANGED <<chats, current, messages, ids, running, asked>>
\* The agent raises: nothing is written.
Fails(t) ==
    /\ Stands(t, "work")
    /\ Go(t, [thread[t] EXCEPT !.pc = "end"])
    /\ UNCHANGED <<chats, current, messages, ids, running, asked>>

End(t) ==
    /\ Stands(t, "end")
    /\ Go(t, IdleThread)
    /\ running' = [running EXCEPT ![t] = Nothing]
    /\ UNCHANGED <<chats, current, messages, ids, asked>>

\* PENDING_MAX_AGE_S is over: the turn is presumed dead.
Age(t) ==
    /\ running[t] # Nothing
    /\ running' = [running EXCEPT ![t] = Nothing]
    /\ UNCHANGED <<chats, current, messages, ids, asked, thread>>

-------------------------------------------------------------------------------
(* The routes under /api/chat/conversations and DELETE /api/chat/history.   *)

\* Mutant: without AUTOINCREMENT the id of the newest chat is given out again.
NewIdReused(old) == IF old = <<>> THEN 1 ELSE Max(ToSet(old)) + 1
NewId(old) == ids.chat

\* new_conversation(): an empty current chat is used again; else a row is made.
Make(t) ==
    LET id == NewId(chats) IN
    /\ id <= LastChat
    /\ Of(current) # {}
    /\ chats' = Append(chats, id)
    /\ ids' = [ids EXCEPT !.chat = @ + 1, !.since[id] = ids.message]
    /\ Go(t, [IdleThread EXCEPT !.pc = "made", !.chat = id])
New(t) ==
    /\ Stands(t, "idle")
    /\ Make(t)
    /\ UNCHANGED <<current, messages, running, asked>>

\* _set_current(), of a chat that was there when it was looked up.
Set(t) ==
    /\ Stands(t, "made") \/ Stands(t, "set")
    /\ current' = thread[t].chat
    /\ Go(t, IF Stands(t, "made") THEN [IdleThread EXCEPT !.pc = "prune"] ELSE IdleThread)
    /\ UNCHANGED <<chats, messages, ids, running, asked>>

\* _prune_conversations(): the oldest ones beyond the limit; one more goes when the
\* current one is among them, for it never does.  Their messages stay.
Excess == Len(chats) - MaxChats
Prune(t) ==
    /\ Stands(t, "prune")
    /\ chats' = IF Excess <= 0 THEN chats
                ELSE IF Contains(SubSeq(chats, 1, Excess), current)
                THEN <<current>> \o SubSeq(chats, Excess + 2, Len(chats))
                ELSE SubSeq(chats, Excess + 1, Len(chats))
    /\ Go(t, IdleThread)
    /\ UNCHANGED <<current, messages, ids, running, asked>>

Switch(t) ==
    /\ Stands(t, "idle")
    /\ \E c \in ToSet(chats) : Go(t, [IdleThread EXCEPT !.pc = "set", !.chat = c])
    /\ UNCHANGED <<chats, current, messages, ids, running, asked>>

\* delete_conversation(): the messages and the row.
Delete(t) ==
    /\ Stands(t, "idle")
    /\ \E c \in ToSet(chats) :
         /\ messages' = messages \ Of(c)
         /\ chats' = RemoveFirst(chats, c)
         /\ Go(t, [IdleThread EXCEPT !.pc = "next", !.chat = c])
    /\ UNCHANGED <<current, ids, running, asked>>

\* ... and, when it was the current one, another one in its place: the one touched
\* last, or what new_conversation() returns.
Succeed(t) ==
    /\ Stands(t, "next")
    /\ \/ /\ current # thread[t].chat /\ Go(t, IdleThread)
          /\ UNCHANGED <<chats, ids>>
       \/ /\ current = thread[t].chat /\ chats # <<>>
          /\ Go(t, [IdleThread EXCEPT !.pc = "set", !.chat = Last(chats)])
          /\ UNCHANGED <<chats, ids>>
       \/ /\ current = thread[t].chat /\ chats = <<>> /\ Of(current) = {}
          /\ Go(t, [IdleThread EXCEPT !.pc = "set", !.chat = current])
          /\ UNCHANGED <<chats, ids>>
       \/ current = thread[t].chat /\ chats = <<>> /\ Make(t)
    /\ UNCHANGED <<current, messages, running, asked>>

\* clear(): everything, and then chat 1 again.
Wipe(t) ==
    /\ Stands(t, "idle")
    /\ messages' = {} /\ chats' = <<>>
    /\ Go(t, [IdleThread EXCEPT !.pc = "wiped"])
    /\ UNCHANGED <<current, ids, running, asked>>
\* The INSERT fails when another clear() has made chat 1.
Refill(t) ==
    /\ Stands(t, "wiped")
    /\ IF Contains(chats, 1) THEN UNCHANGED <<chats, current, ids>>
       ELSE /\ chats' = Append(chats, 1) /\ current' = 1
            /\ ids' = [ids EXCEPT !.since[1] = ids.message]
    /\ Go(t, IdleThread)
    /\ UNCHANGED <<messages, running, asked>>

\* The process restarts: _bootstrap() makes chat 1 when it is gone.
Restart ==
    /\ running' = [t \in Threads |-> Nothing]
    /\ thread' = [t \in Threads |-> IdleThread]
    /\ chats' = IF Contains(chats, 1) THEN chats ELSE Append(chats, 1)
    /\ ids' = IF Contains(chats, 1) THEN ids ELSE [ids EXCEPT !.since[1] = ids.message]
    /\ UNCHANGED <<current, messages, asked>>

-------------------------------------------------------------------------------
Turn(t) == CheckDuplicate(t) \/ Save(t) \/ Begin(t) \/ Answer(t) \/ Fails(t) \/ End(t)
Manage(t) == Set(t) \/ Prune(t) \/ Succeed(t) \/ Refill(t)

ChatsNext ==
    \/ \E t \in Threads :
         \/ AskIn(t) \/ ResumeIn(t) \/ ResumeOpen(t) \/ Turn(t) \/ Age(t)
         \/ New(t) \/ Switch(t) \/ Delete(t) \/ Wipe(t) \/ Manage(t)
    \/ Restart

ChatsSpec == FirstBoot /\ [][ChatsNext]_chatsVars

-------------------------------------------------------------------------------
(* Properties.                                                              *)

\* chat_log.py: "current_id can change while the agent is still working ... and
\* the reply must not follow it there": every message is in the chat in which the
\* question of its turn was asked, whatever was opened, deleted or cleared since.
\* web.py:1648: the reply to an id that is no approval is in the chat that was open
\* when the id came in.
Answers(m) == m.of[1] # 0
RepliesStayInTheirChat ==
    \A m \in messages : m.of[2] = m.chat /\ (Answers(m) => m.of \in asked)

\* The reply of a turn whose chat was deleted shows up in no later chat.  (Chat 1
\* is left out: clear() and _bootstrap() give its id out again.)
StrayRepliesStayHidden ==
    \A m \in messages :
        Answers(m) /\ Contains(chats, m.chat) /\ m.chat # 1 => m.of[1] >= ids.since[m.chat]

\* Whatever happens to the chats while a turn works, its reply stays where it was
\* asked for.
RepliesStayPut == RepliesStayInTheirChat /\ StrayRepliesStayHidden

\* A chat is pending only while a turn of its own is being worked on, however the
\* turn ends.
TypingIsTrue ==
    \A t \in Threads : running[t] # Nothing =>
        (Stands(t, "work") \/ Stands(t, "end")) /\ running[t] = thread[t].chat

\* chat_log.py:20 "Exactly one conversation is "current" at a time": with nobody
\* at work, the current chat is one of the list.
CurrentExists ==
    (\A t \in Threads : Stands(t, "idle")) => Contains(chats, current)

\* web.py:1537 "The in-flight turn already covers this message": what is taken
\* for a retry has its turn under way.
DuplicateIsCovered ==
    \A t \in Threads : Stands(t, "check") /\ IsDuplicate(thread[t].chat, thread[t].text) =>
        \E other \in Threads, m \in Same(thread[t].chat, thread[t].text) :
            running[other] = thread[t].chat /\ thread[other].of = m.of

\* web.py:1535 "do not start a second agent run ... for it": no text has two runs
\* in one chat at the same time.
NoTwinTurns ==
    \A t, u \in Threads :
        t # u /\ running[t] # Nothing /\ running[t] = running[u] =>
            thread[t].text = Nothing \/ thread[t].text # thread[u].text
===============================================================================
