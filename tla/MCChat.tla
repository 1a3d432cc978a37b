--------------------------------- MODULE MCChat ---------------------------------
(***************************************************************************)
(* Small instances for TLC of the chat turn, of the streams in which what  *)
(* it produced is read, and of the conversations it belongs to.            *)
(***************************************************************************)
EXTENDS TurnsAndStreams, Conversations

CONSTANTS a1, p1, p2, t1, t2, w1

all == <<part, vars, streams, chatsVars>>

Start ==
    /\ Init /\ Streams!Init /\ FirstBoot
    /\ \/ part \in {"turns", "chats"} /\ channel = "screen"
       \/ part = "streams" /\ wired = [tools |-> TRUE, brain |-> TRUE]
    /\ part = "chats" => wired = [tools |-> TRUE, brain |-> TRUE]

Step ==
    \/ TurnsOrStreams /\ UNCHANGED chatsVars
    \/ part = "chats" /\ ChatsNext /\ UNCHANGED <<part, vars, streams>>

\* Every call to a model or a tool has a timeout; the reader of a terminal
\* absorbs what it has read, and a client goes on following.
ChatAndStreams ==
    /\ Start /\ [][Step]_all
    /\ \A a \in Askers : WF_vars(Proceed(a))
    /\ WF_streams(Streams!Absorb) /\ WF_streams(Streams!Read)
    /\ WF_streams(part = "streams" /\ Streams!Follow)
===============================================================================
