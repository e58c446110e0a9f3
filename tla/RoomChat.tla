------------------------------- MODULE RoomChat ------------------------------
(***************************************************************************)
(* What the players of a room say to each other (service/chat.py and       *)
(* chat.send of controller/ws.py): inserted once however often a client    *)
(* sends it, read back in pages from the newest, cleared when the game     *)
(* ends.  The order of the messages is that of (created_at, id): a number  *)
(* that a message is given when it is inserted, before the commit.         *)
(***************************************************************************)
EXTENDS Naturals, Sequences, Descending

CONSTANTS ChatSockets,
          Lines,            \* [socket -> the client_message_ids it may send]
          PageLimit,
          MaxStamp          \* bound: inserts that are tried

ASSUME ChatAssumption == PageLimit \in Nat /\ MaxStamp \in Nat

VARIABLES chat,     \* committed messages: [stamp, line]
          sending,  \* [socket -> what its handler is at]
          over,     \* the phase is Completed
          stamp,
          heardChat,\* messages that were broadcast
          pages,    \* stamps that a reader has been given, page after page
          there     \* the messages of the room when the reader began

chatVars == <<chat, sending, over, stamp, heardChat, pages, there>>

NotSending == [at |-> "listening", line |-> 0, stamp |-> 0]

ChatInit ==
  /\ chat = {} /\ sending = [s \in ChatSockets |-> NotSending] /\ over = FALSE /\ stamp = 0
  /\ heardChat = {} /\ pages = <<>> /\ there = {}

-----------------------------------------------------------------------------
\* chat.send: refused when the game has ended.
ReadChatPhase(s, line) ==
  /\ sending[s].at = "listening" /\ ~over
  /\ sending' = [sending EXCEPT ![s] = [NotSending EXCEPT !.at = "read", !.line = line]]
  /\ UNCHANGED <<chat, over, stamp, heardChat, pages, there>>

\* The insert, in a savepoint.
InsertMessage(s) ==
  /\ sending[s].at = "read" /\ stamp < MaxStamp
  /\ stamp' = stamp + 1
  /\ sending' = [sending EXCEPT ![s].at = "inserted", ![s].stamp = stamp + 1]
  /\ UNCHANGED <<chat, over, heardChat, pages, there>>

\* The message that was sent before with this client_message_id.
SentBefore(line) == {m \in chat : m.line = line}

\* The commit, or the message of the unique key; it is told to the room either way.
SaveMessage(s) ==
  /\ sending[s].at = "inserted"
  /\ LET line == sending[s].line
         new  == {[stamp |-> sending[s].stamp, line |-> line]}
         kept == IF SentBefore(line) = {} THEN new ELSE SentBefore(line)
     IN  chat' = chat \cup kept /\ heardChat' = heardChat \cup kept
  /\ sending' = [sending EXCEPT ![s] = NotSending]
  /\ UNCHANGED <<over, stamp, pages, there>>

\* clear_room_chat, with the commit that ends the game.
ClearChat ==
  /\ ~over /\ over' = TRUE
  /\ chat' = {}
  /\ UNCHANGED <<sending, stamp, heardChat, pages, there>>

-----------------------------------------------------------------------------
\* Mutant of IsBefore: a page begins with the last message of the one before.
IsNotAfter(m, anchor) == m.stamp <= anchor

IsBefore(m, anchor) == m.stamp < anchor

\* list_chat_messages: newest first, before a message that must still be there.
Page(anchor) ==
  LET older  == IF anchor = 0 THEN chat
                ELSE {m \in chat : IsBefore(m, anchor) /\ \E a \in chat : a.stamp = anchor}
      sorted == Descending({m.stamp : m \in older})
  IN  SubSeq(sorted, 1, IF Len(sorted) < PageLimit THEN Len(sorted) ELSE PageLimit)

ReadNewest ==
  /\ pages' = Page(0) /\ there' = chat
  /\ UNCHANGED <<chat, sending, over, stamp, heardChat>>

ReadOlder ==
  /\ pages # <<>>
  /\ pages' = pages \o Page(pages[Len(pages)])
  /\ UNCHANGED <<chat, sending, over, stamp, heardChat, there>>

ChatNext ==
  \/ \E s \in ChatSockets : \/ \E line \in Lines[s] : ReadChatPhase(s, line)
                            \/ InsertMessage(s) \/ SaveMessage(s)
  \/ ClearChat \/ ReadNewest \/ ReadOlder

-----------------------------------------------------------------------------
\* A message that a client sends twice, on two sockets or again after a lost answer,
\* is one message to everybody until the game ends; and a reader who turns the pages
\* while others write is given every message that was there, once, newest first.
ChatIsKept ==
  /\ \A m, n \in heardChat : m.line = n.line => m = n \/ over
  /\ \A i, j \in DOMAIN pages : i < j => pages[i] > pages[j]
  /\ pages # <<>> => \A m \in there : m.stamp >= pages[Len(pages)] =>
                       \E i \in DOMAIN pages : pages[i] = m.stamp
=============================================================================
