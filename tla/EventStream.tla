---------------------------- MODULE EventStream -----------------------------
(***************************************************************************)
(* From a published event to a browser tab: the broadcaster                *)
(* (utils/broadcaster.py: Redis channel, pump, queue) and the two loops of *)
(* a chat connection (api/websocket/task_stream_view.py).                  *)
(*                                                                         *)
(* An event is its place in the order of publication.  Redis delivers a    *)
(* PUBLISH to those subscribed at that moment; nothing is kept for later.  *)
(***************************************************************************)
EXTENDS Naturals, Sequences, SequencesExt

CONSTANTS
  Conns,     \* connections of the task, one after the other or side by side
  MaxEvents, \* bound: length of the log to which the session publishes
  MaxChat    \* bound: messages a tab sends

VARIABLES
  log,     \* history: what was published, an event or End
  live,    \* a session of the task runs and publishes
  client,  \* per connection: is the browser there
  view,    \* per connection: new, checked, open, ending or closed
  sub,     \* per connection: its subscription in Redis
  start,   \* history: per connection, Len(log) when it subscribed
  socket,  \* per connection: payloads at its pubsub connection, not read
  pump,    \* per connection: off, on, ended or failed
  queue,   \* per connection: the asyncio queue
  send,    \* per connection: the send loop: off, get, text or done
  hand,    \* per connection: the event taken from the queue
  recv,    \* per connection: the receive loop: off, text, push, echo or done
  chats,   \* per connection: messages sent
  sent     \* history: per connection, what the tab received; End is the close

tab    == <<client, chats, sent>>
feed   == <<sub, start, socket, pump>>
loops  == <<send, hand, recv>>
vars == <<log, live, view, tab, feed, queue, loops>>

End == 0

TypeOK ==
  /\ log \in Seq(Nat)
  /\ live \in BOOLEAN
  /\ client \in [Conns -> BOOLEAN]
  /\ sub \in [Conns -> BOOLEAN]
  /\ view \in [Conns -> {"new", "checked", "open", "ending", "closed"}]
  /\ start \in [Conns -> Nat]
  /\ socket \in [Conns -> Seq(Nat)]
  /\ queue \in [Conns -> Seq(Nat)]
  /\ sent \in [Conns -> Seq(Nat)]
  /\ pump \in [Conns -> {"off", "on", "ended", "failed"}]
  /\ send \in [Conns -> {"off", "get", "text", "done"}]
  /\ recv \in [Conns -> {"off", "text", "push", "echo", "done"}]
  /\ hand \in [Conns -> Nat]
  /\ chats \in [Conns -> Nat]

All(v) == [c \in Conns |-> v]

Init ==
  /\ log = <<>> /\ live = TRUE
  /\ client = All(TRUE) /\ chats = All(0) /\ sent = All(<<>>)
  /\ view = All("new")
  /\ sub = All(FALSE) /\ start = All(0) /\ socket = All(<<>>) /\ pump = All("off")
  /\ queue = All(<<>>)
  /\ send = All("off") /\ hand = All(End) /\ recv = All("off")

-----------------------------------------------------------------------------
(* Publishing. *)

\* One Redis PUBLISH.
Publish(payload) ==
  /\ log' = Append(log, payload)
  /\ socket' = [c \in Conns |-> IF sub[c] THEN Append(socket[c], payload) ELSE socket[c]]
  /\ UNCHANGED <<sub, start, pump>>

NextEvent == Len(log) + 1

\* The session, its hooks and its callback publish events.
PublishEvent ==
  /\ live /\ Len(log) < MaxEvents
  /\ Publish(NextEvent)
  /\ UNCHANGED <<live, view, tab, queue, loops>>

CloseTask ==
  /\ live /\ Len(log) < MaxEvents
  /\ live' = FALSE
  /\ Publish(End)
  /\ UNCHANGED <<view, tab, queue, loops>>

\* The task is retried, or the pipeline's failure is published after the
\* session has closed the stream.
Reopen ==
  /\ ~live
  /\ live' = TRUE
  /\ UNCHANGED <<log, view, tab, feed, queue, loops>>

-----------------------------------------------------------------------------
(* The connection: chat. *)

\* The user is authenticated and the connection accepted; the task is looked
\* up, and if there is none the connection is closed.
Accept(c) ==
  /\ view[c] = "new"
  /\ \/ view' = [view EXCEPT ![c] = "checked"] /\ UNCHANGED client
     \/ /\ view' = [view EXCEPT ![c] = "closed"]
        /\ client' = [client EXCEPT ![c] = FALSE]
  /\ UNCHANGED <<log, live, chats, sent, feed, queue, loops>>

Subscribe(c) ==
  /\ view[c] = "checked"
  /\ view'  = [view  EXCEPT ![c] = "open"]
  /\ sub'   = [sub   EXCEPT ![c] = TRUE]
  /\ start' = [start EXCEPT ![c] = Len(log)]
  /\ pump'  = [pump  EXCEPT ![c] = "on"]
  /\ send'  = [send  EXCEPT ![c] = "get"]
  /\ recv'  = [recv  EXCEPT ![c] = "text"]
  /\ UNCHANGED <<log, live, tab, socket, queue, hand>>

\* A fault: both loops have to end.
EndLoopsAll(c) ==
  /\ view[c] = "open"
  /\ send[c] = "done" /\ recv[c] = "done"
  /\ view' = [view EXCEPT ![c] = "ending"]
  /\ UNCHANGED <<log, live, tab, feed, queue, loops>>

\* The first loop to end: the other one is cancelled wherever it waits.
EndLoops(c) ==
  /\ view[c] = "open"
  /\ send[c] = "done" \/ recv[c] = "done"
  /\ view' = [view EXCEPT ![c] = "ending"]
  /\ send' = [send EXCEPT ![c] = "done"]
  /\ recv' = [recv EXCEPT ![c] = "done"]
  /\ UNCHANGED <<log, live, tab, feed, queue, hand>>

\* A fault: the subscription is left to a connection that is still there.
UnsubscribeIfThere(c) ==
  /\ view[c] = "ending"
  /\ view'   = [view   EXCEPT ![c] = "closed"]
  /\ sub'    = [sub    EXCEPT ![c] = @ /\ ~client[c]]
  /\ pump'   = [pump   EXCEPT ![c] = "ended"]
  /\ client' = [client EXCEPT ![c] = FALSE]
  /\ UNCHANGED <<log, live, start, socket, queue, loops, chats, sent>>

\* Finally: the pump is cancelled, the channel unsubscribed, the socket closed;
\* the history of the connection ends.
Unsubscribe(c) ==
  /\ view[c] = "ending"
  /\ view'   = [view   EXCEPT ![c] = "closed"]
  /\ sub'    = [sub    EXCEPT ![c] = FALSE]
  /\ pump'   = [pump   EXCEPT ![c] = "ended"]
  /\ socket' = [socket EXCEPT ![c] = <<>>]
  /\ queue'  = [queue  EXCEPT ![c] = <<>>]
  /\ client' = [client EXCEPT ![c] = FALSE]
  /\ start'  = [start  EXCEPT ![c] = 0]
  /\ sent'   = [sent   EXCEPT ![c] = <<>>]
  /\ hand'   = [hand   EXCEPT ![c] = End]
  /\ UNCHANGED <<log, live, send, recv, chats>>

Disconnect(c) ==
  /\ client[c] /\ view[c] \in {"checked", "open"}
  /\ client' = [client EXCEPT ![c] = FALSE]
  /\ UNCHANGED <<log, live, view, chats, sent, feed, queue, loops>>

-----------------------------------------------------------------------------
(* The pump. *)

Read(c) ==
  /\ pump[c] = "on" /\ socket[c] # <<>>
  /\ socket' = [socket EXCEPT ![c] = Tail(@)]

\* A fault: each payload is put in the queue by a task of its own.
PumpByTasks(c) ==
  /\ Read(c)
  /\ queue' \in {[queue EXCEPT ![c] = Append(@, Head(socket[c]))],
                 [queue EXCEPT ![c] = <<Head(socket[c])>> \o @]}
  /\ pump' = [pump EXCEPT ![c] = IF Head(socket[c]) = End THEN "ended" ELSE @]
  /\ UNCHANGED <<log, live, view, tab, sub, start, loops>>

\* One payload from the pubsub connection to the queue; the end marker, put
\* there as None, is the last.
Pump(c) ==
  /\ Read(c)
  /\ queue' = [queue EXCEPT ![c] = Append(@, Head(socket[c]))]
  /\ pump' = [pump EXCEPT ![c] = IF Head(socket[c]) = End THEN "ended" ELSE @]
  /\ UNCHANGED <<log, live, view, tab, sub, start, loops>>

\* The Redis connection breaks: the pump logs it and is gone.
PumpFails(c) ==
  /\ pump[c] = "on"
  /\ pump'   = [pump   EXCEPT ![c] = "failed"]
  /\ sub'    = [sub    EXCEPT ![c] = FALSE]
  /\ socket' = [socket EXCEPT ![c] = <<>>]
  /\ UNCHANGED <<log, live, view, tab, start, queue, loops>>

-----------------------------------------------------------------------------
(* _send_loop. *)

SendGet(c) ==
  /\ send[c] = "get" /\ queue[c] # <<>>
  /\ queue' = [queue EXCEPT ![c] = Tail(@)]
  /\ \/ /\ Head(queue[c]) = End
        /\ send' = [send EXCEPT ![c] = "done"]
        /\ sent' = [sent EXCEPT ![c] = IF client[c] THEN Append(@, End) ELSE @]
        /\ UNCHANGED hand
     \/ /\ Head(queue[c]) # End
        /\ send' = [send EXCEPT ![c] = "text"]
        /\ hand' = [hand EXCEPT ![c] = Head(queue[c])]
        /\ UNCHANGED sent
  /\ UNCHANGED <<log, live, view, client, chats, feed, recv>>

\* send_text: the tab has it, or is gone and the loop returns.
SendText(c) ==
  /\ send[c] = "text"
  /\ hand' = [hand EXCEPT ![c] = End]
  /\ \/ /\ client[c]
        /\ sent' = [sent EXCEPT ![c] = Append(@, hand[c])]
        /\ send' = [send EXCEPT ![c] = "get"]
     \/ /\ ~client[c]
        /\ send' = [send EXCEPT ![c] = "done"]
        /\ UNCHANGED sent
  /\ UNCHANGED <<log, live, view, client, chats, feed, queue, recv>>

-----------------------------------------------------------------------------
(* _recv_loop. *)

\* A chat message arrives.  (A ping, an envelope that is refused and a request
\* to close the session leave the loop where it is.)
RecvText(c) ==
  /\ recv[c] = "text" /\ client[c]
  /\ chats[c] < MaxChat
  /\ chats' = [chats EXCEPT ![c] = @ + 1]
  /\ recv' = [recv EXCEPT ![c] = "push"]
  /\ UNCHANGED <<log, live, view, client, sent, feed, queue, send, hand>>

RecvGone(c) ==
  /\ recv[c] = "text" /\ ~client[c]
  /\ recv' = [recv EXCEPT ![c] = "done"]
  /\ UNCHANGED <<log, live, view, tab, feed, queue, send, hand>>

\* The message goes to the input queue of the task (TaskInputQueue), which
\* may have no room for it; it is echoed either way.
PushChat(c) ==
  /\ recv[c] = "push"
  /\ recv' = [recv EXCEPT ![c] = "echo"]
  /\ UNCHANGED <<log, live, view, tab, feed, queue, send, hand>>

EchoChat(c) ==
  /\ recv[c] = "echo"
  /\ Publish(NextEvent)
  /\ recv' = [recv EXCEPT ![c] = "text"]
  /\ UNCHANGED <<live, view, tab, queue, send, hand>>

-----------------------------------------------------------------------------

\* What the event loop of the server runs.
Server(c) ==
  \/ EndLoops(c) \/ Unsubscribe(c) \/ Pump(c) \/ SendGet(c) \/ SendText(c)
  \/ RecvGone(c) \/ PushChat(c) \/ EchoChat(c)

Next ==
  \/ PublishEvent \/ CloseTask \/ Reopen
  \/ \E c \in Conns : \/ Accept(c) \/ Subscribe(c) \/ Disconnect(c) \/ PumpFails(c)
                      \/ RecvText(c) \/ Server(c)

Spec == Init /\ [][Next]_vars

\* The tasks of a connection run independently of each other on one event
\* loop, which gets round to each.
FairSpec ==
  /\ Spec
  /\ \A c \in Conns :
       /\ WF_vars(Subscribe(c) \/ EndLoops(c) \/ Unsubscribe(c))
       /\ WF_vars(Pump(c))
       /\ WF_vars(SendGet(c) \/ SendText(c))
       /\ WF_vars(RecvGone(c) \/ PushChat(c) \/ EchoChat(c))

-----------------------------------------------------------------------------
(* Properties. *)

\* What was published since c subscribed.
Since(c) == SubSeq(log, start[c] + 1, Len(log))
InHand(c) == IF send[c] = "text" THEN <<hand[c]>> ELSE <<>>

\* A tab receives what was published since it subscribed, in that order, once
\* and without a gap; and while its pump lives, the rest is on its way.
InOrder ==
  \A c \in Conns :
    /\ IsPrefix(sent[c], Since(c))
    /\ view[c] = "open" /\ client[c] /\ pump[c] \in {"on", "ended"} =>
         sent[c] \o InHand(c) \o queue[c] \o socket[c] = Since(c)

\* A tab never waits for events that cannot come: while its send loop waits at
\* an empty queue, somebody still feeds the queue, unless the pump has failed.
NeverDeaf ==
  \A c \in Conns :
    view[c] = "open" /\ send[c] = "get" /\ queue[c] = <<>> /\ pump[c] # "failed"
      => pump[c] = "on" /\ sub[c]

Ended(c) == \E i \in 1..Len(Since(c)) : Since(c)[i] = End

\* A connection that was subscribed when the task was closed is closed too,
\* whatever its tab does, unless its pump has failed.
StreamEnds ==
  \A c \in Conns : (view[c] = "open" /\ Ended(c)) ~> (view[c] = "closed" \/ pump[c] = "failed")

\* A tab that goes away leaves no subscription behind, not even from within a
\* message it was sending.
Released == \A c \in Conns : ~client[c] ~> (view[c] = "closed" /\ ~sub[c])
=============================================================================
