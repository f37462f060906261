--------------------------- MODULE TaskInputQueue ---------------------------
(***************************************************************************)
(* The Redis list that carries a user's chat messages to the session of    *)
(* one task (utils/task_input_queue.py), with its producers, the receive   *)
(* loops of the WebSocket connections (api/websocket/task_stream_view.py). *)
(*                                                                         *)
(* push is two Redis calls, LLEN and RPUSH, with an await between them, so *)
(* the pushes of several connections interleave.  One connection handles   *)
(* its envelopes one after the other.  BLPOP and DEL are single calls.     *)
(***************************************************************************)
EXTENDS Naturals, Sequences, FiniteSets

CONSTANTS
  Conns,      \* open WebSocket connections of the task
  MaxDepth,   \* _MAX_QUEUE_DEPTH
  MaxSent     \* bound: chat messages one connection sends

ASSUME ConnsAssumption    == IsFiniteSet(Conns) /\ Conns # {}
ASSUME MaxDepthAssumption == MaxDepth \in Nat \ {0}
ASSUME MaxSentAssumption  == MaxSent \in Nat

VARIABLES
  queue,  \* the list clyde:task:{id}:input
  phase,  \* per connection: "idle", or "push" between LLEN and RPUSH
  sent,   \* per connection: chat messages received from the browser so far
  taken   \* per connection: the newest of its messages a session has popped

queueVars == <<queue, phase, sent, taken>>

\* A message is known by the connection that sent it and its position there.
Message == [from : Conns, seq : Nat]

QueueTypeOK ==
  /\ queue \in Seq(Message)
  /\ phase \in [Conns -> {"idle", "push"}]
  /\ sent  \in [Conns -> Nat]
  /\ taken \in [Conns -> Nat]

QueueInit ==
  /\ queue = <<>>
  /\ phase = [c \in Conns |-> "idle"]
  /\ sent  = [c \in Conns |-> 0]
  /\ taken = [c \in Conns |-> 0]

-----------------------------------------------------------------------------
\* A fault: the cap tested with > instead of >=.
HasRoomOffByOne == Len(queue) <= MaxDepth

\* The test push makes on the depth LLEN returned.
HasRoom == Len(queue) < MaxDepth

\* The receive loop takes the next chat_message and push calls LLEN; at the
\* cap the message is dropped and push returns False.
Check(c) ==
  /\ phase[c] = "idle"
  /\ sent[c] < MaxSent
  /\ sent' = [sent EXCEPT ![c] = @ + 1]
  /\ phase' = [phase EXCEPT ![c] = IF HasRoom THEN "push" ELSE "idle"]
  /\ UNCHANGED <<queue, taken>>

\* A fault: LPUSH instead of RPUSH.
Append1Lpush(c) ==
  /\ phase[c] = "push"
  /\ queue' = <<[from |-> c, seq |-> sent[c]]>> \o queue
  /\ phase' = [phase EXCEPT ![c] = "idle"]
  /\ UNCHANGED <<sent, taken>>

\* push appends with RPUSH.  The depth is the one LLEN saw, not the present one.
Append1(c) ==
  /\ phase[c] = "push"
  /\ queue' = Append(queue, [from |-> c, seq |-> sent[c]])
  /\ phase' = [phase EXCEPT ![c] = "idle"]
  /\ UNCHANGED <<sent, taken>>

\* The receive task is cancelled between the two calls, because the send loop
\* of the same connection ended first.
Cancel(c) ==
  /\ phase[c] = "push"
  /\ phase' = [phase EXCEPT ![c] = "idle"]
  /\ UNCHANGED <<queue, sent, taken>>

\* wait_for_message: BLPOP hands the oldest message to the session.  A
\* timeout returns None and changes nothing.
WaitForMessage ==
  /\ queue # <<>>
  /\ queue' = Tail(queue)
  /\ taken' = [taken EXCEPT ![Head(queue).from] = Head(queue).seq]
  /\ UNCHANGED <<phase, sent>>

\* clear: the session's teardown deletes the key.
Clear ==
  /\ queue' = <<>>
  /\ UNCHANGED <<phase, sent, taken>>

Push(c) == Check(c) \/ Append1(c) \/ Cancel(c)

QueueNext == (\E c \in Conns : Push(c)) \/ WaitForMessage \/ Clear

QueueSpec == QueueInit /\ [][QueueNext]_queueVars

-----------------------------------------------------------------------------
\* "Hard cap": LLEN and RPUSH are two calls, so connections that both see room
\* exceed it.  What push does guarantee: each connection holds at most one
\* message past its check, so the list exceeds the cap by fewer messages than
\* there are connections.
DepthBounded == Len(queue) <= MaxDepth + Cardinality(Conns) - 1

\* The depth bound made inductive: a message past its check counts as queued.
Pushing == {c \in Conns : phase[c] = "push"}
DepthInv == Len(queue) + Cardinality(Pushing) <= MaxDepth + Cardinality(Conns) - 1

\* The sessions take the messages of one connection in the order it sent them
\* and none twice: what is queued is newer than all that was taken, and older
\* messages stand in front of newer ones.
DeliveryInOrder ==
  /\ \A i \in 1..Len(queue) : queue[i].seq > taken[queue[i].from]
  /\ \A i, j \in 1..Len(queue) :
       i < j /\ queue[i].from = queue[j].from => queue[i].seq < queue[j].seq

\* Its strengthening: nothing taken or queued is newer than what was sent, and
\* while a connection is pushing its newest message is neither.
OrderInv ==
  /\ DeliveryInOrder
  /\ \A c \in Conns : taken[c] <= sent[c]
  /\ \A i \in 1..Len(queue) : queue[i].seq <= sent[queue[i].from]
  /\ \A c \in Pushing :
       /\ taken[c] < sent[c]
       /\ \A i \in 1..Len(queue) : queue[i].from = c => queue[i].seq < sent[c]
=============================================================================
