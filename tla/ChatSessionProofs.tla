------------------------- MODULE ChatSessionProofs -------------------------
(***************************************************************************)
(* The input queue for any number of connections and any cap: typing, the  *)
(* bound on the overshoot of the cap, and ordered, at most once delivery.  *)
(* Then the chat session for any timeouts, messages and retries: it uses   *)
(* its queue as TaskInputQueue describes, saves what the agent sees, shows *)
(* a truthful status, and starts no turn later than a second past its      *)
(* deadline.                                                               *)
(***************************************************************************)
EXTENDS ChatSession, FiniteSetTheorems, TLAPS

-----------------------------------------------------------------------------
(* The queue, for any number of connections and any cap. *)

\* Every operation of the queue keeps its variables in their types.
LEMMA QueueTypes ==
  ASSUME QueueTypeOK, [QueueNext]_queueVars
  PROVE  QueueTypeOK'
<1> USE DEF QueueTypeOK
<1>1. ASSUME NEW c \in Conns, Check(c)
      PROVE  QueueTypeOK'
  BY <1>1 DEF Check
<1>2. ASSUME NEW c \in Conns, Append1(c)
      PROVE  QueueTypeOK'
  <2>1. [from |-> c, seq |-> sent[c]] \in Message
    BY DEF Message
  <2> QED
    BY <1>2, <2>1 DEF Append1
<1>3. ASSUME NEW c \in Conns, Cancel(c)
      PROVE  QueueTypeOK'
  BY <1>3 DEF Cancel
<1>4. ASSUME WaitForMessage
      PROVE  QueueTypeOK'
  <2>1. Head(queue) \in Message /\ Tail(queue) \in Seq(Message)
    BY <1>4 DEF WaitForMessage
  <2> QED
    BY <1>4, <2>1 DEF WaitForMessage, Message
<1>5. ASSUME Clear
      PROVE  QueueTypeOK'
  BY <1>5 DEF Clear
<1>6. CASE UNCHANGED queueVars
  BY <1>6 DEF queueVars
<1> QED
  BY <1>1, <1>2, <1>3, <1>4, <1>5, <1>6 DEF QueueNext, Push

\* push, wait_for_message and clear keep the queue's variables in their types.
THEOREM QueueTyping == QueueSpec => []QueueTypeOK
<1>1. QueueInit => QueueTypeOK
  BY DEF QueueInit, QueueTypeOK
<1> QED
  BY <1>1, QueueTypes, PTL DEF QueueSpec

-----------------------------------------------------------------------------
\* The connections past their check are finitely many, at most all of them.
LEMMA PushingCard ==
  ASSUME NEW S \in SUBSET Conns
  PROVE  /\ IsFiniteSet(S)
         /\ Cardinality(S) \in Nat
         /\ Cardinality(Conns) \in Nat
         /\ Cardinality(S) <= Cardinality(Conns)
BY ConnsAssumption, FS_Subset, FS_CardinalityType

\* Leaving the set of connections past their check frees one place.
LEMMA PushingLeave ==
  ASSUME NEW c \in Conns, QueueTypeOK, phase[c] = "push",
         phase' = [phase EXCEPT ![c] = "idle"]
  PROVE  Cardinality(Pushing') = Cardinality(Pushing) - 1
<1>1. Pushing' = Pushing \ {c} /\ c \in Pushing
  BY DEF Pushing, QueueTypeOK
<1>2. IsFiniteSet(Pushing)
  BY PushingCard DEF Pushing
<1> QED
  BY <1>1, <1>2, FS_RemoveElement

\* push and wait_for_message keep the depth, with the messages past their
\* check counted in, below the cap plus the number of connections.
THEOREM DepthInvariant == QueueSpec => []DepthInv
<1>1. QueueInit => DepthInv
  <2> SUFFICES ASSUME QueueInit PROVE DepthInv
    OBVIOUS
  <2>1. Pushing = {}
    BY DEF QueueInit, Pushing
  <2>2. Len(queue) = 0 /\ Cardinality(Pushing) = 0
    BY <2>1, FS_EmptySet DEF QueueInit
  <2>3. Cardinality(Conns) \in Nat \ {0}
    BY ConnsAssumption, FS_EmptySet, FS_CardinalityType
  <2> QED
    BY <2>2, <2>3, MaxDepthAssumption DEF DepthInv
<1>2. QueueTypeOK /\ DepthInv /\ [QueueNext]_queueVars => DepthInv'
  <2> SUFFICES ASSUME QueueTypeOK, DepthInv, [QueueNext]_queueVars
               PROVE  DepthInv'
    OBVIOUS
  <2>n. /\ Len(queue) \in Nat
        /\ Cardinality(Pushing) \in Nat
        /\ Cardinality(Conns) \in Nat
        /\ Cardinality(Pushing') \in Nat
        /\ Cardinality(Pushing') <= Cardinality(Conns)
        /\ MaxDepth \in Nat
    <3>1. Pushing \in SUBSET Conns /\ Pushing' \in SUBSET Conns
      BY DEF Pushing
    <3>2. Len(queue) \in Nat
      BY DEF QueueTypeOK
    <3> QED
      BY <3>1, <3>2, PushingCard, MaxDepthAssumption
  <2>1. ASSUME NEW c \in Conns, Check(c)
        PROVE  DepthInv'
    <3>1. CASE HasRoom
      <4>1. Len(queue') = Len(queue) /\ Len(queue) < MaxDepth
        BY <2>1, <3>1 DEF Check, HasRoom
      <4> QED
        BY <4>1, <2>n DEF DepthInv
    <3>2. CASE ~HasRoom
      <4>1. phase' = phase /\ queue' = queue
        BY <2>1, <3>2 DEF Check, QueueTypeOK
      <4> QED
        BY <4>1 DEF DepthInv, Pushing
    <3> QED
      BY <3>1, <3>2
  <2>2. ASSUME NEW c \in Conns, Append1(c)
        PROVE  DepthInv'
    <3>1. Cardinality(Pushing') = Cardinality(Pushing) - 1
      BY <2>2, PushingLeave DEF Append1
    <3>2. Len(queue') = Len(queue) + 1
      BY <2>2 DEF Append1, QueueTypeOK
    <3> QED
      BY <3>1, <3>2, <2>n DEF DepthInv
  <2>3. ASSUME NEW c \in Conns, Cancel(c)
        PROVE  DepthInv'
    <3>1. Cardinality(Pushing') = Cardinality(Pushing) - 1
      BY <2>3, PushingLeave DEF Cancel
    <3>2. queue' = queue
      BY <2>3 DEF Cancel
    <3> QED
      BY <3>1, <3>2, <2>n DEF DepthInv
  <2>4. ASSUME WaitForMessage
        PROVE  DepthInv'
    <3>1. Len(queue') = Len(queue) - 1
      BY <2>4 DEF WaitForMessage, QueueTypeOK
    <3>2. Pushing' = Pushing
      BY <2>4 DEF WaitForMessage, Pushing
    <3> QED
      BY <3>1, <3>2, <2>n DEF DepthInv
  <2>5. ASSUME Clear
        PROVE  DepthInv'
    <3>1. Len(queue') = 0
      BY <2>5 DEF Clear
    <3>2. Pushing' = Pushing
      BY <2>5 DEF Clear, Pushing
    <3> QED
      BY <3>1, <3>2, <2>n DEF DepthInv
  <2>6. CASE UNCHANGED queueVars
    BY <2>6 DEF queueVars, DepthInv, Pushing
  <2> QED
    BY <2>1, <2>2, <2>3, <2>4, <2>5, <2>6 DEF QueueNext, Push
<1> QED
  BY <1>1, <1>2, QueueTyping, PTL DEF QueueSpec

\* The list exceeds _MAX_QUEUE_DEPTH by fewer messages than there are
\* connections pushing to it.
THEOREM DepthBound == QueueSpec => []DepthBounded
<1>1. QueueTypeOK /\ DepthInv => DepthBounded
  <2> SUFFICES ASSUME QueueTypeOK, DepthInv PROVE DepthBounded
    OBVIOUS
  <2>1. Len(queue) \in Nat
    BY DEF QueueTypeOK
  <2>2. Cardinality(Pushing) \in Nat /\ Cardinality(Conns) \in Nat
    BY PushingCard DEF Pushing
  <2> QED
    BY <2>1, <2>2, MaxDepthAssumption DEF DepthInv, DepthBounded
<1> QED
  BY <1>1, QueueTyping, DepthInvariant, PTL

-----------------------------------------------------------------------------
\* The messages of one connection are queued and popped in the order it sent
\* them, and no message is popped twice.
THEOREM InOrder == QueueSpec => []DeliveryInOrder
<1>1. QueueInit => OrderInv
  BY DEF QueueInit, OrderInv, DeliveryInOrder, Pushing
<1>2. QueueTypeOK /\ OrderInv /\ [QueueNext]_queueVars => OrderInv'
  <2> SUFFICES ASSUME QueueTypeOK, OrderInv, [QueueNext]_queueVars
               PROVE  OrderInv'
    OBVIOUS
  <2>t. /\ \A i \in 1..Len(queue) : queue[i].from \in Conns /\ queue[i].seq \in Nat
        /\ sent \in [Conns -> Nat] /\ taken \in [Conns -> Nat]
        /\ phase \in [Conns -> {"idle", "push"}]
        /\ Len(queue) \in Nat
    <3>1. \A i \in 1..Len(queue) : queue[i] \in Message
      BY DEF QueueTypeOK
    <3>2. \A m \in Message : m.from \in Conns /\ m.seq \in Nat
      BY DEF Message
    <3> QED
      BY <3>1, <3>2 DEF QueueTypeOK
  <2>1. ASSUME NEW c \in Conns, Check(c)
        PROVE  OrderInv'
    <3>1. /\ queue' = queue /\ taken' = taken
          /\ sent' = [sent EXCEPT ![c] = @ + 1]
          /\ phase' \in [Conns -> {"idle", "push"}]
          /\ \A d \in Conns : d # c => phase'[d] = phase[d]
      BY <2>1, <2>t DEF Check
    <3> QED
      BY <3>1, <2>t DEF OrderInv, DeliveryInOrder, Pushing
  <2>2. ASSUME NEW c \in Conns, Append1(c)
        PROVE  OrderInv'
    <3> DEFINE n == Len(queue) + 1
    <3>1. /\ Len(queue') = n
          /\ \A i \in 1..Len(queue) : queue'[i] = queue[i]
          /\ queue'[n].from = c /\ queue'[n].seq = sent[c]
          /\ \A i \in 1..n : i \in 1..Len(queue) \/ i = n
      BY <2>2, <2>t DEF Append1, QueueTypeOK
    <3>2. /\ phase[c] = "push" /\ phase'[c] = "idle"
          /\ \A d \in Conns : d # c => phase'[d] = phase[d]
          /\ sent' = sent /\ taken' = taken
      BY <2>2, <2>t DEF Append1
    <3> HIDE DEF n
    <3>3. /\ taken[c] < sent[c]
          /\ \A i \in 1..Len(queue) : queue[i].from = c => queue[i].seq < sent[c]
      BY <3>2 DEF OrderInv, Pushing
    <3>4. DeliveryInOrder'
      <4>1. \A i \in 1..n : queue'[i].seq > taken[queue'[i].from]
        BY <3>1, <3>3, <2>t DEF OrderInv, DeliveryInOrder
      <4>2. ASSUME NEW i \in 1..n, NEW j \in 1..n, i < j, queue'[i].from = queue'[j].from
            PROVE  queue'[i].seq < queue'[j].seq
        <5>1. i \in 1..Len(queue)
          BY <4>2, <2>t DEF n
        <5> QED
          BY <4>2, <5>1, <3>1, <3>3 DEF OrderInv, DeliveryInOrder
      <4> QED
        BY <4>1, <4>2, <3>1, <3>2 DEF DeliveryInOrder
    <3>5. \A i \in 1..n : queue'[i].seq <= sent[queue'[i].from]
      <4>1. \A i \in 1..Len(queue) : queue'[i].seq <= sent[queue'[i].from]
        BY <3>1 DEF OrderInv
      <4>2. queue'[n].seq <= sent[queue'[n].from]
        BY <3>1, <2>t
      <4> QED
        BY <4>1, <4>2, <3>1
    <3>6. ASSUME NEW d \in Pushing'
          PROVE  /\ taken[d] < sent[d]
                 /\ \A i \in 1..n : queue'[i].from = d => queue'[i].seq < sent[d]
      <4>1. d # c /\ d \in Pushing
        BY <3>2, <3>6 DEF Pushing
      <4> QED
        BY <4>1, <3>1 DEF OrderInv
    <3> QED
      BY <3>1, <3>2, <3>4, <3>5, <3>6 DEF OrderInv
  <2>3. ASSUME NEW c \in Conns, Cancel(c)
        PROVE  OrderInv'
    <3>1. Pushing' \subseteq Pushing
      BY <2>3, <2>t DEF Cancel, Pushing
    <3> QED
      BY <2>3, <3>1 DEF Cancel, OrderInv, DeliveryInOrder
  <2>4. ASSUME WaitForMessage
        PROVE  OrderInv'
    <3> DEFINE f == queue[1].from
    <3>1. /\ Len(queue) > 0 /\ Len(queue') = Len(queue) - 1
          /\ \A i \in 1..Len(queue') : i + 1 \in 1..Len(queue) /\ queue'[i] = queue[i + 1]
      <4>1. queue \in Seq(Message) /\ queue # <<>> /\ queue' = Tail(queue)
        BY <2>4 DEF WaitForMessage, QueueTypeOK
      <4>2. Len(queue) > 0 /\ Len(queue') = Len(queue) - 1
        BY <4>1, <2>t
      <4>3. \A i \in 1..Len(queue') : queue'[i] = queue[i + 1]
        BY <4>1
      <4>4. \A n \in Nat : n = Len(queue) - 1 => \A i \in 1..n : i + 1 \in 1..Len(queue)
        BY <2>t
      <4>5. Len(queue') \in Nat
        BY <4>2, <2>t
      <4> QED
        BY <4>2, <4>3, <4>4, <4>5
    <3>2. /\ taken' = [taken EXCEPT ![f] = queue[1].seq]
          /\ sent' = sent /\ Pushing' = Pushing
          /\ f \in Conns /\ 1 \in 1..Len(queue)
      <4>1. Head(queue) = queue[1]
        BY <2>4 DEF WaitForMessage, QueueTypeOK
      <4>2. 1 \in 1..Len(queue)
        BY <3>1, <2>t
      <4> QED
        BY <2>4, <2>t, <4>1, <4>2 DEF WaitForMessage, Pushing
    <3>3. DeliveryInOrder'
      <4>1. ASSUME NEW i \in 1..Len(queue')
            PROVE  queue'[i].seq > taken'[queue'[i].from]
        <5>1. /\ i + 1 \in 1..Len(queue) /\ queue'[i] = queue[i + 1]
              /\ 1 < i + 1
          BY <3>1, <4>1
        <5>2. CASE queue[i + 1].from = f
          BY <5>1, <5>2, <3>2, <2>t DEF OrderInv, DeliveryInOrder
        <5>3. CASE queue[i + 1].from # f
          BY <5>1, <5>3, <3>2, <2>t DEF OrderInv, DeliveryInOrder
        <5> QED
          BY <5>2, <5>3
      <4>2. ASSUME NEW i \in 1..Len(queue'), NEW j \in 1..Len(queue'), i < j,
                   queue'[i].from = queue'[j].from
            PROVE  queue'[i].seq < queue'[j].seq
        <5>1. i + 1 < j + 1
          BY <4>2
        <5> QED
          BY <4>2, <5>1, <3>1 DEF OrderInv, DeliveryInOrder
      <4> QED
        BY <4>1, <4>2 DEF DeliveryInOrder
    <3>4. \A c \in Conns : taken'[c] <= sent[c]
      BY <3>2, <2>t DEF OrderInv
    <3>5. \A i \in 1..Len(queue') : queue'[i].seq <= sent[queue'[i].from]
      BY <3>1 DEF OrderInv
    <3>6. \A c \in Pushing : /\ taken'[c] < sent[c]
                             /\ \A i \in 1..Len(queue') :
                                  queue'[i].from = c => queue'[i].seq < sent[c]
      BY <3>1, <3>2, <2>t DEF OrderInv, Pushing
    <3> QED
      BY <3>2, <3>3, <3>4, <3>5, <3>6 DEF OrderInv
  <2>5. ASSUME Clear
        PROVE  OrderInv'
    BY <2>5 DEF Clear, OrderInv, DeliveryInOrder, Pushing
  <2>6. CASE UNCHANGED queueVars
    BY <2>6 DEF queueVars, OrderInv, DeliveryInOrder, Pushing
  <2> QED
    BY <2>1, <2>2, <2>3, <2>4, <2>5, <2>6 DEF QueueNext, Push
<1>3. OrderInv => DeliveryInOrder
  BY DEF OrderInv
<1> QED
  BY <1>1, <1>2, <1>3, QueueTyping, PTL DEF QueueSpec

-----------------------------------------------------------------------------
(* Rounding. *)

\* The quotient and the remainder of whole seconds.
LEMMA Division ==
  ASSUME NEW t \in Nat
  PROVE  /\ t \div TicksPerSec \in Int
         /\ t % TicksPerSec \in 0..(TicksPerSec - 1)
         /\ t = TicksPerSec * (t \div TicksPerSec) + (t % TicksPerSec)
<1>1. TicksPerSec \in Int /\ TicksPerSec > 0
  BY TimeAssumption
<1>2. /\ t \div TicksPerSec \in Int
      /\ t % TicksPerSec \in 0..(TicksPerSec - 1)
  BY <1>1
<1>3. t % TicksPerSec = t - (TicksPerSec * (t \div TicksPerSec))
  BY <1>1
<1> QED
  BY <1>1, <1>2, <1>3

\* The BLPOP timeout is at least a tick and less than a second longer than the
\* time that remains.
LEMMA TimeoutBound ==
  ASSUME NEW t \in Nat \ {0}
  PROVE  /\ BlpopTimeout(t) \in Nat
         /\ BlpopTimeout(t) < t + TicksPerSec
<1> DEFINE s == t \div TicksPerSec
           r == t % TicksPerSec
<1>1. /\ s \in Int /\ r \in 0..(TicksPerSec - 1) /\ TicksPerSec \in Nat \ {0}
      /\ t = TicksPerSec * s + r
  BY Division, TimeAssumption
<1>2. RoundSec(t) = IF 2 * r < TicksPerSec \/ (2 * r = TicksPerSec /\ s % 2 = 0)
                    THEN s ELSE s + 1
  BY DEF RoundSec
<1> HIDE DEF s, r
<1>3. RoundSec(t) \in Int /\ TicksPerSec * RoundSec(t) < t + TicksPerSec
  <2>1. CASE RoundSec(t) = s
    BY <1>1, <2>1
  <2>2. CASE RoundSec(t) = s + 1 /\ 2 * r >= TicksPerSec
    <3>1. TicksPerSec * (s + 1) = TicksPerSec * s + TicksPerSec
      BY <1>1
    <3> QED
      BY <1>1, <2>2, <3>1
  <2> QED
    BY <1>1, <1>2, <2>1, <2>2
<1>4. CASE RoundSec(t) >= 1
  <2>1. BlpopTimeout(t) = TicksPerSec * RoundSec(t)
    BY <1>3, <1>4 DEF BlpopTimeout, Greatest
  <2>2. TicksPerSec * RoundSec(t) \in Nat
    BY <1>1, <1>3, <1>4
  <2> QED
    BY <1>3, <2>1, <2>2
<1>5. CASE RoundSec(t) < 1
  <2>1. BlpopTimeout(t) = TicksPerSec
    BY <1>1, <1>3, <1>5 DEF BlpopTimeout, Greatest
  <2> QED
    BY <1>1, <2>1
<1> QED
  BY <1>3, <1>4, <1>5
-----------------------------------------------------------------------------
(* The session and its queue. *)

\* What a session, its surroundings and the connections do to the queue is a
\* step of the queue, or leaves it unchanged.
LEMMA QueueStep == [Next]_vars => [QueueNext]_queueVars
BY DEF Next, RunStep, Connect, StartTurn, EndTurn, PostTurn, LoopTop, Announce,
       Budget, Receive, TimeOut, End, Teardown, Unregister, ConnectFails, Crash,
       RequestClose, Shutdown, CancelSession, Retry, PushMessage, Tick,
       QueueNext, vars, queueVars

\* The session implements TaskInputQueue: it uses the list only through push,
\* wait_for_message and clear, so what is proved of the queue holds of it.
THEOREM ImplementsQueue == Spec => QueueSpec
BY QueueStep, PTL DEF Spec, Init, QueueSpec, queueVars

\* Whatever its timers, failures, cancellations and retries do, the sessions of a task take
\* each connection's messages in the order it sent them and none twice (wait_for_message and
\* clear, as session.py and the teardown call them).
THEOREM TakesInOrder == Spec => []DeliveryInOrder
BY InOrder, ImplementsQueue, PTL

\* However many connections push at once, the list exceeds the cap by fewer messages than
\* there are connections, while sessions take from it, clear it and come anew (push).
THEOREM BoundedQueue == Spec => []DepthBounded
BY DepthBound, ImplementsQueue, PTL

-----------------------------------------------------------------------------
\* The types of the session's own variables.
SessionTypes ==
  /\ pc \in {"connect", "start", "stream", "callback", "loop", "announce",
             "budget", "wait", "end", "teardown", "unregister", "gone"}
  /\ sessions \in 1..MaxSessions
  /\ resumed \in BOOLEAN /\ closeReq \in BOOLEAN /\ stopping \in BOOLEAN
  /\ turn \in {"none", "initial", "user"}
  /\ reason \in {"none", "user_closed", "idle", "hard", "error", "cancelled"}
  /\ status \in {"running", "awaiting_user_message", "publishing", "completed", "failed"}
  /\ now \in Nat /\ lastInputAt \in Nat /\ until \in Nat
  /\ popped \in Nat /\ persisted \in Nat

\* What remains of the timers, never negative.
LEMMA RemainingType ==
  ASSUME SessionTypes
  PROVE  Remaining \in Nat
BY TimeAssumption DEF SessionTypes, Remaining, Least, Greatest

LEMMA SessionTyping ==
  ASSUME SessionTypes, [Next]_vars
  PROVE  SessionTypes'
<1> USE DEF SessionTypes
<1>1. ASSUME Connect
      PROVE  SessionTypes'
  BY <1>1 DEF Connect, Goto, timeVars, histVars, runVars
<1>2. ASSUME StartTurn
      PROVE  SessionTypes'
  BY <1>2 DEF StartTurn, Goto, timeVars, histVars, runVars
<1>3. ASSUME EndTurn
      PROVE  SessionTypes'
  BY <1>3 DEF EndTurn, Goto, timeVars, histVars, runVars
<1>4. ASSUME PostTurn
      PROVE  SessionTypes'
  BY <1>4 DEF PostTurn, Goto, timeVars, histVars, runVars
<1>5. ASSUME LoopTop
      PROVE  SessionTypes'
  BY <1>5 DEF LoopTop, Goto, timeVars, histVars, runVars, Expired
<1>6. ASSUME Announce
      PROVE  SessionTypes'
  BY <1>6 DEF Announce, Goto, timeVars, histVars, runVars
<1>7. ASSUME Budget
      PROVE  SessionTypes'
  <2>1. CASE Remaining = 0
    BY <1>7, <2>1 DEF Budget, Goto, histVars, runVars
  <2>2. CASE Remaining # 0
    <3>1. BlpopTimeout(Remaining) \in Nat
      BY <2>2, RemainingType, TimeoutBound
    <3> QED
      BY <1>7, <2>2, <3>1 DEF Budget, Goto, histVars, runVars
  <2> QED
    BY <2>1, <2>2
<1>8. ASSUME Receive
      PROVE  SessionTypes'
  BY <1>8 DEF Receive, Goto, timeVars, histVars, runVars
<1>9. ASSUME TimeOut
      PROVE  SessionTypes'
  BY <1>9 DEF TimeOut, Goto, timeVars, histVars, runVars
<1>10. ASSUME End
      PROVE  SessionTypes'
  BY <1>10 DEF End, Goto, timeVars, histVars, runVars
<1>11. ASSUME Teardown
      PROVE  SessionTypes'
  BY <1>11 DEF Teardown, Goto, timeVars, histVars, runVars
<1>12. ASSUME Unregister
      PROVE  SessionTypes'
  BY <1>12 DEF Unregister, Goto, timeVars, histVars, runVars
<1>13. ASSUME ConnectFails
      PROVE  SessionTypes'
  BY <1>13 DEF ConnectFails, Goto, timeVars, histVars, runVars
<1>14. ASSUME Crash
      PROVE  SessionTypes'
  BY <1>14 DEF Crash, Goto, timeVars, histVars, runVars
<1>15. ASSUME RequestClose
      PROVE  SessionTypes'
  BY <1>15 DEF RequestClose, Goto, timeVars, histVars, runVars
<1>16. ASSUME Shutdown
      PROVE  SessionTypes'
  BY <1>16 DEF Shutdown, Goto, timeVars, histVars, runVars
<1>17. ASSUME CancelSession
      PROVE  SessionTypes'
  BY <1>17 DEF CancelSession, Goto, timeVars, histVars, runVars
<1>18. ASSUME Retry
      PROVE  SessionTypes'
  <2>1. MaxSessions \in Nat /\ sessions' \in 1..MaxSessions
    BY <1>18, TimeAssumption DEF Retry
  <2> QED
    BY <1>18, <2>1 DEF Retry
<1>19. ASSUME NEW c \in Conns, PushMessage(c)
      PROVE  SessionTypes'
  BY <1>19 DEF PushMessage, timeVars, histVars, runVars
<1>20. ASSUME Tick
      PROVE  SessionTypes'
  BY <1>20 DEF Tick, timeVars, histVars, runVars
<1>21. CASE UNCHANGED vars
  BY <1>21 DEF vars, timeVars, histVars, runVars
<1> QED
  BY <1>1, <1>2, <1>3, <1>4, <1>5, <1>6, <1>7, <1>8, <1>9, <1>10, <1>11, <1>12, <1>13, <1>14, <1>15, <1>16, <1>17, <1>18, <1>19, <1>20, <1>21
     DEF Next, RunStep

\* Every step of the session, its queue and its surroundings keeps the types.
THEOREM Typing == Spec => []TypeOK
<1>1. TypeOK <=> QueueTypeOK /\ SessionTypes
  BY DEF TypeOK, SessionTypes
<1>2. Init => QueueTypeOK /\ SessionTypes
  <2>1. MaxSessions \in Nat \ {0}
    BY TimeAssumption
  <2>2. Init => resumed \in BOOLEAN /\ closeReq \in BOOLEAN /\ stopping \in BOOLEAN
    BY Zenon DEF Init
  <2>3. Init => SessionTypes
    BY <2>1, <2>2 DEF Init, SessionTypes
  <2>4. Init => QueueTypeOK
    BY DEF Init, QueueInit, QueueTypeOK
  <2> QED
    BY <2>3, <2>4
<1>3. QueueTypeOK /\ SessionTypes /\ [Next]_vars => (QueueTypeOK /\ SessionTypes)'
  BY QueueStep, QueueTypes, SessionTyping
<1> QED
  BY <1>1, <1>2, <1>3, PTL DEF Spec

-----------------------------------------------------------------------------
\* PersistedOnce made inductive: a message between its pop and its save is the
\* one that the turn about to start is for, and what earlier sessions lost is
\* one message each.
SavedInv ==
  /\ persisted <= popped /\ popped <= persisted + sessions
  /\ pc \in {"connect", "stream", "callback", "loop", "announce", "budget", "wait"} =>
       popped < persisted + sessions
  /\ pc = "start" =>
       IF turn = "user" THEN persisted < popped ELSE popped < persisted + sessions

LEMMA SavedStep ==
  ASSUME SessionTypes, SavedInv, [Next]_vars
  PROVE  SavedInv'
<1> USE DEF SessionTypes, SavedInv
<1>1. ASSUME Connect
      PROVE  SavedInv'
  BY <1>1 DEF Connect, Goto, timeVars, histVars, runVars
<1>2. ASSUME StartTurn
      PROVE  SavedInv'
  BY <1>2 DEF StartTurn, Goto, timeVars, histVars, runVars
<1>3. ASSUME EndTurn
      PROVE  SavedInv'
  BY <1>3 DEF EndTurn, Goto, timeVars, histVars, runVars
<1>4. ASSUME PostTurn
      PROVE  SavedInv'
  BY <1>4 DEF PostTurn, Goto, timeVars, histVars, runVars
<1>5. ASSUME LoopTop
      PROVE  SavedInv'
  BY <1>5 DEF LoopTop, Goto, timeVars, histVars, runVars
<1>6. ASSUME Announce
      PROVE  SavedInv'
  BY <1>6 DEF Announce, Goto, timeVars, histVars, runVars
<1>7. ASSUME Budget
      PROVE  SavedInv'
  BY <1>7 DEF Budget, Goto, timeVars, histVars, runVars
<1>8. ASSUME Receive
      PROVE  SavedInv'
  BY <1>8 DEF Receive, Goto, timeVars, histVars, runVars
<1>9. ASSUME TimeOut
      PROVE  SavedInv'
  BY <1>9 DEF TimeOut, Goto, timeVars, histVars, runVars
<1>10. ASSUME End
      PROVE  SavedInv'
  BY <1>10 DEF End, Goto, timeVars, histVars, runVars
<1>11. ASSUME Teardown
      PROVE  SavedInv'
  BY <1>11 DEF Teardown, Goto, timeVars, histVars, runVars
<1>12. ASSUME Unregister
      PROVE  SavedInv'
  BY <1>12 DEF Unregister, Goto, timeVars, histVars, runVars
<1>13. ASSUME ConnectFails
      PROVE  SavedInv'
  BY <1>13 DEF ConnectFails, Goto, timeVars, histVars, runVars
<1>14. ASSUME Crash
      PROVE  SavedInv'
  BY <1>14 DEF Crash, Goto, timeVars, histVars, runVars
<1>15. ASSUME RequestClose
      PROVE  SavedInv'
  BY <1>15 DEF RequestClose, Goto, timeVars, histVars, runVars
<1>16. ASSUME Shutdown
      PROVE  SavedInv'
  BY <1>16 DEF Shutdown, Goto, timeVars, histVars, runVars
<1>17. ASSUME CancelSession
      PROVE  SavedInv'
  BY <1>17 DEF CancelSession, Goto, timeVars, histVars, runVars
<1>18. ASSUME Retry
      PROVE  SavedInv'
  BY <1>18 DEF Retry, Goto, timeVars, histVars, runVars
<1>19. ASSUME NEW c \in Conns, PushMessage(c)
      PROVE  SavedInv'
  BY <1>19 DEF PushMessage, Goto, timeVars, histVars, runVars
<1>20. ASSUME Tick
      PROVE  SavedInv'
  BY <1>20 DEF Tick, Goto, timeVars, histVars, runVars
<1>21. CASE UNCHANGED vars
  BY <1>21 DEF vars, timeVars, histVars, runVars
<1> QED
  BY <1>1, <1>2, <1>3, <1>4, <1>5, <1>6, <1>7, <1>8, <1>9, <1>10,
     <1>11, <1>12, <1>13, <1>14, <1>15, <1>16, <1>17, <1>18, <1>19, <1>20,
     <1>21
     DEF Next, RunStep

\* Every message the agent sees was saved exactly once, and a session loses at
\* most one that it has popped, for any number of messages and retries.
THEOREM Persisted == Spec => []PersistedOnce
<1>1. Init => SavedInv
  BY DEF Init, SavedInv
<1>2. SavedInv /\ SessionTypes /\ [Next]_vars => SavedInv'
  BY SavedStep
<1>3. TypeOK => SessionTypes
  BY DEF TypeOK, SessionTypes
<1>4. SavedInv /\ SessionTypes => PersistedOnce
  BY DEF SavedInv, SessionTypes, PersistedOnce
<1> QED
  BY <1>1, <1>2, <1>3, <1>4, Typing, PTL DEF Spec

-----------------------------------------------------------------------------
\* StatusTruthful made inductive: the status is right as soon as it is written.
StatusInv ==
  /\ pc \in {"budget", "wait"} => status = "awaiting_user_message"
  /\ pc = "stream" => status = "running"
  /\ pc \in {"teardown", "unregister", "gone"} /\ reason # "cancelled" =>
       status = IF reason = "error" THEN "failed" ELSE "completed"

LEMMA StatusStep ==
  ASSUME SessionTypes, StatusInv, [Next]_vars
  PROVE  StatusInv'
<1> USE DEF SessionTypes, StatusInv
<1>1. ASSUME Connect
      PROVE  StatusInv'
  BY <1>1 DEF Connect, Goto, timeVars, histVars, runVars
<1>2. ASSUME StartTurn
      PROVE  StatusInv'
  BY <1>2 DEF StartTurn, Goto, timeVars, histVars, runVars
<1>3. ASSUME EndTurn
      PROVE  StatusInv'
  BY <1>3 DEF EndTurn, Goto, timeVars, histVars, runVars
<1>4. ASSUME PostTurn
      PROVE  StatusInv'
  BY <1>4 DEF PostTurn, Goto, timeVars, histVars, runVars
<1>5. ASSUME LoopTop
      PROVE  StatusInv'
  BY <1>5 DEF LoopTop, Goto, timeVars, histVars, runVars
<1>6. ASSUME Announce
      PROVE  StatusInv'
  BY <1>6 DEF Announce, Goto, timeVars, histVars, runVars
<1>7. ASSUME Budget
      PROVE  StatusInv'
  BY <1>7 DEF Budget, Goto, timeVars, histVars, runVars
<1>8. ASSUME Receive
      PROVE  StatusInv'
  BY <1>8 DEF Receive, Goto, timeVars, histVars, runVars
<1>9. ASSUME TimeOut
      PROVE  StatusInv'
  BY <1>9 DEF TimeOut, Goto, timeVars, histVars, runVars
<1>10. ASSUME End
      PROVE  StatusInv'
  BY <1>10 DEF End, Goto, timeVars, histVars, runVars
<1>11. ASSUME Teardown
      PROVE  StatusInv'
  BY <1>11 DEF Teardown, Goto, timeVars, histVars, runVars
<1>12. ASSUME Unregister
      PROVE  StatusInv'
  BY <1>12 DEF Unregister, Goto, timeVars, histVars, runVars
<1>13. ASSUME ConnectFails
      PROVE  StatusInv'
  BY <1>13 DEF ConnectFails, Goto, timeVars, histVars, runVars
<1>14. ASSUME Crash
      PROVE  StatusInv'
  BY <1>14 DEF Crash, Goto, timeVars, histVars, runVars
<1>15. ASSUME RequestClose
      PROVE  StatusInv'
  BY <1>15 DEF RequestClose, Goto, timeVars, histVars, runVars
<1>16. ASSUME Shutdown
      PROVE  StatusInv'
  BY <1>16 DEF Shutdown, Goto, timeVars, histVars, runVars
<1>17. ASSUME CancelSession
      PROVE  StatusInv'
  BY <1>17 DEF CancelSession, Goto, timeVars, histVars, runVars
<1>18. ASSUME Retry
      PROVE  StatusInv'
  BY <1>18 DEF Retry, Goto, timeVars, histVars, runVars
<1>19. ASSUME NEW c \in Conns, PushMessage(c)
      PROVE  StatusInv'
  BY <1>19 DEF PushMessage, Goto, timeVars, histVars, runVars
<1>20. ASSUME Tick
      PROVE  StatusInv'
  BY <1>20 DEF Tick, Goto, timeVars, histVars, runVars
<1>21. CASE UNCHANGED vars
  BY <1>21 DEF vars, timeVars, histVars, runVars
<1> QED
  BY <1>1, <1>2, <1>3, <1>4, <1>5, <1>6, <1>7, <1>8, <1>9, <1>10,
     <1>11, <1>12, <1>13, <1>14, <1>15, <1>16, <1>17, <1>18, <1>19, <1>20,
     <1>21
     DEF Next, RunStep

\* Whatever fails, times out or is closed, the status of the task tells what
\* its session does.
THEOREM Truthful == Spec => []StatusTruthful
<1>1. Init => StatusInv
  BY DEF Init, StatusInv
<1>2. StatusInv /\ SessionTypes /\ [Next]_vars => StatusInv'
  BY StatusStep
<1>3. TypeOK => SessionTypes
  BY DEF TypeOK, SessionTypes
<1>4. StatusInv => StatusTruthful
  BY DEF StatusInv, StatusTruthful
<1> QED
  BY <1>1, <1>2, <1>3, <1>4, Typing, PTL DEF Spec

-----------------------------------------------------------------------------
\* While BLPOP waits it is not past its timeout, and the timeout is less than
\* a second past the deadline.
TimeInv ==
  /\ lastInputAt <= now
  /\ pc = "wait" => now <= until /\ until < Deadline + TicksPerSec

LEMMA TimeStep ==
  ASSUME SessionTypes, TimeInv, [Next]_vars
  PROVE  TimeInv'
<1> USE DEF SessionTypes, TimeInv
<1>1. ASSUME Connect
      PROVE  TimeInv'
  BY <1>1 DEF Connect, Goto, timeVars, histVars, runVars, Deadline, Least
<1>2. ASSUME StartTurn
      PROVE  TimeInv'
  BY <1>2 DEF StartTurn, Goto, timeVars, histVars, runVars, Deadline, Least
<1>3. ASSUME EndTurn
      PROVE  TimeInv'
  BY <1>3 DEF EndTurn, Goto, timeVars, histVars, runVars, Deadline, Least
<1>4. ASSUME PostTurn
      PROVE  TimeInv'
  BY <1>4 DEF PostTurn, Goto, timeVars, histVars, runVars, Deadline, Least
<1>5. ASSUME LoopTop
      PROVE  TimeInv'
  BY <1>5 DEF LoopTop, Goto, timeVars, histVars, runVars, Deadline, Least
<1>6. ASSUME Announce
      PROVE  TimeInv'
  BY <1>6 DEF Announce, Goto, timeVars, histVars, runVars, Deadline, Least
<1>7. ASSUME Budget
      PROVE  TimeInv'
  <2>1. CASE Remaining = 0
    BY <1>7, <2>1 DEF Budget, Goto, histVars, runVars
  <2>2. CASE Remaining # 0
    <3>1. /\ Remaining \in Nat \ {0}
          /\ BlpopTimeout(Remaining) \in Nat
          /\ BlpopTimeout(Remaining) < Remaining + TicksPerSec
      BY <2>2, RemainingType, TimeoutBound
    <3>2. until' = now + BlpopTimeout(Remaining) /\ now' = now /\ lastInputAt' = lastInputAt
      BY <1>7, <2>2 DEF Budget
    <3>3. now + Remaining = Deadline /\ Deadline' = Deadline
      BY <2>2, <3>2, TimeAssumption DEF Remaining, Deadline, Least, Greatest
    <3>4. Deadline \in Int /\ TicksPerSec \in Nat
      BY TimeAssumption DEF Deadline, Least
    <3> HIDE DEF SessionTypes
    <3> QED
      BY <3>1, <3>2, <3>3, <3>4 DEF SessionTypes
  <2> QED
    BY <2>1, <2>2
<1>8. ASSUME Receive
      PROVE  TimeInv'
  BY <1>8 DEF Receive, Goto, timeVars, histVars, runVars, Deadline, Least
<1>9. ASSUME TimeOut
      PROVE  TimeInv'
  BY <1>9 DEF TimeOut, Goto, timeVars, histVars, runVars, Deadline, Least
<1>10. ASSUME End
      PROVE  TimeInv'
  BY <1>10 DEF End, Goto, timeVars, histVars, runVars, Deadline, Least
<1>11. ASSUME Teardown
      PROVE  TimeInv'
  BY <1>11 DEF Teardown, Goto, timeVars, histVars, runVars, Deadline, Least
<1>12. ASSUME Unregister
      PROVE  TimeInv'
  BY <1>12 DEF Unregister, Goto, timeVars, histVars, runVars, Deadline, Least
<1>13. ASSUME ConnectFails
      PROVE  TimeInv'
  BY <1>13 DEF ConnectFails, Goto, timeVars, histVars, runVars, Deadline, Least
<1>14. ASSUME Crash
      PROVE  TimeInv'
  BY <1>14 DEF Crash, Goto, timeVars, histVars, runVars, Deadline, Least
<1>15. ASSUME RequestClose
      PROVE  TimeInv'
  BY <1>15 DEF RequestClose, Goto, timeVars, histVars, runVars, Deadline, Least
<1>16. ASSUME Shutdown
      PROVE  TimeInv'
  BY <1>16 DEF Shutdown, Goto, timeVars, histVars, runVars, Deadline, Least
<1>17. ASSUME CancelSession
      PROVE  TimeInv'
  BY <1>17 DEF CancelSession, Goto, timeVars, histVars, runVars, Deadline, Least
<1>18. ASSUME Retry
      PROVE  TimeInv'
  BY <1>18 DEF Retry, Goto, timeVars, histVars, runVars, Deadline, Least
<1>19. ASSUME NEW c \in Conns, PushMessage(c)
      PROVE  TimeInv'
  BY <1>19 DEF PushMessage, Goto, timeVars, histVars, runVars, Deadline, Least
<1>20. ASSUME Tick
      PROVE  TimeInv'
  BY <1>20 DEF Tick, Goto, timeVars, histVars, runVars, Deadline, Least
<1>21. CASE UNCHANGED vars
  BY <1>21 DEF vars, timeVars, histVars, runVars, Deadline, Least
<1> QED
  BY <1>1, <1>2, <1>3, <1>4, <1>5, <1>6, <1>7, <1>8, <1>9, <1>10,
     <1>11, <1>12, <1>13, <1>14, <1>15, <1>16, <1>17, <1>18, <1>19, <1>20,
     <1>21
     DEF Next, RunStep

\* No turn starts a second or more past the deadline of its session, for any
\* timeouts and any clock: neither rounding to whole seconds nor the minimum of
\* one second costs more.
THEOREM InTime == Spec => NoTurnPastDeadline
<1>1. Init => TimeInv
  BY TimeAssumption DEF Init, TimeInv
<1>2. TimeInv /\ SessionTypes /\ [Next]_vars => TimeInv'
  BY TimeStep
<1>3. TypeOK => SessionTypes
  BY DEF TypeOK, SessionTypes
<1>4. TimeInv /\ SessionTypes /\ [Next]_vars
        => [pc = "wait" /\ pc' = "start" => now < Deadline + TicksPerSec]_vars
  BY TimeAssumption DEF TimeInv, SessionTypes, Deadline, Least
<1> QED
  BY <1>1, <1>2, <1>3, <1>4, Typing, PTL DEF Spec, NoTurnPastDeadline
=============================================================================
