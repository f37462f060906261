------------------------- MODULE EventStreamProofs --------------------------
(***************************************************************************)
(* The event stream of a connection for any number of connections, events  *)
(* and messages: a tab gets what was published since it subscribed, in     *)
(* order and without a gap, and never waits for events nobody can bring.   *)
(***************************************************************************)
EXTENDS EventStream, SequenceTheorems, TLAPS

\* A sequence that loses its head or gains an element.
LEMMA Moving ==
  ASSUME NEW s \in Seq(Nat), NEW e \in Nat
  PROVE  /\ Append(s, e) \in Seq(Nat)
         /\ Len(Append(s, e)) = Len(s) + 1
         /\ \A i \in 1..Len(s) : Append(s, e)[i] = s[i]
         /\ Append(s, e)[Len(s) + 1] = e
         /\ s # <<>> => /\ Head(s) \in Nat /\ Head(s) = s[1]
                        /\ Tail(s) \in Seq(Nat)
                        /\ Len(s) >= 1
                        /\ Len(Tail(s)) = Len(s) - 1
                        /\ \A i \in 1..Len(Tail(s)) : Tail(s)[i] = s[i + 1]
OBVIOUS

-----------------------------------------------------------------------------
(* Sequences: what it takes to follow an event from one place to the next. *)

LEMMA PrefixIs ==
  ASSUME NEW s \in Seq(Nat), NEW t \in Seq(Nat)
  PROVE  IsPrefix(s, t) <=> Len(s) <= Len(t) /\ \A i \in 1..Len(s) : s[i] = t[i]
BY SubSeqFull DEF IsPrefix

LEMMA EmptyPrefix ==
  ASSUME NEW t \in Seq(Nat)
  PROVE  IsPrefix(<<>>, t)
<1>1. <<>> \in Seq(Nat) /\ Len(<<>>) = 0 /\ Len(t) \in Nat /\ 1..0 = {}
  OBVIOUS
<1>2. IsPrefix(<<>>, t) <=> Len(<<>>) <= Len(t) /\ \A i \in 1..Len(<<>>) : <<>>[i] = t[i]
  BY <1>1, PrefixIs
<1> QED
  BY <1>1, <1>2

\* What follows a prefix can be left out, and more may come at the end.
LEMMA PrefixFacts ==
  ASSUME NEW s \in Seq(Nat), NEW u \in Seq(Nat), NEW t \in Seq(Nat), NEW e \in Nat
  PROVE  /\ s \o u \in Seq(Nat)
         /\ IsPrefix(s, s \o u)
         /\ IsPrefix(s \o u, t) => IsPrefix(s, t)
         /\ IsPrefix(s, t) => IsPrefix(s, Append(t, e))
<1>1. /\ s \o u \in Seq(Nat) /\ Len(s \o u) >= Len(s)
      /\ \A i \in 1..Len(s) : (s \o u)[i] = s[i]
  OBVIOUS
<1>2. ASSUME NEW v \in Seq(Nat), Len(v) >= Len(s), \A i \in 1..Len(s) : v[i] = s[i]
      PROVE  IsPrefix(s, v) /\ (IsPrefix(v, t) => IsPrefix(s, t))
  BY <1>2, PrefixIs
<1>3. Append(t, e) \in Seq(Nat) /\ Len(Append(t, e)) = Len(t) + 1
      /\ \A i \in 1..Len(t) : Append(t, e)[i] = t[i]
  OBVIOUS
<1>4. ASSUME NEW v \in Seq(Nat), Len(v) = Len(t) + 1, \A i \in 1..Len(t) : v[i] = t[i]
      PROVE  IsPrefix(s, t) => IsPrefix(s, v)
  <2>1. IsPrefix(s, t) => Len(s) <= Len(t) /\ \A i \in 1..Len(s) : s[i] = t[i]
    BY PrefixIs
  <2>2. Len(s) <= Len(v) /\ (\A i \in 1..Len(s) : s[i] = v[i]) => IsPrefix(s, v)
    BY PrefixIs
  <2> QED
    BY <1>4, <2>1, <2>2
<1>5. IsPrefix(s, s \o u) /\ (IsPrefix(s \o u, t) => IsPrefix(s, t))
  BY <1>1, <1>2
<1>6. IsPrefix(s, t) => IsPrefix(s, Append(t, e))
  BY <1>3, <1>4
<1> QED
  BY <1>1, <1>5, <1>6

\* The head of the second of two places moves to the end of the first.
LEMMA Moved ==
  ASSUME NEW s \in Seq(Nat), NEW t \in Seq(Nat), NEW e \in Nat
  PROVE  /\ s \o Append(t, e) = Append(s \o t, e)
         /\ t # <<>> => Append(s, Head(t)) \o Tail(t) = s \o t
<1>1. s \o Append(t, e) = Append(s \o t, e)
  <2>1. Append(t, e) = t \o <<e>> /\ <<e>> \in Seq(Nat) /\ s \o t \in Seq(Nat)
    BY AppendIsConcat, ConcatProperties
  <2>2. Append(s \o t, e) = (s \o t) \o <<e>>
    BY <2>1, AppendIsConcat
  <2> QED
    BY <2>1, <2>2, ConcatAssociative
<1>2. ASSUME t # <<>>
      PROVE  Append(s, Head(t)) \o Tail(t) = s \o t
  <2>1. Head(t) \in Nat /\ Tail(t) \in Seq(Nat) /\ <<Head(t)>> \in Seq(Nat)
    BY <1>2, HeadTailProperties
  <2>2. Append(s, Head(t)) = s \o <<Head(t)>>
    BY <2>1, AppendIsConcat
  <2>3. <<Head(t)>> \o Tail(t) = t
    BY <1>2, SubSeqFull, TailIsSubSeq, SubSeqRecursiveFirst, Head(t) = t[1], 1 \in 1..Len(t),
       Len(t) \in 1..Len(t)
  <2>4. (s \o <<Head(t)>>) \o Tail(t) = s \o (<<Head(t)>> \o Tail(t))
    BY <2>1, ConcatAssociative, SMTT(30)
  <2> QED
    BY <2>2, <2>3, <2>4
<1> QED
  BY <1>1, <1>2

\* What was published since a place in the log, one event later.
LEMMA SinceGrows ==
  ASSUME NEW l \in Seq(Nat), NEW e \in Nat, NEW m \in 0..Len(l)
  PROVE  /\ SubSeq(l, m + 1, Len(l)) \in Seq(Nat)
         /\ SubSeq(Append(l, e), m + 1, Len(Append(l, e))) = Append(SubSeq(l, m + 1, Len(l)), e)
<1>1. /\ Append(l, e) \in Seq(Nat) /\ Len(Append(l, e)) = Len(l) + 1
      /\ Append(l, e)[Len(l) + 1] = e /\ \A i \in 1..Len(l) : Append(l, e)[i] = l[i]
  BY AppendProperties
<1>2. SubSeq(l, m + 1, Len(l)) \in Seq(Nat)
  OBVIOUS
<1>3. ASSUME NEW k \in Seq(Nat), Len(k) = Len(l) + 1, k[Len(l) + 1] = e,
             \A i \in 1..Len(l) : k[i] = l[i]
      PROVE  SubSeq(k, m + 1, Len(k)) = Append(SubSeq(l, m + 1, Len(l)), e)
  <2>1. SubSeq(k, m + 1, Len(k)) = SubSeq(k, m + 1, Len(l)) \o <<e>>
    BY <1>3, SubSeqRecursiveSecond, m + 1 \in 1..Len(k), Len(k) \in (m + 1)..Len(k), Len(k) - 1 = Len(l)
  <2>2. SubSeq(k, m + 1, Len(l)) = SubSeq(l, m + 1, Len(l))
    BY <1>3
  <2> QED
    BY <1>2, <2>1, <2>2, AppendIsConcat
<1> QED
  BY <1>1, <1>2, <1>3

LEMMA PublishTypes ==
  ASSUME TypeOK, NEW e \in Nat, Publish(e)
  PROVE  log' \in Seq(Nat) /\ socket' \in [Conns -> Seq(Nat)]
<1>1. \A c \in Conns : Append(socket[c], e) \in Seq(Nat)
  BY Moving DEF TypeOK
<1> QED
  BY <1>1, Moving DEF TypeOK, Publish

\* Every step of the publishers and of a connection keeps the types.
THEOREM Typing == Spec => []TypeOK
<1>1. Init => TypeOK
  BY DEF Init, TypeOK, All, End
<1>2. TypeOK /\ [Next]_vars => TypeOK'
  <2> SUFFICES ASSUME TypeOK, [Next]_vars
               PROVE  TypeOK'
    OBVIOUS
  <2> USE DEF TypeOK
  <2>1. CASE PublishEvent
    <3>1. NextEvent \in Nat
      BY DEF NextEvent
    <3> QED
      BY <2>1, <3>1, PublishTypes DEF PublishEvent, Publish, tab, loops
  <2>2. CASE CloseTask
    <3>1. End \in Nat
      BY DEF End
    <3> QED
      BY <2>2, <3>1, PublishTypes DEF CloseTask, Publish, tab, loops
  <2>3. CASE Reopen
    BY <2>3 DEF Reopen, tab, feed, loops
  <2>4. ASSUME NEW c \in Conns, Accept(c)
        PROVE  TypeOK'
    BY <2>4 DEF Accept, feed, loops
  <2>5. ASSUME NEW c \in Conns, Subscribe(c)
        PROVE  TypeOK'
    BY <2>5 DEF Subscribe, tab
  <2>6. ASSUME NEW c \in Conns, Disconnect(c)
        PROVE  TypeOK'
    BY <2>6 DEF Disconnect, feed, loops
  <2>7. ASSUME NEW c \in Conns, PumpFails(c)
        PROVE  TypeOK'
    BY <2>7 DEF PumpFails, tab, loops
  <2>8. ASSUME NEW c \in Conns, RecvText(c)
        PROVE  TypeOK'
    BY <2>8 DEF RecvText, feed
  <2>9. ASSUME NEW c \in Conns, EndLoops(c)
        PROVE  TypeOK'
    BY <2>9 DEF EndLoops, tab, feed
  <2>10. ASSUME NEW c \in Conns, Unsubscribe(c)
         PROVE  TypeOK'
    BY <2>10 DEF Unsubscribe, End
  <2>11. ASSUME NEW c \in Conns, Pump(c)
         PROVE  TypeOK'
    <3>1. /\ Head(socket[c]) \in Nat /\ Tail(socket[c]) \in Seq(Nat)
          /\ Append(queue[c], Head(socket[c])) \in Seq(Nat)
      BY <2>11, Moving DEF Pump, Read
    <3> QED
      BY <2>11, <3>1 DEF Pump, Read, tab, loops
  <2>12. ASSUME NEW c \in Conns, SendGet(c)
         PROVE  TypeOK'
    <3>1. /\ Head(queue[c]) \in Nat /\ Tail(queue[c]) \in Seq(Nat)
          /\ End \in Nat /\ Append(sent[c], End) \in Seq(Nat)
      BY <2>12, Moving DEF SendGet, End
    <3>2. CASE Head(queue[c]) = End
      <4>1. (IF client[c] THEN Append(sent[c], End) ELSE sent[c]) \in Seq(Nat)
        BY <3>1
      <4>2. sent' \in [Conns -> Seq(Nat)] /\ queue' \in [Conns -> Seq(Nat)]
        <5>1. sent' = [sent EXCEPT ![c] = IF client[c] THEN Append(sent[c], End) ELSE sent[c]]
          BY <2>12, <3>2 DEF SendGet
        <5>2. queue' = [queue EXCEPT ![c] = Tail(queue[c])]
          BY <2>12 DEF SendGet
        <5> QED
          BY <3>1, <4>1, <5>1, <5>2
      <4> QED
        BY <2>12, <3>2, <4>2 DEF SendGet, feed
    <3>3. CASE Head(queue[c]) # End
      <4>1. /\ queue' = [queue EXCEPT ![c] = Tail(queue[c])]
            /\ hand' = [hand EXCEPT ![c] = Head(queue[c])]
            /\ send' = [send EXCEPT ![c] = "text"] /\ UNCHANGED sent
        BY <2>12, <3>3 DEF SendGet
      <4>2. /\ queue' \in [Conns -> Seq(Nat)] /\ hand' \in [Conns -> Nat]
            /\ send' \in [Conns -> {"off", "get", "text", "done"}]
        BY <3>1, <4>1
      <4> QED
        BY <2>12, <4>1, <4>2 DEF SendGet, feed
    <3> QED
      BY <3>2, <3>3
  <2>13. ASSUME NEW c \in Conns, SendText(c)
         PROVE  TypeOK'
    <3>1. End \in Nat /\ Append(sent[c], hand[c]) \in Seq(Nat)
      BY Moving DEF End
    <3>2. sent' \in [Conns -> Seq(Nat)] /\ hand' \in [Conns -> Nat]
      <4>1. hand' = [hand EXCEPT ![c] = End]
        BY <2>13 DEF SendText
      <4>2. sent' = [sent EXCEPT ![c] = Append(sent[c], hand[c])] \/ UNCHANGED sent
        BY <2>13 DEF SendText
      <4> QED
        BY <3>1, <4>1, <4>2
    <3>3. send' \in [Conns -> {"off", "get", "text", "done"}]
      BY <2>13 DEF SendText
    <3> QED
      BY <2>13, <3>2, <3>3 DEF SendText, feed
  <2>14. ASSUME NEW c \in Conns, RecvGone(c) \/ PushChat(c)
         PROVE  TypeOK'
    BY <2>14 DEF RecvGone, PushChat, tab, feed
  <2>15. ASSUME NEW c \in Conns, EchoChat(c)
         PROVE  TypeOK'
    <3>1. NextEvent \in Nat
      BY DEF NextEvent
    <3> QED
      BY <2>15, <3>1, PublishTypes DEF EchoChat, Publish, tab
  <2>16. CASE UNCHANGED vars
    BY <2>16 DEF vars, tab, feed, loops
  <2> QED
    BY <2>1, <2>2, <2>3, <2>4, <2>5, <2>6, <2>7, <2>8, <2>9, <2>10, <2>11, <2>12,
       <2>13, <2>14, <2>15, <2>16 DEF Next, Server
<1> QED
  BY <1>1, <1>2, PTL DEF Spec

-----------------------------------------------------------------------------
(* Control: where the tasks of a connection are. *)

\* The end marker is the last thing in the queue of a loop that is to see it.
Marked(c) == queue[c] # <<>> /\ queue[c][Len(queue[c])] = End

Phase(c) ==
  /\ start[c] <= Len(log)
  /\ view[c] \in {"new", "checked"} =>
       /\ sent[c] = <<>> /\ queue[c] = <<>> /\ socket[c] = <<>>
       /\ send[c] = "off" /\ pump[c] = "off" /\ ~sub[c]
  /\ send[c] \in {"get", "text"} => view[c] = "open"
  /\ view[c] = "open" => pump[c] # "off" /\ (pump[c] # "failed" => sub[c])
  /\ pump[c] = "ended" /\ send[c] \in {"get", "text"} => Marked(c)

PhaseInv == \A c \in Conns : Phase(c)

\* A connection none of whose places changes stays where it is.
LEMMA Others ==
  ASSUME TypeOK, NEW d \in Conns, Phase(d), Len(log) <= Len(log'),
         view'[d] = view[d], sent'[d] = sent[d], queue'[d] = queue[d],
         socket'[d] = socket[d], send'[d] = send[d], pump'[d] = pump[d],
         sub'[d] = sub[d], start'[d] = start[d], log' \in Seq(Nat)
  PROVE  Phase(d)'
BY DEF Phase, Marked, TypeOK

\* A step of one connection leaves the others, and the log, alone.
LEMMA OneConn ==
  ASSUME TypeOK, PhaseInv, NEW c \in Conns, Phase(c)', UNCHANGED log,
         \A d \in Conns \ {c} :
            /\ view'[d] = view[d] /\ sent'[d] = sent[d] /\ queue'[d] = queue[d]
            /\ socket'[d] = socket[d] /\ send'[d] = send[d] /\ pump'[d] = pump[d]
            /\ sub'[d] = sub[d] /\ start'[d] = start[d]
  PROVE  PhaseInv'
<1>1. Len(log) <= Len(log') /\ log' \in Seq(Nat)
  BY DEF TypeOK
<1>2. ASSUME NEW d \in Conns, d # c
      PROVE  Phase(d)'
  <2>1. /\ view'[d] = view[d] /\ sent'[d] = sent[d] /\ queue'[d] = queue[d]
        /\ socket'[d] = socket[d] /\ send'[d] = send[d] /\ pump'[d] = pump[d]
        /\ sub'[d] = sub[d] /\ start'[d] = start[d] /\ Phase(d)
    BY <1>2 DEF PhaseInv
  <2> QED
    BY <1>1, <2>1, Others
<1> QED
  BY <1>2 DEF PhaseInv

\* A published event reaches the socket of a subscriber.
LEMMA PublishPhase ==
  ASSUME TypeOK, PhaseInv, NEW e \in Nat, Publish(e), UNCHANGED <<view, sent, queue, send>>
  PROVE  PhaseInv'
<1> SUFFICES ASSUME NEW d \in Conns
             PROVE  Phase(d)'
  BY DEF PhaseInv
<1>1. log' \in Seq(Nat) /\ Len(log') = Len(log) + 1
  BY Moving DEF Publish, TypeOK
<1>2. socket'[d] = IF sub[d] THEN Append(socket[d], e) ELSE socket[d]
  BY DEF Publish
<1> QED
  BY <1>1, <1>2 DEF Phase, PhaseInv, Marked, Publish, TypeOK

LEMMA PhaseStep == TypeOK /\ PhaseInv /\ [Next]_vars => PhaseInv'
<1> SUFFICES ASSUME TypeOK, PhaseInv, [Next]_vars
             PROVE  PhaseInv'
  OBVIOUS
<1>1. CASE PublishEvent
  BY <1>1, PublishPhase, NextEvent \in Nat DEF PublishEvent, NextEvent, tab, loops
<1>2. CASE CloseTask
  BY <1>2, PublishPhase DEF CloseTask, End, tab, loops
<1>3. CASE Reopen
  BY <1>3 DEF Reopen, tab, feed, loops, PhaseInv, Phase, Marked
<1>4. ASSUME NEW c \in Conns, Accept(c)
      PROVE  PhaseInv'
  <2>1. Phase(c)'
    BY <1>4 DEF Accept, feed, loops, PhaseInv, Phase, Marked, TypeOK
  <2> QED
    BY <1>4, <2>1, OneConn DEF Accept, feed, loops, TypeOK
<1>5. ASSUME NEW c \in Conns, Subscribe(c)
      PROVE  PhaseInv'
  <2>1. Phase(c)'
    BY <1>5 DEF Subscribe, tab, PhaseInv, Phase, Marked, TypeOK
  <2> QED
    BY <1>5, <2>1, OneConn DEF Subscribe, tab, TypeOK
<1>6. ASSUME NEW c \in Conns, Disconnect(c)
      PROVE  PhaseInv'
  BY <1>6 DEF Disconnect, feed, loops, PhaseInv, Phase, Marked
<1>7. ASSUME NEW c \in Conns, PumpFails(c)
      PROVE  PhaseInv'
  <2>1. Phase(c)'
    BY <1>7 DEF PumpFails, tab, loops, PhaseInv, Phase, Marked, TypeOK
  <2> QED
    BY <1>7, <2>1, OneConn DEF PumpFails, tab, loops, TypeOK
<1>8. ASSUME NEW c \in Conns, RecvText(c) \/ RecvGone(c) \/ PushChat(c)
      PROVE  PhaseInv'
  BY <1>8 DEF RecvText, RecvGone, PushChat, tab, feed, PhaseInv, Phase, Marked
<1>9. ASSUME NEW c \in Conns, EndLoops(c)
      PROVE  PhaseInv'
  <2>1. Phase(c)'
    BY <1>9 DEF EndLoops, tab, feed, PhaseInv, Phase, Marked, TypeOK
  <2> QED
    BY <1>9, <2>1, OneConn DEF EndLoops, tab, feed, TypeOK
<1>10. ASSUME NEW c \in Conns, Unsubscribe(c)
       PROVE  PhaseInv'
  <2>1. Phase(c)'
    BY <1>10 DEF Unsubscribe, PhaseInv, Phase, Marked, TypeOK
  <2> QED
    BY <1>10, <2>1, OneConn DEF Unsubscribe, TypeOK
<1>11. ASSUME NEW c \in Conns, Pump(c)
       PROVE  PhaseInv'
  <2>1. /\ Append(queue[c], Head(socket[c])) # <<>>
        /\ Append(queue[c], Head(socket[c]))[Len(Append(queue[c], Head(socket[c])))] = Head(socket[c])
    <3>1. Head(socket[c]) \in Nat /\ queue[c] \in Seq(Nat)
      BY <1>11, Moving DEF Pump, Read, TypeOK
    <3> QED
      BY <3>1, AppendProperties
  <2>2. queue'[c] = Append(queue[c], Head(socket[c]))
    BY <1>11 DEF Pump, TypeOK
  <2>3. Phase(c)'
    BY <1>11, <2>1, <2>2 DEF Pump, Read, tab, loops, PhaseInv, Phase, Marked, TypeOK
  <2> QED
    BY <1>11, <2>3, OneConn DEF Pump, Read, tab, loops, TypeOK
<1>12. ASSUME NEW c \in Conns, SendGet(c)
       PROVE  PhaseInv'
  <2>1. /\ queue[c] \in Seq(Nat) /\ queue[c] # <<>> /\ Head(queue[c]) = queue[c][1]
        /\ Tail(queue[c]) \in Seq(Nat) /\ Len(Tail(queue[c])) = Len(queue[c]) - 1
        /\ \A i \in 1..Len(Tail(queue[c])) : Tail(queue[c])[i] = queue[c][i + 1]
    BY <1>12, Moving DEF SendGet, TypeOK
  <2>2. CASE Head(queue[c]) = End
    <3>1. Phase(c)'
      <4>1. /\ send'[c] = "done" /\ view[c] = "open"
            /\ UNCHANGED <<log, view, feed>>
        BY <1>12, <2>2 DEF SendGet, PhaseInv, Phase, TypeOK
      <4> QED
        BY <4>1 DEF feed, PhaseInv, Phase
    <3> QED
      BY <1>12, <2>2, <3>1, OneConn DEF SendGet, feed, TypeOK
  <2>3. CASE Head(queue[c]) # End
    <3>1. Marked(c) => /\ Tail(queue[c]) # <<>>
                       /\ Tail(queue[c])[Len(Tail(queue[c]))] = End
      <4>1. Marked(c) => Len(queue[c]) >= 2
        BY <2>1, <2>3 DEF Marked
      <4>2. ASSUME Marked(c)
            PROVE  /\ Len(Tail(queue[c])) \in 1..Len(Tail(queue[c]))
                   /\ Len(Tail(queue[c])) + 1 = Len(queue[c])
        BY <2>1, <4>1, <4>2
      <4>3. ASSUME Marked(c)
            PROVE  Tail(queue[c])[Len(Tail(queue[c]))] = End /\ Tail(queue[c]) # <<>>
        <5>1. Tail(queue[c])[Len(Tail(queue[c]))] = queue[c][Len(Tail(queue[c])) + 1]
          BY <2>1, <4>2, <4>3
        <5>2. Tail(queue[c]) # <<>>
          BY <4>2, <4>3, Len(<<>>) = 0, 0 \notin 1..0
        <5> QED
          BY <4>2, <4>3, <5>1, <5>2 DEF Marked
      <4> QED
        BY <4>3
    <3>2. queue'[c] = Tail(queue[c])
      BY <1>12 DEF SendGet, TypeOK
    <3>3. Marked(c) => Marked(c)'
      BY <3>1, <3>2 DEF Marked
    <3>4. Phase(c)'
      BY <1>12, <2>3, <3>3 DEF SendGet, feed, PhaseInv, Phase, TypeOK
    <3> QED
      BY <1>12, <2>3, <3>4, OneConn DEF SendGet, feed, TypeOK
  <2> QED
    BY <2>2, <2>3
<1>13. ASSUME NEW c \in Conns, SendText(c)
       PROVE  PhaseInv'
  <2>1. Phase(c)'
    BY <1>13 DEF SendText, feed, PhaseInv, Phase, Marked, TypeOK
  <2> QED
    BY <1>13, <2>1, OneConn DEF SendText, feed, TypeOK
<1>14. ASSUME NEW c \in Conns, EchoChat(c)
       PROVE  PhaseInv'
  BY <1>14, PublishPhase, NextEvent \in Nat DEF EchoChat, NextEvent, tab
<1>15. CASE UNCHANGED vars
  BY <1>15 DEF vars, tab, feed, loops, PhaseInv, Phase, Marked
<1> QED
  BY <1>1, <1>2, <1>3, <1>4, <1>5, <1>6, <1>7, <1>8, <1>9, <1>10, <1>11, <1>12,
     <1>13, <1>14, <1>15 DEF Next, Server

\* A send loop that waits at an empty queue has a pump that is subscribed, or
\* whose failure is logged: none waits behind an end marker.
THEOREM Fed == Spec => []NeverDeaf
<1>1. Init => PhaseInv
  BY DEF Init, PhaseInv, Phase, All
<1>2. TypeOK /\ PhaseInv => NeverDeaf
  BY DEF PhaseInv, Phase, Marked, NeverDeaf, TypeOK
<1> QED
  BY <1>1, <1>2, PhaseStep, Typing, PTL DEF Spec

-----------------------------------------------------------------------------
(* Data: an event on its way is in one place, and in order. *)

\* What the tab has, and what the connection holds for it in this process.
Path(c) == sent[c] \o InHand(c) \o queue[c]

Order(c) ==
  /\ IsPrefix(sent[c], Since(c))
  /\ view[c] = "open" /\ client[c] => IsPrefix(Path(c), Since(c))
  /\ view[c] = "open" /\ client[c] /\ pump[c] \in {"on", "ended"} =>
       Path(c) \o socket[c] = Since(c)

OrderInv == \A c \in Conns : Order(c)

LEMMA Places ==
  ASSUME TypeOK, PhaseInv, NEW c \in Conns
  PROVE  /\ sent[c] \in Seq(Nat) /\ InHand(c) \in Seq(Nat) /\ queue[c] \in Seq(Nat)
         /\ socket[c] \in Seq(Nat) /\ Since(c) \in Seq(Nat) /\ hand[c] \in Nat
         /\ sent[c] \o InHand(c) \in Seq(Nat) /\ Path(c) \in Seq(Nat)
         /\ start[c] \in 0..Len(log)
<1>1. /\ sent[c] \in Seq(Nat) /\ queue[c] \in Seq(Nat) /\ socket[c] \in Seq(Nat)
      /\ hand[c] \in Nat /\ start[c] \in 0..Len(log) /\ log \in Seq(Nat)
  BY DEF TypeOK, PhaseInv, Phase
<1>2. InHand(c) \in Seq(Nat)
  BY <1>1 DEF InHand
<1>3. Since(c) \in Seq(Nat)
  BY <1>1, SinceGrows DEF Since
<1>4. sent[c] \o InHand(c) \in Seq(Nat)
  BY <1>1, <1>2, ConcatProperties
<1>5. Path(c) \in Seq(Nat)
  BY <1>1, <1>4, ConcatProperties DEF Path
<1> QED
  BY <1>1, <1>2, <1>3, <1>4, <1>5

\* Nothing moves, and the tab may have gone.
LEMMA OrderKept ==
  ASSUME NEW d \in Conns, Order(d),
         view'[d] = view[d] \/ view'[d] # "open",
         client'[d] = client[d] \/ client'[d] = FALSE,
         pump'[d] = pump[d] \/ pump'[d] = "failed",
         socket'[d] = socket[d] \/ pump'[d] = "failed",
         sent'[d] = sent[d], queue'[d] = queue[d], start'[d] = start[d],
         InHand(d)' = InHand(d), UNCHANGED log
  PROVE  Order(d)'
<1>1. Since(d)' = Since(d) /\ Path(d)' = Path(d)
  BY DEF Since, Path
<1> QED
  BY <1>1 DEF Order

\* A published event goes to the end of both sides.
LEMMA PublishOrder ==
  ASSUME TypeOK, PhaseInv, OrderInv, NEW e \in Nat, Publish(e),
         UNCHANGED <<view, client, sent, queue, send, hand>>
  PROVE  OrderInv'
<1> SUFFICES ASSUME NEW d \in Conns
             PROVE  Order(d)'
  BY DEF OrderInv
<1>1. Since(d)' = Append(Since(d), e)
  BY Places, SinceGrows DEF Publish, Since, TypeOK
<1>2. Path(d)' = Path(d)
  BY DEF Path, InHand
<1>3. IsPrefix(sent[d], Since(d)) => IsPrefix(sent[d], Append(Since(d), e))
  BY Places, PrefixFacts
<1>4. IsPrefix(Path(d), Since(d)) => IsPrefix(Path(d), Append(Since(d), e))
  BY Places, PrefixFacts
<1>5. view[d] = "open" /\ pump[d] \in {"on", "ended"} => socket'[d] = Append(socket[d], e)
  BY DEF Publish, PhaseInv, Phase
<1>6. Path(d) \o Append(socket[d], e) = Append(Path(d) \o socket[d], e)
  BY Places, Moved
<1> QED
  BY <1>1, <1>2, <1>3, <1>4, <1>5, <1>6 DEF Order, OrderInv, Publish

LEMMA OrderPump ==
  ASSUME TypeOK, PhaseInv, NEW c \in Conns, Order(c), Pump(c)
  PROVE  Order(c)'
<1>1. socket[c] # <<>> /\ pump[c] = "on" /\ Head(socket[c]) \in Nat /\ Tail(socket[c]) \in Seq(Nat)
  BY Places, Moving DEF Pump, Read
<1>2. queue'[c] = Append(queue[c], Head(socket[c])) /\ socket'[c] = Tail(socket[c])
  BY DEF Pump, Read, TypeOK
<1>3. Since(c)' = Since(c) /\ sent'[c] = sent[c] /\ InHand(c)' = InHand(c)
      /\ view'[c] = view[c] /\ client'[c] = client[c]
  BY DEF Pump, Since, InHand, tab, loops
<1>4. Path(c)' = Append(Path(c), Head(socket[c]))
  <2>1. Path(c)' = (sent[c] \o InHand(c)) \o Append(queue[c], Head(socket[c]))
    BY <1>2, <1>3 DEF Path
  <2>2. \A s, t \in Seq(Nat), e \in Nat : s \o Append(t, e) = Append(s \o t, e)
    BY Moved
  <2> QED
    BY <1>1, <2>1, <2>2, Places DEF Path
<1>5. Append(Path(c), Head(socket[c])) \o Tail(socket[c]) = Path(c) \o socket[c]
  BY <1>1, Places, Moved
<1>6. Append(Path(c), Head(socket[c])) \in Seq(Nat)
  BY <1>1, Places, AppendProperties
<1>7. IsPrefix(Append(Path(c), Head(socket[c])),
               Append(Path(c), Head(socket[c])) \o Tail(socket[c]))
  BY <1>1, <1>6, PrefixFacts
<1> QED
  BY <1>1, <1>2, <1>3, <1>4, <1>5, <1>7 DEF Order

\* The send loop moves an event from the queue to its hand and to the tab;
\* what the three hold together stays, as long as the tab is there.
LEMMA OrderSend ==
  ASSUME TypeOK, PhaseInv, NEW c \in Conns, Order(c), SendGet(c) \/ SendText(c)
  PROVE  Order(c)'
<1>1. /\ Since(c)' = Since(c) /\ socket'[c] = socket[c] /\ pump'[c] = pump[c]
      /\ view'[c] = view[c] /\ client'[c] = client[c] /\ view[c] = "open"
  BY DEF SendGet, SendText, Since, feed, PhaseInv, Phase
<1>2. ASSUME ~client[c], sent'[c] = sent[c]
      PROVE  Order(c)'
  BY <1>1, <1>2 DEF Order
<1>3. ASSUME client[c], Path(c)' = Path(c), sent'[c] \in Seq(Nat),
             \E u \in Seq(Nat) : Path(c) = sent'[c] \o u
      PROVE  Order(c)'
  <2>1. IsPrefix(Path(c), Since(c)) => IsPrefix(sent'[c], Since(c))
    <3>1. PICK u \in Seq(Nat) : Path(c) = sent'[c] \o u
      BY <1>3
    <3>2. Since(c) \in Seq(Nat)
      BY Places
    <3>3. IsPrefix(sent'[c] \o u, Since(c)) => IsPrefix(sent'[c], Since(c))
      BY <1>3, <3>2, PrefixFacts
    <3> QED
      BY <3>1, <3>3
  <2> QED
    BY <1>1, <1>3, <2>1 DEF Order
<1>4. ASSUME SendGet(c), Head(queue[c]) = End
      PROVE  Order(c)'
  <2>1. /\ InHand(c) = <<>> /\ InHand(c)' = <<>> /\ queue'[c] = Tail(queue[c])
        /\ queue[c] # <<>> /\ Tail(queue[c]) \in Seq(Nat) /\ End \in Nat
    <3>1. queue'[c] = Tail(queue[c]) /\ queue[c] # <<>> /\ send[c] = "get" /\ send'[c] = "done"
      BY <1>4 DEF SendGet, TypeOK
    <3>2. Tail(queue[c]) \in Seq(Nat)
      BY <3>1, Places, Moving
    <3> QED
      BY <3>1, <3>2 DEF InHand, End
  <2>2. sent'[c] = IF client[c] THEN Append(sent[c], End) ELSE sent[c]
    BY <1>4 DEF SendGet, TypeOK
  <2>3. CASE client[c]
    <3>1. sent'[c] = Append(sent[c], End) /\ sent'[c] \in Seq(Nat)
      <4>1. sent[c] \in Seq(Nat)
        BY Places
      <4>2. Append(sent[c], End) \in Seq(Nat)
        BY <2>1, <4>1, AppendProperties
      <4> QED
        BY <2>2, <2>3, <4>2
    <3>2. Path(c) = sent[c] \o queue[c] /\ Path(c)' = sent'[c] \o Tail(queue[c])
      BY <2>1, <3>1, Places, ConcatEmptySeq DEF Path
    <3>3. Append(sent[c], Head(queue[c])) \o Tail(queue[c]) = sent[c] \o queue[c]
      BY <2>1, Places, Moved
    <3> QED
      BY <1>3, <1>4, <2>1, <2>3, <3>1, <3>2, <3>3
  <2> QED
    BY <1>2, <2>2, <2>3
<1>5. ASSUME SendGet(c), Head(queue[c]) # End
      PROVE  Order(c)'
  <2>1. /\ queue'[c] = Tail(queue[c]) /\ sent'[c] = sent[c]
        /\ send[c] = "get" /\ send'[c] = "text" /\ hand'[c] = Head(queue[c])
        /\ queue[c] # <<>> /\ Tail(queue[c]) \in Seq(Nat) /\ Head(queue[c]) \in Nat
    BY <1>5, Places, Moving DEF SendGet, TypeOK
  <2>2. /\ InHand(c) = <<>> /\ InHand(c)' = <<Head(queue[c])>>
        /\ <<Head(queue[c])>> \in Seq(Nat)
    BY <2>1 DEF InHand
  <2>3. Path(c) = sent[c] \o queue[c]
    BY <2>2, Places, ConcatEmptySeq DEF Path
  <2>4. Path(c)' = Append(sent[c], Head(queue[c])) \o Tail(queue[c])
    BY <2>1, <2>2, Places, AppendIsConcat DEF Path
  <2>5. Path(c)' = Path(c)
    <3>1. Append(sent[c], Head(queue[c])) \o Tail(queue[c]) = sent[c] \o queue[c]
      <4>1. sent[c] \in Seq(Nat) /\ queue[c] \in Seq(Nat)
        BY Places
      <4> QED
        BY <2>1, <4>1, Moved
    <3> QED
      BY <2>3, <2>4, <3>1
  <2> QED
    BY <1>1, <2>1, <2>5 DEF Order
<1>6. ASSUME SendText(c)
      PROVE  Order(c)'
  <2>1. /\ queue'[c] = queue[c] /\ InHand(c) = <<hand[c]>> /\ InHand(c)' = <<>>
        /\ hand[c] \in Nat
    BY <1>6, Places DEF SendText, InHand, TypeOK
  <2>2. CASE client[c]
    <3>1. sent'[c] = Append(sent[c], hand[c]) /\ sent'[c] \in Seq(Nat)
      <4>1. sent[c] \in Seq(Nat)
        BY Places
      <4>2. Append(sent[c], hand[c]) \in Seq(Nat)
        BY <2>1, <4>1, AppendProperties
      <4> QED
        BY <1>6, <2>2, <4>2 DEF SendText, TypeOK
    <3>2. sent[c] \o InHand(c) = sent'[c]
      BY <2>1, <3>1, Places, AppendIsConcat
    <3>3. Path(c)' = sent'[c] \o queue[c] /\ Path(c) = sent'[c] \o queue[c]
      BY <2>1, <3>1, <3>2, ConcatEmptySeq DEF Path
    <3> QED
      BY <1>3, <2>2, <3>1, <3>3, Places
  <2>3. CASE ~client[c]
    <3>1. sent'[c] = sent[c]
      BY <1>6, <2>3 DEF SendText
    <3> QED
      BY <1>2, <2>3, <3>1
  <2> QED
    BY <2>2, <2>3
<1> QED
  BY <1>4, <1>5, <1>6

\* The others see nothing of a step of one connection.
LEMMA OrderOthers ==
  ASSUME OrderInv, NEW c \in Conns, Order(c)', UNCHANGED log,
         \A d \in Conns \ {c} :
            /\ view'[d] = view[d] /\ client'[d] = client[d] /\ pump'[d] = pump[d]
            /\ socket'[d] = socket[d] /\ sent'[d] = sent[d] /\ queue'[d] = queue[d]
            /\ start'[d] = start[d] /\ send'[d] = send[d] /\ hand'[d] = hand[d]
  PROVE  OrderInv'
<1>1. ASSUME NEW d \in Conns, d # c
      PROVE  Order(d)'
  <2>1. /\ view'[d] = view[d] /\ client'[d] = client[d] /\ pump'[d] = pump[d]
        /\ socket'[d] = socket[d] /\ sent'[d] = sent[d] /\ queue'[d] = queue[d]
        /\ start'[d] = start[d] /\ send'[d] = send[d] /\ hand'[d] = hand[d] /\ Order(d)
    BY <1>1 DEF OrderInv
  <2>2. InHand(d)' = InHand(d)
    BY <2>1 DEF InHand
  <2> QED
    BY <2>1, <2>2, OrderKept
<1> QED
  BY <1>1 DEF OrderInv

LEMMA OrderStep == TypeOK /\ PhaseInv /\ OrderInv /\ [Next]_vars => OrderInv'
<1> SUFFICES ASSUME TypeOK, PhaseInv, OrderInv, [Next]_vars
             PROVE  OrderInv'
  OBVIOUS
<1>1. CASE PublishEvent
  BY <1>1, PublishOrder, NextEvent \in Nat DEF PublishEvent, NextEvent, tab, loops
<1>2. CASE CloseTask
  BY <1>2, PublishOrder DEF CloseTask, End, tab, loops
<1>3. CASE Reopen
  BY <1>3 DEF Reopen, tab, feed, loops, OrderInv, Order, Path, InHand, Since
<1>4. ASSUME NEW c \in Conns, Accept(c)
      PROVE  OrderInv'
  <2>1. Order(c)' /\ \A d \in Conns \ {c} : view'[d] = view[d] /\ client'[d] = client[d]
    BY <1>4, OrderKept DEF Accept, feed, loops, OrderInv, InHand, TypeOK
  <2> QED
    BY <1>4, <2>1, OrderOthers DEF Accept, feed, loops
<1>5. ASSUME NEW c \in Conns, Subscribe(c)
      PROVE  OrderInv'
  <2>1. /\ sent'[c] = <<>> /\ queue'[c] = <<>> /\ socket'[c] = <<>> /\ InHand(c)' = <<>>
        /\ start'[c] = Len(log) /\ log' = log
    BY <1>5 DEF Subscribe, PhaseInv, Phase, InHand, TypeOK, tab
  <2>2. Since(c)' = <<>>
    BY <2>1, SubSeqEmpty DEF Since, TypeOK
  <2>3. <<>> \o <<>> = <<>> /\ IsPrefix(<<>>, <<>>)
    BY ConcatEmptySeq, EmptyPrefix, EmptySeq
  <2>4. Order(c)'
    BY <2>1, <2>2, <2>3 DEF Order, Path
  <2> QED
    BY <1>5, <2>4, OrderOthers DEF Subscribe, tab, TypeOK
<1>6. ASSUME NEW c \in Conns, Disconnect(c)
      PROVE  OrderInv'
  <2>1. Order(c)'
    BY <1>6, OrderKept DEF Disconnect, feed, loops, OrderInv, InHand, TypeOK
  <2> QED
    BY <1>6, <2>1, OrderOthers DEF Disconnect, feed, loops, TypeOK
<1>7. ASSUME NEW c \in Conns, PumpFails(c)
      PROVE  OrderInv'
  <2>1. Order(c)'
    BY <1>7, OrderKept DEF PumpFails, tab, loops, OrderInv, InHand, TypeOK
  <2> QED
    BY <1>7, <2>1, OrderOthers DEF PumpFails, tab, loops, TypeOK
<1>8. ASSUME NEW c \in Conns, RecvText(c) \/ RecvGone(c) \/ PushChat(c)
      PROVE  OrderInv'
  BY <1>8 DEF RecvText, RecvGone, PushChat, tab, feed, OrderInv, Order, Path, InHand, Since
<1>9. ASSUME NEW c \in Conns, EndLoops(c)
      PROVE  OrderInv'
  <2>1. Order(c)'
    BY <1>9 DEF EndLoops, tab, feed, OrderInv, Order, Since, TypeOK
  <2> QED
    BY <1>9, <2>1, OrderOthers DEF EndLoops, tab, feed, TypeOK
<1>10. ASSUME NEW c \in Conns, Unsubscribe(c)
       PROVE  OrderInv'
  <2>1. sent'[c] = <<>> /\ start'[c] = 0 /\ log' = log /\ view'[c] = "closed"
    BY <1>10 DEF Unsubscribe, TypeOK
  <2>2. Since(c)' \in Seq(Nat)
    BY <2>1, SinceGrows, 0 \in 0..Len(log) DEF Since, TypeOK
  <2>3. IsPrefix(<<>>, Since(c)')
    BY <2>2, EmptyPrefix
  <2>4. Order(c)'
    BY <2>1, <2>3 DEF Order
  <2> QED
    BY <1>10, <2>4, OrderOthers DEF Unsubscribe, TypeOK
<1>11. ASSUME NEW c \in Conns, Pump(c)
       PROVE  OrderInv'
  <2>1. Order(c)'
    BY <1>11, OrderPump DEF OrderInv
  <2> QED
    BY <1>11, <2>1, OrderOthers DEF Pump, Read, tab, loops, TypeOK
<1>12. ASSUME NEW c \in Conns, SendGet(c)
       PROVE  OrderInv'
  <2>1. Order(c)'
    BY <1>12, OrderSend DEF OrderInv
  <2>2. \A d \in Conns \ {c} : sent'[d] = sent[d] /\ send'[d] = send[d] /\ hand'[d] = hand[d]
    <3>1. CASE Head(queue[c]) = End
      <4>1. /\ send' = [send EXCEPT ![c] = "done"] /\ UNCHANGED hand
            /\ sent' = [sent EXCEPT ![c] = IF client[c] THEN Append(sent[c], End) ELSE sent[c]]
        BY <1>12, <3>1 DEF SendGet
      <4> QED
        BY <4>1 DEF TypeOK
    <3>2. CASE Head(queue[c]) # End
      BY <1>12, <3>2 DEF SendGet, TypeOK
    <3> QED
      BY <3>1, <3>2
  <2> QED
    BY <1>12, <2>1, <2>2, OrderOthers DEF SendGet, feed, TypeOK
<1>13. ASSUME NEW c \in Conns, SendText(c)
       PROVE  OrderInv'
  <2>1. Order(c)'
    BY <1>13, OrderSend DEF OrderInv
  <2>2. \A d \in Conns \ {c} : sent'[d] = sent[d] /\ send'[d] = send[d] /\ hand'[d] = hand[d]
    BY <1>13 DEF SendText, TypeOK
  <2> QED
    BY <1>13, <2>1, <2>2, OrderOthers DEF SendText, feed, TypeOK
<1>14. ASSUME NEW c \in Conns, EchoChat(c)
       PROVE  OrderInv'
  BY <1>14, PublishOrder, NextEvent \in Nat DEF EchoChat, NextEvent, tab
<1>15. CASE UNCHANGED vars
  BY <1>15 DEF vars, tab, feed, loops, OrderInv, Order, Path, InHand, Since
<1> QED
  BY <1>1, <1>2, <1>3, <1>4, <1>5, <1>6, <1>7, <1>8, <1>9, <1>10, <1>11, <1>12,
     <1>13, <1>14, <1>15 DEF Next, Server

\* A tab receives what was published since it subscribed, in order and
\* without a gap, and the rest is on its way while its pump lives.
THEOREM Ordered == Spec => []InOrder
<1>1. Init => PhaseInv /\ OrderInv
  <2> SUFFICES ASSUME Init
               PROVE  PhaseInv /\ OrderInv
    OBVIOUS
  <2>1. PhaseInv
    BY DEF Init, PhaseInv, Phase, All
  <2>2. ASSUME NEW c \in Conns
        PROVE  sent[c] = <<>> /\ view[c] = "new" /\ Since(c) = <<>>
    BY SubSeqEmpty DEF Init, All, Since
  <2>3. IsPrefix(<<>>, <<>>)
    BY EmptyPrefix, EmptySeq
  <2> QED
    BY <2>1, <2>2, <2>3 DEF OrderInv, Order
<1>2. OrderInv => InOrder
  BY DEF OrderInv, Order, Path, InOrder
<1> QED
  BY <1>1, <1>2, PhaseStep, OrderStep, Typing, PTL DEF Spec

=============================================================================
