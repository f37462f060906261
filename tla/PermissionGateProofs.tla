------------------------ MODULE PermissionGateProofs ------------------------
(***************************************************************************)
(* The approval protocol of the permission gate for any number of tool     *)
(* calls, connections and answers: no wake-up is lost, a wake-up always    *)
(* finds its decision, and a tool runs only on an approval of that call.   *)
(* With one connection the recorded answer is final and the one acted on,  *)
(* and the gate implements Approval; without parallel hooks a call that    *)
(* waits shows in the task's status.                                       *)
(***************************************************************************)
EXTENDS PermissionGate, TLAPS

\* Every step of a hook or of a response handler keeps the types.
THEOREM Typing == Spec => []TypeOK
<1>1. Init => TypeOK
  BY DEF Init, TypeOK
<1>2. TypeOK /\ [Next]_vars => TypeOK'
  <2> SUFFICES ASSUME TypeOK, [Next]_vars
               PROVE  TypeOK'
    OBVIOUS
  <2>1. ASSUME NEW a \in Approvals, AutoAllow(a)
        PROVE  TypeOK'
    BY <2>1 DEF AutoAllow, Goto, wsVars, TypeOK, Answers, Live, Ended
  <2>2. ASSUME NEW a \in Approvals, DenyNoUser(a)
        PROVE  TypeOK'
    BY <2>2 DEF DenyNoUser, Goto, wsVars, TypeOK, Answers, Live, Ended
  <2>3. ASSUME NEW a \in Approvals, CreateApproval(a)
        PROVE  TypeOK'
    BY <2>3 DEF CreateApproval, Goto, TypeOK, Answers, Live, Ended
  <2>4. ASSUME NEW a \in Approvals, FlipStatus(a)
        PROVE  TypeOK'
    BY <2>4 DEF FlipStatus, Goto, wsVars, TypeOK, Answers, Live, Ended
  <2>5. ASSUME NEW a \in Approvals, Register(a)
        PROVE  TypeOK'
    BY <2>5 DEF Register, Goto, wsVars, TypeOK, Answers, Live, Ended
  <2>6. ASSUME NEW a \in Approvals, CheckKey(a)
        PROVE  TypeOK'
    <3>1. CASE key[a] # "none"
      BY <2>6, <3>1 DEF CheckKey, Goto, wsVars, TypeOK, Answers, Live, Ended
    <3>2. CASE key[a] = "none"
      BY <2>6, <3>2 DEF CheckKey, Goto, wsVars, TypeOK, Answers, Live, Ended
    <3> QED
      BY <3>1, <3>2
  <2>7. ASSUME NEW a \in Approvals, Wake(a)
        PROVE  TypeOK'
    BY <2>7 DEF Wake, Goto, wsVars, TypeOK, Answers, Live, Ended
  <2>8. ASSUME NEW a \in Approvals, FetchDecision(a)
        PROVE  TypeOK'
    BY <2>8 DEF FetchDecision, Goto, wsVars, TypeOK, Answers, Live, Ended
  <2>9. ASSUME NEW a \in Approvals, Unsubscribe(a)
        PROVE  TypeOK'
    BY <2>9 DEF Unsubscribe, Goto, wsVars, TypeOK, Answers, Live, Ended
  <2>10. ASSUME NEW a \in Approvals, Cleanup(a)
        PROVE  TypeOK'
    BY <2>10 DEF Cleanup, Goto, wsVars, TypeOK, Answers, Live, Ended
  <2>11. ASSUME NEW a \in Approvals, Finish(a)
        PROVE  TypeOK'
    BY <2>11 DEF Finish, Goto, wsVars, TypeOK, Answers, Live, Ended
  <2>12. ASSUME NEW a \in Approvals, Cancel(a)
        PROVE  TypeOK'
    <3> DEFINE waiting == hook[a] \in {"blocked", "awake", "decided"}
    <3>1. CASE waiting
      <4>1. sub' \in [Approvals -> BOOLEAN]
        BY <2>12, <3>1, Zenon DEF Cancel, TypeOK
      <4>2. wake' \in [Approvals -> Nat]
        BY <2>12, <3>1 DEF Cancel, TypeOK
      <4>3. hook' \in [Approvals -> {"idle"} \cup Live \cup Ended]
        BY <2>12 DEF Cancel, TypeOK, Ended
      <4> QED
        BY <2>12, <4>1, <4>2, <4>3 DEF Cancel, wsVars, TypeOK
    <3>2. CASE ~waiting
      BY <2>12, <3>2 DEF Cancel, wsVars, TypeOK, Live, Ended
    <3> QED
      BY <3>1, <3>2
  <2>13. ASSUME NEW c \in Conns, NEW a \in Approvals, NEW d \in Answers,
               CheckPending(c, a, d)
        PROVE  TypeOK'
    BY <2>13 DEF CheckPending, gateVars, TypeOK, Answers, Live, Ended, Idle, Handling
  <2>14. ASSUME NEW c \in Conns, CommitAnswer(c)
        PROVE  TypeOK'
    BY <2>14 DEF CommitAnswer, gateVars, TypeOK, Answers, Live, Ended, Idle, Handling
  <2>15. ASSUME NEW c \in Conns, StoreDecision(c)
        PROVE  TypeOK'
    BY <2>15 DEF StoreDecision, TypeOK, Answers, Live, Ended, Idle, Handling
  <2>16. ASSUME NEW c \in Conns, PublishWake(c)
        PROVE  TypeOK'
    BY <2>16 DEF PublishWake, TypeOK, Answers, Live, Ended, Idle, Handling
  <2>17. ASSUME NEW c \in Conns, DropHandler(c)
        PROVE  TypeOK'
    BY <2>17 DEF DropHandler, gateVars, TypeOK, Answers, Live, Ended, Idle, Handling
  <2>18. CASE UNCHANGED vars
    BY <2>18 DEF vars, gateVars, wsVars, TypeOK, Answers, Live, Ended, Idle, Handling
  <2> QED
    BY <2>1, <2>2, <2>3, <2>4, <2>5, <2>6, <2>7, <2>8, <2>9,
       <2>10, <2>11, <2>12, <2>13, <2>14, <2>15, <2>16, <2>17, <2>18 DEF Next, HookStep, WsStep
<1> QED
  BY <1>1, <1>2, PTL DEF Spec

-----------------------------------------------------------------------------
\* A hook holds its subscription from register until the finally block.
Subscribed ==
  \A a \in Approvals : hook[a] \in {"registered", "blocked", "awake", "decided"} => sub[a]

\* Until the hook has deleted the key, whoever has stored the decision, has
\* published it, or was woken by it can rely on it: only cleanup deletes.
KeyHolds ==
  \A a \in Approvals : hook[a] \notin {"cleaned"} \cup Ended =>
    /\ wake[a] > 0 \/ hook[a] = "awake" => key[a] # "none"
    /\ \A c \in Conns : resp[c].at = "stored" /\ resp[c].id = a => key[a] # "none"

WakeInv == Subscribed /\ KeyHolds /\ NoLostWakeup /\ WakeHasDecision

\* The handlers' state as the steps below use it.
LEMMA HandlerType ==
  ASSUME TypeOK, NEW c \in Conns
  PROVE  \/ resp[c].at = "idle"
         \/ /\ resp[c].at \in {"checked", "committed", "stored"}
            /\ resp[c].id \in Approvals
            /\ resp[c].says \in Answers
BY DEF TypeOK, Idle, Handling

\* The ordering of register, GET, SET, PUBLISH and DEL is inductive.
THEOREM WakeInvariant == Spec => []WakeInv
<1>1. Init => WakeInv
  BY DEF Init, WakeInv, Subscribed, KeyHolds, NoLostWakeup, WakeHasDecision, Idle
<1>2. TypeOK /\ WakeInv /\ [Next]_vars => WakeInv'
  <2> SUFFICES ASSUME TypeOK, WakeInv, [Next]_vars
               PROVE  WakeInv'
    OBVIOUS
  <2> USE DEF WakeInv, Subscribed, KeyHolds, NoLostWakeup, WakeHasDecision
  <2>1. ASSUME NEW a \in Approvals, AutoAllow(a)
        PROVE  WakeInv'
    BY <2>1 DEF AutoAllow, Goto, wsVars, TypeOK, Live, Ended
  <2>2. ASSUME NEW a \in Approvals, DenyNoUser(a)
        PROVE  WakeInv'
    BY <2>2 DEF DenyNoUser, Goto, wsVars, TypeOK, Live, Ended
  <2>3. ASSUME NEW a \in Approvals, CreateApproval(a)
        PROVE  WakeInv'
    BY <2>3 DEF CreateApproval, Goto, TypeOK, Live, Ended
  <2>4. ASSUME NEW a \in Approvals, FlipStatus(a)
        PROVE  WakeInv'
    BY <2>4 DEF FlipStatus, Goto, wsVars, TypeOK, Live, Ended
  <2>5. ASSUME NEW a \in Approvals, Register(a)
        PROVE  WakeInv'
    BY <2>5 DEF Register, Goto, wsVars, TypeOK, Live, Ended
  <2>6. ASSUME NEW a \in Approvals, CheckKey(a)
        PROVE  WakeInv'
    BY <2>6 DEF CheckKey, Goto, wsVars, TypeOK, Live, Ended
  <2>7. ASSUME NEW a \in Approvals, Wake(a)
        PROVE  WakeInv'
    BY <2>7 DEF Wake, Goto, wsVars, TypeOK, Live, Ended
  <2>8. ASSUME NEW a \in Approvals, FetchDecision(a)
        PROVE  WakeInv'
    BY <2>8 DEF FetchDecision, Goto, wsVars, TypeOK, Live, Ended
  <2>9. ASSUME NEW a \in Approvals, Unsubscribe(a)
        PROVE  WakeInv'
    BY <2>9 DEF Unsubscribe, Goto, wsVars, TypeOK, Live, Ended
  <2>10. ASSUME NEW a \in Approvals, Cleanup(a)
        PROVE  WakeInv'
    BY <2>10 DEF Cleanup, Goto, wsVars, TypeOK, Live, Ended
  <2>11. ASSUME NEW a \in Approvals, Finish(a)
        PROVE  WakeInv'
    BY <2>11 DEF Finish, Goto, wsVars, TypeOK, Live, Ended
  <2>12. ASSUME NEW a \in Approvals, Cancel(a)
        PROVE  WakeInv'
    BY <2>12 DEF Cancel, wsVars, TypeOK, Live, Ended
  <2>13. ASSUME NEW c \in Conns, NEW a \in Approvals, NEW d \in Answers,
               CheckPending(c, a, d)
        PROVE  WakeInv'
    BY <2>13, HandlerType DEF CheckPending, gateVars, TypeOK, Answers, Live, Ended, Idle, Handling
  <2>14. ASSUME NEW c \in Conns, CommitAnswer(c)
        PROVE  WakeInv'
    BY <2>14, HandlerType DEF CommitAnswer, gateVars, TypeOK, Answers, Live, Ended, Idle, Handling
  <2>15. ASSUME NEW c \in Conns, StoreDecision(c)
        PROVE  WakeInv'
    BY <2>15, HandlerType DEF StoreDecision, TypeOK, Answers, Live, Ended, Idle, Handling
  <2>16. ASSUME NEW c \in Conns, PublishWake(c)
        PROVE  WakeInv'
    BY <2>16, HandlerType DEF PublishWake, TypeOK, Answers, Live, Ended, Idle, Handling
  <2>17. ASSUME NEW c \in Conns, DropHandler(c)
        PROVE  WakeInv'
    BY <2>17, HandlerType DEF DropHandler, gateVars, TypeOK, Answers, Live, Ended, Idle, Handling
  <2>18. CASE UNCHANGED vars
    BY <2>18, HandlerType DEF vars, gateVars, wsVars, TypeOK, Answers, Live, Ended, Idle, Handling
  <2> QED
    BY <2>1, <2>2, <2>3, <2>4, <2>5, <2>6, <2>7, <2>8, <2>9,
       <2>10, <2>11, <2>12, <2>13, <2>14, <2>15, <2>16, <2>17, <2>18 DEF Next, HookStep, WsStep
<1> QED
  BY <1>1, <1>2, Typing, PTL DEF Spec

\* No answer slips past a hook between its look at the key and its sleep.
THEOREM NoWakeupLost == Spec => []NoLostWakeup
BY WakeInvariant, PTL DEF WakeInv

\* The RuntimeError of wait_for_decision after a wake-up is unreachable.
THEOREM WakeFindsDecision == Spec => []WakeHasDecision
BY WakeInvariant, PTL DEF WakeInv

-----------------------------------------------------------------------------
\* What a handler carries past its commit, what the key holds and what a hook
\* has read are all answers the user committed for that call.
Traceable ==
  /\ \A a \in Approvals : key[a] # "none" => key[a] \in said[a]
  /\ \A a \in Approvals : decision[a] # "none" => decision[a] \in said[a]
  /\ \A c \in Conns :
       resp[c].at \in {"committed", "stored"} => resp[c].says \in said[resp[c].id]

\* A hook allows a call only on the user's approval of that call.
THEOREM Authorised == Spec => []AllowNeedsApproval
<1> DEFINE Inv == Traceable /\ AllowNeedsApproval
<1>1. Init => Inv
  BY DEF Init, Traceable, AllowNeedsApproval, Idle
<1>2. TypeOK /\ Inv /\ [Next]_vars => Inv'
  <2> SUFFICES ASSUME TypeOK, Inv, [Next]_vars
               PROVE  Inv'
    OBVIOUS
  <2> USE DEF Traceable, AllowNeedsApproval
  <2>1. ASSUME NEW a \in Approvals, AutoAllow(a)
        PROVE  Inv'
    BY <2>1 DEF AutoAllow, Goto, wsVars, TypeOK, Live, Ended
  <2>2. ASSUME NEW a \in Approvals, DenyNoUser(a)
        PROVE  Inv'
    BY <2>2 DEF DenyNoUser, Goto, wsVars, TypeOK, Live, Ended
  <2>3. ASSUME NEW a \in Approvals, CreateApproval(a)
        PROVE  Inv'
    BY <2>3 DEF CreateApproval, Goto, TypeOK, Live, Ended
  <2>4. ASSUME NEW a \in Approvals, FlipStatus(a)
        PROVE  Inv'
    BY <2>4 DEF FlipStatus, Goto, wsVars, TypeOK, Live, Ended
  <2>5. ASSUME NEW a \in Approvals, Register(a)
        PROVE  Inv'
    BY <2>5 DEF Register, Goto, wsVars, TypeOK, Live, Ended
  <2>6. ASSUME NEW a \in Approvals, CheckKey(a)
        PROVE  Inv'
    BY <2>6 DEF CheckKey, Goto, wsVars, TypeOK, Live, Ended
  <2>7. ASSUME NEW a \in Approvals, Wake(a)
        PROVE  Inv'
    BY <2>7 DEF Wake, Goto, wsVars, TypeOK, Live, Ended
  <2>8. ASSUME NEW a \in Approvals, FetchDecision(a)
        PROVE  Inv'
    BY <2>8 DEF FetchDecision, Goto, wsVars, TypeOK, Live, Ended
  <2>9. ASSUME NEW a \in Approvals, Unsubscribe(a)
        PROVE  Inv'
    BY <2>9 DEF Unsubscribe, Goto, wsVars, TypeOK, Live, Ended
  <2>10. ASSUME NEW a \in Approvals, Cleanup(a)
        PROVE  Inv'
    BY <2>10 DEF Cleanup, Goto, wsVars, TypeOK, Live, Ended
  <2>11. ASSUME NEW a \in Approvals, Finish(a)
        PROVE  Inv'
    BY <2>11 DEF Finish, Goto, wsVars, TypeOK, Live, Ended
  <2>12. ASSUME NEW a \in Approvals, Cancel(a)
        PROVE  Inv'
    BY <2>12 DEF Cancel, wsVars, TypeOK, Live, Ended
  <2>13. ASSUME NEW c \in Conns, NEW a \in Approvals, NEW d \in Answers,
               CheckPending(c, a, d)
        PROVE  Inv'
    BY <2>13, HandlerType DEF CheckPending, gateVars, TypeOK, Answers, Live, Ended, Idle, Handling
  <2>14. ASSUME NEW c \in Conns, CommitAnswer(c)
        PROVE  Inv'
    BY <2>14, HandlerType DEF CommitAnswer, gateVars, TypeOK, Answers, Live, Ended, Idle, Handling
  <2>15. ASSUME NEW c \in Conns, StoreDecision(c)
        PROVE  Inv'
    BY <2>15, HandlerType DEF StoreDecision, TypeOK, Answers, Live, Ended, Idle, Handling
  <2>16. ASSUME NEW c \in Conns, PublishWake(c)
        PROVE  Inv'
    BY <2>16, HandlerType DEF PublishWake, TypeOK, Answers, Live, Ended, Idle, Handling
  <2>17. ASSUME NEW c \in Conns, DropHandler(c)
        PROVE  Inv'
    BY <2>17, HandlerType DEF DropHandler, gateVars, TypeOK, Answers, Live, Ended, Idle, Handling
  <2>18. CASE UNCHANGED vars
    BY <2>18, HandlerType DEF vars, gateVars, wsVars, TypeOK, Answers, Live, Ended, Idle, Handling
  <2> QED
    BY <2>1, <2>2, <2>3, <2>4, <2>5, <2>6, <2>7, <2>8, <2>9,
       <2>10, <2>11, <2>12, <2>13, <2>14, <2>15, <2>16, <2>17, <2>18 DEF Next, HookStep, WsStep
<1> QED
  BY <1>1, <1>2, Typing, PTL DEF Spec
-----------------------------------------------------------------------------
(* One connection: the check and the commit of a handler do not interleave   *)
(* with another handler's, so row, key and decision never disagree.          *)

\* An answer on its way agrees with the row it was committed to, and a hook
\* past its wait has it.
OneAnswer ==
  /\ ActsOnRecordedAnswer
  /\ \A a \in Approvals : key[a] # "none" => key[a] = row[a]
  /\ \A a \in Approvals :
       hook[a] \in {"decided", "left", "cleaned"} => decision[a] # "none"
  /\ \A a \in Approvals : result[a] # "none" <=> hook[a] = "done"
  /\ \A a \in Approvals : row[a] = "none" <=>
       hook[a] = "idle" \/ (hook[a] = "done" /\ decision[a] = "none")
  /\ \A c \in Conns :
       /\ resp[c].at = "checked" => row[resp[c].id] = "pending"
       /\ resp[c].at \in {"committed", "stored"} => row[resp[c].id] = resp[c].says

\* With one connection the handlers never overtake one another.
THEOREM Consistent ==
  ASSUME NEW conn, Conns = {conn}
  PROVE  Spec => []OneAnswer
<1>1. Init => OneAnswer
  BY DEF Init, OneAnswer, ActsOnRecordedAnswer, Idle
<1>2. TypeOK /\ OneAnswer /\ [Next]_vars => OneAnswer'
  <2> SUFFICES ASSUME TypeOK, OneAnswer, [Next]_vars
               PROVE  OneAnswer'
    OBVIOUS
  <2> USE DEF OneAnswer, ActsOnRecordedAnswer
  <2>1. ASSUME NEW a \in Approvals, AutoAllow(a)
        PROVE  OneAnswer'
    BY <2>1 DEF AutoAllow, Goto, wsVars, TypeOK, Live, Ended
  <2>2. ASSUME NEW a \in Approvals, DenyNoUser(a)
        PROVE  OneAnswer'
    BY <2>2 DEF DenyNoUser, Goto, wsVars, TypeOK, Live, Ended
  <2>3. ASSUME NEW a \in Approvals, CreateApproval(a)
        PROVE  OneAnswer'
    BY <2>3, HandlerType DEF CreateApproval, Goto, TypeOK, Answers, Live, Ended
  <2>4. ASSUME NEW a \in Approvals, FlipStatus(a)
        PROVE  OneAnswer'
    BY <2>4 DEF FlipStatus, Goto, wsVars, TypeOK, Live, Ended
  <2>5. ASSUME NEW a \in Approvals, Register(a)
        PROVE  OneAnswer'
    BY <2>5 DEF Register, Goto, wsVars, TypeOK, Live, Ended
  <2>6. ASSUME NEW a \in Approvals, CheckKey(a)
        PROVE  OneAnswer'
    BY <2>6 DEF CheckKey, Goto, wsVars, TypeOK, Live, Ended
  <2>7. ASSUME NEW a \in Approvals, Wake(a)
        PROVE  OneAnswer'
    BY <2>7 DEF Wake, Goto, wsVars, TypeOK, Live, Ended
  <2>8. ASSUME NEW a \in Approvals, FetchDecision(a)
        PROVE  OneAnswer'
    BY <2>8 DEF FetchDecision, Goto, wsVars, TypeOK, Live, Ended
  <2>9. ASSUME NEW a \in Approvals, Unsubscribe(a)
        PROVE  OneAnswer'
    BY <2>9 DEF Unsubscribe, Goto, wsVars, TypeOK, Live, Ended
  <2>10. ASSUME NEW a \in Approvals, Cleanup(a)
        PROVE  OneAnswer'
    BY <2>10 DEF Cleanup, Goto, wsVars, TypeOK, Live, Ended
  <2>11. ASSUME NEW a \in Approvals, Finish(a)
        PROVE  OneAnswer'
    BY <2>11 DEF Finish, Goto, wsVars, TypeOK, Live, Ended
  <2>12. ASSUME NEW a \in Approvals, Cancel(a)
        PROVE  OneAnswer'
    BY <2>12 DEF Cancel, wsVars, TypeOK, Live, Ended
  <2>13. ASSUME NEW c \in Conns, NEW a \in Approvals, NEW d \in Answers, CheckPending(c, a, d)
        PROVE  OneAnswer'
    BY <2>13, HandlerType DEF CheckPending, gateVars, TypeOK, Live, Ended, Answers, Idle, Handling
  <2>14. ASSUME NEW c \in Conns, CommitAnswer(c)
        PROVE  OneAnswer'
    BY <2>14, HandlerType DEF CommitAnswer, gateVars, TypeOK, Live, Ended, Answers, Idle, Handling
  <2>15. ASSUME NEW c \in Conns, StoreDecision(c)
        PROVE  OneAnswer'
    BY <2>15, HandlerType DEF StoreDecision, TypeOK, Live, Ended, Answers, Idle, Handling
  <2>16. ASSUME NEW c \in Conns, PublishWake(c)
        PROVE  OneAnswer'
    BY <2>16, HandlerType DEF PublishWake, TypeOK, Live, Ended, Answers, Idle, Handling
  <2>17. ASSUME NEW c \in Conns, DropHandler(c)
        PROVE  OneAnswer'
    BY <2>17, HandlerType DEF DropHandler, gateVars, TypeOK, Live, Ended, Answers, Idle, Handling
  <2>18. CASE UNCHANGED vars
    BY <2>18, HandlerType DEF vars, gateVars, wsVars, TypeOK
  <2> QED
    BY <2>1, <2>2, <2>3, <2>4, <2>5, <2>6, <2>7, <2>8, <2>9, <2>10, <2>11, <2>12, <2>13, <2>14, <2>15, <2>16, <2>17, <2>18 DEF Next, HookStep, WsStep
<1> QED
  BY <1>1, <1>2, Typing, PTL DEF Spec
\* What a hook has read is what the row says.
THEOREM Recorded ==
  ASSUME NEW conn, Conns = {conn}
  PROVE  Spec => []ActsOnRecordedAnswer
BY Consistent, PTL DEF OneAnswer

\* The stored answer is final: no second answer replaces it.
THEOREM Final ==
  ASSUME NEW conn, Conns = {conn}
  PROVE  Spec => ResolvedOnce
<1> DEFINE Kept == \A a \in Approvals : row[a] \in Answers => row'[a] = row[a]
<1>1. TypeOK /\ OneAnswer /\ [Next]_vars => [Kept]_vars
  <2> SUFFICES ASSUME TypeOK, OneAnswer, [Next]_vars
               PROVE  Kept
    OBVIOUS
  <2>1. ASSUME NEW a \in Approvals, CreateApproval(a)
        PROVE  Kept
    BY <2>1 DEF CreateApproval, Goto, OneAnswer, TypeOK, Answers
  <2>2. ASSUME NEW c \in Conns, CommitAnswer(c)
        PROVE  Kept
    BY <2>2, HandlerType DEF CommitAnswer, OneAnswer, TypeOK, Answers
  <2>3. CASE row' = row
    BY <2>3
  <2> QED
    BY <2>1, <2>2, <2>3 DEF Next, HookStep, WsStep, AutoAllow, DenyNoUser, FlipStatus,
       Register, CheckKey, Wake, FetchDecision, Unsubscribe, Cleanup, Finish, Cancel,
       CheckPending, StoreDecision, PublishWake, DropHandler, wsVars, vars
<1> QED
  BY <1>1, Typing, Consistent, PTL DEF Spec, ResolvedOnce

\* Row, key, channel and hook implement the promise of Approval (its safety;
\* the fairness of ImplementsApproval is model-checked).
THEOREM Implementation ==
  ASSUME NEW conn, Conns = {conn}
  PROVE  Spec => Abstract!Spec
<1>1. Init => Abstract!Init
  BY DEF Init, Abstract!Init, Outcome
<1>2. TypeOK /\ OneAnswer /\ [Next]_vars => [Abstract!Next]_(Abstract!promise)
  <2> SUFFICES ASSUME TypeOK, OneAnswer, [Next]_vars
               PROVE  [Abstract!Next]_(Abstract!promise)
    OBVIOUS
  <2> USE DEF OneAnswer
  <2>1. ASSUME NEW a \in Approvals, AutoAllow(a)
        PROVE  [Abstract!Next]_(Abstract!promise)
    <3>1. Outcome[a] = "none"
      BY <2>1 DEF AutoAllow, Goto, wsVars, Outcome, TypeOK, Live, Ended
    <3>2. Outcome' = [Outcome EXCEPT ![a] = "allow"]
      BY <2>1 DEF AutoAllow, Goto, wsVars, Outcome, TypeOK, ActsOnRecordedAnswer, Live, Ended
    <3>3. UNCHANGED <<row, lost>>
      BY <2>1 DEF AutoAllow, Goto, wsVars, Outcome, TypeOK
    <3>4. Abstract!Pass(a)
      BY <2>1, <3>1, <3>2, <3>3 DEF AutoAllow, Goto, wsVars, TypeOK, ActsOnRecordedAnswer, Live, Answers,
         Abstract!Pass, Abstract!Conclude
    <3> QED
      BY <3>4 DEF Abstract!Next
  <2>2. ASSUME NEW a \in Approvals, DenyNoUser(a)
        PROVE  [Abstract!Next]_(Abstract!promise)
    <3>1. Outcome[a] = "none"
      BY <2>2 DEF DenyNoUser, Goto, wsVars, Outcome, TypeOK, Live, Ended
    <3>2. Outcome' = [Outcome EXCEPT ![a] = "deny"]
      BY <2>2 DEF DenyNoUser, Goto, wsVars, Outcome, TypeOK, ActsOnRecordedAnswer, Live, Ended
    <3>3. UNCHANGED <<row, lost>>
      BY <2>2 DEF DenyNoUser, Goto, wsVars, Outcome, TypeOK
    <3>4. Abstract!Refuse(a)
      BY <2>2, <3>1, <3>2, <3>3 DEF DenyNoUser, Goto, wsVars, TypeOK, ActsOnRecordedAnswer, Live, Answers,
         Abstract!Refuse, Abstract!Conclude
    <3> QED
      BY <3>4 DEF Abstract!Next
  <2>3. ASSUME NEW a \in Approvals, CreateApproval(a)
        PROVE  [Abstract!Next]_(Abstract!promise)
    <3>1. Outcome[a] = "none" /\ row[a] = "none"
      BY <2>3 DEF CreateApproval, Goto, Outcome, TypeOK
    <3>2. Outcome' = Outcome
      BY <2>3 DEF CreateApproval, Goto, Outcome, TypeOK
    <3>3. Abstract!Ask(a)
      BY <2>3, <3>1, <3>2 DEF CreateApproval, Abstract!Ask
    <3> QED
      BY <3>3 DEF Abstract!Next
  <2>4. ASSUME NEW a \in Approvals, FlipStatus(a)
        PROVE  [Abstract!Next]_(Abstract!promise)
    BY <2>4 DEF FlipStatus, Goto, wsVars, Outcome, TypeOK, Abstract!promise
  <2>5. ASSUME NEW a \in Approvals, Register(a)
        PROVE  [Abstract!Next]_(Abstract!promise)
    BY <2>5 DEF Register, Goto, wsVars, Outcome, TypeOK, Abstract!promise
  <2>6. ASSUME NEW a \in Approvals, CheckKey(a)
        PROVE  [Abstract!Next]_(Abstract!promise)
    BY <2>6 DEF CheckKey, Goto, wsVars, Outcome, TypeOK, Abstract!promise
  <2>7. ASSUME NEW a \in Approvals, Wake(a)
        PROVE  [Abstract!Next]_(Abstract!promise)
    BY <2>7 DEF Wake, Goto, wsVars, Outcome, TypeOK, Abstract!promise
  <2>8. ASSUME NEW a \in Approvals, FetchDecision(a)
        PROVE  [Abstract!Next]_(Abstract!promise)
    BY <2>8 DEF FetchDecision, Goto, wsVars, Outcome, TypeOK, Abstract!promise
  <2>9. ASSUME NEW a \in Approvals, Unsubscribe(a)
        PROVE  [Abstract!Next]_(Abstract!promise)
    BY <2>9 DEF Unsubscribe, Goto, wsVars, Outcome, TypeOK, Abstract!promise
  <2>10. ASSUME NEW a \in Approvals, Cleanup(a)
        PROVE  [Abstract!Next]_(Abstract!promise)
    BY <2>10 DEF Cleanup, Goto, wsVars, Outcome, TypeOK, Abstract!promise
  <2>11. ASSUME NEW a \in Approvals, Finish(a)
        PROVE  [Abstract!Next]_(Abstract!promise)
    <3>1. Outcome[a] = "none"
      BY <2>11 DEF Finish, Goto, wsVars, Outcome, TypeOK, Live, Ended
    <3>2. Outcome' = [Outcome EXCEPT ![a] = IF row[a] = "approved" THEN "allow" ELSE "deny"]
      <4>1. decision[a] = row[a] /\ hook[a] = "cleaned"
        BY <2>11 DEF Finish, Goto, ActsOnRecordedAnswer
      <4>2. result' = [result EXCEPT ![a] = IF row[a] = "approved" THEN "allow" ELSE "deny"]
        BY <2>11, <4>1 DEF Finish
      <4>3. hook' = [hook EXCEPT ![a] = "done"]
        BY <2>11 DEF Finish, Goto
      <4> QED
        BY <4>1, <4>2, <4>3 DEF Outcome, TypeOK
    <3>3. UNCHANGED <<row, lost>>
      BY <2>11 DEF Finish, Goto, wsVars, Outcome, TypeOK
    <3>4. Abstract!Return(a)
      BY <2>11, <3>1, <3>2, <3>3 DEF Finish, Goto, wsVars, TypeOK, ActsOnRecordedAnswer, Live, Answers,
         Abstract!Return, Abstract!Conclude
    <3> QED
      BY <3>4 DEF Abstract!Next
  <2>12. ASSUME NEW a \in Approvals, Cancel(a)
        PROVE  [Abstract!Next]_(Abstract!promise)
    <3>1. Outcome[a] = "none"
      BY <2>12 DEF Cancel, wsVars, Outcome, TypeOK, Live, Ended
    <3>2. Outcome' = [Outcome EXCEPT ![a] = "void"]
      BY <2>12 DEF Cancel, wsVars, Outcome, TypeOK, ActsOnRecordedAnswer, Live, Ended
    <3>3. UNCHANGED <<row, lost>>
      BY <2>12 DEF Cancel, wsVars, Outcome, TypeOK
    <3>4. Abstract!Abandon(a)
      BY <2>12, <3>1, <3>2, <3>3 DEF Cancel, wsVars, TypeOK, ActsOnRecordedAnswer, Live, Answers,
         Abstract!Abandon, Abstract!Conclude
    <3> QED
      BY <3>4 DEF Abstract!Next
  <2>13. ASSUME NEW c \in Conns, NEW a \in Approvals, NEW d \in Answers, CheckPending(c, a, d)
        PROVE  [Abstract!Next]_(Abstract!promise)
    BY <2>13 DEF CheckPending, gateVars, Outcome, TypeOK, Abstract!promise
  <2>14. ASSUME NEW c \in Conns, CommitAnswer(c)
        PROVE  [Abstract!Next]_(Abstract!promise)
    <3>1. row[resp[c].id] = "pending" /\ resp[c].says \in {"approved", "denied"}
      BY <2>14, HandlerType DEF CommitAnswer, Answers
    <3>2. Outcome' = Outcome
      BY <2>14 DEF CommitAnswer, gateVars, Outcome
    <3>3. Abstract!Answer(resp[c].id, resp[c].says)
      BY <2>14, <3>1, <3>2 DEF CommitAnswer, Abstract!Answer
    <3> QED
      BY <2>14, <3>1, <3>3, HandlerType DEF CommitAnswer, Abstract!Next
  <2>15. ASSUME NEW c \in Conns, StoreDecision(c)
        PROVE  [Abstract!Next]_(Abstract!promise)
    BY <2>15 DEF StoreDecision, Outcome, TypeOK, Abstract!promise
  <2>16. ASSUME NEW c \in Conns, PublishWake(c)
        PROVE  [Abstract!Next]_(Abstract!promise)
    BY <2>16 DEF PublishWake, Outcome, TypeOK, Abstract!promise
  <2>17. ASSUME NEW c \in Conns, DropHandler(c)
        PROVE  [Abstract!Next]_(Abstract!promise)
    <3>1. Outcome' = Outcome /\ row' = row
      BY <2>17 DEF DropHandler, gateVars, Outcome
    <3>2. CASE resp[c].at = "checked"
      BY <2>17, <3>1, <3>2 DEF DropHandler, Abstract!promise
    <3>3. CASE resp[c].at # "checked"
      <4>1. /\ resp[c].id \in Approvals
            /\ row[resp[c].id] \in {"approved", "denied"}
        BY <2>17, <3>3, HandlerType DEF DropHandler, Answers, TypeOK, Idle, Handling
      <4>2. Abstract!Lose(resp[c].id)
        BY <2>17, <3>1, <3>3, <4>1 DEF DropHandler, Abstract!Lose
      <4> QED
        BY <4>1, <4>2 DEF Abstract!Next
    <3> QED
      BY <3>2, <3>3
  <2>18. CASE UNCHANGED vars
    BY <2>18 DEF vars, gateVars, wsVars, Outcome, Abstract!promise
  <2> QED
    BY <2>1, <2>2, <2>3, <2>4, <2>5, <2>6, <2>7, <2>8, <2>9, <2>10, <2>11, <2>12, <2>13, <2>14, <2>15, <2>16, <2>17, <2>18 DEF Next, HookStep, WsStep
<1> QED
  BY <1>1, <1>2, Typing, Consistent, PTL DEF Spec, Abstract!Spec

-----------------------------------------------------------------------------
(* Hooks one at a time, as the SDK calls them when it runs no two tools.     *)

\* One hook is live at most, and the status is awaiting_approval from the
\* second transaction of its hook to the third.
OneLive ==
  /\ WaitIsVisible
  /\ \A a, b \in Approvals : hook[a] \in Live /\ hook[b] \in Live => a = b
  /\ \A a \in Approvals :
       hook[a] \in Live \ {"created"} => status = "awaiting_approval"

\* Then a waiting hook always shows as awaiting_approval.
THEOREM Visible ==
  ASSUME ~ParallelHooks
  PROVE  Spec => []WaitIsVisible
<1>1. Init => OneLive
  BY DEF Init, OneLive, WaitIsVisible, Live
<1>2. TypeOK /\ OneLive /\ [Next]_vars => OneLive'
  <2> SUFFICES ASSUME TypeOK, OneLive, [Next]_vars
               PROVE  OneLive'
    OBVIOUS
  <2> USE DEF OneLive, WaitIsVisible
  <2>1. ASSUME NEW a \in Approvals, AutoAllow(a)
        PROVE  OneLive'
    BY <2>1 DEF AutoAllow, Goto, wsVars, TypeOK, Live, Ended, MayStart
  <2>2. ASSUME NEW a \in Approvals, DenyNoUser(a)
        PROVE  OneLive'
    BY <2>2 DEF DenyNoUser, Goto, wsVars, TypeOK, Live, Ended, MayStart
  <2>3. ASSUME NEW a \in Approvals, CreateApproval(a)
        PROVE  OneLive'
    BY <2>3 DEF CreateApproval, Goto, TypeOK, Live, Ended, MayStart
  <2>4. ASSUME NEW a \in Approvals, FlipStatus(a)
        PROVE  OneLive'
    BY <2>4 DEF FlipStatus, Goto, wsVars, TypeOK, Live, Ended
  <2>5. ASSUME NEW a \in Approvals, Register(a)
        PROVE  OneLive'
    BY <2>5 DEF Register, Goto, wsVars, TypeOK, Live, Ended
  <2>6. ASSUME NEW a \in Approvals, CheckKey(a)
        PROVE  OneLive'
    BY <2>6 DEF CheckKey, Goto, wsVars, TypeOK, Live, Ended
  <2>7. ASSUME NEW a \in Approvals, Wake(a)
        PROVE  OneLive'
    BY <2>7 DEF Wake, Goto, wsVars, TypeOK, Live, Ended
  <2>8. ASSUME NEW a \in Approvals, FetchDecision(a)
        PROVE  OneLive'
    BY <2>8 DEF FetchDecision, Goto, wsVars, TypeOK, Live, Ended
  <2>9. ASSUME NEW a \in Approvals, Unsubscribe(a)
        PROVE  OneLive'
    BY <2>9 DEF Unsubscribe, Goto, wsVars, TypeOK, Live, Ended
  <2>10. ASSUME NEW a \in Approvals, Cleanup(a)
        PROVE  OneLive'
    BY <2>10 DEF Cleanup, Goto, wsVars, TypeOK, Live, Ended
  <2>11. ASSUME NEW a \in Approvals, Finish(a)
        PROVE  OneLive'
    BY <2>11 DEF Finish, Goto, wsVars, TypeOK, Live, Ended
  <2>12. ASSUME NEW a \in Approvals, Cancel(a)
        PROVE  OneLive'
    BY <2>12 DEF Cancel, wsVars, TypeOK, Live, Ended
  <2>13. ASSUME NEW c \in Conns, NEW a \in Approvals, NEW d \in Answers, CheckPending(c, a, d)
        PROVE  OneLive'
    BY <2>13 DEF CheckPending, gateVars, TypeOK, Live, Ended
  <2>14. ASSUME NEW c \in Conns, CommitAnswer(c)
        PROVE  OneLive'
    BY <2>14 DEF CommitAnswer, gateVars, TypeOK, Live, Ended
  <2>15. ASSUME NEW c \in Conns, StoreDecision(c)
        PROVE  OneLive'
    BY <2>15 DEF StoreDecision, TypeOK, Live, Ended
  <2>16. ASSUME NEW c \in Conns, PublishWake(c)
        PROVE  OneLive'
    BY <2>16 DEF PublishWake, TypeOK, Live, Ended
  <2>17. ASSUME NEW c \in Conns, DropHandler(c)
        PROVE  OneLive'
    BY <2>17 DEF DropHandler, gateVars, TypeOK, Live, Ended
  <2>18. CASE UNCHANGED vars
    BY <2>18 DEF vars, gateVars
  <2> QED
    BY <2>1, <2>2, <2>3, <2>4, <2>5, <2>6, <2>7, <2>8, <2>9, <2>10, <2>11, <2>12, <2>13, <2>14, <2>15, <2>16, <2>17, <2>18 DEF Next, HookStep, WsStep
<1> QED
  BY <1>1, <1>2, Typing, PTL DEF Spec, OneLive
=============================================================================
