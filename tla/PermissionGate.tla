--------------------------- MODULE PermissionGate ---------------------------
(***************************************************************************)
(* Human approval of tool calls for one task.  A PreToolUse hook           *)
(* (agents/sdk_agent.py) or the ask_user tool (custom_tools/chat/tools.py) *)
(* writes an approval row, subscribes to a Redis wake channel and sleeps;  *)
(* the receive loop of a WebSocket connection (task_stream_view.py)        *)
(* records the user's answer in the row, stores it under a Redis key and   *)
(* publishes the wake-up (agent_tools/permission_gate.py).                 *)
(*                                                                         *)
(* Every await of either side is a step boundary here.  Each tool call is  *)
(* named by the approval it asks for; ask_user runs the same protocol and  *)
(* its answer text is part of the decision.  The 24 h expiry of the key is *)
(* left out: a subscriber that is awake reads the key at once.             *)
(***************************************************************************)
EXTENDS Naturals, FiniteSets

CONSTANTS
  Approvals,      \* tool calls of the session, one approval each
  AutoAllowed,    \* those that match allowed_tools or a Bash pattern
  Conns,          \* WebSocket connections of the user
  ParallelHooks   \* whether the SDK runs hooks of several calls at a time

ASSUME AutoAssumption     == AutoAllowed \subseteq Approvals
ASSUME ParallelAssumption == ParallelHooks \in BOOLEAN

VARIABLES
  hasUser,   \* the hook was built with a user_id
  hook,      \* per tool call: where its hook coroutine is
  row,       \* per tool call: status of the task_approvals row, or "none"
  key,       \* per tool call: the decision under clyde:approval:{id}
  sub,       \* per tool call: the wake channel is subscribed
  wake,      \* per tool call: wake-ups delivered and not yet read
  decision,  \* per tool call: what wait_for_decision returned
  result,    \* per tool call: what the hook answered the SDK
  status,    \* the task's status
  resp,      \* per connection: the approval_response being handled
  said,      \* history: per tool call, the answers committed so far
  lost       \* history: calls with an answer whose handler died after commit

gateVars == <<hook, key, sub, wake, decision, result>>
wsVars   == <<row, resp, said, lost>>
vars     == <<hasUser, gateVars, wsVars, status>>

Answers == {"approved", "denied"}
Ended   == {"done", "cancelled", "error"}
Live    == {"created", "flipped", "registered", "blocked", "awake",
            "decided", "left", "cleaned"}
Idle    == [at |-> "idle"]
Handling == [at : {"checked", "committed", "stored"}, id : Approvals, says : Answers]

TypeOK ==
  /\ hasUser  \in BOOLEAN
  /\ hook     \in [Approvals -> {"idle"} \cup Live \cup Ended]
  /\ row      \in [Approvals -> {"none", "pending"} \cup Answers]
  /\ key      \in [Approvals -> {"none"} \cup Answers]
  /\ sub      \in [Approvals -> BOOLEAN]
  /\ wake     \in [Approvals -> Nat]
  /\ decision \in [Approvals -> {"none"} \cup Answers]
  /\ result   \in [Approvals -> {"none", "allow", "deny"}]
  /\ status   \in {"running", "awaiting_approval"}
  /\ resp     \in [Conns -> {Idle} \cup Handling]
  /\ said     \in [Approvals -> SUBSET Answers]
  /\ lost     \in SUBSET Approvals

Init ==
  /\ hasUser  \in BOOLEAN
  /\ hook     = [a \in Approvals |-> "idle"]
  /\ row      = [a \in Approvals |-> "none"]
  /\ key      = [a \in Approvals |-> "none"]
  /\ sub      = [a \in Approvals |-> FALSE]
  /\ wake     = [a \in Approvals |-> 0]
  /\ decision = [a \in Approvals |-> "none"]
  /\ result   = [a \in Approvals |-> "none"]
  /\ status   = "running"
  /\ resp     = [c \in Conns |-> Idle]
  /\ said     = [a \in Approvals |-> {}]
  /\ lost     = {}

Goto(a, from, to) == hook[a] = from /\ hook' = [hook EXCEPT ![a] = to]

-----------------------------------------------------------------------------
(* The hook coroutine. *)

\* Whether the SDK may invoke the hook of another call now.
MayStart == ParallelHooks \/ \A a \in Approvals : hook[a] \notin Live

\* The tool or the Bash command matches a pre-approved pattern.
AutoAllow(a) ==
  /\ a \in AutoAllowed
  /\ MayStart
  /\ Goto(a, "idle", "done")
  /\ result' = [result EXCEPT ![a] = "allow"]
  /\ UNCHANGED <<hasUser, key, sub, wake, decision, wsVars, status>>

\* Nobody to ask: the hook denies.
DenyNoUser(a) ==
  /\ a \notin AutoAllowed
  /\ ~hasUser
  /\ MayStart
  /\ Goto(a, "idle", "done")
  /\ result' = [result EXCEPT ![a] = "deny"]
  /\ UNCHANGED <<hasUser, key, sub, wake, decision, wsVars, status>>

\* First transaction: the pending row and its chat message.  From here on the
\* row is listed to the user.
CreateApproval(a) ==
  /\ a \notin AutoAllowed
  /\ hasUser
  /\ MayStart
  /\ Goto(a, "idle", "created")
  /\ row' = [row EXCEPT ![a] = "pending"]
  /\ UNCHANGED <<hasUser, key, sub, wake, decision, result, resp, said, lost, status>>

\* A fault: the status is not written.
FlipStatusSkipped(a) ==
  /\ Goto(a, "created", "flipped")
  /\ UNCHANGED <<hasUser, key, sub, wake, decision, result, wsVars, status>>

\* Second transaction: the task waits for the user.
FlipStatus(a) ==
  /\ Goto(a, "created", "flipped")
  /\ status' = "awaiting_approval"
  /\ UNCHANGED <<hasUser, key, sub, wake, decision, result, wsVars>>

\* register subscribes; the request is then announced to the clients.
Register(a) ==
  /\ Goto(a, "flipped", "registered")
  /\ sub' = [sub EXCEPT ![a] = TRUE]
  /\ UNCHANGED <<hasUser, key, wake, decision, result, wsVars, status>>

\* A fault: the hook sleeps without looking at the key.
CheckKeyNot(a) ==
  /\ Goto(a, "registered", "blocked")
  /\ UNCHANGED <<hasUser, key, sub, wake, decision, result, wsVars, status>>

\* wait_for_decision looks at the key before it sleeps on the channel.
CheckKey(a) ==
  /\ IF key[a] # "none"
     THEN /\ Goto(a, "registered", "decided")
          /\ decision' = [decision EXCEPT ![a] = key[a]]
     ELSE /\ Goto(a, "registered", "blocked")
          /\ UNCHANGED decision
  /\ UNCHANGED <<hasUser, key, sub, wake, result, wsVars, status>>

\* A wake-up arrives on the subscription.
Wake(a) ==
  /\ wake[a] > 0
  /\ Goto(a, "blocked", "awake")
  /\ wake' = [wake EXCEPT ![a] = @ - 1]
  /\ UNCHANGED <<hasUser, key, sub, decision, result, wsVars, status>>

\* The decision is fetched; without one wait_for_decision raises.
FetchDecision(a) ==
  /\ IF key[a] # "none"
     THEN /\ Goto(a, "awake", "decided")
          /\ decision' = [decision EXCEPT ![a] = key[a]]
          /\ UNCHANGED sub
     ELSE /\ Goto(a, "awake", "error")
          /\ sub' = [sub EXCEPT ![a] = FALSE]
          /\ UNCHANGED decision
  /\ UNCHANGED <<hasUser, key, wake, result, wsVars, status>>

\* The finally block closes the subscription, with whatever it still buffers.
Unsubscribe(a) ==
  /\ Goto(a, "decided", "left")
  /\ sub'  = [sub EXCEPT ![a] = FALSE]
  /\ wake' = [wake EXCEPT ![a] = 0]
  /\ UNCHANGED <<hasUser, key, decision, result, wsVars, status>>

\* cleanup deletes the key.
Cleanup(a) ==
  /\ Goto(a, "left", "cleaned")
  /\ key' = [key EXCEPT ![a] = "none"]
  /\ UNCHANGED <<hasUser, sub, wake, decision, result, wsVars, status>>

\* A fault: any decision counts as an approval, as in "if decision:".
FinishAny(a) ==
  /\ Goto(a, "cleaned", "done")
  /\ status' = "running"
  /\ result' = [result EXCEPT ![a] = IF decision[a] # "none" THEN "allow" ELSE "deny"]
  /\ UNCHANGED <<hasUser, key, sub, wake, decision, wsVars>>

\* Third transaction: the task runs again, and the hook answers the SDK.
Finish(a) ==
  /\ Goto(a, "cleaned", "done")
  /\ status' = "running"
  /\ result' = [result EXCEPT ![a] = IF decision[a] = "approved" THEN "allow" ELSE "deny"]
  /\ UNCHANGED <<hasUser, key, sub, wake, decision, wsVars>>

\* The session disconnects its SDK client and the hook is cancelled at an
\* await.  Inside wait_for_decision the finally block still unsubscribes;
\* between register and the wait nothing does.
Cancel(a) ==
  /\ hook[a] \in Live
  /\ hook' = [hook EXCEPT ![a] = "cancelled"]
  /\ IF hook[a] \in {"blocked", "awake", "decided"}
     THEN /\ sub'  = [sub EXCEPT ![a] = FALSE]
          /\ wake' = [wake EXCEPT ![a] = 0]
     ELSE UNCHANGED <<sub, wake>>
  /\ UNCHANGED <<hasUser, key, decision, result, wsVars, status>>

HookStep(a) ==
  \/ FlipStatus(a) \/ Register(a) \/ CheckKey(a) \/ Wake(a) \/ FetchDecision(a)
  \/ Unsubscribe(a) \/ Cleanup(a) \/ Finish(a)

-----------------------------------------------------------------------------
(* The handler of an approval_response envelope. *)

\* The row is read and found pending.  A missing row (not_found) or one that
\* is already resolved (ConflictError) only sends an error to the client.
CheckPending(c, a, d) ==
  /\ resp[c] = Idle
  /\ row[a] = "pending"
  /\ resp' = [resp EXCEPT ![c] = [at |-> "checked", id |-> a, says |-> d]]
  /\ UNCHANGED <<hasUser, gateVars, row, said, lost, status>>

\* The same transaction commits the answer and its chat message.  Nothing
\* locks the row between the check and the update.
CommitAnswer(c) ==
  /\ resp[c].at = "checked"
  /\ row'  = [row  EXCEPT ![resp[c].id] = resp[c].says]
  /\ said' = [said EXCEPT ![resp[c].id] = @ \cup {resp[c].says}]
  /\ resp' = [resp EXCEPT ![c].at = "committed"]
  /\ UNCHANGED <<hasUser, gateVars, lost, status>>

\* Faults: the key has expired before it is read, or says "approved" always.
StoreDecisionExpired(c) ==
  /\ resp[c].at = "committed"
  /\ resp' = [resp EXCEPT ![c].at = "stored"]
  /\ UNCHANGED <<hasUser, gateVars, row, said, lost, status>>

StoreDecisionApproved(c) ==
  /\ resp[c].at = "committed"
  /\ key'  = [key EXCEPT ![resp[c].id] = "approved"]
  /\ resp' = [resp EXCEPT ![c].at = "stored"]
  /\ UNCHANGED <<hasUser, hook, sub, wake, decision, result, row, said, lost, status>>

\* resolve, first call: SET of the decision key.
StoreDecision(c) ==
  /\ resp[c].at = "committed"
  /\ key'  = [key EXCEPT ![resp[c].id] = resp[c].says]
  /\ resp' = [resp EXCEPT ![c].at = "stored"]
  /\ UNCHANGED <<hasUser, hook, sub, wake, decision, result, row, said, lost, status>>

\* resolve, second call: PUBLISH reaches the hook if it is subscribed.
PublishWake(c) ==
  /\ resp[c].at = "stored"
  /\ wake' = [wake EXCEPT ![resp[c].id] = IF sub[resp[c].id] THEN @ + 1 ELSE @]
  /\ resp' = [resp EXCEPT ![c] = Idle]
  /\ UNCHANGED <<hasUser, hook, key, sub, decision, result, row, said, lost, status>>

\* The connection's send loop ends first and chat() cancels the receive loop,
\* or a Redis call raises out of it.  An uncommitted transaction rolls back.
DropHandler(c) ==
  /\ resp[c] # Idle
  /\ lost' = IF resp[c].at = "checked" THEN lost ELSE lost \cup {resp[c].id}
  /\ resp' = [resp EXCEPT ![c] = Idle]
  /\ UNCHANGED <<hasUser, gateVars, row, said, status>>

WsStep(c) == CommitAnswer(c) \/ StoreDecision(c) \/ PublishWake(c)

-----------------------------------------------------------------------------
Next ==
  \/ \E a \in Approvals :
       \/ AutoAllow(a) \/ DenyNoUser(a) \/ CreateApproval(a)
       \/ HookStep(a) \/ Cancel(a)
  \/ \E c \in Conns :
       \/ \E a \in Approvals, d \in Answers : CheckPending(c, a, d)
       \/ WsStep(c) \/ DropHandler(c)

Spec == Init /\ [][Next]_vars

\* asyncio runs every coroutine that can proceed; Redis and the database
\* answer.  Nothing obliges the user to answer, or a connection to drop.
Fairness ==
  /\ \A a \in Approvals : WF_vars(HookStep(a))
  /\ \A c \in Conns : WF_vars(WsStep(c))

FairSpec == Spec /\ Fairness

-----------------------------------------------------------------------------
\* A hook that sleeps on the wake channel while a decision is stored has a
\* wake-up buffered or still coming: no answer slips between the look at the
\* key and the subscription, unless the answering handler itself died.
NoLostWakeup ==
  \A a \in Approvals \ lost :
    hook[a] = "blocked" /\ key[a] # "none" =>
      wake[a] > 0 \/ \E c \in Conns : resp[c].at = "stored" /\ resp[c].id = a

\* "Wake fired for approval ... but no decision in Redis" is never raised.
WakeHasDecision == \A a \in Approvals : hook[a] # "error"

\* A tool call is allowed only if its pattern is pre-approved or the user
\* committed an approval of this very call.
AllowNeedsApproval ==
  \A a \in Approvals : result[a] = "allow" => a \in AutoAllowed \/ "approved" \in said[a]

\* The agent acts on the answer the database records.
ActsOnRecordedAnswer ==
  \A a \in Approvals : decision[a] # "none" => decision[a] = row[a]

\* An approval that is resolved is never resolved again (ConflictError).
ResolvedOnce ==
  [][\A a \in Approvals : row[a] \in Answers => row'[a] = row[a]]_vars

\* While a hook waits for the user the task shows awaiting_approval.
WaitIsVisible ==
  \A a \in Approvals :
    hook[a] \in {"registered", "blocked", "awake"} => status = "awaiting_approval"

-----------------------------------------------------------------------------
\* What the agent is told, as the abstract specification sees it.
Outcome == [a \in Approvals |-> IF hook[a] = "cancelled" THEN "void" ELSE result[a]]

Abstract ==
  INSTANCE Approval WITH
    Calls <- Approvals, PreApproved <- AutoAllowed,
    answer <- row, outcome <- Outcome

\* With one connection, row, key, channel and hook together keep the promise
\* of Approval: asked once, answered once, and the agent is told that answer,
\* in the end, unless the handler that committed it died.
ImplementsApproval == Abstract!FairSpec
=============================================================================
