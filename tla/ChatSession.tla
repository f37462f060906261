----------------------------- MODULE ChatSession -----------------------------
(***************************************************************************)
(* The turn loop of SDKChatSession (agents/chat/session.py) with its two   *)
(* timers (agents/chat/lifecycle.py), fed by the input queue that module   *)
(* TaskInputQueue describes.  One task; a failed session may be retried,   *)
(* which starts a new session on the same queue.                           *)
(*                                                                         *)
(* Time is a clock of TicksPerSec ticks a second, fine enough to see what  *)
(* rounding the BLPOP timeout to whole seconds does.  A turn may take any  *)
(* time.  The agent's work inside a turn is abstract: it ends or it fails. *)
(***************************************************************************)
EXTENDS TaskInputQueue, Integers

CONSTANTS
  IdleTimeout, HardTimeout,   \* CHAT_SESSION_*_TIMEOUT_SEC, in ticks
  TicksPerSec,
  Horizon,                    \* bound: a session's clock stops here
  MaxSessions                 \* bound: sessions of the task, retries included

ASSUME TimeAssumption ==
  /\ {IdleTimeout, HardTimeout, TicksPerSec, MaxSessions} \subseteq Nat \ {0}
  /\ Horizon \in Nat /\ Horizon >= HardTimeout + TicksPerSec

VARIABLES
  pc,           \* where run() is
  sessions,     \* sessions of the task so far
  resumed,      \* _is_resumed of the present one
  turn,         \* what the turn in progress was started for
  closeReq,     \* _close_requested is set
  reason,       \* the SessionEndReason, or "cancelled"
  status,       \* Task.status
  now,          \* the clock, which _started_at of the session puts at 0
  lastInputAt,  \* _last_user_input_at
  until,        \* when the BLPOP in progress times out
  popped, persisted,  \* history: user messages taken, and saved as chat rows
  stopping      \* the application is shutting down

timeVars  == <<now, lastInputAt, until>>
histVars  == <<popped, persisted>>
runVars   == <<sessions, resumed, stopping>>
vars == <<queueVars, timeVars, histVars, runVars, pc, turn, closeReq, reason, status>>

TypeOK ==
  /\ QueueTypeOK
  /\ pc \in {"connect", "start", "stream", "callback", "loop", "announce",
             "budget", "wait", "end", "teardown", "unregister", "gone"}
  /\ sessions \in 1..MaxSessions
  /\ {resumed, closeReq, stopping} \subseteq BOOLEAN
  /\ turn \in {"none", "initial", "user"}
  /\ reason \in {"none", "user_closed", "idle", "hard", "error", "cancelled"}
  /\ status \in {"running", "awaiting_user_message", "publishing", "completed", "failed"}
  /\ {now, lastInputAt, until, popped, persisted} \subseteq Nat

Init ==
  /\ QueueInit
  /\ pc = "connect" /\ sessions = 1 /\ resumed \in BOOLEAN
  /\ turn = "none" /\ closeReq = FALSE /\ reason = "none" /\ stopping = FALSE
  /\ status = "running"
  /\ now = 0 /\ lastInputAt = 0 /\ until = 0
  /\ popped = 0 /\ persisted = 0

-----------------------------------------------------------------------------
(* Lifecycle. *)

Least(a, b)    == IF a <= b THEN a ELSE b
Greatest(a, b) == IF a >= b THEN a ELSE b

Deadline == Least(HardTimeout, lastInputAt + IdleTimeout)

Remaining == Greatest(0, Least(IdleTimeout - (now - lastInputAt), HardTimeout - now))

Expired ==
  IF now >= HardTimeout THEN "hard"
  ELSE IF now - lastInputAt >= IdleTimeout THEN "idle" ELSE "none"

\* int(round(t)): to the nearest second, a half to the even one.
RoundSec(t) ==
  LET s == t \div TicksPerSec
      r == 2 * (t % TicksPerSec)
  IN  IF r < TicksPerSec \/ (r = TicksPerSec /\ s % 2 = 0) THEN s ELSE s + 1

\* A fault: no lower limit; Redis takes a timeout of 0 as "for ever".
BlpopTimeoutNoMin(t) == TicksPerSec * (IF RoundSec(t) = 0 THEN Horizon ELSE RoundSec(t))

\* The BLPOP timeout: max(1, int(round(timeout_sec))), in ticks.
BlpopTimeout(t) == TicksPerSec * Greatest(1, RoundSec(t))

-----------------------------------------------------------------------------
(* run() *)

Goto(from, to) == pc = from /\ pc' = to

\* The client connects; a resumed session has no initial turn to run.
Connect ==
  /\ Goto("connect", IF resumed THEN "loop" ELSE "start")
  /\ turn' = IF resumed THEN "none" ELSE "initial"
  /\ UNCHANGED <<queueVars, timeVars, histVars, runVars, closeReq, reason, status>>

\* connect() raises before the try block: no teardown runs, and the pipeline
\* that awaits the session marks the task failed.
ConnectFails ==
  /\ Goto("connect", "gone")
  /\ reason' = "error" /\ status' = "failed"
  /\ UNCHANGED <<queueVars, timeVars, histVars, runVars, turn, closeReq>>

\* A fault: the initial prompt is saved as well.
StartTurnAllSaved ==
  /\ Goto("start", "stream")
  /\ status' = "running" /\ persisted' = persisted + 1
  /\ UNCHANGED <<queueVars, timeVars, popped, runVars, turn, closeReq, reason>>

\* A turn starts: the task runs, and a user's message is saved as a chat row
\* before the query is sent.
StartTurn ==
  /\ Goto("start", "stream")
  /\ status' = "running"
  /\ persisted' = persisted + (IF turn = "user" THEN 1 ELSE 0)
  /\ UNCHANGED <<queueVars, timeVars, popped, runVars, turn, closeReq, reason>>

\* The response stream ends.
EndTurn ==
  /\ Goto("stream", "callback")
  /\ turn' = "none"
  /\ UNCHANGED <<queueVars, timeVars, histVars, runVars, closeReq, reason, status>>

\* The post-turn callback: the publisher marks the task when it has a
\* workspace to publish from.  Its failures are swallowed.
PostTurn ==
  /\ Goto("callback", "loop")
  /\ status' \in {status, "publishing"}
  /\ UNCHANGED <<queueVars, timeVars, histVars, runVars, turn, closeReq, reason>>

\* An exception inside the try block.
Crash ==
  /\ pc \in {"start", "stream", "loop", "announce", "wait"}
  /\ pc' = "end" /\ reason' = "error" /\ turn' = "none"
  /\ UNCHANGED <<queueVars, timeVars, histVars, runVars, closeReq, status>>

\* A fault: the timers are not asked.
LoopTopCloseOnly ==
  /\ Goto("loop", IF closeReq THEN "end" ELSE "announce")
  /\ reason' = IF closeReq THEN "user_closed" ELSE "none"
  /\ UNCHANGED <<queueVars, timeVars, histVars, runVars, turn, closeReq, status>>

\* Top of the loop: a close request, then the timers.
LoopTop ==
  /\ LET why == IF closeReq THEN "user_closed" ELSE Expired
     IN  /\ Goto("loop", IF why = "none" THEN "announce" ELSE "end")
         /\ reason' = why
  /\ UNCHANGED <<queueVars, timeVars, histVars, runVars, turn, closeReq, status>>

\* A fault: the status is not written.
AnnounceSkipped ==
  /\ Goto("announce", "budget")
  /\ UNCHANGED <<queueVars, timeVars, histVars, runVars, turn, closeReq, reason, status>>

Announce ==
  /\ Goto("announce", "budget")
  /\ status' = "awaiting_user_message"
  /\ UNCHANGED <<queueVars, timeVars, histVars, runVars, turn, closeReq, reason>>

\* The budget is taken after the database write: a timer may have run out.
Budget ==
  /\ Goto("budget", IF Remaining = 0 THEN "loop" ELSE "wait")
  /\ until' = IF Remaining = 0 THEN until ELSE now + BlpopTimeout(Remaining)
  /\ UNCHANGED <<queueVars, now, lastInputAt, histVars, runVars, turn, closeReq, reason, status>>

\* BLPOP returns a message; the idle timer restarts and a turn begins.
Receive ==
  /\ Goto("wait", "start")
  /\ WaitForMessage
  /\ turn' = "user" /\ lastInputAt' = now /\ popped' = popped + 1
  /\ UNCHANGED <<now, until, persisted, runVars, closeReq, reason, status>>

\* BLPOP times out.
TimeOut ==
  /\ Goto("wait", "loop")
  /\ queue = <<>> /\ now >= until
  /\ UNCHANGED <<queueVars, timeVars, histVars, runVars, turn, closeReq, reason, status>>

\* _end: the final status.
End ==
  /\ Goto("end", "teardown")
  /\ status' = IF reason = "error" THEN "failed" ELSE "completed"
  /\ UNCHANGED <<queueVars, timeVars, histVars, runVars, turn, closeReq, reason>>

\* _teardown: the client is disconnected and the queue cleared.
Teardown ==
  /\ Goto("teardown", "unregister")
  /\ Clear
  /\ UNCHANGED <<timeVars, histVars, runVars, turn, closeReq, reason, status>>

\* The event stream is closed and the registry forgets the session.
Unregister ==
  /\ Goto("unregister", "gone")
  /\ UNCHANGED <<queueVars, timeVars, histVars, runVars, turn, closeReq, reason, status>>

RunStep ==
  \/ Connect \/ StartTurn \/ EndTurn \/ PostTurn \/ LoopTop \/ Announce \/ Budget
  \/ Receive \/ TimeOut \/ End \/ Teardown \/ Unregister

-----------------------------------------------------------------------------
(* The session's surroundings. *)

\* The user sends close_session; the flag is all that is set.
RequestClose ==
  /\ pc # "gone" /\ ~closeReq
  /\ closeReq' = TRUE
  /\ UNCHANGED <<queueVars, timeVars, histVars, runVars, pc, turn, reason, status>>

\* shutdown_all: every session is asked to close ...
Shutdown ==
  /\ ~stopping
  /\ stopping' = TRUE
  /\ closeReq' = (closeReq \/ pc # "gone")
  /\ UNCHANGED <<queueVars, timeVars, histVars, sessions, resumed, pc, turn, reason, status>>

\* ... and cancelled when the grace period is over.  CancelledError is no
\* Exception: _end is skipped, only the finally block runs.
CancelSession ==
  /\ stopping
  /\ pc \notin {"teardown", "unregister", "gone"}
  /\ pc' = IF pc = "connect" THEN "gone" ELSE "teardown"
  /\ reason' = "cancelled" /\ turn' = "none"
  /\ UNCHANGED <<queueVars, timeVars, histVars, runVars, closeReq, status>>

\* The user retries the failed task: a new session is built.
Retry ==
  /\ pc = "gone" /\ status = "failed" /\ ~stopping /\ sessions < MaxSessions
  /\ pc' = "connect" /\ sessions' = sessions + 1 /\ resumed' = FALSE
  /\ turn' = "none" /\ closeReq' = FALSE /\ reason' = "none" /\ status' = "running"
  /\ now' = 0 /\ lastInputAt' = 0 /\ until' = 0
  /\ UNCHANGED <<queueVars, popped, persisted, stopping>>

\* The WebSocket connections push messages.
PushMessage(c) ==
  /\ Push(c)
  /\ UNCHANGED <<timeVars, histVars, runVars, pc, turn, closeReq, reason, status>>

\* Redis ends a BLPOP on time.
Tick ==
  /\ now < Horizon /\ pc # "gone"
  /\ pc = "wait" => now < until
  /\ now' = now + 1
  /\ UNCHANGED <<queueVars, lastInputAt, until, histVars, runVars, pc, turn,
                 closeReq, reason, status>>

Next ==
  \/ RunStep \/ ConnectFails \/ Crash
  \/ RequestClose \/ Shutdown \/ CancelSession \/ Retry
  \/ \E c \in Conns : PushMessage(c)
  \/ Tick

Spec == Init /\ [][Next]_vars

\* The event loop runs the session, time passes, and a turn comes to an end:
\* the SDK bounds it by max_turns and each hook by its timeout.
Fairness == WF_vars(RunStep) /\ WF_vars(Tick)

FairSpec == Spec /\ Fairness

-----------------------------------------------------------------------------
\* No turn starts a second or more after the session's deadline, although
\* the BLPOP timeout is rounded and at least one second.
NoTurnPastDeadline ==
  [][pc = "wait" /\ pc' = "start" => now < Deadline + TicksPerSec]_vars

\* "persisted-content == what-the-agent-saw": a message that was popped is
\* saved exactly once before the agent sees it; only a failure or a
\* cancellation between the pop and the save loses one, once a session.
PersistedOnce ==
  /\ persisted <= popped
  /\ pc \in {"stream", "callback", "announce", "budget", "wait"} =>
       popped - persisted <= sessions - 1
  /\ popped - persisted <= sessions

\* The status tells what the session does: awaiting the user while it blocks
\* on the queue, running during a turn, and the outcome once it is gone.
StatusTruthful ==
  /\ pc = "wait" => status = "awaiting_user_message"
  /\ pc = "stream" => status = "running"
  /\ pc \in {"unregister", "gone"} /\ reason # "cancelled" =>
       status = IF reason = "error" THEN "failed" ELSE "completed"

\* Every session ends, by a timer if by nothing else.
SessionEnds == (pc # "gone") ~> (pc = "gone")
=============================================================================
