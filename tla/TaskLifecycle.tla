---------------------------- MODULE TaskLifecycle ----------------------------
(***************************************************************************)
(* The life of one task row: the pipeline coroutines that run it           *)
(* (services/task_service.py, agents/team/orchestrator_agent.py), the      *)
(* registry of chat sessions (services/chat_session_service.py), retry and *)
(* delete requests, the GitHub CI webhook and its fix pipeline             *)
(* (services/webhook_service.py), and the reconciliation of live tasks     *)
(* when the application starts again (api/app.py).                         *)
(*                                                                         *)
(* All of them run on one event loop and interleave at their awaits.  They *)
(* share the row, the registry and the workspace /tmp/clyde/{task id}.     *)
(* What a session does inside a turn is in ChatSession and PermissionGate. *)
(*                                                                         *)
(* A transaction that writes the row takes effect at one step: its UPDATE  *)
(* locks the row until it commits.  What a request read before, without a  *)
(* lock, may be out of date by then, so the read is a step of its own.     *)
(* The task has at least one repository.                                   *)
(***************************************************************************)
EXTENDS Naturals, FiniteSets

CONSTANTS
  Pipes,       \* bound: pipeline coroutines alive at the same time
  Webhooks,    \* bound: webhook requests in progress
  Retriers,    \* bound: retry requests in progress
  MaxAttempts, \* max_fix_attempts
  MaxRestarts, \* bound: restarts of the application
  CommitFirst, \* the request that creates the task commits before its
               \* pipeline, which it spawned earlier, looks for the row
  None         \* no pipeline

ASSUME PipesAssumption    == Pipes # {} /\ None \notin Pipes
ASSUME AttemptsAssumption == MaxAttempts \in Nat
ASSUME RestartsAssumption == MaxRestarts \in Nat /\ CommitFirst \in BOOLEAN

VARIABLES
  up, restarts,  \* the application runs; how often it was started again
  row,           \* the task row: not committed yet, there, or deleted
  status,        \* Task.status
  attempt,       \* Task.attempt
  sdkId,         \* Task.sdk_session_id is set
  transcript,    \* the SDK stored a conversation under that id
  registry,      \* the pipeline whose session chat_session_service holds
  ws,            \* the workspace: absent, empty, or the clone of a pipeline
  at,            \* per pipeline: where it is
  kind,          \* per pipeline: fresh (_run_pipeline), resume, or fix
  err,           \* per pipeline: an exception is on its way out
  base,          \* per fix pipeline: the attempt its webhook had read
  hook,          \* per webhook request: where it is
  seen,          \* per webhook request: the attempt it read
  retry          \* per retry request: it has read a status that allows it

rowVars  == <<row, status, attempt, sdkId, transcript>>
pipeVars == <<at, kind, err, base>>
reqVars  == <<hook, seen, retry>>
vars == <<up, restarts, rowVars, registry, ws, pipeVars, reqVars>>

Live     == {"running", "awaiting_approval", "awaiting_user_message", "publishing", "fixing"}
Terminal == {"completed", "needs_human", "failed"}
Status   == Live \cup Terminal \cup {"awaiting_ci"}

Preparing == {"boot", "clone", "save", "register"}
Turning   == {"query", "turn", "ask", "publish"}
InSession == {"connect", "start", "loop", "wait", "ending", "unregister"} \cup Turning
Place     == {"free", "cleanup", "settle"} \cup Preparing \cup InSession

TypeOK ==
  /\ up \in BOOLEAN /\ restarts \in Nat
  /\ row \in {"pending", "there", "deleted"}
  /\ status \in Status /\ attempt \in Nat
  /\ sdkId \in BOOLEAN /\ transcript \in BOOLEAN
  /\ registry \in Pipes \cup {None}
  /\ ws \in Pipes \cup {None, "empty"}
  /\ at \in [Pipes -> Place]
  /\ kind \in [Pipes -> {"fresh", "resume", "fix"}]
  /\ err \in [Pipes -> BOOLEAN]
  /\ base \in [Pipes -> Nat]
  /\ hook \in [Webhooks -> {"idle", "success", "failure", "active", "exhausted", "spawn"}]
  /\ seen \in [Webhooks -> Nat]
  /\ retry \in [Retriers -> BOOLEAN]

\* The create request has spawned the pipeline; its own transaction, which
\* inserts the row, commits when the request ends.
Init ==
  /\ up = TRUE /\ restarts = 0
  /\ row = "pending" /\ status = "running" /\ attempt = 0
  /\ sdkId = FALSE /\ transcript = FALSE
  /\ registry = None /\ ws = None
  /\ \E p \in Pipes : at = [q \in Pipes |-> IF q = p THEN "boot" ELSE "free"]
  /\ kind = [p \in Pipes |-> "fresh"]
  /\ err = [p \in Pipes |-> FALSE]
  /\ base = [p \in Pipes |-> 0]
  /\ hook = [w \in Webhooks |-> "idle"]
  /\ seen = [w \in Webhooks |-> 0]
  /\ retry = [r \in Retriers |-> FALSE]

-----------------------------------------------------------------------------
(* Helpers. *)

\* What a slot that runs nothing says is immaterial.
Idle(p) ==
  /\ kind' = [kind EXCEPT ![p] = "fresh"]
  /\ err' = [err EXCEPT ![p] = FALSE]
  /\ base' = [base EXCEPT ![p] = 0]

Move(p, from, to) == at[p] = from /\ at' = [at EXCEPT ![p] = to]

\* An exception leaves the pipeline's present step for the place `to'.
Raise(p, to) ==
  /\ at' = [at EXCEPT ![p] = to]
  /\ err' = [err EXCEPT ![p] = TRUE]

\* asyncio.create_task of a pipeline coroutine.
Spawn(p, k, n) ==
  /\ at[p] = "free"
  /\ at' = [at EXCEPT ![p] = "boot"]
  /\ kind' = [kind EXCEPT ![p] = k]
  /\ err' = [err EXCEPT ![p] = FALSE]
  /\ base' = [base EXCEPT ![p] = n]

\* A transaction that reads the row and writes a status; on a deleted row it
\* raises NotFoundError.
Write(s) == row = "there" /\ status' = s

-----------------------------------------------------------------------------
(* The orchestrator prepares the session. *)

\* The agent is loaded, the task node written, and a stale workspace wiped.
Wipe(p) ==
  /\ Move(p, "boot", "clone")
  /\ ws' = "empty"
  /\ UNCHANGED <<up, restarts, rowVars, registry, kind, err, base, reqVars>>

\* Each repository is cloned; what stood at the destination is removed.
Clone(p) ==
  /\ Move(p, "clone", "save")
  /\ ws' = p
  /\ UNCHANGED <<up, restarts, rowVars, registry, kind, err, base, reqVars>>

\* The workspace is noted on the row; unless it resumes, a new SDK session id
\* with no conversation behind it.
Save(p) ==
  /\ Move(p, "save", "register")
  /\ row = "there"
  /\ IF kind[p] = "resume"
     THEN UNCHANGED <<sdkId, transcript>>
     ELSE sdkId' = TRUE /\ transcript' = FALSE
  /\ UNCHANGED <<up, restarts, row, status, attempt, registry, ws, kind, err, base, reqVars>>

\* A fault: the registry does not look whether it holds a session.
RegisterAlways(p) ==
  /\ Move(p, "register", "connect")
  /\ registry' = p
  /\ UNCHANGED <<up, restarts, rowVars, ws, kind, err, base, reqVars>>

\* register_and_run, which refuses a second session of the task.
Register(p) ==
  /\ registry = None
  /\ Move(p, "register", "connect")
  /\ registry' = p
  /\ UNCHANGED <<up, restarts, rowVars, ws, kind, err, base, reqVars>>

RegisterRefused(p) ==
  /\ at[p] = "register" /\ registry # None
  /\ Raise(p, "cleanup")
  /\ UNCHANGED <<up, restarts, rowVars, registry, ws, kind, base, reqVars>>

\* A step of the preparation raises: before the try block (an agent, a project
\* or the row is missing), or inside it (the clone fails, the row is gone, the
\* session cannot be built).  The memory graph swallows its own failures.
PrepareFails(p) ==
  /\ at[p] \in Preparing
  /\ Raise(p, IF at[p] = "boot" THEN "settle" ELSE "cleanup")
  /\ UNCHANGED <<up, restarts, rowVars, registry, ws, kind, base, reqVars>>

-----------------------------------------------------------------------------
(* The chat session, as far as the row can tell. *)

Connect(p) ==
  /\ Move(p, "connect", IF kind[p] = "resume" THEN "loop" ELSE "start")
  /\ UNCHANGED <<up, restarts, rowVars, registry, ws, kind, err, base, reqVars>>

ConnectFails(p) ==
  /\ at[p] = "connect"
  /\ Raise(p, "unregister")
  /\ UNCHANGED <<up, restarts, rowVars, registry, ws, kind, base, reqVars>>

StartTurn(p) ==
  /\ Move(p, "start", "query")
  /\ Write("running")
  /\ UNCHANGED <<up, restarts, row, attempt, sdkId, transcript, registry, ws, kind, err, base, reqVars>>

\* The prompt reaches the SDK, which stores the conversation.
Query(p) ==
  /\ Move(p, "query", "turn")
  /\ transcript' = TRUE
  /\ UNCHANGED <<up, restarts, row, status, attempt, sdkId, registry, ws, kind, err, base, reqVars>>

\* A tool needs the user's approval, and the answer comes back.
Ask(p) ==
  /\ Move(p, "turn", "ask")
  /\ Write("awaiting_approval")
  /\ UNCHANGED <<up, restarts, row, attempt, sdkId, transcript, registry, ws, kind, err, base, reqVars>>

Answered(p) ==
  /\ Move(p, "ask", "turn")
  /\ Write("running")
  /\ UNCHANGED <<up, restarts, row, attempt, sdkId, transcript, registry, ws, kind, err, base, reqVars>>

\* The turn ends.  The fix pipeline has no post-turn callback.
EndTurn(p) ==
  /\ Move(p, "turn", IF kind[p] = "fix" THEN "loop" ELSE "publish")
  /\ UNCHANGED <<up, restarts, rowVars, registry, ws, kind, err, base, reqVars>>

\* The post-turn callback publishes; its failures are swallowed.
Publish(p) ==
  /\ Move(p, "publish", "loop")
  /\ status' \in {status} \cup (IF row = "there" THEN {"publishing"} ELSE {})
  /\ UNCHANGED <<up, restarts, row, attempt, sdkId, transcript, registry, ws, kind, err, base, reqVars>>

Announce(p) ==
  /\ Move(p, "loop", "wait")
  /\ Write("awaiting_user_message")
  /\ UNCHANGED <<up, restarts, row, attempt, sdkId, transcript, registry, ws, kind, err, base, reqVars>>

UserMessage(p) ==
  /\ Move(p, "wait", "start")
  /\ UNCHANGED <<up, restarts, rowVars, registry, ws, kind, err, base, reqVars>>

\* A close request, a timer (top of the loop) or an exception ends the loop.
Leave(p) ==
  /\ at[p] \in {"start", "query", "turn", "ask", "loop", "wait"}
  /\ at' = [at EXCEPT ![p] = "ending"]
  /\ UNCHANGED <<up, restarts, rowVars, registry, ws, kind, err, base, reqVars>>

\* _end writes the outcome, before the teardown.
End(p) ==
  /\ Move(p, "ending", "unregister")
  /\ Write("completed") \/ Write("failed")
  /\ UNCHANGED <<up, restarts, row, attempt, sdkId, transcript, registry, ws, kind, err, base, reqVars>>

\* A fault: a deleted row is not noticed.
EndFailsNot(p) ==
  /\ at[p] = "ending" /\ row = "pending"
  /\ Raise(p, "unregister")
  /\ UNCHANGED <<up, restarts, rowVars, registry, ws, kind, base, reqVars>>

\* _end finds no row.
EndFails(p) ==
  /\ at[p] = "ending" /\ row = "deleted"
  /\ Raise(p, "unregister")
  /\ UNCHANGED <<up, restarts, rowVars, registry, ws, kind, base, reqVars>>

\* _run_and_unregister drops the task's entry, whoever put it there.
Unregister(p) ==
  /\ Move(p, "unregister", "cleanup")
  /\ registry' = None
  /\ UNCHANGED <<up, restarts, rowVars, ws, kind, err, base, reqVars>>

\* The orchestrator's finally block removes the workspace, whoever cloned it.
Cleanup(p) ==
  /\ Move(p, "cleanup", "settle")
  /\ ws' = None
  /\ UNCHANGED <<up, restarts, rowVars, registry, kind, err, base, reqVars>>

\* A fault: the failure is not written.
FinalStatusKept(p)  == IF ~err[p] /\ kind[p] = "fix" THEN "needs_human" ELSE status
\* What the pipeline writes last.  An exception fails the task.  Without one
\* the session has written its outcome; a fix pipeline runs the publisher,
\* which gets no diffs from the orchestrator and so returns no pull request.
FinalStatus(p) == IF err[p] THEN "failed" ELSE IF kind[p] = "fix" THEN "needs_human" ELSE status

Settle(p) ==
  /\ Move(p, "settle", "free")
  /\ row = "pending" => ~CommitFirst
  /\ status' = IF row = "there" THEN FinalStatus(p) ELSE status
  /\ attempt' = IF row = "there" /\ kind[p] = "fix" THEN base[p] + 1 ELSE attempt
  /\ Idle(p)
  /\ UNCHANGED <<up, restarts, row, sdkId, transcript, registry, ws, reqVars>>

Prepare(p) == Wipe(p) \/ Clone(p) \/ Save(p) \/ Register(p) \/ RegisterRefused(p) \/ PrepareFails(p)

Chat(p) ==
  \/ Connect(p) \/ ConnectFails(p) \/ StartTurn(p) \/ Query(p) \/ Ask(p) \/ Answered(p)
  \/ EndTurn(p) \/ Publish(p) \/ Announce(p) \/ UserMessage(p) \/ Leave(p)

Finish(p) == End(p) \/ EndFails(p) \/ Unregister(p) \/ Cleanup(p) \/ Settle(p)

Pipeline(p) == up /\ (Prepare(p) \/ Chat(p) \/ Finish(p))

-----------------------------------------------------------------------------
(* Requests. *)

CommitCreate ==
  /\ up /\ row = "pending"
  /\ row' = "there"
  /\ UNCHANGED <<up, restarts, status, attempt, sdkId, transcript, registry, ws, pipeVars, reqVars>>

Delete ==
  /\ up /\ row = "there"
  /\ row' = "deleted"
  /\ UNCHANGED <<up, restarts, status, attempt, sdkId, transcript, registry, ws, pipeVars, reqVars>>

MayRetry == row = "there" /\ status \in {"failed", "needs_human"}

\* A retry request reads the row ...
RetryRead(r) ==
  /\ up /\ ~retry[r] /\ MayRetry
  /\ retry' = [retry EXCEPT ![r] = TRUE]
  /\ UNCHANGED <<up, restarts, rowVars, registry, ws, pipeVars, hook, seen>>

\* A fault: the pipeline starts and the status is left to it.
RetryStartUnmarked(r) ==
  /\ up /\ retry[r] /\ row = "there"
  /\ retry' = [retry EXCEPT ![r] = FALSE]
  /\ \E p \in Pipes : Spawn(p, "fresh", 0)
  /\ UNCHANGED <<up, restarts, rowVars, registry, ws, hook, seen>>

\* ... and starts the task again.  On a deleted row it fails.
RetryStart(r) ==
  /\ up /\ retry[r]
  /\ retry' = [retry EXCEPT ![r] = FALSE]
  /\ \/ Write("running") /\ \E p \in Pipes : Spawn(p, "fresh", 0)
     \/ row = "deleted" /\ UNCHANGED <<status, pipeVars>>
  /\ UNCHANGED <<up, restarts, row, attempt, sdkId, transcript, registry, ws, hook, seen>>

\* A webhook request reads the row, of which others may write a new version
\* while the answer is on its way.  A running task is refused (503), one that
\* is being fixed or has ended is ignored, as are other conclusions.
HookRead(w) ==
  /\ up /\ hook[w] = "idle" /\ row = "there"
  /\ status \notin Terminal \cup {"running", "fixing"}
  /\ \E conclusion \in {"success", "failure"} : hook' = [hook EXCEPT ![w] = conclusion]
  /\ seen' = [seen EXCEPT ![w] = attempt]
  /\ UNCHANGED <<up, restarts, rowVars, registry, ws, pipeVars, retry>>

\* A fault: the limit tested with > instead of >=.
ExhaustedOffByOne(w) == seen[w] > MaxAttempts

Exhausted(w) == seen[w] >= MaxAttempts

\* After a failed run: is a chat session alive, are attempts left?
HookDecide(w) ==
  /\ up /\ hook[w] = "failure"
  /\ hook' = [hook EXCEPT ![w] =
       IF registry # None THEN "active"
       ELSE IF Exhausted(w) THEN "exhausted" ELSE "spawn"]
  /\ UNCHANGED <<up, restarts, rowVars, registry, ws, pipeVars, seen, retry>>

HookStatus == [success |-> "completed", active |-> "fixing", exhausted |-> "needs_human", spawn |-> "fixing"]

\* The decision is written; "spawn" also starts the fix pipeline.
HookWrite(w) ==
  /\ up /\ hook[w] \in DOMAIN HookStatus
  /\ hook' = [hook EXCEPT ![w] = "idle"] /\ seen' = [seen EXCEPT ![w] = 0]
  /\ \/ /\ Write(HookStatus[hook[w]])
        /\ IF hook[w] = "spawn"
           THEN \E p \in Pipes : Spawn(p, "fix", seen[w])
           ELSE UNCHANGED pipeVars
     \/ row = "deleted" /\ UNCHANGED <<status, pipeVars>>
  /\ UNCHANGED <<up, restarts, row, attempt, sdkId, transcript, registry, ws, retry>>

-----------------------------------------------------------------------------
(* The application stops and starts. *)

\* The process dies, or its lifespan cancels what is left after the grace
\* period: coroutines, registry and requests are gone, a create that did not
\* commit is rolled back.  /tmp may survive or not.
Crash ==
  /\ up /\ restarts < MaxRestarts
  /\ up' = FALSE
  /\ registry' = None
  /\ ws' \in {ws, None}
  /\ at' = [p \in Pipes |-> "free"]
  /\ row' = IF row = "pending" THEN "deleted" ELSE row
  /\ kind' = [p \in Pipes |-> "fresh"] /\ err' = [p \in Pipes |-> FALSE]
  /\ base' = [p \in Pipes |-> 0]
  /\ hook' = [w \in Webhooks |-> "idle"] /\ seen' = [w \in Webhooks |-> 0]
  /\ retry' = [r \in Retriers |-> FALSE]
  /\ UNCHANGED <<restarts, status, attempt, sdkId, transcript>>

\* The sweep at startup: a live task with an SDK session id is resumed, one
\* without is failed.
Restart ==
  /\ ~up
  /\ up' = TRUE /\ restarts' = restarts + 1
  /\ LET orphan == row = "there" /\ status \in Live
     IN  \/ orphan /\ sdkId /\ UNCHANGED status /\ \E p \in Pipes : Spawn(p, "resume", 0)
         \/ orphan /\ ~sdkId /\ status' = "failed" /\ UNCHANGED pipeVars
         \/ ~orphan /\ UNCHANGED <<status, pipeVars>>
  /\ UNCHANGED <<row, attempt, sdkId, transcript, registry, ws, reqVars>>

Request(r) == RetryRead(r) \/ RetryStart(r)
Webhook(w) == HookRead(w) \/ HookDecide(w) \/ HookWrite(w)

Next ==
  \/ \E p \in Pipes : Pipeline(p)
  \/ \E r \in Retriers : Request(r)
  \/ \E w \in Webhooks : Webhook(w)
  \/ CommitCreate \/ Delete \/ Crash \/ Restart

Spec == Init /\ [][Next]_vars

\* The event loop runs every pipeline, and a session does not go on for ever:
\* its hard timer ends it (SessionEnds of ChatSession).  Nobody is obliged to
\* send a message, to answer or to retry; the answer to a question has a
\* timeout, so a turn that asks is not stuck.
Fairness ==
  /\ \A p \in Pipes : WF_vars(Pipeline(p)) /\ SF_vars(up /\ Leave(p))
  /\ WF_vars(CommitCreate)

FairSpec == Spec /\ Fairness

-----------------------------------------------------------------------------
\* The registry's promise: a task never has two chat sessions, whichever of
\* creation, retry, resume and CI fix started them.
OneSession ==
  \A p, q \in Pipes : at[p] \in InSession /\ at[q] \in InSession => p = q

\* Its strengthening: a session is the one the registry holds, and the
\* registry holds nothing that is not a session.
RegistryInv ==
  /\ \A p \in Pipes : at[p] \in InSession => registry = p
  /\ registry # None => at[registry] \in InSession

\* max_fix_attempts bounds the automatic fixes, also when webhook requests
\* overlap and their counts are stale.
AttemptBounded == attempt <= MaxAttempts

\* Its strengthening: no fix pipeline starts from an exhausted count.
AttemptInv ==
  /\ AttemptBounded
  /\ \A w \in Webhooks : hook[w] = "spawn" => seen[w] < MaxAttempts
  /\ \A p \in Pipes : at[p] # "free" /\ kind[p] = "fix" => base[p] < MaxAttempts

\* "so it doesn't sit zombie in the user's task list": while the application
\* runs, a task in a live status has a pipeline behind it.
NoZombie ==
  up /\ row = "there" /\ status \in Live => \E p \in Pipes : at[p] # "free"

\* A task that may be retried has no chat session taking turns.
FailedMeansStopped ==
  MayRetry => \A p \in Pipes : at[p] \notin {"start", "loop", "wait"} \cup Turning

\* Every pipeline comes to its end, whatever failed on its way.
PipelineEnds == \A p \in Pipes : at[p] # "free" ~> at[p] = "free"

\* "Guard against ... webhooks arriving after the task has already reached a
\* terminal state": a webhook request does not change such a status.
WebhookRespectsTerminal ==
  [][\A w \in Webhooks : hook[w] # "idle" /\ hook'[w] = "idle" /\ up'
       /\ status \in Terminal => status' = status]_vars
=============================================================================
