--------------------------- MODULE TurnPublisher ----------------------------
(***************************************************************************)
(* Publishing what a chat turn changed: the post-turn callback             *)
(* (agents/chat/turn_handler.py) commits, pushes and opens a pull request  *)
(* for every repository of the task (agents/team/publisher_agent.py,       *)
(* integrations/github), and the orchestrator clones the repositories      *)
(* again after a restart or a retry (agents/team/orchestrator_agent.py).   *)
(*                                                                         *)
(* A branch is the sequence of the edits committed to it since it left the *)
(* default branch.  A push is not forced, and the server refuses one that  *)
(* is no fast-forward; gitpython reports that refusal in a value the code  *)
(* does not look at.  Nobody else pushes to or deletes the task's branches *)
(* clyde/{task}/{repo}.                                                    *)
(***************************************************************************)
EXTENDS Naturals, Sequences, SequencesExt, FiniteSets

CONSTANTS
  Repos,        \* repositories of the project, all with a name
  MaxEdits,     \* bound: edits the agent makes
  MaxRestarts,  \* bound: restarts and retries of the task
  MaxPrs,       \* bound: pull requests of a repository
  None          \* no repository

ASSUME ReposAssumption == None \notin Repos /\ IsFiniteSet(Repos)

VARIABLES
  life,      \* the task's session: running, down (crashed), failed or over
  restarts,  \* how often it was started again
  status,    \* Task.status, as far as the callback writes it
  at,        \* where the session is: in the agent's turn, or in the callback
  cur,       \* the repository being published
  todo,      \* those still to do in this callback
  dirty,     \* per repository: an edit not committed, or 0
  local,     \* per repository: the commits of the clone
  remote,    \* per repository: the commits of the branch on GitHub
  openPr,    \* per repository: the open pull request of the branch, or 0
  prCount,   \* per repository: pull requests opened so far
  state,     \* task.state["branch_names"]: repositories it names
  column,    \* task.pr_urls: per repository the pull request, or 0
  branches,  \* the callback's copy of branch_names
  urls,      \* the callback's pull request URLs
  url,       \* the URL publish_turn is about to return
  edits,     \* edits made so far
  announced, \* history: per repository, edits in finished publications
  failed,    \* history: repositories whose last publication event is a failure
  stale,     \* history: repositories that a session cloned from the default
             \* branch although their branch existed
  closed     \* history: pull requests the user closed since their lookup

taskVars == <<life, restarts, status>>
gitVars  == <<dirty, local, remote, edits>>
prVars   == <<openPr, prCount>>
dbVars   == <<state, column>>
turnVars == <<at, cur, todo, branches, urls, url>>
history  == <<announced, failed, stale, closed>>
vars == <<taskVars, gitVars, prVars, dbVars, turnVars, history>>

Steps == {"turn", "loaded", "loop", "commit", "push", "find", "create", "finish", "save"}

TypeOK ==
  /\ life     \in {"running", "down", "failed", "over"}
  /\ restarts \in Nat
  /\ status   \in {"running", "publishing", "awaiting_user_message", "completed", "failed"}
  /\ at       \in Steps
  /\ cur      \in Repos \cup {None}
  /\ at \in {"commit", "push", "find", "create", "finish"} => cur \in Repos
  /\ todo     \in SUBSET Repos
  /\ dirty    \in [Repos -> Nat]
  /\ edits    \in Nat
  /\ local    \in [Repos -> Seq(Nat)]
  /\ remote   \in [Repos -> Seq(Nat)]
  /\ openPr   \in [Repos -> Nat]
  /\ prCount  \in [Repos -> Nat]
  /\ state    \in SUBSET Repos
  /\ column   \in [Repos -> Nat]
  /\ branches \in SUBSET Repos
  /\ urls     \in [Repos -> Nat]
  /\ url      \in Nat
  /\ announced \in [Repos -> SUBSET Nat]
  /\ failed   \in SUBSET Repos
  /\ stale    \in SUBSET Repos
  /\ closed   \in SUBSET Repos

None0 == [r \in Repos |-> 0]

Init ==
  /\ life = "running" /\ restarts = 0 /\ status = "running"
  /\ at = "turn" /\ cur = None /\ todo = {}
  /\ dirty = None0 /\ edits = 0
  /\ local = [r \in Repos |-> <<>>] /\ remote = [r \in Repos |-> <<>>]
  /\ openPr = None0 /\ prCount = None0
  /\ state = {} /\ column = None0
  /\ branches = {} /\ urls = None0 /\ url = 0
  /\ announced = [r \in Repos |-> {}] /\ failed = {} /\ stale = {} /\ closed = {}

\* A callback that is over leaves no local variables behind.
Forget == cur' = None /\ todo' = {} /\ branches' = {} /\ urls' = None0 /\ url' = 0

Goto(from, to) == life = "running" /\ at = from /\ at' = to

-----------------------------------------------------------------------------
(* The agent and the user. *)

\* The agent edits files of a clone.
Edit(r) ==
  /\ life = "running" /\ at = "turn"
  /\ edits < MaxEdits
  /\ edits' = edits + 1
  /\ dirty' = [dirty EXCEPT ![r] = edits + 1]
  /\ UNCHANGED <<taskVars, local, remote, prVars, dbVars, turnVars, history>>

\* The user merges or closes the pull request; the branch stays.
ClosePr(r) ==
  /\ openPr[r] # 0
  /\ openPr' = [openPr EXCEPT ![r] = 0]
  /\ closed' = closed \cup {r}
  /\ UNCHANGED <<taskVars, gitVars, prCount, dbVars, turnVars, announced, failed, stale>>

-----------------------------------------------------------------------------
(* The callback: _publish_turn, and publish_turn for each repository. *)

\* A turn has finished; the callback loads the task.
LoadTask ==
  /\ Goto("turn", "loaded")
  /\ branches' = state
  /\ urls' = None0       \* state["pr_urls"] is never written
  /\ todo' = Repos
  /\ UNCHANGED <<taskVars, gitVars, prVars, dbVars, cur, url, history>>

SetPublishing ==
  /\ Goto("loaded", "loop")
  /\ status' = "publishing"
  /\ UNCHANGED <<life, restarts, gitVars, prVars, dbVars, cur, todo, branches, urls, url, history>>

NextRepo(r) ==
  /\ Goto("loop", "commit")
  /\ r \in todo
  /\ cur' = r
  /\ todo' = todo \ {r}
  /\ url' = 0
  /\ UNCHANGED <<taskVars, gitVars, prVars, dbVars, branches, urls, history>>

\* Check the branch out, stage everything, commit.  "git commit" that finds
\* nothing to commit ends the publication of this repository; no push.
Commit ==
  /\ at = "commit"
  /\ IF dirty[cur] = 0
     THEN /\ Goto("commit", "loop")
          /\ UNCHANGED <<local, dirty>>
     ELSE /\ Goto("commit", "push")
          /\ local' = [local EXCEPT ![cur] = Append(@, dirty[cur])]
          /\ dirty' = [dirty EXCEPT ![cur] = 0]
  /\ UNCHANGED <<taskVars, remote, edits, prVars, dbVars, cur, todo, branches, urls, url, history>>

\* A fault: the push is forced, as in the pipeline's first version.
PushForced ==
  /\ Goto("push", "find")
  /\ remote' = [remote EXCEPT ![cur] = local[cur]]
  /\ UNCHANGED <<taskVars, dirty, local, edits, prVars, dbVars, cur, todo, branches, urls, url, history>>

\* The server takes the branch if it is a fast-forward; otherwise it refuses
\* and nobody is told.  A prior pull request would end publish_turn here, but
\* urls is empty at this point.
Push ==
  /\ Goto("push", "find")
  /\ remote' = IF IsPrefix(remote[cur], local[cur])
               THEN [remote EXCEPT ![cur] = local[cur]] ELSE remote
  /\ UNCHANGED <<taskVars, dirty, local, edits, prVars, dbVars, cur, todo, branches, urls, url, history>>

\* A fault: the pull request on record is taken without a look at GitHub.
FindPrOnRecord ==
  /\ at = "find" /\ Goto("find", IF column[cur] # 0 THEN "finish" ELSE "create")
  /\ url' = column[cur]
  /\ closed' = closed \ {cur}
  /\ UNCHANGED <<taskVars, gitVars, prVars, dbVars, cur, todo, branches, urls, announced, failed, stale>>

\* An open pull request of the branch is used again.
FindPr ==
  /\ at = "find" /\ Goto("find", IF openPr[cur] # 0 THEN "finish" ELSE "create")
  /\ url' = openPr[cur]
  /\ closed' = closed \ {cur}
  /\ UNCHANGED <<taskVars, gitVars, prVars, dbVars, cur, todo, branches, urls, announced, failed, stale>>

\* GitHub opens a pull request for a branch that exists.
CreatePr ==
  /\ Goto("create", "finish")
  /\ remote[cur] # <<>> /\ prCount[cur] < MaxPrs
  /\ prCount' = [prCount EXCEPT ![cur] = @ + 1]
  /\ openPr' = [openPr EXCEPT ![cur] = prCount[cur] + 1]
  /\ url' = prCount[cur] + 1
  /\ UNCHANGED <<taskVars, gitVars, dbVars, cur, todo, branches, urls, history>>

\* publish_turn returned: branch and URL are noted and the event goes out.
Finish ==
  /\ Goto("finish", "loop")
  /\ branches' = branches \cup {cur}
  /\ urls' = [urls EXCEPT ![cur] = url]
  /\ announced' = [announced EXCEPT ![cur] = @ \cup ToSet(local[cur])]
  /\ failed' = failed \ {cur}
  /\ UNCHANGED <<taskVars, gitVars, prVars, dbVars, cur, todo, url, stale, closed>>

\* A fault: the exception is logged, and nobody is told.
RaiseQuietly ==
  /\ at \in {"commit", "push", "find", "create"}
  /\ Goto(at, "loop")
  /\ UNCHANGED <<taskVars, gitVars, prVars, dbVars, cur, todo, branches, urls, url, history>>

\* A fault: the branch is noted although its publication failed.
RaiseAfterNoting ==
  /\ at \in {"commit", "push", "find", "create"}
  /\ Goto(at, "loop")
  /\ failed' = failed \cup {cur}
  /\ branches' = branches \cup {cur}
  /\ UNCHANGED <<taskVars, gitVars, prVars, dbVars, cur, todo, urls, url, announced, stale, closed>>

\* git, the token, the push, the model or GitHub's API raises: the failure is
\* announced and the loop goes on with the next repository.
Raise ==
  /\ at \in {"commit", "push", "find", "create"}
  /\ Goto(at, "loop")
  /\ failed' = failed \cup {cur}
  /\ UNCHANGED <<taskVars, gitVars, prVars, dbVars, cur, todo, branches, urls, url, announced, stale, closed>>

EndLoop ==
  /\ Goto("loop", "save")
  /\ todo = {}
  /\ cur' = None
  /\ UNCHANGED <<taskVars, gitVars, prVars, dbVars, todo, branches, urls, url, history>>

\* A fault: the status the callback read is what the task keeps.
SaveKeepsStatus ==
  /\ Goto("save", "turn")
  /\ state' = branches
  /\ column' = [r \in Repos |-> IF urls[r] # 0 THEN urls[r] ELSE column[r]]
  /\ Forget
  /\ UNCHANGED <<taskVars, gitVars, prVars, history>>

\* One transaction saves the branches in task.state and the URLs in pr_urls;
\* then the session waits for the user.  A save that raises is swallowed.
Save ==
  /\ Goto("save", "turn")
  /\ status' = "awaiting_user_message"
  /\ \/ /\ state' = branches
        /\ column' = [r \in Repos |-> IF urls[r] # 0 THEN urls[r] ELSE column[r]]
     \/ UNCHANGED dbVars
  /\ Forget
  /\ UNCHANGED <<life, restarts, gitVars, prVars, history>>

CallbackStep ==
  \/ SetPublishing \/ (\E r \in Repos : NextRepo(r)) \/ Commit \/ Push \/ FindPr
  \/ CreatePr \/ Finish \/ EndLoop \/ Save

-----------------------------------------------------------------------------
(* The session and the container. *)

\* The session ends between turns, or its turn fails; the orchestrator removes
\* the workspace and with it every edit and commit that was not pushed.
EndSession ==
  /\ life = "running" /\ at = "turn"
  /\ life' \in {"over", "failed"}
  /\ status' = IF life' = "over" THEN "completed" ELSE "failed"
  /\ dirty' = None0
  /\ local' = [r \in Repos |-> <<>>]
  /\ UNCHANGED <<restarts, remote, edits, prVars, dbVars, turnVars, history>>

\* The container is destroyed at any point, its workspace with it.
Crash ==
  /\ life = "running"
  /\ life' = "down"
  /\ dirty' = None0
  /\ local' = [r \in Repos |-> <<>>]
  /\ at' = "turn"
  /\ Forget
  /\ UNCHANGED <<restarts, status, remote, edits, prVars, dbVars, history>>

Restarted ==
  /\ restarts < MaxRestarts
  /\ restarts' = restarts + 1
  /\ life' = "running" /\ status' = "running"
  /\ UNCHANGED <<dirty, remote, edits, prVars, dbVars, turnVars, announced, failed, closed>>

\* Startup resumes the task: a repository that branch_names knows is cloned
\* from its branch, any other from the default branch.
Resume ==
  /\ life = "down"
  /\ Restarted
  /\ local' = [r \in Repos |-> IF r \in state THEN remote[r] ELSE <<>>]
  /\ stale' = stale \cup {r \in Repos \ state : remote[r] # <<>>}

\* A retry of a failed task clones every default branch.
Retry ==
  /\ life = "failed"
  /\ Restarted
  /\ stale' = stale \cup {r \in Repos : remote[r] # <<>>}
  /\ UNCHANGED local

Next ==
  \/ \E r \in Repos : Edit(r) \/ ClosePr(r)
  \/ LoadTask \/ CallbackStep \/ Raise
  \/ EndSession \/ Crash \/ Resume \/ Retry

Spec == Init /\ [][Next]_vars

\* git, GitHub and the database answer or raise, so the callback goes on.
\* Turns, restarts and the user's requests are not obliged to come.
FairSpec == Spec /\ WF_vars(CallbackStep \/ Raise)

-----------------------------------------------------------------------------
\* What the user was told is so: an edit announced as published is on the branch
\* on GitHub, and between turns, commits of the workspace that never reached
\* GitHub belong to a repository whose last publication was announced as
\* failed.  Except that a session that cloned the default branch beside an
\* existing branch has its pushes refused without a word.
AnnouncedIsPushed == \A r \in Repos \ stale : announced[r] \subseteq ToSet(remote[r])
UnpushedIsReported ==
  life = "running" /\ at = "turn" =>
    \A r \in Repos \ stale : ToSet(local[r]) \subseteq ToSet(remote[r]) \/ r \in failed
PublicationTruthful == AnnouncedIsPushed /\ UnpushedIsReported

\* A branch recorded for the next session's clone exists on GitHub.
RecordedBranchExists == \A r \in state : remote[r] # <<>>

\* Commits on GitHub are never overwritten by a later session.
NeverOverwritten == [][\A r \in Repos : IsPrefix(remote[r], remote'[r])]_vars

\* The pull request a publication announces is open, whatever URL the row has
\* from earlier turns, unless the user closed it since the lookup.
AnnouncedPrIsOpen ==
  at = "finish" => url # 0 /\ (url = openPr[cur] \/ cur \in closed)

\* A task that publishes stops publishing, unless its container dies.
PublishingEnds == (status = "publishing") ~> (status # "publishing" \/ life = "down")
=============================================================================
