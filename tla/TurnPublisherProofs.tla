------------------------ MODULE TurnPublisherProofs -------------------------
(***************************************************************************)
(* Publication for any number of repositories, edits, restarts and pull    *)
(* requests: nothing on GitHub is overwritten, what the task records       *)
(* exists there, and what the user was told is so.                         *)
(***************************************************************************)
EXTENDS TurnPublisher, SequenceTheorems, TLAPS

-----------------------------------------------------------------------------
(* Branches as sequences of edits. *)

LEMMA PrefixIs ==
  ASSUME NEW s \in Seq(Nat), NEW t \in Seq(Nat)
  PROVE  IsPrefix(s, t) <=> Len(s) <= Len(t) /\ \A i \in 1..Len(s) : s[i] = t[i]
BY SubSeqFull DEF IsPrefix

\* A branch is a prefix of itself and of what a commit makes of it.
LEMMA Grown ==
  ASSUME NEW s \in Seq(Nat), NEW t \in Seq(Nat), NEW e \in Nat
  PROVE  /\ IsPrefix(s, s) /\ IsPrefix(<<>>, s)
         /\ Append(t, e) \in Seq(Nat) /\ Append(t, e) # <<>>
         /\ IsPrefix(s, t) => IsPrefix(s, Append(t, e))
<1>1. IsPrefix(s, s)
  BY PrefixIs
<1>2. IsPrefix(<<>>, s)
  <2>1. <<>> \in Seq(Nat) /\ Len(<<>>) = 0 /\ Len(s) \in Nat /\ 1..0 = {}
    OBVIOUS
  <2>2. IsPrefix(<<>>, s) <=> Len(<<>>) <= Len(s) /\ \A i \in 1..Len(<<>>) : <<>>[i] = s[i]
    BY <2>1, PrefixIs
  <2> QED
    BY <2>1, <2>2
<1>3. /\ Append(t, e) \in Seq(Nat) /\ Append(t, e) # <<>> /\ Len(Append(t, e)) = Len(t) + 1
      /\ \A i \in 1..Len(t) : Append(t, e)[i] = t[i]
  OBVIOUS
<1>4. ASSUME NEW v \in Seq(Nat), Len(v) = Len(t) + 1, \A i \in 1..Len(t) : v[i] = t[i]
      PROVE  IsPrefix(s, t) => IsPrefix(s, v)
  <2>1. IsPrefix(s, t) => Len(s) <= Len(t) /\ \A i \in 1..Len(s) : s[i] = t[i]
    BY PrefixIs
  <2>2. Len(s) <= Len(v) /\ (\A i \in 1..Len(s) : s[i] = v[i]) => IsPrefix(s, v)
    BY PrefixIs
  <2> QED
    BY <1>4, <2>1, <2>2
<1>5. IsPrefix(s, t) => IsPrefix(s, Append(t, e))
  BY <1>3, <1>4
<1> QED
  BY <1>1, <1>2, <1>3, <1>5

\* A branch that grows loses no edit, and stays in existence.
LEMMA GrownSet ==
  ASSUME NEW s \in Seq(Nat), NEW t \in Seq(Nat), IsPrefix(s, t)
  PROVE  /\ ToSet(s) \subseteq ToSet(t) /\ ToSet(s) \subseteq Nat /\ ToSet(<<>>) = {}
         /\ s # <<>> => t # <<>>
<1>1. Len(s) <= Len(t) /\ \A i \in 1..Len(s) : s[i] = t[i]
  BY PrefixIs
<1> QED
  BY <1>1, DOMAIN s = 1..Len(s), DOMAIN t = 1..Len(t), Len(s) \in Nat, Len(t) \in Nat DEF ToSet

-----------------------------------------------------------------------------
(* Types. *)

LEMMA TypeStep == TypeOK /\ [Next]_vars => TypeOK'
<1> SUFFICES ASSUME TypeOK, [Next]_vars
             PROVE  TypeOK'
  OBVIOUS
<1> USE DEF TypeOK, Steps, Goto, Forget, None0, taskVars, gitVars, prVars, dbVars,
            turnVars, history
<1>1. ASSUME NEW r \in Repos, Edit(r)
      PROVE  TypeOK'
  <2>1. edits + 1 \in Nat
    OBVIOUS
  <2>2. dirty' \in [Repos -> Nat] /\ edits' \in Nat
    BY <1>1, <2>1 DEF Edit
  <2> QED
    BY <1>1, <2>2 DEF Edit
<1>2. ASSUME NEW r \in Repos, ClosePr(r)
      PROVE  TypeOK'
  BY <1>2 DEF ClosePr
<1>3. CASE LoadTask
  BY <1>3 DEF LoadTask
<1>4. CASE SetPublishing
  BY <1>4 DEF SetPublishing
<1>5. ASSUME NEW r \in Repos, NextRepo(r)
      PROVE  TypeOK'
  BY <1>5 DEF NextRepo
<1>6. CASE Commit
  <2>1. cur \in Repos
    BY <1>6 DEF Commit
  <2>2. Append(local[cur], dirty[cur]) \in Seq(Nat)
    BY <2>1, Grown
  <2>3. local' \in [Repos -> Seq(Nat)] /\ dirty' \in [Repos -> Nat]
    <3>1. CASE dirty[cur] = 0
      BY <1>6, <3>1 DEF Commit
    <3>2. CASE dirty[cur] # 0
      <4>1. local' = [local EXCEPT ![cur] = Append(local[cur], dirty[cur])]
            /\ dirty' = [dirty EXCEPT ![cur] = 0]
        BY <1>6, <3>2 DEF Commit
      <4> QED
        BY <2>1, <2>2, <4>1
    <3> QED
      BY <3>1, <3>2
  <2>4. at' \in {"loop", "push"} /\ cur' = cur
    BY <1>6 DEF Commit
  <2> QED
    BY <1>6, <2>1, <2>3, <2>4 DEF Commit
<1>7. CASE Push
  BY <1>7 DEF Push
<1>8. CASE FindPr
  BY <1>8 DEF FindPr
<1>9. CASE CreatePr
  <2>1. prCount[cur] + 1 \in Nat /\ cur \in Repos
    BY <1>9 DEF CreatePr
  <2>2. prCount' \in [Repos -> Nat] /\ openPr' \in [Repos -> Nat] /\ url' \in Nat
    BY <1>9, <2>1 DEF CreatePr
  <2> QED
    BY <1>9, <2>2 DEF CreatePr
<1>10. CASE Finish
  <2>1. cur \in Repos /\ ToSet(local[cur]) \subseteq Nat
    BY <1>10, GrownSet, Grown DEF Finish
  <2> QED
    BY <1>10, <2>1 DEF Finish
<1>11. CASE Raise
  BY <1>11 DEF Raise
<1>12. CASE EndLoop
  BY <1>12 DEF EndLoop
<1>13. CASE Save
  BY <1>13 DEF Save
<1>14. CASE EndSession
  BY <1>14 DEF EndSession
<1>15. CASE Crash
  BY <1>15 DEF Crash
<1>16. CASE Resume
  <2>1. local' \in [Repos -> Seq(Nat)]
    BY <1>16 DEF Resume
  <2> QED
    BY <1>16, <2>1 DEF Resume, Restarted
<1>17. CASE Retry
  BY <1>17 DEF Retry, Restarted
<1>18. CASE UNCHANGED vars
  BY <1>18 DEF vars
<1> QED
  BY <1>1, <1>2, <1>3, <1>4, <1>5, <1>6, <1>7, <1>8, <1>9, <1>10, <1>11, <1>12,
     <1>13, <1>14, <1>15, <1>16, <1>17, <1>18 DEF Next, CallbackStep

THEOREM Typing == Spec => []TypeOK
<1>1. Init => TypeOK
  BY DEF Init, TypeOK, None0, Steps
<1> QED
  BY <1>1, TypeStep, PTL DEF Spec

-----------------------------------------------------------------------------
(* GitHub's side. *)

\* Only a push changes a branch, and only to what extends it.
LEMMA PushExtends ==
  ASSUME TypeOK, [Next]_vars
  PROVE  \A r \in Repos : IsPrefix(remote[r], remote'[r])
<1> USE DEF taskVars, gitVars, prVars, dbVars, turnVars, history
<1>1. CASE Push
  <2>1. ASSUME NEW r \in Repos
        PROVE  IsPrefix(remote[r], remote'[r])
    BY <1>1, Grown DEF Push, TypeOK
  <2> QED
    BY <2>1
<1>2. CASE ~Push
  <2>1. UNCHANGED remote
    BY <1>2 DEF Next, CallbackStep, vars, Edit, ClosePr, LoadTask, SetPublishing, NextRepo,
       Commit, FindPr, CreatePr, Finish, Raise, EndLoop, Save, EndSession, Crash, Resume,
       Retry, Restarted
  <2> QED
    BY <2>1, Grown DEF TypeOK
<1> QED
  BY <1>1, <1>2

\* Commits on GitHub are never overwritten.
THEOREM Extending == Spec => NeverOverwritten
<1>1. TypeOK /\ [Next]_vars => [\A r \in Repos : IsPrefix(remote[r], remote'[r])]_vars
  BY PushExtends
<1> QED
  BY <1>1, Typing, PTL DEF Spec, NeverOverwritten

-----------------------------------------------------------------------------
(* The records of the task: its branches, and what the user was told. *)

\* A branch the task or its callback has noted exists, as does one that has an
\* open pull request.
NotedInv ==
  /\ \A r \in state \cup branches : remote[r] # <<>>
  /\ \A r \in Repos : openPr[r] # 0 => remote[r] # <<>>
  /\ at = "finish" => remote[cur] # <<>>

\* A branch that was not stale at the clone extends GitHub's, unless the
\* container is gone; what GitHub lacks is reported, or is being pushed.
CloneOf(r) ==
  /\ life = "running" => IsPrefix(remote[r], local[r])
  /\ life = "failed" => local[r] = <<>>
  /\ life = "running" =>
       \/ ToSet(local[r]) \subseteq ToSet(remote[r])
       \/ r \in failed
       \/ at = "push" /\ cur = r
  /\ life = "running" /\ at \in {"find", "create", "finish"} /\ cur = r => local[r] = remote[r]
  /\ announced[r] \subseteq ToSet(remote[r])

CloneInv == \A r \in Repos \ stale : CloneOf(r)

LEMMA NotedStep == TypeOK /\ NotedInv /\ [Next]_vars => NotedInv'
<1> SUFFICES ASSUME TypeOK, NotedInv, [Next]_vars
             PROVE  NotedInv'
  OBVIOUS
<1> USE DEF Goto, Forget, taskVars, gitVars, prVars, dbVars, turnVars, history
<1>1. \A r \in Repos : remote[r] # <<>> => remote'[r] # <<>>
  BY PushExtends, GrownSet, TypeStep DEF TypeOK
\* Only these touch the records or arrive at the end of a publication.
<1>2. ASSUME NEW r \in Repos, ClosePr(r)
      PROVE  NotedInv'
  BY <1>2 DEF ClosePr, NotedInv, TypeOK
<1>3. CASE LoadTask
  BY <1>3 DEF LoadTask, NotedInv, TypeOK
<1>4. CASE FindPr
  BY <1>4 DEF FindPr, NotedInv, TypeOK
<1>5. CASE CreatePr
  BY <1>5 DEF CreatePr, NotedInv, TypeOK
<1>6. CASE Finish
  BY <1>6 DEF Finish, NotedInv, TypeOK
<1>7. CASE Save
  BY <1>7 DEF Save, NotedInv, TypeOK
<1>8. CASE Crash
  BY <1>8 DEF Crash, NotedInv, TypeOK
<1>9. ASSUME UNCHANGED <<state, branches, openPr>>,
             at' = "finish" => at = "finish" /\ UNCHANGED cur
      PROVE  NotedInv'
  BY <1>1, <1>9 DEF NotedInv, TypeOK
<1>10. CASE Push
  BY <1>9, <1>10 DEF Push
<1>11. CASE Commit
  BY <1>9, <1>11 DEF Commit
<1>12. CASE \E r \in Repos : Edit(r) \/ NextRepo(r)
  BY <1>9, <1>12 DEF Edit, NextRepo
<1>13. CASE SetPublishing \/ Raise \/ EndLoop
  BY <1>9, <1>13 DEF SetPublishing, Raise, EndLoop
<1>14. CASE EndSession \/ Resume \/ Retry
  BY <1>9, <1>14 DEF EndSession, Resume, Retry, Restarted
<1>15. CASE UNCHANGED vars
  BY <1>9, <1>15 DEF vars
<1> QED
  BY <1>2, <1>3, <1>4, <1>5, <1>6, <1>7, <1>8, <1>10, <1>11, <1>12, <1>13, <1>14, <1>15
     DEF Next, CallbackStep

\* A branch recorded for the next session's clone exists on GitHub.
THEOREM Recorded == Spec => []RecordedBranchExists
<1>1. Init => NotedInv
  BY DEF Init, NotedInv, None0
<1>2. NotedInv => RecordedBranchExists
  BY DEF NotedInv, RecordedBranchExists
<1> QED
  BY <1>1, <1>2, NotedStep, Typing, PTL DEF Spec

\* The pull request a publication announces was open when it was looked up.
THEOREM PrOpen == Spec => []AnnouncedPrIsOpen
<1>1. Init => AnnouncedPrIsOpen
  BY DEF Init, AnnouncedPrIsOpen
<1>2. TypeOK /\ AnnouncedPrIsOpen /\ [Next]_vars => AnnouncedPrIsOpen'
  <2> SUFFICES ASSUME TypeOK, AnnouncedPrIsOpen, [Next]_vars
               PROVE  AnnouncedPrIsOpen'
    OBVIOUS
  <2> USE DEF Goto, Forget, taskVars, gitVars, prVars, dbVars, turnVars, history, AnnouncedPrIsOpen
  <2>1. ASSUME NEW r \in Repos, ClosePr(r)
        PROVE  AnnouncedPrIsOpen'
    BY <2>1 DEF ClosePr, TypeOK
  <2>2. CASE FindPr
    BY <2>2 DEF FindPr
  <2>3. CASE CreatePr
    <3>1. prCount[cur] + 1 # 0 /\ cur \in Repos
      BY <2>3 DEF CreatePr, TypeOK
    <3> QED
      BY <2>3, <3>1 DEF CreatePr, TypeOK
  <2>4. ASSUME at' = "finish" => at = "finish" /\ UNCHANGED <<url, openPr, cur, closed>>
        PROVE  AnnouncedPrIsOpen'
    BY <2>4
  <2>5. CASE LoadTask \/ SetPublishing \/ Commit \/ Push \/ Finish \/ Raise \/ EndLoop \/ Save
    BY <2>5 DEF LoadTask, SetPublishing, Commit, Push, Finish, Raise, EndLoop, Save
  <2>6. CASE \E r \in Repos : Edit(r) \/ NextRepo(r)
    BY <2>6 DEF Edit, NextRepo
  <2>7. CASE EndSession \/ Crash \/ Resume \/ Retry
    BY <2>4, <2>7 DEF EndSession, Crash, Resume, Retry, Restarted
  <2>8. CASE UNCHANGED vars
    BY <2>8 DEF vars
  <2> QED
    BY <2>1, <2>2, <2>3, <2>5, <2>6, <2>7, <2>8 DEF Next, CallbackStep
<1> QED
  BY <1>1, <1>2, Typing, PTL DEF Spec

LEMMA CloneStep == TypeOK /\ CloneInv /\ [Next]_vars => CloneInv'
<1> SUFFICES ASSUME TypeOK, CloneInv, [Next]_vars
             PROVE  CloneInv'
  OBVIOUS
<1>0. stale \subseteq stale'
  <2>1. CASE Next
    BY <2>1 DEF Next, CallbackStep, Edit, ClosePr, LoadTask, SetPublishing, NextRepo, Commit,
       Push, FindPr, CreatePr, Finish, Raise, EndLoop, Save, EndSession, Crash, Resume, Retry,
       Restarted, history
  <2>2. CASE UNCHANGED vars
    BY <2>2 DEF vars, history
  <2> QED
    BY <2>1, <2>2
<1> SUFFICES ASSUME NEW r \in Repos, r \notin stale, r \notin stale'
             PROVE  CloneOf(r)'
  BY <1>0 DEF CloneInv
<1> USE DEF Goto, Forget, taskVars, gitVars, prVars, dbVars, turnVars, history
<1>1. CloneOf(r) /\ local[r] \in Seq(Nat) /\ remote[r] \in Seq(Nat)
  BY DEF CloneInv, TypeOK
<1>2. /\ remote'[r] \in Seq(Nat) /\ IsPrefix(remote[r], remote'[r])
      /\ ToSet(remote[r]) \subseteq ToSet(remote'[r]) /\ ToSet(<<>>) = {}
  BY PushExtends, GrownSet, TypeStep, <1>1 DEF TypeOK
\* A step that leaves the clone and GitHub alone, and publishes nothing.
<1>3. ASSUME UNCHANGED <<life, local, remote, announced>>, failed \subseteq failed',
             at' \in {"find", "create", "finish"} =>
               at \in {"find", "create", "finish"} /\ UNCHANGED cur,
             at = "push" /\ cur = r => r \in failed'
      PROVE  CloneOf(r)'
  BY <1>1, <1>3 DEF CloneOf
<1>4. CASE \E s \in Repos : Edit(s) \/ ClosePr(s) \/ NextRepo(s)
  <2>1. ASSUME NEW s \in Repos, Edit(s)
        PROVE  CloneOf(r)'
    BY <1>1, <2>1 DEF Edit, CloneOf
  <2>2. ASSUME NEW s \in Repos, ClosePr(s)
        PROVE  CloneOf(r)'
    BY <1>1, <2>2 DEF ClosePr, CloneOf
  <2>3. ASSUME NEW s \in Repos, NextRepo(s)
        PROVE  CloneOf(r)'
    BY <1>3, <2>3 DEF NextRepo
  <2> QED
    BY <1>4, <2>1, <2>2, <2>3
<1>5. CASE LoadTask \/ SetPublishing \/ FindPr \/ CreatePr
  BY <1>3, <1>5 DEF LoadTask, SetPublishing, FindPr, CreatePr
<1>6. CASE Raise
  <2>1. at = "push" /\ cur = r => r \in failed'
    BY <1>6 DEF Raise
  <2>2. UNCHANGED <<life, local, remote, announced>> /\ failed \subseteq failed' /\ at' = "loop"
    BY <1>6 DEF Raise
  <2> QED
    BY <1>3, <2>1, <2>2
<1>7. CASE EndLoop \/ Save
  BY <1>3, <1>7 DEF EndLoop, Save
<1>8. CASE Commit
  <2>1. CASE cur = r /\ dirty[cur] # 0
    <3>1. local'[r] = Append(local[r], dirty[r]) /\ at' = "push" /\ cur' = r
      BY <1>8, <2>1 DEF Commit, TypeOK
    <3>2. life = "running" => IsPrefix(remote[r], Append(local[r], dirty[r]))
      BY <1>1, Grown DEF CloneOf, TypeOK
    <3> QED
      BY <1>1, <1>8, <3>1, <3>2 DEF Commit, CloneOf
  <2>2. CASE ~(cur = r /\ dirty[cur] # 0)
    <3>1. UNCHANGED <<remote, announced, life, failed, cur>> /\ local'[r] = local[r]
          /\ at = "commit" /\ at' \in {"loop", "push"}
      BY <1>8, <2>2 DEF Commit, TypeOK
    <3> QED
      BY <1>1, <3>1 DEF CloneOf
  <2> QED
    BY <2>1, <2>2
<1>9. CASE Push
  <2>1. /\ UNCHANGED <<local, announced, life, failed, cur>> /\ life = "running"
        /\ at = "push" /\ at' = "find"
    BY <1>9 DEF Push
  <2>2. CASE cur = r
    <3>1. remote'[r] = local[r]
      BY <1>1, <1>9, <2>1, <2>2 DEF Push, CloneOf, TypeOK
    <3>2. IsPrefix(local[r], local[r])
      BY <1>1, Grown
    <3> QED
      BY <1>1, <1>2, <2>1, <3>1, <3>2 DEF CloneOf
  <2>3. CASE cur # r
    <3>1. remote'[r] = remote[r]
      BY <1>9, <2>3 DEF Push, TypeOK
    <3> QED
      BY <1>1, <2>1, <2>3, <3>1 DEF CloneOf
  <2> QED
    BY <2>2, <2>3
<1>10. CASE Finish
  <2>1. /\ UNCHANGED <<local, remote, life, cur>> /\ life = "running"
        /\ at = "finish" /\ at' = "loop" /\ failed' = failed \ {cur}
    BY <1>10 DEF Finish
  <2>2. announced'[r] = IF cur = r THEN announced[r] \cup ToSet(local[r]) ELSE announced[r]
    BY <1>10 DEF Finish, TypeOK
  <2> QED
    BY <1>1, <2>1, <2>2 DEF CloneOf
<1>11. CASE EndSession \/ Crash
  <2>1. local'[r] = <<>> /\ UNCHANGED <<remote, announced>> /\ life' # "running"
    BY <1>11 DEF EndSession, Crash
  <2> QED
    BY <1>1, <2>1 DEF CloneOf
<1>12. CASE Resume \/ Retry
  <2>1. UNCHANGED <<remote, announced, at, cur, failed>> /\ life' = "running"
    BY <1>12 DEF Resume, Retry, Restarted
  <2>2. local'[r] = remote[r] \/ local'[r] = <<>>
    BY <1>1, <1>12 DEF Resume, Retry, CloneOf
  <2>3. local'[r] = <<>> => remote[r] = <<>>
    BY <1>12 DEF Resume, Retry
  <2>4. local'[r] = remote[r] /\ IsPrefix(remote[r], remote[r])
    BY <1>1, <2>2, <2>3, Grown
  <2> QED
    BY <1>1, <2>1, <2>4 DEF CloneOf
<1>13. CASE UNCHANGED vars
  BY <1>1, <1>13 DEF vars, CloneOf
<1> QED
  BY <1>4, <1>5, <1>6, <1>7, <1>8, <1>9, <1>10, <1>11, <1>12, <1>13 DEF Next, CallbackStep

\* What the user was told is so: what was announced is on GitHub, and what is
\* not on GitHub was announced as failed.
THEOREM Truthful == Spec => []PublicationTruthful
<1>1. Init => CloneInv
  <2>1. <<>> \in Seq(Nat)
    OBVIOUS
  <2> QED
    BY <2>1, Grown DEF Init, CloneInv, CloneOf
<1>2. CloneInv => PublicationTruthful
  BY DEF CloneInv, CloneOf, PublicationTruthful, AnnouncedIsPushed, UnpushedIsReported
<1> QED
  BY <1>1, <1>2, CloneStep, Typing, PTL DEF Spec

=============================================================================
