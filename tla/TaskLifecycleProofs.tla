------------------------- MODULE TaskLifecycleProofs -------------------------
(***************************************************************************)
(* For any number of pipelines, webhook and retry requests and restarts: a *)
(* task has one chat session at most, no more automatic fixes are counted  *)
(* than max_fix_attempts, and, webhooks aside, a live task has a pipeline. *)
(***************************************************************************)
EXTENDS TaskLifecycle, TLAPS

PipeType ==
  /\ at \in [Pipes -> Place]
  /\ kind \in [Pipes -> {"fresh", "resume", "fix"}]
  /\ err \in [Pipes -> BOOLEAN]
  /\ base \in [Pipes -> Nat]

\* A new pipeline coroutine is well typed.
LEMMA SpawnType ==
  ASSUME TypeOK, NEW p \in Pipes, NEW k \in {"fresh", "resume", "fix"}, NEW n \in Nat,
         Spawn(p, k, n)
  PROVE  PipeType'
<1>1. err' \in [Pipes -> BOOLEAN]
  BY Zenon DEF Spawn, TypeOK
<1> QED
  BY <1>1 DEF Spawn, PipeType, TypeOK, Place, Preparing

\* Every step of a pipeline, a request or the application keeps the types.
THEOREM Typing == Spec => []TypeOK
<1> USE PipesAssumption
<1>1. Init => TypeOK
  <2> SUFFICES ASSUME Init  PROVE  TypeOK
    OBVIOUS
  <2>1. at \in [Pipes -> Place]
    BY DEF Init, Place, Preparing
  <2>2. err \in [Pipes -> BOOLEAN] /\ retry \in [Retriers -> BOOLEAN]
    BY Zenon DEF Init
  <2>3. status \in Status /\ attempt \in Nat /\ restarts \in Nat
    BY DEF Init, Status, Live
  <2> QED
    BY <2>1, <2>2, <2>3 DEF Init, TypeOK
<1>2. TypeOK /\ [Next]_vars => TypeOK'
  <2> SUFFICES ASSUME TypeOK, [Next]_vars
               PROVE  TypeOK'
    OBVIOUS
  <2>1. ASSUME NEW p \in Pipes, Wipe(p)
        PROVE  TypeOK'
    BY <2>1 DEF Wipe, Move, rowVars, reqVars, TypeOK, Place, Preparing
  <2>2. ASSUME NEW p \in Pipes, Clone(p)
        PROVE  TypeOK'
    BY <2>2 DEF Clone, Move, rowVars, reqVars, TypeOK, Place, Preparing
  <2>3. ASSUME NEW p \in Pipes, Save(p)
        PROVE  TypeOK'
    BY <2>3 DEF Save, Move, reqVars, TypeOK, Place, Preparing
  <2>4. ASSUME NEW p \in Pipes, Register(p)
        PROVE  TypeOK'
    BY <2>4 DEF Register, Move, rowVars, reqVars, TypeOK, Place, Preparing, InSession
  <2>5. ASSUME NEW p \in Pipes, RegisterRefused(p)
        PROVE  TypeOK'
    BY <2>5 DEF RegisterRefused, Raise, rowVars, reqVars, TypeOK, Place, Preparing
  <2>6. ASSUME NEW p \in Pipes, PrepareFails(p)
        PROVE  TypeOK'
    BY <2>6 DEF PrepareFails, Raise, rowVars, reqVars, TypeOK, Place, Preparing
  <2>7. ASSUME NEW p \in Pipes, Connect(p)
        PROVE  TypeOK'
    BY <2>7 DEF Connect, Move, rowVars, reqVars, TypeOK, Place, InSession
  <2>8. ASSUME NEW p \in Pipes, ConnectFails(p)
        PROVE  TypeOK'
    BY <2>8 DEF ConnectFails, Raise, rowVars, reqVars, TypeOK, Place, InSession
  <2>9. ASSUME NEW p \in Pipes, StartTurn(p)
        PROVE  TypeOK'
    BY <2>9 DEF StartTurn, Move, Write, reqVars, TypeOK, Place, InSession, Turning, Status, Live
  <2>10. ASSUME NEW p \in Pipes, Query(p)
        PROVE  TypeOK'
    BY <2>10 DEF Query, Move, reqVars, TypeOK, Place, InSession, Turning
  <2>11. ASSUME NEW p \in Pipes, Ask(p)
        PROVE  TypeOK'
    BY <2>11 DEF Ask, Move, Write, reqVars, TypeOK, Place, InSession, Turning, Status, Live
  <2>12. ASSUME NEW p \in Pipes, Answered(p)
        PROVE  TypeOK'
    BY <2>12 DEF Answered, Move, Write, reqVars, TypeOK, Place, InSession, Turning, Status, Live
  <2>13. ASSUME NEW p \in Pipes, EndTurn(p)
        PROVE  TypeOK'
    BY <2>13 DEF EndTurn, Move, rowVars, reqVars, TypeOK, Place, InSession, Turning
  <2>14. ASSUME NEW p \in Pipes, Publish(p)
        PROVE  TypeOK'
    BY <2>14 DEF Publish, Move, reqVars, TypeOK, Place, InSession, Turning, Status, Live
  <2>15. ASSUME NEW p \in Pipes, Announce(p)
        PROVE  TypeOK'
    BY <2>15 DEF Announce, Move, Write, reqVars, TypeOK, Place, InSession, Status, Live
  <2>16. ASSUME NEW p \in Pipes, UserMessage(p)
        PROVE  TypeOK'
    BY <2>16 DEF UserMessage, Move, rowVars, reqVars, TypeOK, Place, InSession
  <2>17. ASSUME NEW p \in Pipes, Leave(p)
        PROVE  TypeOK'
    BY <2>17 DEF Leave, rowVars, reqVars, TypeOK, Place, InSession, Turning
  <2>18. ASSUME NEW p \in Pipes, End(p)
        PROVE  TypeOK'
    BY <2>18 DEF End, Move, Write, reqVars, TypeOK, Place, InSession, Status, Terminal
  <2>19. ASSUME NEW p \in Pipes, EndFails(p)
        PROVE  TypeOK'
    BY <2>19 DEF EndFails, Raise, rowVars, reqVars, TypeOK, Place, InSession
  <2>20. ASSUME NEW p \in Pipes, Unregister(p)
        PROVE  TypeOK'
    BY <2>20 DEF Unregister, Move, rowVars, reqVars, TypeOK, Place, InSession
  <2>21. ASSUME NEW p \in Pipes, Cleanup(p)
        PROVE  TypeOK'
    BY <2>21 DEF Cleanup, Move, rowVars, reqVars, TypeOK, Place
  <2>22. ASSUME NEW p \in Pipes, Settle(p)
        PROVE  TypeOK'
    BY <2>22 DEF Settle, Move, FinalStatus, Idle, reqVars, TypeOK, Place, Status, Terminal
  <2>23. ASSUME NEW r \in Retriers, RetryRead(r)
        PROVE  TypeOK'
    BY <2>23 DEF RetryRead, MayRetry, rowVars, pipeVars, TypeOK
  <2>24. ASSUME NEW r \in Retriers, RetryStart(r)
        PROVE  TypeOK'
    <3>1. retry' \in [Retriers -> BOOLEAN]
      BY <2>24, Zenon DEF RetryStart, TypeOK
    <3>2. PipeType'
      BY <2>24, SpawnType DEF RetryStart, pipeVars, PipeType, TypeOK
    <3> QED
      BY <2>24, <3>1, <3>2 DEF RetryStart, Write, PipeType, TypeOK, Status, Live
  <2>25. ASSUME NEW w \in Webhooks, HookRead(w)
        PROVE  TypeOK'
    BY <2>25 DEF HookRead, rowVars, pipeVars, TypeOK
  <2>26. ASSUME NEW w \in Webhooks, HookDecide(w)
        PROVE  TypeOK'
    BY <2>26 DEF HookDecide, Exhausted, rowVars, pipeVars, TypeOK
  <2>27. ASSUME NEW w \in Webhooks, HookWrite(w)
        PROVE  TypeOK'
    <3>1. PipeType'
      BY <2>27, SpawnType DEF HookWrite, pipeVars, PipeType, TypeOK
    <3>2. status' \in Status
      BY <2>27 DEF HookWrite, Write, HookStatus, TypeOK, Status, Live, Terminal
    <3> QED
      BY <2>27, <3>1, <3>2 DEF HookWrite, PipeType, TypeOK
  <2>28. CASE CommitCreate
    BY <2>28 DEF CommitCreate, pipeVars, reqVars, TypeOK
  <2>29. CASE Delete
    BY <2>29 DEF Delete, pipeVars, reqVars, TypeOK
  <2>30. CASE Crash
    BY <2>30 DEF Crash, TypeOK, Place
  <2>31. CASE Restart
    <3>1. PipeType'
      BY <2>31, SpawnType DEF Restart, pipeVars, PipeType, TypeOK
    <3>2. status' \in Status
      BY <2>31 DEF Restart, TypeOK, Status, Terminal
    <3>3. restarts' \in Nat
      BY <2>31 DEF Restart, TypeOK
    <3> QED
      BY <2>31, <3>1, <3>2, <3>3 DEF Restart, reqVars, PipeType, TypeOK
  <2>32. CASE UNCHANGED vars
    BY <2>32 DEF vars, rowVars, pipeVars, reqVars, TypeOK
  <2> QED
    BY <2>1, <2>2, <2>3, <2>4, <2>5, <2>6, <2>7, <2>8, <2>9, <2>10,
       <2>11, <2>12, <2>13, <2>14, <2>15, <2>16, <2>17, <2>18, <2>19, <2>20,
       <2>21, <2>22, <2>23, <2>24, <2>25, <2>26, <2>27, <2>28, <2>29, <2>30,
       <2>31, <2>32
       DEF Next, Pipeline, Prepare, Chat, Finish, Request, Webhook
<1> QED
  BY <1>1, <1>2, PTL DEF Spec

-----------------------------------------------------------------------------
\* The registry holds the session of the task, and every session is held.
THEOREM RegistryInvariant == Spec => []RegistryInv
<1> USE PipesAssumption
<1>1. Init => RegistryInv
  BY DEF Init, RegistryInv, InSession, Turning
<1>2. TypeOK /\ RegistryInv /\ [Next]_vars => RegistryInv'
  <2> SUFFICES ASSUME TypeOK, RegistryInv, [Next]_vars
               PROVE  RegistryInv'
    OBVIOUS
  <2>1. ASSUME NEW p \in Pipes, Wipe(p)
        PROVE  RegistryInv'
    BY <2>1 DEF Wipe, Move, rowVars, reqVars, TypeOK, RegistryInv, InSession, Turning, Preparing
  <2>2. ASSUME NEW p \in Pipes, Clone(p)
        PROVE  RegistryInv'
    BY <2>2 DEF Clone, Move, rowVars, reqVars, TypeOK, RegistryInv, InSession, Turning, Preparing
  <2>3. ASSUME NEW p \in Pipes, Save(p)
        PROVE  RegistryInv'
    BY <2>3 DEF Save, Move, reqVars, TypeOK, RegistryInv, InSession, Turning, Preparing
  <2>4. ASSUME NEW p \in Pipes, Register(p)
        PROVE  RegistryInv'
    BY <2>4 DEF Register, Move, rowVars, reqVars, TypeOK, RegistryInv, InSession, Turning, Preparing
  <2>5. ASSUME NEW p \in Pipes, RegisterRefused(p)
        PROVE  RegistryInv'
    BY <2>5 DEF RegisterRefused, Raise, TypeOK, RegistryInv, InSession, Turning, Preparing
  <2>6. ASSUME NEW p \in Pipes, PrepareFails(p)
        PROVE  RegistryInv'
    BY <2>6 DEF PrepareFails, Raise, rowVars, reqVars, TypeOK, RegistryInv, InSession, Turning, Preparing
  <2>7. ASSUME NEW p \in Pipes, Connect(p)
        PROVE  RegistryInv'
    BY <2>7 DEF Connect, Move, rowVars, reqVars, TypeOK, RegistryInv, InSession, Turning, Preparing
  <2>8. ASSUME NEW p \in Pipes, ConnectFails(p)
        PROVE  RegistryInv'
    BY <2>8 DEF ConnectFails, Raise, rowVars, reqVars, TypeOK, RegistryInv, InSession, Turning, Preparing
  <2>9. ASSUME NEW p \in Pipes, StartTurn(p)
        PROVE  RegistryInv'
    BY <2>9 DEF StartTurn, Move, Write, reqVars, TypeOK, RegistryInv, InSession, Turning, Preparing
  <2>10. ASSUME NEW p \in Pipes, Query(p)
        PROVE  RegistryInv'
    BY <2>10 DEF Query, Move, reqVars, TypeOK, RegistryInv, InSession, Turning, Preparing
  <2>11. ASSUME NEW p \in Pipes, Ask(p)
        PROVE  RegistryInv'
    BY <2>11 DEF Ask, Move, Write, reqVars, TypeOK, RegistryInv, InSession, Turning, Preparing
  <2>12. ASSUME NEW p \in Pipes, Answered(p)
        PROVE  RegistryInv'
    BY <2>12 DEF Answered, Move, Write, reqVars, TypeOK, RegistryInv, InSession, Turning, Preparing
  <2>13. ASSUME NEW p \in Pipes, EndTurn(p)
        PROVE  RegistryInv'
    BY <2>13 DEF EndTurn, Move, rowVars, reqVars, TypeOK, RegistryInv, InSession, Turning, Preparing
  <2>14. ASSUME NEW p \in Pipes, Publish(p)
        PROVE  RegistryInv'
    BY <2>14 DEF Publish, Move, reqVars, TypeOK, RegistryInv, InSession, Turning, Preparing
  <2>15. ASSUME NEW p \in Pipes, Announce(p)
        PROVE  RegistryInv'
    BY <2>15 DEF Announce, Move, Write, reqVars, TypeOK, RegistryInv, InSession, Turning, Preparing
  <2>16. ASSUME NEW p \in Pipes, UserMessage(p)
        PROVE  RegistryInv'
    BY <2>16 DEF UserMessage, Move, rowVars, reqVars, TypeOK, RegistryInv, InSession, Turning, Preparing
  <2>17. ASSUME NEW p \in Pipes, Leave(p)
        PROVE  RegistryInv'
    BY <2>17 DEF Leave, rowVars, reqVars, TypeOK, RegistryInv, InSession, Turning, Preparing
  <2>18. ASSUME NEW p \in Pipes, End(p)
        PROVE  RegistryInv'
    BY <2>18 DEF End, Move, Write, reqVars, TypeOK, RegistryInv, InSession, Turning, Preparing
  <2>19. ASSUME NEW p \in Pipes, EndFails(p)
        PROVE  RegistryInv'
    BY <2>19 DEF EndFails, Raise, rowVars, reqVars, TypeOK, RegistryInv, InSession, Turning, Preparing
  <2>20. ASSUME NEW p \in Pipes, Unregister(p)
        PROVE  RegistryInv'
    BY <2>20 DEF Unregister, Move, rowVars, reqVars, TypeOK, RegistryInv, InSession, Turning, Preparing
  <2>21. ASSUME NEW p \in Pipes, Cleanup(p)
        PROVE  RegistryInv'
    BY <2>21 DEF Cleanup, Move, rowVars, reqVars, TypeOK, RegistryInv, InSession, Turning, Preparing
  <2>22. ASSUME NEW p \in Pipes, Settle(p)
        PROVE  RegistryInv'
    BY <2>22 DEF Settle, Move, FinalStatus, Idle, reqVars, TypeOK, RegistryInv, InSession, Turning, Preparing
  <2>23. ASSUME NEW r \in Retriers, RetryRead(r)
        PROVE  RegistryInv'
    BY <2>23 DEF RetryRead, MayRetry, rowVars, pipeVars, TypeOK, RegistryInv, InSession, Turning, Preparing
  <2>24. ASSUME NEW r \in Retriers, RetryStart(r)
        PROVE  RegistryInv'
    BY <2>24 DEF RetryStart, Write, Spawn, pipeVars, TypeOK, RegistryInv, InSession, Turning
  <2>25. ASSUME NEW w \in Webhooks, HookRead(w)
        PROVE  RegistryInv'
    BY <2>25 DEF HookRead, rowVars, pipeVars, TypeOK, RegistryInv, InSession, Turning, Preparing
  <2>26. ASSUME NEW w \in Webhooks, HookDecide(w)
        PROVE  RegistryInv'
    BY <2>26 DEF HookDecide, Exhausted, rowVars, pipeVars, TypeOK, RegistryInv, InSession, Turning, Preparing
  <2>27. ASSUME NEW w \in Webhooks, HookWrite(w)
        PROVE  RegistryInv'
    BY <2>27 DEF HookWrite, Write, Spawn, pipeVars, TypeOK, RegistryInv, InSession, Turning
  <2>28. CASE CommitCreate
    BY <2>28 DEF CommitCreate, pipeVars, reqVars, TypeOK, RegistryInv, InSession, Turning, Preparing
  <2>29. CASE Delete
    BY <2>29 DEF Delete, pipeVars, reqVars, TypeOK, RegistryInv, InSession, Turning, Preparing
  <2>30. CASE Crash
    BY <2>30 DEF Crash, TypeOK, RegistryInv, InSession, Turning, Preparing
  <2>31. CASE Restart
    BY <2>31 DEF Restart, Spawn, pipeVars, TypeOK, RegistryInv, InSession, Turning
  <2>32. CASE UNCHANGED vars
    BY <2>32 DEF vars, rowVars, pipeVars, reqVars, TypeOK, RegistryInv, InSession, Turning, Preparing
  <2> QED
    BY <2>1, <2>2, <2>3, <2>4, <2>5, <2>6, <2>7, <2>8, <2>9, <2>10,
       <2>11, <2>12, <2>13, <2>14, <2>15, <2>16, <2>17, <2>18, <2>19, <2>20,
       <2>21, <2>22, <2>23, <2>24, <2>25, <2>26, <2>27, <2>28, <2>29, <2>30,
       <2>31, <2>32
       DEF Next, Pipeline, Prepare, Chat, Finish, Request, Webhook
<1> QED
  BY <1>1, <1>2, Typing, PTL DEF Spec

\* A task never has two chat sessions at a time, however many pipelines are
\* started for it.
THEOREM SessionUnique == Spec => []OneSession
<1>1. RegistryInv => OneSession
  BY DEF RegistryInv, OneSession
<1> QED
  BY <1>1, RegistryInvariant, PTL

-----------------------------------------------------------------------------
\* A fix starts only from a count below max_fix_attempts, stale or not.
THEOREM AttemptInvariant == Spec => []AttemptInv
<1> USE AttemptsAssumption
<1>1. Init => AttemptInv
  BY DEF Init, AttemptInv, AttemptBounded
<1>2. TypeOK /\ AttemptInv /\ [Next]_vars => AttemptInv'
  <2> SUFFICES ASSUME TypeOK, AttemptInv, [Next]_vars
               PROVE  AttemptInv'
    OBVIOUS
  <2>1. ASSUME NEW p \in Pipes, Wipe(p)
        PROVE  AttemptInv'
    BY <2>1 DEF Wipe, Move, rowVars, reqVars, TypeOK, AttemptInv, AttemptBounded, Preparing
  <2>2. ASSUME NEW p \in Pipes, Clone(p)
        PROVE  AttemptInv'
    BY <2>2 DEF Clone, Move, rowVars, reqVars, TypeOK, AttemptInv, AttemptBounded, Preparing
  <2>3. ASSUME NEW p \in Pipes, Save(p)
        PROVE  AttemptInv'
    BY <2>3 DEF Save, Move, reqVars, TypeOK, AttemptInv, AttemptBounded, Preparing
  <2>4. ASSUME NEW p \in Pipes, Register(p)
        PROVE  AttemptInv'
    BY <2>4 DEF Register, Move, rowVars, reqVars, TypeOK, AttemptInv, AttemptBounded, Preparing
  <2>5. ASSUME NEW p \in Pipes, RegisterRefused(p)
        PROVE  AttemptInv'
    BY <2>5 DEF RegisterRefused, Raise, rowVars, reqVars, TypeOK, AttemptInv, AttemptBounded, Preparing
  <2>6. ASSUME NEW p \in Pipes, PrepareFails(p)
        PROVE  AttemptInv'
    BY <2>6 DEF PrepareFails, Raise, rowVars, reqVars, TypeOK, AttemptInv, AttemptBounded, Preparing
  <2>7. ASSUME NEW p \in Pipes, Connect(p)
        PROVE  AttemptInv'
    BY <2>7 DEF Connect, Move, rowVars, reqVars, TypeOK, AttemptInv, AttemptBounded, Preparing
  <2>8. ASSUME NEW p \in Pipes, ConnectFails(p)
        PROVE  AttemptInv'
    BY <2>8 DEF ConnectFails, Raise, rowVars, reqVars, TypeOK, AttemptInv, AttemptBounded, Preparing
  <2>9. ASSUME NEW p \in Pipes, StartTurn(p)
        PROVE  AttemptInv'
    BY <2>9 DEF StartTurn, Move, Write, reqVars, TypeOK, AttemptInv, AttemptBounded, Preparing
  <2>10. ASSUME NEW p \in Pipes, Query(p)
        PROVE  AttemptInv'
    BY <2>10 DEF Query, Move, reqVars, TypeOK, AttemptInv, AttemptBounded, Preparing
  <2>11. ASSUME NEW p \in Pipes, Ask(p)
        PROVE  AttemptInv'
    BY <2>11 DEF Ask, Move, Write, reqVars, TypeOK, AttemptInv, AttemptBounded, Preparing
  <2>12. ASSUME NEW p \in Pipes, Answered(p)
        PROVE  AttemptInv'
    BY <2>12 DEF Answered, Move, Write, reqVars, TypeOK, AttemptInv, AttemptBounded, Preparing
  <2>13. ASSUME NEW p \in Pipes, EndTurn(p)
        PROVE  AttemptInv'
    BY <2>13 DEF EndTurn, Move, rowVars, reqVars, TypeOK, AttemptInv, AttemptBounded, Preparing
  <2>14. ASSUME NEW p \in Pipes, Publish(p)
        PROVE  AttemptInv'
    BY <2>14 DEF Publish, Move, reqVars, TypeOK, AttemptInv, AttemptBounded, Preparing
  <2>15. ASSUME NEW p \in Pipes, Announce(p)
        PROVE  AttemptInv'
    BY <2>15 DEF Announce, Move, Write, reqVars, TypeOK, AttemptInv, AttemptBounded, Preparing
  <2>16. ASSUME NEW p \in Pipes, UserMessage(p)
        PROVE  AttemptInv'
    BY <2>16 DEF UserMessage, Move, rowVars, reqVars, TypeOK, AttemptInv, AttemptBounded, Preparing
  <2>17. ASSUME NEW p \in Pipes, Leave(p)
        PROVE  AttemptInv'
    BY <2>17 DEF Leave, rowVars, reqVars, TypeOK, AttemptInv, AttemptBounded, Preparing
  <2>18. ASSUME NEW p \in Pipes, End(p)
        PROVE  AttemptInv'
    BY <2>18 DEF End, Move, Write, reqVars, TypeOK, AttemptInv, AttemptBounded, Preparing
  <2>19. ASSUME NEW p \in Pipes, EndFails(p)
        PROVE  AttemptInv'
    BY <2>19 DEF EndFails, Raise, rowVars, reqVars, TypeOK, AttemptInv, AttemptBounded, Preparing
  <2>20. ASSUME NEW p \in Pipes, Unregister(p)
        PROVE  AttemptInv'
    BY <2>20 DEF Unregister, Move, rowVars, reqVars, TypeOK, AttemptInv, AttemptBounded, Preparing
  <2>21. ASSUME NEW p \in Pipes, Cleanup(p)
        PROVE  AttemptInv'
    BY <2>21 DEF Cleanup, Move, rowVars, reqVars, TypeOK, AttemptInv, AttemptBounded, Preparing
  <2>22. ASSUME NEW p \in Pipes, Settle(p)
        PROVE  AttemptInv'
    BY <2>22 DEF Settle, Move, FinalStatus, Idle, reqVars, TypeOK, AttemptInv, AttemptBounded, Preparing
  <2>23. ASSUME NEW r \in Retriers, RetryRead(r)
        PROVE  AttemptInv'
    BY <2>23 DEF RetryRead, MayRetry, rowVars, pipeVars, TypeOK, AttemptInv, AttemptBounded, Preparing
  <2>24. ASSUME NEW r \in Retriers, RetryStart(r)
        PROVE  AttemptInv'
    BY <2>24 DEF RetryStart, Write, Spawn, pipeVars, TypeOK, AttemptInv, AttemptBounded
  <2>25. ASSUME NEW w \in Webhooks, HookRead(w)
        PROVE  AttemptInv'
    BY <2>25 DEF HookRead, rowVars, pipeVars, TypeOK, AttemptInv, AttemptBounded, Preparing
  <2>26. ASSUME NEW w \in Webhooks, HookDecide(w)
        PROVE  AttemptInv'
    BY <2>26 DEF HookDecide, Exhausted, rowVars, pipeVars, TypeOK, AttemptInv, AttemptBounded, Preparing
  <2>27. ASSUME NEW w \in Webhooks, HookWrite(w)
        PROVE  AttemptInv'
    BY <2>27 DEF HookWrite, Write, Spawn, HookStatus, pipeVars, TypeOK, AttemptInv, AttemptBounded
  <2>28. CASE CommitCreate
    BY <2>28 DEF CommitCreate, pipeVars, reqVars, TypeOK, AttemptInv, AttemptBounded, Preparing
  <2>29. CASE Delete
    BY <2>29 DEF Delete, pipeVars, reqVars, TypeOK, AttemptInv, AttemptBounded, Preparing
  <2>30. CASE Crash
    BY <2>30 DEF Crash, TypeOK, AttemptInv, AttemptBounded, Preparing
  <2>31. CASE Restart
    BY <2>31 DEF Restart, Spawn, pipeVars, reqVars, TypeOK, AttemptInv, AttemptBounded
  <2>32. CASE UNCHANGED vars
    BY <2>32 DEF vars, rowVars, pipeVars, reqVars, TypeOK, AttemptInv, AttemptBounded, Preparing
  <2> QED
    BY <2>1, <2>2, <2>3, <2>4, <2>5, <2>6, <2>7, <2>8, <2>9, <2>10,
       <2>11, <2>12, <2>13, <2>14, <2>15, <2>16, <2>17, <2>18, <2>19, <2>20,
       <2>21, <2>22, <2>23, <2>24, <2>25, <2>26, <2>27, <2>28, <2>29, <2>30,
       <2>31, <2>32
       DEF Next, Pipeline, Prepare, Chat, Finish, Request, Webhook
<1> QED
  BY <1>1, <1>2, Typing, PTL DEF Spec

\* The attempt counter of a task never passes max_fix_attempts.
THEOREM AttemptBound == Spec => []AttemptBounded
<1>1. AttemptInv => AttemptBounded
  BY DEF AttemptInv
<1> QED
  BY <1>1, AttemptInvariant, PTL

-----------------------------------------------------------------------------
(* Who answers for a task in a live status. *)

\* A pipeline that will still write the row: one that has written its outcome
\* does so only if an exception or a fix brings it to the end.
Answers(p) ==
  /\ at[p] # "free"
  /\ at[p] \in {"unregister", "cleanup", "settle"} => err[p] \/ kind[p] = "fix"

ZombieInv ==
  /\ up /\ row # "deleted" /\ status \in Live => \E p \in Pipes : Answers(p)
  /\ ~up => row # "pending"

\* A step of one pipeline after which it answers, or has written an outcome,
\* or did not answer before.
LEMMA StillAnswered ==
  ASSUME ZombieInv, NEW p \in Pipes, up, up',
         \A q \in Pipes \ {p} : at'[q] = at[q] /\ err'[q] = err[q] /\ kind'[q] = kind[q],
         row' = row,
         row # "deleted" /\ status' \in Live =>
           Answers(p)' \/ (status \in Live /\ ~Answers(p))
  PROVE  ZombieInv'
<1>1. ASSUME row # "deleted", status' \in Live, ~Answers(p)'
      PROVE  \E q \in Pipes : Answers(q)'
  <2>1. PICK q \in Pipes : Answers(q)
    BY <1>1 DEF ZombieInv
  <2>2. q # p
    BY <1>1, <2>1
  <2>3. at'[q] = at[q] /\ err'[q] = err[q] /\ kind'[q] = kind[q]
    BY <2>2
  <2> QED
    BY <2>1, <2>3, Zenon DEF Answers
<1> QED
  BY <1>1 DEF ZombieInv

\* A live task has a pipeline behind it, as long as no webhook writes the row
\* and the request that creates the task commits before the pipeline needs it.
THEOREM NotZombie ==
  ASSUME CommitFirst, Webhooks = {}
  PROVE  Spec => []NoZombie
<1>1. Init => ZombieInv
  BY DEF Init, ZombieInv, Answers
<1>2. TypeOK /\ ZombieInv /\ [Next]_vars => ZombieInv'
  <2> SUFFICES ASSUME TypeOK, ZombieInv, [Next]_vars
               PROVE  ZombieInv'
    OBVIOUS
  <2>1. ASSUME NEW p \in Pipes, up, Prepare(p)
        PROVE  ZombieInv'
    <3>1. Answers(p)' /\ up' /\ row' = row
      BY <2>1 DEF Prepare, Wipe, Clone, Save, Register, RegisterRefused, PrepareFails, Move,
         Raise, Preparing, rowVars, Answers, TypeOK
    <3>2. \A q \in Pipes \ {p} : at'[q] = at[q] /\ err'[q] = err[q] /\ kind'[q] = kind[q]
      BY <2>1 DEF Prepare, Wipe, Clone, Save, Register, RegisterRefused, PrepareFails, Move,
         Raise, TypeOK
    <3> QED
      BY <2>1, <3>1, <3>2, StillAnswered
  <2>2. ASSUME NEW p \in Pipes, up, Chat(p)
        PROVE  ZombieInv'
    <3>1. Answers(p)' /\ up' /\ row' = row
      BY <2>2 DEF Chat, Connect, ConnectFails, StartTurn, Query, Ask, Answered, EndTurn,
         Publish, Announce, UserMessage, Leave, Move, Raise, rowVars, Answers, TypeOK
    <3>2. \A q \in Pipes \ {p} : at'[q] = at[q] /\ err'[q] = err[q] /\ kind'[q] = kind[q]
      BY <2>2 DEF Chat, Connect, ConnectFails, StartTurn, Query, Ask, Answered, EndTurn,
         Publish, Announce, UserMessage, Leave, Move, Raise, TypeOK
    <3> QED
      BY <2>2, <3>1, <3>2, StillAnswered
  <2>3. ASSUME NEW p \in Pipes, up, End(p) \/ EndFails(p)
        PROVE  ZombieInv'
    <3>1. (row = "deleted" \/ status' \notin Live) /\ up' /\ row' = row
      BY <2>3 DEF End, EndFails, Write, Live, rowVars
    <3> QED
      BY <2>3, <3>1 DEF ZombieInv
  <2>4. ASSUME NEW p \in Pipes, up, Unregister(p) \/ Cleanup(p)
        PROVE  ZombieInv'
    <3>1. (Answers(p)' <=> Answers(p)) /\ up' /\ UNCHANGED <<row, status>>
      BY <2>4 DEF Unregister, Cleanup, Move, rowVars, Answers, TypeOK
    <3>2. \A q \in Pipes \ {p} : at'[q] = at[q] /\ err'[q] = err[q] /\ kind'[q] = kind[q]
      BY <2>4 DEF Unregister, Cleanup, Move, TypeOK
    <3> QED
      BY <2>4, <3>1, <3>2, StillAnswered
  <2>5. ASSUME NEW p \in Pipes, up, Settle(p)
        PROVE  ZombieInv'
    <3>1. row # "pending" /\ up' /\ row' = row
      BY <2>5 DEF Settle
    <3>2. row = "there" /\ status' \in Live => status \in Live /\ ~Answers(p)
      BY <2>5 DEF Settle, Move, FinalStatus, Answers, Live
    <3>3. \A q \in Pipes \ {p} : at'[q] = at[q] /\ err'[q] = err[q] /\ kind'[q] = kind[q]
      BY <2>5 DEF Settle, Move, Idle, TypeOK
    <3> QED
      BY <2>5, <3>1, <3>2, <3>3, StillAnswered DEF TypeOK
  <2>6. ASSUME NEW r \in Retriers, RetryRead(r)
        PROVE  ZombieInv'
    BY <2>6 DEF RetryRead, rowVars, pipeVars, ZombieInv, Answers
  <2>7. ASSUME NEW r \in Retriers, RetryStart(r)
        PROVE  ZombieInv'
    <3>1. CASE row = "deleted"
      BY <2>7, <3>1 DEF RetryStart, ZombieInv
    <3>2. ASSUME NEW p \in Pipes, Spawn(p, "fresh", 0), row' = row, up'
          PROVE  ZombieInv'
      BY <3>2 DEF Spawn, ZombieInv, Answers, TypeOK
    <3> QED
      BY <2>7, <3>1, <3>2 DEF RetryStart, Write
  <2>8. CASE CommitCreate \/ Delete
    BY <2>8 DEF CommitCreate, Delete, pipeVars, ZombieInv, Answers
  <2>9. CASE Crash
    BY <2>9 DEF Crash, ZombieInv
  <2>10. CASE Restart
    <3>1. ASSUME NEW p \in Pipes, Spawn(p, "resume", 0), row' = row, up'
          PROVE  ZombieInv'
      BY <3>1 DEF Spawn, ZombieInv, Answers, TypeOK
    <3>2. row # "pending" /\ row' = row /\ up'
      BY <2>10 DEF Restart, ZombieInv
    <3>3. CASE \E p \in Pipes : Spawn(p, "resume", 0)
      BY <3>1, <3>2, <3>3
    <3>4. CASE row = "deleted" \/ status' \notin Live
      BY <3>2, <3>4 DEF ZombieInv
    <3> QED
      BY <2>10, <3>2, <3>3, <3>4 DEF Restart, Live, TypeOK
  <2>11. CASE UNCHANGED vars
    BY <2>11 DEF vars, rowVars, pipeVars, ZombieInv, Answers
  <2> QED
    BY <2>1, <2>2, <2>3, <2>4, <2>5, <2>6, <2>7, <2>8, <2>9, <2>10, <2>11
       DEF Next, Pipeline, Finish, Request
<1>3. ZombieInv => NoZombie
  BY DEF ZombieInv, NoZombie, Answers
<1> QED
  BY <1>1, <1>2, <1>3, Typing, PTL DEF Spec

-----------------------------------------------------------------------------
(* One pipeline at a time writes the row. *)

\* While nobody but one retry request starts pipelines, at most one pipeline
\* answers for the task, and none once the outcome is written.
OneWriterInv ==
  /\ \A p \in Pipes : kind[p] # "fix"
  /\ \A p \in Pipes : err[p] => at[p] \in {"unregister", "cleanup", "settle"}
  /\ ~up => (\A p \in Pipes : at[p] = "free") /\ (\A r \in Retriers : ~retry[r])
  /\ row # "deleted" =>
       /\ \A p, q \in Pipes : Answers(p) /\ Answers(q) => p = q
       /\ status \in Terminal => \A p \in Pipes : ~Answers(p)
       /\ \A r \in Retriers : retry[r] => status \in {"failed", "needs_human"}

\* A step of the pipeline that answers, which goes on or writes the outcome.
LEMMA StillOne ==
  ASSUME TypeOK, OneWriterInv, NEW p \in Pipes, up, up', kind'[p] # "fix",
         err'[p] => at'[p] \in {"unregister", "cleanup", "settle"},
         \A q \in Pipes \ {p} : at'[q] = at[q] /\ err'[q] = err[q] /\ kind'[q] = kind[q],
         UNCHANGED <<row, retry>>,
         row # "deleted" => /\ Answers(p)' => Answers(p)
                            /\ status' # status => Answers(p)
                            /\ status' \in Terminal /\ status' # status => ~Answers(p)'
  PROVE  OneWriterInv'
<1>1. \A q \in Pipes \ {p} : Answers(q)' <=> Answers(q)
  BY DEF Answers
<1>2. ASSUME row # "deleted", NEW q \in Pipes, Answers(q)'
      PROVE  Answers(q)
  BY <1>1, <1>2
<1>3. /\ \A q \in Pipes : kind'[q] # "fix"
      /\ \A q \in Pipes : err'[q] => at'[q] \in {"unregister", "cleanup", "settle"}
  BY DEF OneWriterInv
<1>4. ASSUME row # "deleted"
      PROVE  /\ \A q, s \in Pipes : Answers(q)' /\ Answers(s)' => q = s
             /\ status' \in Terminal => \A q \in Pipes : ~Answers(q)'
             /\ \A r \in Retriers : retry[r] => status' \in {"failed", "needs_human"}
  <2>1. \A q, s \in Pipes : Answers(q)' /\ Answers(s)' => q = s
    BY <1>2, <1>4 DEF OneWriterInv
  <2>2. ASSUME status' \in Terminal, NEW q \in Pipes, Answers(q)'
        PROVE  FALSE
    <3>1. Answers(q)
      BY <1>2, <1>4, <2>2
    <3>2. status' # status
      BY <1>4, <2>2, <3>1 DEF OneWriterInv
    <3>3. Answers(p) /\ ~Answers(p)'
      BY <1>4, <2>2, <3>2
    <3>4. q = p
      BY <1>4, <3>1, <3>3 DEF OneWriterInv
    <3> QED
      BY <2>2, <3>3, <3>4
  <2>3. ASSUME NEW r \in Retriers, retry[r]
        PROVE  status' \in {"failed", "needs_human"}
    BY <1>4, <2>3 DEF OneWriterInv, Terminal
  <2> QED
    BY <2>1, <2>2, <2>3
<1> QED
  BY <1>3, <1>4 DEF OneWriterInv

\* A new pipeline, once nobody answers for the task.
LEMMA NewOne ==
  ASSUME TypeOK, OneWriterInv, NEW p \in Pipes, NEW k \in {"fresh", "resume"}, Spawn(p, k, 0),
         up', UNCHANGED row, row # "deleted" => \A q \in Pipes : ~Answers(q),
         status' \notin Terminal, \A r \in Retriers : ~retry'[r]
  PROVE  OneWriterInv'
<1>1. \A q \in Pipes \ {p} : at'[q] = at[q] /\ err'[q] = err[q] /\ kind'[q] = kind[q]
  BY DEF Spawn, TypeOK
<1>2. at'[p] = "boot" /\ kind'[p] = k /\ err'[p] = FALSE
  BY DEF Spawn, TypeOK
<1>3. row # "deleted" => \A q \in Pipes \ {p} : ~Answers(q)'
  BY <1>1 DEF Answers
<1>4. /\ \A q \in Pipes : kind'[q] # "fix"
      /\ \A q \in Pipes : err'[q] => at'[q] \in {"unregister", "cleanup", "settle"}
  BY <1>1, <1>2 DEF OneWriterInv
<1> QED
  BY <1>3, <1>4 DEF OneWriterInv

\* A task that may be retried has no chat session taking turns, if the retry
\* requests for it come one at a time and no webhook writes its row.
THEOREM Stopped ==
  ASSUME CommitFirst, Webhooks = {}, \A r, s \in Retriers : r = s
  PROVE  Spec => []FailedMeansStopped
<1>1. Init => OneWriterInv
  BY DEF Init, OneWriterInv, Answers, Terminal
<1>2. TypeOK /\ OneWriterInv /\ [Next]_vars => OneWriterInv'
  <2> SUFFICES ASSUME TypeOK, OneWriterInv, [Next]_vars
               PROVE  OneWriterInv'
    OBVIOUS
  <2>1. ASSUME NEW p \in Pipes, up, Prepare(p)
        PROVE  OneWriterInv'
    <3>1. /\ Answers(p) /\ up' /\ UNCHANGED <<row, retry, status>> /\ kind'[p] # "fix"
          /\ err'[p] => at'[p] \in {"unregister", "cleanup", "settle"}
      <4>1. kind[p] # "fix" /\ (err[p] => at[p] \in {"unregister", "cleanup", "settle"})
        BY DEF OneWriterInv
      <4>2. CASE Wipe(p) \/ Clone(p) \/ Save(p) \/ Register(p)
        BY <2>1, <4>1, <4>2 DEF Wipe, Clone, Save, Register, Move, rowVars, reqVars, Answers, TypeOK
      <4>3. CASE RegisterRefused(p) \/ PrepareFails(p)
        BY <2>1, <4>1, <4>3 DEF RegisterRefused, PrepareFails, Raise, Preparing, rowVars, reqVars,
           Answers, TypeOK
      <4> QED
        BY <2>1, <4>2, <4>3 DEF Prepare
    <3>2. \A q \in Pipes \ {p} : at'[q] = at[q] /\ err'[q] = err[q] /\ kind'[q] = kind[q]
      BY <2>1 DEF Prepare, Wipe, Clone, Save, Register, RegisterRefused, PrepareFails, Move,
         Raise, TypeOK
    <3> QED
      BY <2>1, <3>1, <3>2, StillOne
  <2>2. ASSUME NEW p \in Pipes, up, Chat(p)
        PROVE  OneWriterInv'
    <3>1. /\ Answers(p) /\ up' /\ UNCHANGED <<row, retry>> /\ kind'[p] # "fix"
          /\ err'[p] => at'[p] \in {"unregister", "cleanup", "settle"}
          /\ status' # status => status' \notin Terminal
      <4>1. kind[p] # "fix" /\ (err[p] => at[p] \in {"unregister", "cleanup", "settle"})
        BY DEF OneWriterInv
      <4>2. CASE Connect(p) \/ ConnectFails(p) \/ Query(p) \/ EndTurn(p) \/ UserMessage(p) \/ Leave(p)
        BY <2>2, <4>1, <4>2 DEF Connect, ConnectFails, Query, EndTurn, UserMessage, Leave, Move,
           Raise, rowVars, reqVars, Answers, TypeOK
      <4>3. CASE StartTurn(p) \/ Ask(p) \/ Answered(p) \/ Publish(p) \/ Announce(p)
        BY <2>2, <4>1, <4>3 DEF StartTurn, Ask, Answered, Publish, Announce, Write, Move,
           rowVars, reqVars, Answers, Terminal, TypeOK
      <4> QED
        BY <2>2, <4>2, <4>3 DEF Chat
    <3>2. \A q \in Pipes \ {p} : at'[q] = at[q] /\ err'[q] = err[q] /\ kind'[q] = kind[q]
      BY <2>2 DEF Chat, Connect, ConnectFails, StartTurn, Query, Ask, Answered, EndTurn,
         Publish, Announce, UserMessage, Leave, Move, Raise, TypeOK
    <3> QED
      BY <2>2, <3>1, <3>2, StillOne
  <2>3. ASSUME NEW p \in Pipes, up, End(p)
        PROVE  OneWriterInv'
    <3>1. /\ Answers(p) /\ ~Answers(p)' /\ up' /\ UNCHANGED <<row, retry>>
          /\ kind'[p] # "fix" /\ ~err'[p]
      BY <2>3 DEF End, Move, reqVars, Answers, OneWriterInv, TypeOK
    <3>2. \A q \in Pipes \ {p} : at'[q] = at[q] /\ err'[q] = err[q] /\ kind'[q] = kind[q]
      BY <2>3 DEF End, Move, TypeOK
    <3> QED
      BY <2>3, <3>1, <3>2, StillOne
  <2>4. ASSUME NEW p \in Pipes, up, EndFails(p) \/ Unregister(p) \/ Cleanup(p)
        PROVE  OneWriterInv'
    <3>1. /\ row # "deleted" => (Answers(p)' => Answers(p))
          /\ up' /\ UNCHANGED <<row, retry, status>> /\ kind'[p] # "fix"
          /\ err'[p] => at'[p] \in {"unregister", "cleanup", "settle"}
      BY <2>4 DEF EndFails, Unregister, Cleanup, Move, Raise, rowVars, reqVars, Answers,
         OneWriterInv, TypeOK
    <3>2. \A q \in Pipes \ {p} : at'[q] = at[q] /\ err'[q] = err[q] /\ kind'[q] = kind[q]
      BY <2>4 DEF EndFails, Unregister, Cleanup, Move, Raise, TypeOK
    <3> QED
      BY <2>4, <3>1, <3>2, StillOne
  <2>5. ASSUME NEW p \in Pipes, up, Settle(p)
        PROVE  OneWriterInv'
    <3>1. /\ ~Answers(p)' /\ up' /\ UNCHANGED <<row, retry>> /\ kind'[p] # "fix" /\ ~err'[p]
          /\ status' # status => Answers(p)
      BY <2>5 DEF Settle, Move, Idle, FinalStatus, reqVars, Answers, OneWriterInv, TypeOK
    <3>2. \A q \in Pipes \ {p} : at'[q] = at[q] /\ err'[q] = err[q] /\ kind'[q] = kind[q]
      BY <2>5 DEF Settle, Move, Idle, TypeOK
    <3> QED
      BY <2>5, <3>1, <3>2, StillOne
  <2>6. ASSUME NEW r \in Retriers, RetryRead(r)
        PROVE  OneWriterInv'
    BY <2>6 DEF RetryRead, MayRetry, rowVars, pipeVars, OneWriterInv, Answers, TypeOK
  <2>7. ASSUME NEW r \in Retriers, RetryStart(r)
        PROVE  OneWriterInv'
    <3>1. \A s \in Retriers : ~retry'[s]
      BY <2>7 DEF RetryStart, TypeOK
    <3>2. CASE row = "deleted" /\ UNCHANGED <<status, pipeVars>>
      BY <2>7, <3>1, <3>2 DEF RetryStart, pipeVars, OneWriterInv
    <3>3. ASSUME NEW p \in Pipes, Spawn(p, "fresh", 0), Write("running")
          PROVE  OneWriterInv'
      <4>1. row # "deleted" => \A q \in Pipes : ~Answers(q)
        BY <2>7 DEF RetryStart, OneWriterInv, Terminal
      <4> QED
        BY <2>7, <3>1, <3>3, <4>1, NewOne DEF RetryStart, Write, Terminal
    <3> QED
      BY <2>7, <3>2, <3>3 DEF RetryStart
  <2>8. CASE CommitCreate \/ Delete
    BY <2>8 DEF CommitCreate, Delete, pipeVars, reqVars, OneWriterInv, Answers
  <2>9. CASE Crash
    BY <2>9 DEF Crash, OneWriterInv, Answers
  <2>10. CASE Restart
    <3>1. /\ \A q \in Pipes : ~Answers(q)
          /\ up' /\ UNCHANGED <<row, retry>> /\ \A r \in Retriers : ~retry'[r]
      BY <2>10 DEF Restart, OneWriterInv, Answers, reqVars
    <3>2. ASSUME NEW p \in Pipes, Spawn(p, "resume", 0), status \in Live, UNCHANGED status
          PROVE  OneWriterInv'
      BY <3>1, <3>2, NewOne DEF Live, Terminal
    <3>3. CASE UNCHANGED pipeVars
      BY <3>1, <3>3 DEF pipeVars, OneWriterInv, Answers
    <3> QED
      BY <2>10, <3>2, <3>3 DEF Restart
  <2>11. CASE UNCHANGED vars
    BY <2>11 DEF vars, rowVars, pipeVars, reqVars, OneWriterInv, Answers
  <2> QED
    BY <2>1, <2>2, <2>3, <2>4, <2>5, <2>6, <2>7, <2>8, <2>9, <2>10, <2>11
       DEF Next, Pipeline, Finish, Request
<1>3. OneWriterInv => FailedMeansStopped
  BY DEF OneWriterInv, FailedMeansStopped, MayRetry, Answers, Turning, Terminal
<1> QED
  BY <1>1, <1>2, <1>3, Typing, PTL DEF Spec
=============================================================================
