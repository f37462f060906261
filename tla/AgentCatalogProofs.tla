------------------------- MODULE AgentCatalogProofs -------------------------
(***************************************************************************)
(* Proofs about AgentCatalog, for any number of requests, agents,          *)
(* subagents and servers: the constraints of the tables hold at every      *)
(* commit, a user with agents keeps a default one, an agent appears with   *)
(* its subagents, and no task is lost.                                     *)
(*                                                                         *)
(* One inductive invariant carries all four.  Its parts are about what the *)
(* requests have written and not committed yet: a row is changed by one of *)
(* them at a time (Exclusive), so that the commit of another leaves what a *)
(* request has seen of its own rows true; no request sees a clash with a   *)
(* unique index (Distinct); what it refers to is kept by the others        *)
(* (MentionsKept, LinksKept); and a request that has cleared the default   *)
(* agent has made another one the default, or is about to (DefaultFor).    *)
(***************************************************************************)
EXTENDS AgentCatalog, TLAPS

-----------------------------------------------------------------------------
(* What the tables and the requests hold.                                  *)

Request ==
  {q \in [at : Places, kind : Kinds, agent : Agents \cup {None}, name : Names \cup {None},
          wants : BOOLEAN, subs : SUBSET Subs, servers : SUBSET Mcps, mine : SUBSET Agents] :
      q.at = "mcp" => q.kind \in {"addmcp", "dropmcp"}}
AgentTable == [name : Names \cup {None}, dflt : BOOLEAN]

Types ==
  /\ DOMAIN db = {"agents", "subs", "rows"}
  /\ DOMAIN db.agents \subseteq Agents /\ db.agents \in [DOMAIN db.agents -> AgentTable]
  /\ DOMAIN db.subs \subseteq Subs
  /\ db.rows \subseteq Row
  /\ req \in [Requests -> Request]
  /\ begun \in 0..MaxRequests /\ deleted \in BOOLEAN

\* The writes of a request: an agent that is deleted is the only one, and rows come after
\* the agents they mention.
WriteFields == DOMAIN NoWrites
Write(t) ==
  /\ DOMAIN t = WriteFields
  /\ DOMAIN t.put \subseteq Agents /\ t.put \in [DOMAIN t.put -> AgentTable]
  /\ t.gone \subseteq Agents \cup Subs
  /\ t.ins \subseteq Row
Staged(at, t) ==
  /\ at \notin {"cascade", "commit"} => t.gone = {}
  /\ at \notin {"link", "task", "commit"} => t.ins = {}
  /\ at \notin {"insert", "target", "rename", "link", "task", "commit"} => DOMAIN t.put = {}
  /\ t.gone # {} => DOMAIN t.put = {} /\ t.ins = {}

Written ==
  /\ DOMAIN tx = Requests
  /\ \A r \in Requests : Write(tx[r]) /\ Staged(req[r].at, tx[r])

\* The fields of a request's writes.
LEMMA FieldsOfWrites ==
  WriteFields = {"put", "gone", "ins", "del"}
BY DEF WriteFields, NoWrites

\* A request that has written nothing.
LEMMA NoWriteAtAll ==
  DOMAIN NoWrites.put = {} /\ NoWrites.put \in [{} -> AgentTable]
    /\ NoWrites.gone = {} /\ NoWrites.ins = {} /\ NoWrites.del = {}
BY DEF NoWrites

LEMMA ServedIsSub == Served \in Subs
BY CatalogAssumption DEF Served

\* A request that is not in progress, and the rows of each table.
LEMMA IdleRequest == Idle \in Request
BY DEF Idle, Request, Places, Kinds

LEMMA RowKinds ==
  /\ \A a \in Agents, s \in Subs : Link(a, s) \in Row
  /\ \A a \in Agents : Task(a) \in Row
  /\ \A a \in Agents, s \in Subs, m \in Mcps : Mcp(a, s, m) \in Row
  /\ \A s \in Subs, m \in Mcps : Default(s, m) \in Row
BY DEF Row

\* The tables and the requests have their types from the beginning, and every step keeps them.
LEMMA InitTypes == ASSUME Init PROVE Types
<1>1. PICK agents \in Starts, subs \in {Subs, {Served}} :
        db = Tables(agents, subs) /\ deleted = (DOMAIN agents # {} /\ Defaults(agents) = {})
  BY DEF Init
<1>2. DOMAIN db = {"agents", "subs", "rows"} /\ db.agents = agents /\ DOMAIN db.subs = subs
      /\ db.rows = {Link(a, x) : a \in DOMAIN agents, x \in subs}
                     \cup {Default(Served, m) : m \in Mcps}
                     \cup {Mcp(a, Served, m) : a \in DOMAIN agents, m \in Mcps}
  BY <1>1 DEF Tables
<1>3. DOMAIN agents \subseteq Agents /\ agents \in [DOMAIN agents -> AgentTable]
  BY StartsAssumption, <1>1 DEF AgentTable, AgentRow
<1>4. subs \subseteq Subs
  BY <1>1, ServedIsSub
<1>5. db.rows \subseteq Row
  BY <1>2, <1>3, <1>4, ServedIsSub, RowKinds
<1>6. req \in [Requests -> Request]
  BY IdleRequest DEF Init
<1>7. begun \in 0..MaxRequests /\ deleted \in BOOLEAN
  BY <1>1, CatalogAssumption DEF Init
<1> QED
  BY <1>2, <1>3, <1>4, <1>5, <1>6, <1>7 DEF Types

LEMMA BeginTypes ==
  ASSUME Types, NEW r \in Requests, NEW new \in Request, Begin(r, new)
  PROVE  Types'
BY CatalogAssumption DEF Types, Begin

LEMMA AskTypes ==
  ASSUME Types, NEW r \in Requests, Ask(r)
  PROVE  Types'
<1> USE DEF Request, Idle, Places, Kinds, Names
<1>1. ASSUME NEW name \in Names, NEW wants \in BOOLEAN, NEW subs \in Teams,
             Create(r, name, wants, subs)
      PROVE  Types'
  BY <1>1, BeginTypes DEF Create, Teams
<1>2. ASSUME NEW a \in Agents, NEW name \in Names \cup {None}, NEW wants \in BOOLEAN,
             Update(r, a, name, wants)
      PROVE  Types'
  BY <1>2, BeginTypes DEF Update
<1>3. ASSUME NEW a \in Agents, Delete(r, a)
      PROVE  Types'
  BY <1>3, BeginTypes DEF Delete
<1>4. ASSUME NEW a \in Agents, NEW s \in Subs, Attach(r, a, s)
      PROVE  Types'
  BY <1>4, BeginTypes DEF Attach
<1>5. ASSUME NEW a \in Agents, NEW s \in Subs, Detach(r, a, s)
      PROVE  Types'
  BY <1>5, BeginTypes DEF Detach
<1>6. ASSUME NEW a \in Agents, NEW s \in Subs, NEW m \in Mcps, NEW kind \in {"addmcp", "dropmcp"},
             Toggle(r, kind, a, s, m)
      PROVE  Types'
  BY <1>6, BeginTypes DEF Toggle
<1>7. ASSUME NEW a \in Agents \cup {None}, Submit(r, a)
      PROVE  Types'
  BY <1>7, BeginTypes DEF Submit
<1>8. ASSUME NEW s \in Subs, NEW servers \in SUBSET Mcps, SetDefaults(r, s, servers)
      PROVE  Types'
  BY <1>8, BeginTypes DEF SetDefaults
<1>9. ASSUME NEW s \in Subs, NEW servers \in SUBSET Mcps, NewSub(r, s, servers)
      PROVE  Types'
  BY <1>9, BeginTypes DEF NewSub
<1>10. ASSUME NEW s \in Subs, NEW on \in BOOLEAN, SetActive(r, s, on)
      PROVE  Types'
  BY <1>10, BeginTypes DEF SetActive
<1>11. ASSUME NEW s \in Subs, DeleteSub(r, s)
      PROVE  Types'
  BY <1>11, BeginTypes DEF DeleteSub
<1>12. CASE AskAgents(r)
  BY <1>1, <1>2, <1>3, <1>12 DEF AskAgents
<1>13. CASE AskLinks(r)
  BY <1>4, <1>5, <1>6, <1>13 DEF AskLinks
<1>14. CASE AskCatalog(r)
  BY <1>8, <1>9, <1>10, <1>11, <1>14 DEF AskCatalog
<1> QED
  BY <1>7, <1>12, <1>13, <1>14 DEF Ask

\* A request that goes on to another statement.
LEMMA GoTypes ==
  ASSUME Types, NEW r \in Requests, NEW at \in Places \ {"mcp"}, Go(r, at), Keep
  PROVE  Types'
BY DEF Types, Go, Keep, Request

\* A request that has read what it now carries.
LEMMA ReadTypes ==
  ASSUME Types, NEW r \in Requests, NEW new \in Request, req' = [req EXCEPT ![r] = new], Keep
  PROVE  Types'
BY DEF Types, Keep

\* A request that ends, with an error or with a commit.
LEMMA FailTypes ==
  ASSUME Types, NEW r \in Requests, Fail(r)
  PROVE  Types'
BY IdleRequest DEF Types, Fail, Keep

LEMMA FinishTypes ==
  ASSUME Types, NEW r \in Requests, NEW answer, Finish(r, answer),
         DOMAIN answer = {"agents", "subs", "rows"},
         DOMAIN answer.agents \subseteq Agents,
         answer.agents \in [DOMAIN answer.agents -> AgentTable],
         DOMAIN answer.subs \subseteq Subs, answer.rows \subseteq Row
  PROVE  Types'
BY IdleRequest DEF Types, Finish

\* What a request sees, and what its commit would make of the tables.
LEMMA SeenTypes ==
  ASSUME Types, Written, NEW r \in Requests
  PROVE  /\ DOMAIN AgentsOf(r) \subseteq Agents
         /\ AgentsOf(r) \in [DOMAIN AgentsOf(r) -> AgentTable]
         /\ Applied(r).agents = AgentsOf(r)
         /\ DOMAIN Applied(r) = {"agents", "subs", "rows"}
         /\ DOMAIN Applied(r).subs = (DOMAIN db.subs) \ tx[r].gone
         /\ Applied(r).rows \subseteq RowsOf(r)
         /\ RowsOf(r) \subseteq Row
BY DEF AgentsOf, Types, Written, Write, Applied, RowsOf

\* The places a statement can lead to.
LEMMA SomePlaces ==
  {"create", "clear", "insert", "link", "target", "rename", "update", "count", "delete", "reload",
   "task", "commit", "addmcp", "dropmcp", "new", "cascade"} \subseteq Places \ {"mcp"}
BY DEF Places

LEMMA StepTypes ==
  ASSUME Types, Written, NEW r \in Requests, Step(r)
  PROVE  Types'
<1> USE SomePlaces
<1>0. req[r] \in Request /\ req[r].kind \in Kinds
  BY DEF Types, Request
<1>1. CASE ReadForCreate(r)
  <2>1. CASE ~Fail(r)
    <3> DEFINE new == [req[r] EXCEPT !.at = "clear", !.wants = @ \/ DOMAIN db.agents = {},
                                     !.mine = Defaults(db.agents)]
    <3>1. req' = [req EXCEPT ![r] = new] /\ Keep
      BY <1>1, <2>1 DEF ReadForCreate, Types
    <3>2. new \in Request
      BY <1>0 DEF Types, Request, Defaults
    <3> QED BY <3>1, <3>2, ReadTypes
  <2> QED BY <2>1, FailTypes
<1>2. CASE ReadForUpdate(r)
  <2>1. CASE ~Fail(r)
    <3> DEFINE new == [req[r] EXCEPT !.at = IF req[r].wants THEN "clear" ELSE "rename",
                                     !.mine = Defaults(db.agents)]
    <3>1. req' = [req EXCEPT ![r] = new] /\ Keep
      BY <1>2, <2>1 DEF ReadForUpdate, Types
    <3>2. new \in Request
      BY <1>0 DEF Types, Request, Defaults
    <3> QED BY <3>1, <3>2, ReadTypes
  <2> QED BY <2>1, FailTypes
<1>3. CASE Clear(r)
  BY <1>3, FailTypes, GoTypes DEF Clear
<1>4. CASE Insert(r)
  <2>1. PICK a \in Agents :
           \/ /\ req' = [req EXCEPT ![r].at = "link", ![r].agent = a]
              /\ Keep
           \/ Go(r, "reload") /\ Keep
           \/ Fail(r)
    BY <1>4 DEF Insert
  <2>2. CASE req' = [req EXCEPT ![r].at = "link", ![r].agent = a] /\ Keep
    <3> DEFINE new == [req[r] EXCEPT !.at = "link", !.agent = a]
    <3>1. req' = [req EXCEPT ![r] = new] /\ Keep
      BY <2>2 DEF Types
    <3>2. new \in Request
      BY <1>0 DEF Request
    <3> QED BY <3>1, <3>2, ReadTypes
  <2> QED BY <2>1, <2>2, FailTypes, GoTypes
<1>5. CASE Target(r)
  BY <1>5, FailTypes, GoTypes DEF Target
<1>6. CASE Rename(r)
  BY <1>6, FailTypes, GoTypes DEF Rename
<1>7. CASE Count(r)
  BY <1>7, FailTypes, GoTypes DEF Count
<1>8. CASE DeleteRow(r)
  BY <1>8, FailTypes, GoTypes DEF DeleteRow
<1>9. CASE LinkSubagents(r)
  <2>1. CASE LinkNext(r)
    <3>1. Fail(r) \/ (UNCHANGED req /\ Keep)
      BY <2>1 DEF LinkNext
    <3>2. ASSUME UNCHANGED req, Keep PROVE Types'
      BY <3>2 DEF Types, Keep
    <3> QED BY <3>1, <3>2, FailTypes
  <2>2. CASE Go(r, IF req[r].kind = "submit" THEN "task" ELSE "commit") /\ Keep
    BY <2>2, GoTypes
  <2> QED BY <1>9, <2>1, <2>2 DEF LinkSubagents
<1>10. CASE ReadForAttach(r)
  BY <1>10, FailTypes, GoTypes DEF ReadForAttach
<1>11. CASE Unlink(r)
  BY <1>11, GoTypes DEF Unlink
<1>12. CASE ReadLink(r)
  <2>1. req[r].kind \in {"addmcp", "dropmcp"}
    BY <1>0, <1>12 DEF ReadLink, Request
  <2> QED BY <1>12, <2>1, FailTypes, GoTypes DEF ReadLink
<1>13. CASE AddMcp(r)
  BY <1>13, FailTypes, GoTypes DEF AddMcp
<1>14. CASE RemoveMcp(r)
  BY <1>14, GoTypes DEF RemoveMcp
<1>15. CASE Resolve(r)
  <2>1. CASE Fail(r)
    BY <2>1, FailTypes
  <2>2. CASE Go(r, "task") /\ Keep
    BY <2>2, GoTypes
  <2>3. CASE /\ Defaults(db.agents) # {}
             /\ req' = [req EXCEPT ![r].at = "task",
                                   ![r].agent = CHOOSE d \in Defaults(db.agents) : TRUE]
             /\ Keep
    <3> DEFINE d == CHOOSE d \in Defaults(db.agents) : TRUE
               new == [req[r] EXCEPT !.at = "task", !.agent = d]
    <3>1. d \in Agents
      BY <2>3 DEF Defaults, Types
    <3> HIDE DEF d
    <3>2. new \in Request
      BY <1>0, <3>1 DEF Request
    <3>3. req' = [req EXCEPT ![r] = new]
      BY <2>3 DEF Types, d
    <3> QED BY <2>3, <3>2, <3>3, ReadTypes
  <2>4. CASE /\ req' = [req EXCEPT ![r].at = "insert", ![r].name = TheName,
                                   ![r].wants = TRUE, ![r].subs = Active]
             /\ Keep
    <3> DEFINE new == [req[r] EXCEPT !.at = "insert", !.name = TheName, !.wants = TRUE,
                                     !.subs = Active]
    <3>1. Active \subseteq Subs
      BY DEF Active, Types
    <3>2. new \in Request
      BY <1>0, <3>1 DEF Request, Names
    <3>3. req' = [req EXCEPT ![r] = new]
      BY <2>4 DEF Types
    <3> QED BY <2>4, <3>2, <3>3, ReadTypes
  <2> QED BY <1>15, <2>1, <2>2, <2>3, <2>4 DEF Resolve
<1>16. CASE Reload(r)
  <2>1. CASE ~Fail(r)
    <3> DEFINE d == CHOOSE d \in Defaults(db.agents) : TRUE
               new == [req[r] EXCEPT !.at = "task", !.subs = {}, !.agent = d]
    <3>1. Defaults(db.agents) # {} /\ Keep
      BY <1>16, <2>1 DEF Reload
    <3>2. req' = [req EXCEPT ![r] = new]
      BY <1>16, <2>1 DEF Reload, Types
    <3>3. d \in Agents
      BY <3>1 DEF Defaults, Types
    <3> HIDE DEF d
    <3>4. new \in Request
      BY <1>0, <3>3 DEF Request
    <3> QED BY <3>1, <3>2, <3>4, ReadTypes
  <2> QED BY <2>1, FailTypes
<1>17. CASE InsertTask(r)
  BY <1>17, FailTypes, GoTypes DEF InsertTask
<1>18. CASE DeleteOld(r)
  BY <1>18, FailTypes, GoTypes DEF DeleteOld
<1>19. CASE InsertNew(r)
  <2>1. Fail(r) \/ (Go(r, "commit") /\ Keep)
    BY <1>19 DEF InsertNew
  <2> QED BY <2>1, FailTypes, GoTypes
<1>20. CASE WriteSub(r)
  <2>1. PICK s \in req[r].subs :
           \/ Fail(r)
           \/ Finish(r, [db EXCEPT !.subs = [x \in (DOMAIN @) \cup {s} |-> x = s \/ @[x]],
                                   !.rows = @ \cup {Default(s, m) : m \in req[r].servers}])
    BY <1>20 DEF WriteSub
  <2> DEFINE answer == [db EXCEPT !.subs = [x \in (DOMAIN @) \cup {s} |-> x = s \/ @[x]],
                                  !.rows = @ \cup {Default(s, m) : m \in req[r].servers}]
  <2>2. DOMAIN answer = DOMAIN db /\ answer.agents = db.agents
        /\ DOMAIN answer.subs = (DOMAIN db.subs) \cup {s}
        /\ answer.rows = db.rows \cup {Default(s, m) : m \in req[r].servers}
    BY DEF Types
  <2>3. s \in Subs /\ req[r].servers \subseteq Mcps
    BY <1>0, <2>1 DEF Request
  <2>4. answer.rows \subseteq Row
    BY <2>2, <2>3, RowKinds DEF Types
  <2>5. Fail(r) \/ Finish(r, answer)
    BY <2>1
  <2> HIDE DEF answer
  <2> QED BY <2>2, <2>3, <2>4, <2>5, FailTypes, FinishTypes DEF Types
<1>21. CASE WriteActive(r)
  <2>1. PICK s \in req[r].subs : Fail(r) \/ Finish(r, [db EXCEPT !.subs[s] = req[r].wants])
    BY <1>21 DEF WriteActive
  <2> DEFINE answer == [db EXCEPT !.subs[s] = req[r].wants]
  <2>2. DOMAIN answer = DOMAIN db /\ answer.agents = db.agents
        /\ DOMAIN answer.subs = DOMAIN db.subs /\ answer.rows = db.rows
    BY DEF Types
  <2>3. Fail(r) \/ Finish(r, answer)
    BY <2>1
  <2> HIDE DEF answer
  <2> QED BY <2>2, <2>3, FailTypes, FinishTypes DEF Types
<1>22. CASE LockSub(r)
  BY <1>22, FailTypes, GoTypes DEF LockSub
<1>23. CASE Cascade(r)
  BY <1>23, GoTypes DEF Cascade
<1>24. CASE AbortDeadlock(r)
  BY <1>24, FailTypes DEF AbortDeadlock
<1>25. CASE Commit(r)
  BY <1>25, SeenTypes, FinishTypes DEF Commit, Types
<1> QED
  BY <1>1, <1>2, <1>3, <1>4, <1>5, <1>6, <1>7, <1>8, <1>9, <1>10, <1>11, <1>12, <1>13, <1>14,
     <1>15, <1>16, <1>17, <1>18, <1>19, <1>20, <1>21, <1>22, <1>23, <1>24, <1>25 DEF Step
-----------------------------------------------------------------------------
\* A request that ends has written nothing.
LEMMA EndWritten ==
  ASSUME Types, Written, NEW r \in Requests, NEW new,
         tx' = [tx EXCEPT ![r] = NoWrites], req' = [req EXCEPT ![r] = new]
  PROVE  Written'
<1>1. Write(NoWrites) /\ Staged(new.at, NoWrites)
  BY NoWriteAtAll DEF Write, Staged, WriteFields
<1>2. tx'[r] = NoWrites /\ req'[r] = new
  BY DEF Written, Types
<1>3. \A q \in Requests \ {r} : tx'[q] = tx[q] /\ req'[q] = req[q]
  BY DEF Written, Types
<1> QED BY <1>1, <1>2, <1>3 DEF Written

LEMMA FailWritten ==
  ASSUME Types, Written, NEW r \in Requests, Fail(r)
  PROVE  Written'
BY EndWritten DEF Fail

LEMMA FinishWritten ==
  ASSUME Types, Written, NEW r \in Requests, NEW answer, Finish(r, answer)
  PROVE  Written'
BY EndWritten DEF Finish

\* A request that writes nothing.
LEMMA ReadWritten ==
  ASSUME Types, Written, NEW r \in Requests, NEW new, tx' = tx, req' = [req EXCEPT ![r] = new],
         Staged(new.at, tx[r])
  PROVE  Written'
BY DEF Written, Types

LEMMA GoWritten ==
  ASSUME Types, Written, NEW r \in Requests, NEW at, tx' = tx, Go(r, at), Staged(at, tx[r])
  PROVE  Written'
BY DEF Written, Types, Go, Request

\* Agents, rows, deletions.
LEMMA PutWritten ==
  ASSUME Types, Written, NEW r \in Requests, NEW e, NEW at,
         tx' = [tx EXCEPT ![r].put = e],
         \A q \in Requests \ {r} : req'[q] = req[q], req'[r].at = at,
         DOMAIN e \subseteq Agents, e \in [DOMAIN e -> AgentTable],
         tx[r].gone = {}, tx[r].ins = {} \/ at \in {"link", "task", "commit"},
         at \in {"insert", "target", "rename", "link", "task", "commit"}
  PROVE  Written'
<1>1. /\ DOMAIN tx' = Requests
      /\ \A q \in Requests \ {r} : tx'[q] = tx[q]
      /\ DOMAIN tx'[r] = WriteFields /\ tx'[r].put = e
      /\ tx'[r].gone = tx[r].gone /\ tx'[r].ins = tx[r].ins /\ tx'[r].del = tx[r].del
  BY FieldsOfWrites DEF Written, Write
<1>2. Write(tx'[r])
  BY <1>1 DEF Written, Write
<1>3. Staged(at, tx'[r])
  BY <1>1 DEF Written, Staged
<1> QED BY <1>1, <1>2, <1>3 DEF Written

LEMMA InsWritten ==
  ASSUME Types, Written, NEW r \in Requests, NEW e,
         tx' = [tx EXCEPT ![r].ins = e],
         \A q \in Requests \ {r} : req'[q] = req[q],
         e \subseteq Row, tx[r].gone = {}, req'[r].at \in {"link", "task", "commit"}
  PROVE  Written'
<1>1. /\ DOMAIN tx' = Requests
      /\ \A q \in Requests \ {r} : tx'[q] = tx[q]
      /\ DOMAIN tx'[r] = WriteFields /\ tx'[r].put = tx[r].put
      /\ tx'[r].gone = tx[r].gone /\ tx'[r].ins = e /\ tx'[r].del = tx[r].del
  BY FieldsOfWrites DEF Written, Write
<1>2. Write(tx'[r])
  BY <1>1 DEF Written, Write
<1>3. Staged(req'[r].at, tx'[r])
  BY <1>1 DEF Written, Staged
<1> QED BY <1>1, <1>2, <1>3 DEF Written

LEMMA DelWritten ==
  ASSUME Types, Written, NEW r \in Requests, NEW e,
         tx' = [tx EXCEPT ![r].del = e],
         \A q \in Requests \ {r} : req'[q] = req[q], Staged(req'[r].at, tx[r])
  PROVE  Written'
<1>1. /\ DOMAIN tx' = Requests
      /\ \A q \in Requests \ {r} : tx'[q] = tx[q]
      /\ DOMAIN tx'[r] = WriteFields /\ tx'[r].put = tx[r].put
      /\ tx'[r].gone = tx[r].gone /\ tx'[r].ins = tx[r].ins
  BY FieldsOfWrites DEF Written, Write
<1>2. Write(tx'[r])
  BY <1>1 DEF Written, Write
<1>3. Staged(req'[r].at, tx'[r])
  BY <1>1 DEF Staged
<1> QED BY <1>1, <1>2, <1>3 DEF Written

LEMMA GoneWritten ==
  ASSUME Types, Written, NEW r \in Requests, NEW e,
         tx' = [tx EXCEPT ![r].gone = e],
         \A q \in Requests \ {r} : req'[q] = req[q], req'[r].at \in {"cascade", "commit"},
         e \subseteq Agents \cup Subs, DOMAIN tx[r].put = {}, tx[r].ins = {}
  PROVE  Written'
<1>1. /\ DOMAIN tx' = Requests
      /\ \A q \in Requests \ {r} : tx'[q] = tx[q]
      /\ DOMAIN tx'[r] = WriteFields /\ tx'[r].put = tx[r].put
      /\ tx'[r].gone = e /\ tx'[r].ins = tx[r].ins
  BY FieldsOfWrites DEF Written, Write
<1>2. Write(tx'[r])
  BY <1>1 DEF Written, Write
<1>3. Staged(req'[r].at, tx'[r])
  BY <1>1 DEF Staged
<1> QED BY <1>1, <1>2, <1>3 DEF Written

\* Going on leaves the other requests where they are.
LEMMA GoMoves ==
  ASSUME Types, NEW r \in Requests, NEW at, Go(r, at)
  PROVE  (\A q \in Requests \ {r} : req'[q] = req[q]) /\ req'[r].at = at
BY DEF Types, Go, Request

\* Every step of a request, and its beginning, keep the stages of its writes.
LEMMA AskWritten ==
  ASSUME Types, Written, NEW r \in Requests, Ask(r)
  PROVE  Written'
<1>1. PICK new : Begin(r, new)
  BY DEF Ask, AskAgents, AskLinks, AskCatalog, Create, Update, Delete, Attach, Detach, Toggle,
         Submit, SetDefaults, NewSub, SetActive, DeleteSub
<1>2. Staged(new.at, tx[r])
  BY <1>1 DEF Begin, Written, Staged
<1> QED BY <1>1, <1>2, ReadWritten DEF Begin

LEMMA StepWritten ==
  ASSUME Types, Written, NEW r \in Requests, Step(r)
  PROVE  Written'
<1>0. req[r] \in Request /\ Write(tx[r]) /\ Staged(req[r].at, tx[r])
  BY DEF Types, Written
<1>1. CASE ReadForCreate(r)
  <2>1. CASE ~Fail(r)
    <3> DEFINE new == [req[r] EXCEPT !.at = "clear", !.wants = @ \/ DOMAIN db.agents = {},
                                     !.mine = Defaults(db.agents)]
    <3>1. req' = [req EXCEPT ![r] = new] /\ tx' = tx /\ req[r].at = "create"
      BY <1>1, <2>1 DEF ReadForCreate, Types, NoWrite
    <3>2. Staged(new.at, tx[r])
      BY <1>0, <3>1 DEF Staged, Request
    <3> QED BY <3>1, <3>2, ReadWritten
  <2> QED BY <2>1, FailWritten
<1>2. CASE ReadForUpdate(r)
  <2>1. CASE ~Fail(r)
    <3> DEFINE new == [req[r] EXCEPT !.at = IF req[r].wants THEN "clear" ELSE "rename",
                                     !.mine = Defaults(db.agents)]
    <3>1. req' = [req EXCEPT ![r] = new] /\ tx' = tx /\ req[r].at = "update"
      BY <1>2, <2>1 DEF ReadForUpdate, Types, NoWrite
    <3>2. Staged(new.at, tx[r])
      BY <1>0, <3>1 DEF Staged, Request
    <3> QED BY <3>1, <3>2, ReadWritten
  <2> QED BY <2>1, FailWritten
<1>3. CASE Clear(r)
  <2> DEFINE old == IF req[r].wants THEN req[r].mine ELSE {}
             e == [a \in old |-> [db.agents[a] EXCEPT !.dflt = FALSE]]
             at == IF req[r].kind = "create" THEN "insert" ELSE "target"
  <2>1. CASE ~Fail(r)
    <3>1. tx' = [tx EXCEPT ![r].put = e] /\ Go(r, at) /\ old \subseteq DOMAIN db.agents
      BY <1>3, <2>1 DEF Clear
    <3>2. DOMAIN e = old /\ e \in [old -> AgentTable]
      BY <3>1 DEF Types, AgentTable
    <3>3. tx[r].gone = {} /\ tx[r].ins = {}
      BY <1>0, <1>3 DEF Clear, Staged
    <3>4. DOMAIN e \subseteq Agents
      BY <3>1, <3>2 DEF Types
    <3> HIDE DEF e, old
    <3> QED BY <3>1, <3>2, <3>3, <3>4, GoMoves, PutWritten
  <2> QED BY <2>1, FailWritten
<1>4. CASE Insert(r)
  <2> DEFINE new == [name |-> req[r].name, dflt |-> req[r].wants]
  <2>1. PICK a \in Agents :
           \/ /\ tx' = [tx EXCEPT ![r].put = With(@, a, new)]
              /\ req' = [req EXCEPT ![r].at = "link", ![r].agent = a]
           \/ tx' = [tx EXCEPT ![r] = NoWrites] /\ Go(r, "reload")
           \/ Fail(r)
    BY <1>4 DEF Insert
  <2>2. CASE /\ tx' = [tx EXCEPT ![r].put = With(@, a, new)]
             /\ req' = [req EXCEPT ![r].at = "link", ![r].agent = a]
    <3> DEFINE e == With(tx[r].put, a, new)
    <3>1. DOMAIN e \subseteq Agents /\ e \in [DOMAIN e -> AgentTable]
      BY <1>0 DEF With, Write, AgentTable, Request
    <3>2. tx[r].gone = {}
      BY <1>0, <1>4 DEF Insert, Staged
    <3>3. req'[r].at = "link" /\ \A q \in Requests \ {r} : req'[q] = req[q]
      BY <2>2 DEF Types, Request
    <3>4. tx' = [tx EXCEPT ![r].put = e]
      BY <2>2
    <3> HIDE DEF e
    <3> QED BY <3>1, <3>2, <3>3, <3>4, PutWritten
  <2>3. CASE tx' = [tx EXCEPT ![r] = NoWrites] /\ Go(r, "reload")
    <3>1. \E q : req' = [req EXCEPT ![r] = q]
      BY <2>3 DEF Go, Types
    <3> QED BY <2>3, <3>1, EndWritten
  <2> QED BY <2>1, <2>2, <2>3, FailWritten
<1>5. CASE Target(r)
  <2> DEFINE a == req[r].agent
             new == [AgentsOf(r)[a] EXCEPT !.dflt = TRUE]
             e == With(tx[r].put, a, new)
  <2>1. CASE ~Fail(r)
    <3>1. tx' = [tx EXCEPT ![r].put = e] /\ Go(r, "rename") /\ a \in DOMAIN AgentsOf(r)
      BY <1>5, <2>1 DEF Target
    <3>2. AgentsOf(r)[a] \in AgentTable /\ a \in Agents
      BY <3>1, SeenTypes
    <3>5. new \in AgentTable
      BY <3>2 DEF AgentTable
    <3> HIDE DEF new
    <3>3. DOMAIN e \subseteq Agents /\ e \in [DOMAIN e -> AgentTable]
      BY <1>0, <3>2, <3>5 DEF With, Write
    <3>4. tx[r].gone = {} /\ tx[r].ins = {}
      BY <1>0, <1>5 DEF Target, Staged
    <3> HIDE DEF e
    <3> QED BY <3>1, <3>3, <3>4, GoMoves, PutWritten
  <2> QED BY <2>1, FailWritten
<1>6. CASE Rename(r)
  <2> DEFINE a == req[r].agent
             new == [AgentsOf(r)[a] EXCEPT !.name = req[r].name]
             e == With(tx[r].put, a, new)
  <2>1. tx[r].gone = {} /\ tx[r].ins = {}
    BY <1>0, <1>6 DEF Rename, Staged
  <2>2. CASE Go(r, "commit") /\ NoWrite
    <3>1. Staged("commit", tx[r])
      BY <2>1 DEF Staged
    <3> QED BY <2>2, <3>1, GoWritten DEF NoWrite
  <2>3. CASE /\ tx' = [tx EXCEPT ![r].put = e] /\ Go(r, "commit")
             /\ a \in DOMAIN AgentsOf(r)
    <3>2. new \in AgentTable /\ a \in Agents
      BY <1>0, <2>3, SeenTypes DEF AgentTable, Request
    <3> HIDE DEF new
    <3>3. DOMAIN e \subseteq Agents /\ e \in [DOMAIN e -> AgentTable]
      BY <1>0, <3>2 DEF With, Write
    <3> HIDE DEF e
    <3> QED BY <2>1, <2>3, <3>3, GoMoves, PutWritten
  <2> QED BY <1>6, <2>2, <2>3, FailWritten DEF Rename
<1>7. CASE Count(r)
  <2>1. Fail(r) \/ (Go(r, "delete") /\ tx' = tx /\ req[r].at = "count")
    BY <1>7 DEF Count, NoWrite
  <2> QED BY <1>0, <2>1, FailWritten, GoWritten DEF Staged
<1>8. CASE DeleteRow(r)
  <2> DEFINE e == {req[r].agent} \cap DOMAIN db.agents
  <2>1. Fail(r) \/ (tx' = [tx EXCEPT ![r].gone = e] /\ Go(r, "commit"))
    BY <1>8 DEF DeleteRow
  <2>2. e \subseteq Agents \cup Subs
    BY DEF Types
  <2>3. DOMAIN tx[r].put = {} /\ tx[r].ins = {}
    BY <1>0, <1>8 DEF DeleteRow, Staged
  <2> HIDE DEF e
  <2> QED BY <2>1, <2>2, <2>3, FailWritten, GoneWritten, GoMoves
<1>9. CASE LinkSubagents(r)
  <2>1. tx[r].gone = {} /\ req[r].at = "link"
    BY <1>0, <1>9 DEF LinkSubagents, Staged
  <2>2. CASE LinkNext(r)
    <3>1. PICK s \in req[r].subs :
             \/ Fail(r)
             \/ /\ tx' = [tx EXCEPT ![r].ins = @ \cup LinkRows(r, s)]
                /\ req' = req /\ req[r].agent \in DOMAIN AgentsOf(r)
      BY <2>2 DEF LinkNext
    <3> DEFINE e == tx[r].ins \cup LinkRows(r, s)
    <3>2. s \in Subs /\ Servers(db.rows, s) \subseteq Mcps
      <4>1. \A row \in Row : row[1] = "default" => row[3] \in Mcps
        BY DEF Row, Link, Mcp, Task, Default
      <4> QED BY <1>0, <3>1, <4>1 DEF Servers, Request, Types
    <3>3. CASE req[r].agent \in Agents
      <4>1. e \subseteq Row
        BY <1>0, <3>2, <3>3, RowKinds DEF LinkRows, Write
      <4>2. Fail(r) \/ (tx' = [tx EXCEPT ![r].ins = e] /\ req' = req)
        BY <3>1
      <4> HIDE DEF e
      <4> QED BY <2>1, <4>1, <4>2, FailWritten, InsWritten
    <3> QED BY <3>1, <3>3, FailWritten, SeenTypes
  <2>3. CASE Go(r, IF req[r].kind = "submit" THEN "task" ELSE "commit") /\ NoWrite
    <3>1. Staged("task", tx[r]) /\ Staged("commit", tx[r])
      BY <1>0, <2>1 DEF Staged
    <3> QED BY <2>3, <3>1, GoWritten DEF NoWrite
  <2> QED BY <1>9, <2>2, <2>3 DEF LinkSubagents
<1>10. CASE ReadForAttach(r)
  <2>1. Fail(r) \/ (Go(r, "link") /\ tx' = tx /\ req[r].at = "attach")
    BY <1>10 DEF ReadForAttach, NoWrite
  <2> QED BY <1>0, <2>1, FailWritten, GoWritten DEF Staged
<1>11. CASE Unlink(r)
  <2>1. PICK e : tx' = [tx EXCEPT ![r].del = e] /\ Go(r, "commit") /\ req[r].at = "detach"
    BY <1>11 DEF Unlink
  <2>2. Staged("commit", tx[r])
    BY <1>0, <2>1 DEF Staged
  <2> QED BY <2>1, <2>2, DelWritten, GoMoves
<1>12. CASE ReadLink(r)
  <2>1. req[r].kind \in {"addmcp", "dropmcp"}
    BY <1>0, <1>12 DEF ReadLink, Request
  <2>2. Fail(r) \/ (Go(r, req[r].kind) /\ tx' = tx /\ req[r].at = "mcp")
    BY <1>12 DEF ReadLink, NoWrite
  <2> QED BY <1>0, <2>1, <2>2, FailWritten, GoWritten DEF Staged
<1>13. CASE AddMcp(r)
  <2>1. PICK row \in McpRows(r) :
           \/ Fail(r)
           \/ tx' = [tx EXCEPT ![r].ins = {row}] /\ Go(r, "commit") /\ Link(row[2], row[3]) \in db.rows
    BY <1>13 DEF AddMcp
  <2>2. tx[r].gone = {}
    BY <1>0, <1>13 DEF AddMcp, Staged
  <2>3. ASSUME Link(row[2], row[3]) \in db.rows
        PROVE  row \in Row
    <3>1. PICK s \in Subs, m \in Mcps : row = Mcp(req[r].agent, s, m)
      BY <1>0, <2>1 DEF McpRows, Request
    <3>2. row[2] = req[r].agent
      BY <3>1 DEF Mcp
    <3>3. \A x, y : Link(x, y) \in Row => x \in Agents
      BY DEF Row, Link, Mcp, Task, Default
    <3> QED BY <2>3, <3>1, <3>2, <3>3, RowKinds DEF Types
  <2> QED BY <2>1, <2>2, <2>3, FailWritten, InsWritten, GoMoves
<1>14. CASE RemoveMcp(r)
  <2>1. PICK e : tx' = [tx EXCEPT ![r].del = e] /\ Go(r, "commit") /\ req[r].at = "dropmcp"
    BY <1>14 DEF RemoveMcp
  <2>2. Staged("commit", tx[r])
    BY <1>0, <2>1 DEF Staged
  <2> QED BY <2>1, <2>2, DelWritten, GoMoves
<1>15. CASE Resolve(r)
  <2>1. CASE ~Fail(r)
    <3>1. tx' = tx /\ req[r].at = "get" /\ (\A q \in Requests \ {r} : req'[q] = req[q])
          /\ req'[r].at \in {"task", "insert"} /\ DOMAIN req' = Requests
      BY <1>15, <2>1 DEF Resolve, NoWrite, Types, Go, Request
    <3>2. Staged(req'[r].at, tx[r])
      BY <1>0, <3>1 DEF Staged
    <3> QED BY <3>1, <3>2 DEF Written
  <2> QED BY <2>1, FailWritten
<1>16. CASE Reload(r)
  <2>1. CASE ~Fail(r)
    <3>1. tx' = tx /\ req[r].at = "reload" /\ (\A q \in Requests \ {r} : req'[q] = req[q])
          /\ req'[r].at = "task" /\ DOMAIN req' = Requests
      BY <1>16, <2>1 DEF Reload, NoWrite, Types, Go, Request
    <3>2. Staged(req'[r].at, tx[r])
      BY <1>0, <3>1 DEF Staged
    <3> QED BY <3>1, <3>2 DEF Written
  <2> QED BY <2>1, FailWritten
<1>17. CASE InsertTask(r)
  <2> DEFINE e == tx[r].ins \cup {Task(req[r].agent)}
  <2>1. \/ Fail(r)
        \/ tx' = [tx EXCEPT ![r].ins = e] /\ Go(r, "commit") /\ req[r].agent \in DOMAIN AgentsOf(r)
    BY <1>17 DEF InsertTask
  <2>2. tx[r].gone = {}
    BY <1>0, <1>17 DEF InsertTask, Staged
  <2>3. ASSUME req[r].agent \in Agents PROVE e \subseteq Row
    BY <1>0, <2>3, RowKinds DEF Write
  <2> HIDE DEF e
  <2> QED BY <2>1, <2>2, <2>3, FailWritten, InsWritten, GoMoves, SeenTypes
<1>18. CASE DeleteOld(r)
  <2>1. Fail(r) \/ \E e : tx' = [tx EXCEPT ![r].del = e] /\ Go(r, "new")
    BY <1>18 DEF DeleteOld
  <2>2. Staged("new", tx[r])
    BY <1>0, <1>18 DEF Staged, DeleteOld
  <2> QED BY <2>1, <2>2, FailWritten, DelWritten, GoMoves
<1>19. CASE InsertNew(r)
  <2> DEFINE e == {Default(s, m) : s \in req[r].subs, m \in req[r].servers}
  <2>1. Fail(r) \/ (tx' = [tx EXCEPT ![r].ins = e] /\ Go(r, "commit"))
    BY <1>19 DEF InsertNew
  <2>2. tx[r].gone = {}
    BY <1>0, <1>19 DEF InsertNew, Staged
  <2>3. e \subseteq Row
    BY <1>0, RowKinds DEF Request
  <2> HIDE DEF e
  <2> QED BY <2>1, <2>2, <2>3, FailWritten, InsWritten, GoMoves
<1>20. CASE WriteSub(r)
  BY <1>20, FailWritten, FinishWritten DEF WriteSub
<1>21. CASE WriteActive(r)
  BY <1>21, FailWritten, FinishWritten DEF WriteActive
<1>22. CASE LockSub(r)
  <2>1. PICK s \in req[r].subs : Fail(r) \/ (tx' = [tx EXCEPT ![r].gone = {s}] /\ Go(r, "cascade"))
    BY <1>22 DEF LockSub
  <2>2. {s} \subseteq Agents \cup Subs
    BY <1>0, <2>1 DEF Request
  <2>3. DOMAIN tx[r].put = {} /\ tx[r].ins = {}
    BY <1>0, <1>22 DEF LockSub, Staged
  <2> QED BY <2>1, <2>2, <2>3, FailWritten, GoneWritten, GoMoves
<1>23. CASE Cascade(r)
  <2>1. Go(r, "commit") /\ tx' = tx /\ req[r].at = "cascade"
    BY <1>23 DEF Cascade, NoWrite
  <2>2. Staged("commit", tx[r])
    BY <1>0, <2>1 DEF Staged
  <2> QED BY <2>1, <2>2, GoWritten
<1>24. CASE AbortDeadlock(r)
  BY <1>24, FailWritten DEF AbortDeadlock
<1>25. CASE Commit(r)
  BY <1>25, FinishWritten DEF Commit
<1> QED
  BY <1>1, <1>2, <1>3, <1>4, <1>5, <1>6, <1>7, <1>8, <1>9, <1>10, <1>11, <1>12, <1>13, <1>14,
     <1>15, <1>16, <1>17, <1>18, <1>19, <1>20, <1>21, <1>22, <1>23, <1>24, <1>25 DEF Step

-----------------------------------------------------------------------------
(* The locks and the unique indexes.                                       *)

\* A row is changed by one request at a time.
Changed(r) == DOMAIN tx[r].put \cup tx[r].gone
Exclusive ==
  /\ \A r \in Requests : tx[r].gone \subseteq DOMAIN db.agents \cup DOMAIN db.subs
  /\ \A r, q \in Requests : r # q => Changed(r) \cap Changed(q) = {}
\* No request sees two agents with a name, or two default ones, or writes one that clashes with
\* one that another writes.
Distinct ==
  /\ Unique(db.agents)
  /\ \A r \in Requests : Unique(AgentsOf(r))
  /\ \A r, q \in Requests : r # q =>
        \A a \in DOMAIN tx[r].put, b \in DOMAIN tx[q].put : ~Clashing(tx[r].put[a], tx[q].put[b])

\* The agents a request sees are the committed ones with its own on top.
LEMMA SeenAgents ==
  ASSUME NEW r
  PROVE  /\ DOMAIN AgentsOf(r) = (DOMAIN db.agents \cup DOMAIN tx[r].put) \ tx[r].gone
         /\ \A a \in DOMAIN AgentsOf(r) :
              AgentsOf(r)[a] = IF a \in DOMAIN tx[r].put THEN tx[r].put[a] ELSE db.agents[a]
BY DEF AgentsOf

\* The two hold from the beginning.
LEMMA InitDistinct ==
  ASSUME Init
  PROVE  Exclusive /\ Distinct
<1>1. PICK agents \in Starts : db.agents = agents
  BY DEF Init, Tables
<1>2. Unique(db.agents)
  BY <1>1, StartsAssumption
<1>3. \A r \in Requests : DOMAIN tx[r].put = {} /\ tx[r].gone = {}
  BY NoWriteAtAll DEF Init
<1>4. Exclusive
  BY <1>3 DEF Exclusive, Changed
<1>5. \A r \in Requests : Unique(AgentsOf(r))
  BY <1>2, <1>3, SeenAgents DEF Unique
<1> QED BY <1>2, <1>3, <1>4, <1>5 DEF Distinct

\* Statements that write no agent.
LEMMA SameDistinct ==
  ASSUME Exclusive, Distinct, db'.agents = db.agents, DOMAIN db.subs \subseteq DOMAIN db'.subs,
         \A r \in Requests : tx'[r].put = tx[r].put /\ tx'[r].gone = tx[r].gone
  PROVE  Exclusive' /\ Distinct'
<1>1. Exclusive'
  BY DEF Exclusive, Changed
<1>2. \A r \in Requests : AgentsOf(r)' = AgentsOf(r)
  BY DEF AgentsOf
<1> QED BY <1>1, <1>2 DEF Distinct, Unique

\* A transaction that is rolled back.
LEMMA EndDistinct ==
  ASSUME Exclusive, Distinct, Written, NEW r \in Requests,
         db'.agents = db.agents, DOMAIN db.subs \subseteq DOMAIN db'.subs,
         tx' = [tx EXCEPT ![r] = NoWrites]
  PROVE  Exclusive' /\ Distinct'
<1>1. /\ DOMAIN tx'[r].put = {} /\ tx'[r].gone = {}
      /\ \A q \in Requests \ {r} : tx'[q] = tx[q]
  BY NoWriteAtAll DEF Written
<1>2. Exclusive'
  BY <1>1 DEF Exclusive, Changed
<1>3. \A q \in Requests \ {r} : AgentsOf(q)' = AgentsOf(q)
  BY <1>1 DEF AgentsOf
<1>4. DOMAIN AgentsOf(r)' = DOMAIN db.agents /\ \A a \in DOMAIN db.agents : AgentsOf(r)'[a] = db.agents[a]
  BY <1>1 DEF AgentsOf
<1>5. Unique(AgentsOf(r))'
  BY <1>4 DEF Distinct, Unique
<1> QED BY <1>1, <1>2, <1>3, <1>5 DEF Distinct, Unique

\* One agent is written.
LEMMA PutDistinct ==
  ASSUME Exclusive, Distinct, Written, NEW r \in Requests, NEW a, NEW new,
         db' = db, tx' = [tx EXCEPT ![r].put = With(@, a, new)], tx[r].gone = {},
         \A q \in Requests \ {r} : a \notin Changed(q),
         Rivals(r, a, new) = {}, ~Waits(r, a, new)
  PROVE  Exclusive' /\ Distinct'
<1>1. /\ \A q \in Requests \ {r} : tx'[q] = tx[q]
      /\ tx'[r].put = With(tx[r].put, a, new) /\ tx'[r].gone = tx[r].gone
  BY FieldsOfWrites DEF Written, Write
<1>2. /\ DOMAIN tx'[r].put = DOMAIN tx[r].put \cup {a}
      /\ \A x \in DOMAIN tx'[r].put : tx'[r].put[x] = IF x = a THEN new ELSE tx[r].put[x]
  BY <1>1 DEF With
<1>3. Exclusive'
  BY <1>1, <1>2 DEF Exclusive, Changed
<1>4. \A q \in Requests \ {r} : AgentsOf(q)' = AgentsOf(q)
  BY <1>1 DEF AgentsOf
<1>5. /\ DOMAIN AgentsOf(r)' = DOMAIN AgentsOf(r) \cup {a}
      /\ \A x \in DOMAIN AgentsOf(r)' : AgentsOf(r)'[x] = IF x = a THEN new ELSE AgentsOf(r)[x]
  BY <1>1, <1>2 DEF AgentsOf
<1>6. \A b \in DOMAIN AgentsOf(r) \ {a} : ~Clashing(new, AgentsOf(r)[b])
  BY DEF Rivals
<1>7. Unique(AgentsOf(r))'
  <2>1. \A x, y : Clashing(x, y) <=> Clashing(y, x)
    BY DEF Clashing
  <2> QED BY <1>5, <1>6, <2>1 DEF Distinct, Unique
<1>8. \A q \in Requests \ {r} : \A b \in DOMAIN tx[q].put :
         ~Clashing(new, tx[q].put[b]) /\ ~Clashing(tx[q].put[b], new)
  BY DEF Waits, Clashing
<1>9. \A p, q \in Requests : p # q =>
         \A x \in DOMAIN tx'[p].put, y \in DOMAIN tx'[q].put : ~Clashing(tx'[p].put[x], tx'[q].put[y])
  BY <1>1, <1>2, <1>8 DEF Distinct
<1> QED BY <1>3, <1>4, <1>7, <1>9 DEF Distinct, Unique

\* The defaults that were read are cleared.
LEMMA ClearDistinct ==
  ASSUME Types, Exclusive, Distinct, Written, NEW r \in Requests, NEW old,
         db' = db, tx' = [tx EXCEPT ![r].put = [a \in old |-> [db.agents[a] EXCEPT !.dflt = FALSE]]],
         DOMAIN tx[r].put = {}, tx[r].gone = {}, old \subseteq DOMAIN db.agents,
         \A q \in Requests \ {r} : old \cap Changed(q) = {}
  PROVE  Exclusive' /\ Distinct'
<1> DEFINE e == [a \in old |-> [db.agents[a] EXCEPT !.dflt = FALSE]]
<1>1. /\ \A q \in Requests \ {r} : tx'[q] = tx[q]
      /\ tx'[r].put = e /\ tx'[r].gone = tx[r].gone
  BY FieldsOfWrites DEF Written, Write
<1>2. DOMAIN e = old /\ \A a \in old : e[a].name = db.agents[a].name /\ e[a].dflt = FALSE
  BY DEF Types, AgentTable
<1> HIDE DEF e
<1>3. Exclusive'
  BY <1>1, <1>2 DEF Exclusive, Changed
<1>4. \A q \in Requests \ {r} : AgentsOf(q)' = AgentsOf(q)
  BY <1>1 DEF AgentsOf
<1>5. /\ DOMAIN AgentsOf(r)' = DOMAIN db.agents
      /\ \A x \in DOMAIN db.agents : AgentsOf(r)'[x] = IF x \in old THEN e[x] ELSE db.agents[x]
  <2>1. tx'[r].gone = {} /\ DOMAIN tx'[r].put = old /\ db'.agents = db.agents
    BY <1>1, <1>2
  <2>2. /\ DOMAIN AgentsOf(r)' = (DOMAIN db'.agents \cup DOMAIN tx'[r].put) \ tx'[r].gone
        /\ \A x \in DOMAIN AgentsOf(r)' :
             AgentsOf(r)'[x] = IF x \in DOMAIN tx'[r].put THEN tx'[r].put[x] ELSE db'.agents[x]
    BY DEF AgentsOf
  <2>3. (DOMAIN db.agents \cup old) \ {} = DOMAIN db.agents
    OBVIOUS
  <2>4. DOMAIN AgentsOf(r)' = DOMAIN db.agents
    BY <2>1, <2>2, <2>3
  <2> QED BY <1>1, <2>1, <2>2, <2>4
<1>6. \A x, y \in DOMAIN db.agents : x # y => ~Clashing(db.agents[x], db.agents[y])
  BY DEF Distinct, Unique
<1>7. Unique(AgentsOf(r))'
  BY <1>2, <1>5, <1>6 DEF Unique, Clashing
<1>8. \A q \in Requests \ {r} : \A a \in old, b \in DOMAIN tx[q].put :
         ~Clashing(e[a], tx[q].put[b]) /\ ~Clashing(tx[q].put[b], e[a])
  <2> SUFFICES ASSUME NEW q \in Requests \ {r}, NEW a \in old, NEW b \in DOMAIN tx[q].put
               PROVE  ~Clashing(e[a], tx[q].put[b]) /\ ~Clashing(tx[q].put[b], e[a])
    OBVIOUS
  <2>1. b # a /\ a \in DOMAIN AgentsOf(q) /\ AgentsOf(q)[a] = db.agents[a]
    BY SeenAgents DEF Changed
  <2>2. b \in DOMAIN AgentsOf(q) /\ AgentsOf(q)[b] = tx[q].put[b]
    <3>1. tx[q].gone = {}
      BY DEF Written, Staged
    <3> QED BY <3>1, SeenAgents
  <2>3. ~Clashing(db.agents[a], tx[q].put[b])
    BY <2>1, <2>2 DEF Distinct, Unique
  <2> QED BY <1>2, <2>3 DEF Clashing
<1>9. ASSUME NEW p \in Requests, NEW q \in Requests, p # q,
             NEW x \in DOMAIN tx'[p].put, NEW y \in DOMAIN tx'[q].put
      PROVE  ~Clashing(tx'[p].put[x], tx'[q].put[y])
  <2>1. CASE p = r
    <3>1. x \in old /\ tx'[p].put[x] = e[x] /\ q \in Requests \ {r} /\ tx'[q] = tx[q]
      BY <1>1, <1>2, <1>9, <2>1
    <3> QED BY <1>8, <3>1
  <2>2. CASE q = r
    <3>1. y \in old /\ tx'[q].put[y] = e[y] /\ p \in Requests \ {r} /\ tx'[p] = tx[p]
      BY <1>1, <1>2, <1>9, <2>2
    <3> QED BY <1>8, <3>1
  <2>3. CASE p # r /\ q # r
    BY <1>1, <1>9, <2>3 DEF Distinct
  <2> QED BY <2>1, <2>2, <2>3
<1> QED BY <1>3, <1>4, <1>7, <1>9 DEF Distinct, Unique

\* An agent or a subagent is deleted.
LEMMA GoneDistinct ==
  ASSUME Exclusive, Distinct, Written, NEW r \in Requests, NEW e,
         db' = db, tx' = [tx EXCEPT ![r].gone = e], DOMAIN tx[r].put = {},
         e \subseteq DOMAIN db.agents \cup DOMAIN db.subs,
         \A q \in Requests \ {r} : e \cap Changed(q) = {}
  PROVE  Exclusive' /\ Distinct'
<1>1. /\ \A q \in Requests \ {r} : tx'[q] = tx[q]
      /\ tx'[r].put = tx[r].put /\ tx'[r].gone = e
  BY FieldsOfWrites DEF Written, Write
<1>2. Exclusive'
  BY <1>1 DEF Exclusive, Changed
<1>3. \A q \in Requests \ {r} : AgentsOf(q)' = AgentsOf(q)
  BY <1>1 DEF AgentsOf
<1>4. DOMAIN AgentsOf(r)' \subseteq DOMAIN db.agents
      /\ \A a \in DOMAIN AgentsOf(r)' : AgentsOf(r)'[a] = db.agents[a]
  BY <1>1 DEF AgentsOf
<1>5. Unique(AgentsOf(r))'
  BY <1>4 DEF Distinct, Unique
<1> QED BY <1>1, <1>2, <1>3, <1>5 DEF Distinct, Unique

\* What a request wrote becomes the table.
LEMMA CommitDistinct ==
  ASSUME Types, Exclusive, Distinct, Written, NEW r \in Requests, Commit(r)
  PROVE  Exclusive' /\ Distinct'
<1>1. /\ db'.agents = AgentsOf(r) /\ DOMAIN db'.subs = (DOMAIN db.subs) \ tx[r].gone
      /\ tx' = [tx EXCEPT ![r] = NoWrites]
  BY SeenTypes DEF Commit, Finish
<1>2. /\ DOMAIN tx'[r].put = {} /\ tx'[r].gone = {}
      /\ \A q \in Requests \ {r} : tx'[q] = tx[q]
  BY <1>1, NoWriteAtAll DEF Written
<1>3. Exclusive'
  <2>1. \A q \in Requests \ {r} : tx'[q].gone \subseteq DOMAIN db'.agents \cup DOMAIN db'.subs
    <3> SUFFICES ASSUME NEW q \in Requests \ {r}, NEW x \in tx[q].gone
                 PROVE  x \in DOMAIN db'.agents \cup DOMAIN db'.subs
      BY <1>2
    <3>1. x \in DOMAIN db.agents \cup DOMAIN db.subs
      BY DEF Exclusive
    <3>2. x \notin tx[r].gone
      BY DEF Exclusive, Changed
    <3> QED BY <1>1, <3>1, <3>2, SeenAgents
  <2> QED BY <1>2, <2>1 DEF Exclusive, Changed
<1>4. Unique(db.agents)'
  BY <1>1 DEF Distinct, Unique
<1>5. Unique(AgentsOf(r))'
  <2>1. DOMAIN AgentsOf(r)' = DOMAIN db'.agents
        /\ \A a \in DOMAIN db'.agents : AgentsOf(r)'[a] = db'.agents[a]
    BY <1>2 DEF AgentsOf
  <2> QED BY <1>4, <2>1 DEF Unique
<1>6. ASSUME NEW q \in Requests \ {r}
      PROVE  Unique(AgentsOf(q))'
  <2>1. /\ DOMAIN AgentsOf(q)' = (DOMAIN AgentsOf(r) \cup DOMAIN tx[q].put) \ tx[q].gone
        /\ \A a \in DOMAIN AgentsOf(q)' :
             AgentsOf(q)'[a] = IF a \in DOMAIN tx[q].put THEN tx[q].put[a] ELSE AgentsOf(r)[a]
    BY <1>1, <1>2 DEF AgentsOf
  <2> SUFFICES ASSUME NEW a \in DOMAIN AgentsOf(q)', NEW b \in DOMAIN AgentsOf(q)', a # b
               PROVE  ~Clashing(AgentsOf(q)'[a], AgentsOf(q)'[b])
    BY DEF Unique
  <2>0. \A x, y : Clashing(x, y) <=> Clashing(y, x)
    BY DEF Clashing
  <2>2. CASE a \notin DOMAIN tx[q].put /\ b \notin DOMAIN tx[q].put
    BY <2>1, <2>2 DEF Distinct, Unique
  <2>3. CASE a \in DOMAIN tx[q].put /\ b \in DOMAIN tx[q].put
    <3>1. a \in DOMAIN AgentsOf(q) /\ b \in DOMAIN AgentsOf(q)
          /\ AgentsOf(q)[a] = tx[q].put[a] /\ AgentsOf(q)[b] = tx[q].put[b]
      BY <2>1, <2>3, SeenAgents
    <3> QED BY <2>1, <2>3, <3>1 DEF Distinct, Unique
  <2>4. ASSUME NEW x \in DOMAIN tx[q].put, NEW y \in DOMAIN AgentsOf(r),
               x \notin tx[q].gone, y \notin tx[q].gone, y \notin DOMAIN tx[q].put
        PROVE  ~Clashing(tx[q].put[x], AgentsOf(r)[y])
    <3>1. CASE y \in DOMAIN tx[r].put
      <4>1. AgentsOf(r)[y] = tx[r].put[y]
        BY <3>1, SeenAgents
      <4> QED BY <3>1, <4>1 DEF Distinct
    <3>2. CASE y \notin DOMAIN tx[r].put
      <4>0. /\ DOMAIN AgentsOf(r) = (DOMAIN db.agents \cup DOMAIN tx[r].put) \ tx[r].gone
            /\ AgentsOf(r)[y] = IF y \in DOMAIN tx[r].put THEN tx[r].put[y] ELSE db.agents[y]
        BY SeenAgents
      <4>1. y \in DOMAIN db.agents /\ AgentsOf(r)[y] = db.agents[y]
        BY <3>2, <4>0
      <4>2. x \in DOMAIN AgentsOf(q) /\ y \in DOMAIN AgentsOf(q) /\ x # y
            /\ AgentsOf(q)[x] = tx[q].put[x] /\ AgentsOf(q)[y] = db.agents[y]
        BY <2>4, <4>1, SeenAgents
      <4> QED BY <4>1, <4>2 DEF Distinct, Unique
    <3> QED BY <3>1, <3>2
  <2>5. CASE a \in DOMAIN tx[q].put /\ b \notin DOMAIN tx[q].put
    BY <2>1, <2>4, <2>5
  <2>6. CASE a \notin DOMAIN tx[q].put /\ b \in DOMAIN tx[q].put
    BY <2>0, <2>1, <2>4, <2>6
  <2> QED BY <2>2, <2>3, <2>5, <2>6
<1>7. \A p, q \in Requests : p # q =>
         \A x \in DOMAIN tx'[p].put, y \in DOMAIN tx'[q].put : ~Clashing(tx'[p].put[x], tx'[q].put[y])
  BY <1>2 DEF Distinct
<1> QED BY <1>3, <1>4, <1>5, <1>6, <1>7 DEF Distinct

\* What a statement that writes no agent does.
LEMMA RowsOnly ==
  ASSUME Types, Written, Exclusive, Distinct, NEW r \in Requests, db' = db, NEW e,
         \/ tx' = tx
         \/ tx' = [tx EXCEPT ![r].ins = e]
         \/ tx' = [tx EXCEPT ![r].del = e]
  PROVE  Exclusive' /\ Distinct'
<1>1. \A q \in Requests : tx'[q].put = tx[q].put /\ tx'[q].gone = tx[q].gone
  BY FieldsOfWrites DEF Written, Write
<1> QED BY <1>1, SameDistinct

LEMMA FailDistinct ==
  ASSUME Written, Exclusive, Distinct, NEW r \in Requests, Fail(r)
  PROVE  Exclusive' /\ Distinct'
BY EndDistinct DEF Fail, Keep

\* The statements that write rows only, and those that write nothing.
LEMMA RowSteps ==
  ASSUME NEW r \in Requests,
         \/ ReadForCreate(r) \/ ReadForUpdate(r) \/ Count(r) \/ LinkSubagents(r) \/ ReadForAttach(r)
         \/ Unlink(r) \/ ReadLink(r) \/ AddMcp(r) \/ RemoveMcp(r) \/ Resolve(r) \/ Reload(r)
         \/ InsertTask(r) \/ DeleteOld(r) \/ InsertNew(r) \/ Cascade(r) \/ AbortDeadlock(r)
  PROVE  \/ Fail(r)
         \/ /\ db' = db /\ deleted' = deleted
            /\ \E e : \/ tx' = tx
                      \/ tx' = [tx EXCEPT ![r].ins = e]
                      \/ tx' = [tx EXCEPT ![r].del = e]
<1> USE DEF Keep, NoWrite
<1>1. CASE ReadForCreate(r) \/ ReadForUpdate(r) \/ Count(r) \/ ReadForAttach(r) \/ ReadLink(r)
  BY <1>1 DEF ReadForCreate, ReadForUpdate, Count, ReadForAttach, ReadLink
<1>2. CASE Resolve(r) \/ Reload(r) \/ Cascade(r) \/ AbortDeadlock(r)
  BY <1>2 DEF Resolve, Reload, Cascade, AbortDeadlock
<1>3. CASE LinkSubagents(r)
  BY <1>3 DEF LinkSubagents, LinkNext
<1>4. CASE Unlink(r)
  BY <1>4 DEF Unlink
<1>5. CASE RemoveMcp(r)
  BY <1>5 DEF RemoveMcp
<1>6. CASE AddMcp(r)
  BY <1>6 DEF AddMcp
<1>7. CASE InsertTask(r)
  BY <1>7 DEF InsertTask
<1>8. CASE DeleteOld(r)
  BY <1>8 DEF DeleteOld
<1>9. CASE InsertNew(r)
  BY <1>9 DEF InsertNew
<1> QED
  BY <1>1, <1>2, <1>3, <1>4, <1>5, <1>6, <1>7, <1>8, <1>9

\* The two statements of the catalogue that commit at once.
LEMMA CatalogSteps ==
  ASSUME Types, NEW r \in Requests, WriteSub(r) \/ WriteActive(r)
  PROVE  \/ Fail(r)
         \/ \E answer : /\ Finish(r, answer) /\ answer.agents = db.agents
                        /\ DOMAIN db.subs \subseteq DOMAIN answer.subs
                        /\ db.rows \subseteq answer.rows
<1>1. CASE WriteSub(r)
  <2>1. PICK s \in req[r].subs :
           \/ Fail(r)
           \/ Finish(r, [db EXCEPT !.subs = [x \in (DOMAIN @) \cup {s} |-> x = s \/ @[x]],
                                   !.rows = @ \cup {Default(s, m) : m \in req[r].servers}])
    BY <1>1 DEF WriteSub
  <2> DEFINE answer == [db EXCEPT !.subs = [x \in (DOMAIN @) \cup {s} |-> x = s \/ @[x]],
                                  !.rows = @ \cup {Default(s, m) : m \in req[r].servers}]
  <2>2. answer.agents = db.agents /\ DOMAIN answer.subs = (DOMAIN db.subs) \cup {s}
        /\ answer.rows = db.rows \cup {Default(s, m) : m \in req[r].servers}
    BY DEF Types
  <2>3. Fail(r) \/ Finish(r, answer)
    BY <2>1
  <2> HIDE DEF answer
  <2> QED BY <2>2, <2>3
<1>2. CASE WriteActive(r)
  <2>1. PICK s \in req[r].subs : Fail(r) \/ Finish(r, [db EXCEPT !.subs[s] = req[r].wants])
    BY <1>2 DEF WriteActive
  <2> DEFINE answer == [db EXCEPT !.subs[s] = req[r].wants]
  <2>2. answer.agents = db.agents
        /\ DOMAIN answer.subs = DOMAIN db.subs /\ answer.rows = db.rows
    BY DEF Types
  <2>3. Fail(r) \/ Finish(r, answer)
    BY <2>1
  <2> HIDE DEF answer
  <2> QED BY <2>2, <2>3
<1> QED BY <1>1, <1>2

\* Every step of a request.
LEMMA StepDistinct ==
  ASSUME Types, Written, Exclusive, Distinct, NEW r \in Requests, Step(r)
  PROVE  Exclusive' /\ Distinct'
<1>0. req[r] \in Request /\ Write(tx[r]) /\ Staged(req[r].at, tx[r])
  BY DEF Types, Written
<1>1. CASE \/ ReadForCreate(r) \/ ReadForUpdate(r) \/ Count(r) \/ LinkSubagents(r) \/ ReadForAttach(r)
           \/ Unlink(r) \/ ReadLink(r) \/ AddMcp(r) \/ RemoveMcp(r) \/ Resolve(r) \/ Reload(r)
           \/ InsertTask(r) \/ DeleteOld(r) \/ InsertNew(r) \/ Cascade(r) \/ AbortDeadlock(r)
  BY <1>1, RowSteps, RowsOnly, FailDistinct
<1>2. CASE WriteSub(r) \/ WriteActive(r)
  <2>1. CASE Fail(r)
    BY <2>1, FailDistinct
  <2>2. CASE ~Fail(r)
    <3>1. PICK answer : /\ Finish(r, answer) /\ answer.agents = db.agents
                        /\ DOMAIN db.subs \subseteq DOMAIN answer.subs
      BY <1>2, <2>2, CatalogSteps
    <3> QED BY <3>1, EndDistinct DEF Finish
  <2> QED BY <2>1, <2>2
<1>3. CASE Commit(r)
  BY <1>3, CommitDistinct
<1>4. CASE Clear(r)
  <2> DEFINE old == IF req[r].wants THEN req[r].mine ELSE {}
  <2>1. CASE ~Fail(r)
    <3>1. /\ tx' = [tx EXCEPT ![r].put = [a \in old |-> [db.agents[a] EXCEPT !.dflt = FALSE]]]
          /\ db' = db /\ old \subseteq DOMAIN db.agents /\ \A a \in old : ~Locked(a, r)
      BY <1>4, <2>1 DEF Clear, Keep
    <3>2. DOMAIN tx[r].put = {} /\ tx[r].gone = {}
      BY <1>0, <1>4 DEF Clear, Staged
    <3>3. \A q \in Requests \ {r} : old \cap Changed(q) = {}
      BY <3>1 DEF Locked, Changed
    <3> HIDE DEF old
    <3> QED BY <3>1, <3>2, <3>3, ClearDistinct
  <2> QED BY <2>1, FailDistinct
<1>5. CASE Insert(r)
  <2> DEFINE new == [name |-> req[r].name, dflt |-> req[r].wants]
  <2>1. PICK a \in Agents :
           /\ a \notin (DOMAIN db.agents) \cup UNION {DOMAIN tx[q].put : q \in Requests}
           /\ ~Waits(r, a, new)
           /\ \/ /\ tx' = [tx EXCEPT ![r].put = With(@, a, new)] /\ db' = db
                 /\ Rivals(r, a, new) = {}
              \/ tx' = [tx EXCEPT ![r] = NoWrites] /\ db' = db
              \/ Fail(r)
    BY <1>5 DEF Insert, Keep
  <2>2. tx[r].gone = {}
    BY <1>0, <1>5 DEF Insert, Staged
  <2>3. \A q \in Requests \ {r} : a \notin Changed(q)
    BY <2>1, CatalogAssumption DEF Changed, Exclusive, Types
  <2> HIDE DEF new
  <2> QED BY <2>1, <2>2, <2>3, PutDistinct, EndDistinct, FailDistinct
<1>6. CASE Target(r)
  <2> DEFINE a == req[r].agent
             new == [AgentsOf(r)[a] EXCEPT !.dflt = TRUE]
  <2>1. \/ Fail(r)
        \/ /\ tx' = [tx EXCEPT ![r].put = With(@, a, new)] /\ db' = db
           /\ ~Locked(a, r) /\ ~Waits(r, a, new) /\ Rivals(r, a, new) = {}
    BY <1>6 DEF Target, Keep
  <2>2. tx[r].gone = {}
    BY <1>0, <1>6 DEF Target, Staged
  <2>3. ~Locked(a, r) => \A q \in Requests \ {r} : a \notin Changed(q)
    BY DEF Changed, Locked
  <2> HIDE DEF new, a
  <2> QED BY <2>1, <2>2, <2>3, PutDistinct, FailDistinct
<1>7. CASE Rename(r)
  <2> DEFINE a == req[r].agent
             new == [AgentsOf(r)[a] EXCEPT !.name = req[r].name]
  <2>1. \/ Fail(r)
        \/ tx' = tx /\ db' = db
        \/ /\ tx' = [tx EXCEPT ![r].put = With(@, a, new)] /\ db' = db
           /\ ~Locked(a, r) /\ ~Waits(r, a, new) /\ Rivals(r, a, new) = {}
    BY <1>7 DEF Rename, Keep, NoWrite
  <2>2. tx[r].gone = {}
    BY <1>0, <1>7 DEF Rename, Staged
  <2>3. ~Locked(a, r) => \A q \in Requests \ {r} : a \notin Changed(q)
    BY DEF Changed, Locked
  <2> HIDE DEF new, a
  <2> QED BY <2>1, <2>2, <2>3, PutDistinct, FailDistinct, RowsOnly
<1>8. CASE DeleteRow(r)
  <2> DEFINE e == {req[r].agent} \cap DOMAIN db.agents
  <2>1. Fail(r) \/ (tx' = [tx EXCEPT ![r].gone = e] /\ db' = db /\ ~Locked(req[r].agent, r))
    BY <1>8 DEF DeleteRow, Keep
  <2>2. DOMAIN tx[r].put = {}
    BY <1>0, <1>8 DEF DeleteRow, Staged
  <2>3. ~Locked(req[r].agent, r) => \A q \in Requests \ {r} : e \cap Changed(q) = {}
    BY DEF Changed, Locked
  <2>4. e \subseteq DOMAIN db.agents \cup DOMAIN db.subs
    OBVIOUS
  <2> HIDE DEF e
  <2> QED BY <2>1, <2>2, <2>3, <2>4, GoneDistinct, FailDistinct
<1>9. CASE LockSub(r)
  <2>1. PICK s \in req[r].subs :
           \/ Fail(r)
           \/ tx' = [tx EXCEPT ![r].gone = {s}] /\ db' = db /\ ~Locked(s, r) /\ s \in DOMAIN db.subs
    BY <1>9 DEF LockSub, Keep
  <2>2. DOMAIN tx[r].put = {}
    BY <1>0, <1>9 DEF LockSub, Staged
  <2> DEFINE e == {s}
  <2>3. ~Locked(s, r) => \A q \in Requests \ {r} : e \cap Changed(q) = {}
    BY DEF Changed, Locked
  <2>4. s \in DOMAIN db.subs => e \subseteq DOMAIN db.agents \cup DOMAIN db.subs
    OBVIOUS
  <2>5. tx' = [tx EXCEPT ![r].gone = {s}] => tx' = [tx EXCEPT ![r].gone = e]
    OBVIOUS
  <2> HIDE DEF e
  <2>6. CASE ~Fail(r)
    BY <2>1, <2>2, <2>3, <2>4, <2>5, <2>6, GoneDistinct
  <2> QED BY <2>6, FailDistinct
<1> QED
  BY <1>1, <1>2, <1>3, <1>4, <1>5, <1>6, <1>7, <1>8, <1>9 DEF Step

-----------------------------------------------------------------------------
(* The foreign keys and what depends on them.                              *)

\* A row mentions what is there, and what it mentions is deleted by no other request.
MentionsKept ==
  /\ \A row \in db.rows : Mentions(row) \subseteq DOMAIN db.agents \cup DOMAIN db.subs \cup Mcps
  /\ \A r \in Requests : \A row \in tx[r].ins :
      /\ Mentions(row) \subseteq DOMAIN db.agents \cup DOMAIN tx[r].put \cup DOMAIN db.subs \cup Mcps
      /\ \A q \in Requests \ {r} : Mentions(row) \cap tx[q].gone = {}

\* A server of a link has its link, which no other request deletes.
LinkOf(row) == Link(row[2], row[3])
LinksKept ==
  /\ \A row \in db.rows : row[1] = "mcp" => LinkOf(row) \in db.rows
  /\ \A r \in Requests : \A row \in tx[r].ins : row[1] = "mcp" =>
      \/ LinkOf(row) \in tx[r].ins
      \/ LinkOf(row) \in db.rows /\ \A q \in Requests \ {r} : LinkOf(row) \notin tx[q].del

\* What each kind of row refers to.
LEMMA RowMentions ==
  /\ \A a, s : Mentions(Link(a, s)) = {a, s} /\ Link(a, s)[1] = "link"
  /\ \A a, s, m : Mentions(Mcp(a, s, m)) = {a, s, m} /\ Mcp(a, s, m)[1] = "mcp"
                  /\ LinkOf(Mcp(a, s, m)) = Link(a, s)
  /\ \A a : Mentions(Task(a)) = {a} /\ Task(a)[1] = "task"
  /\ \A s, m : Mentions(Default(s, m)) = {s, m} /\ Default(s, m)[1] = "default"
BY DEF Mentions, Link, Mcp, Task, Default, LinkOf

LEMMA LinkMentions ==
  ASSUME NEW row \in Row, row[1] = "mcp"
  PROVE  Mentions(LinkOf(row)) \subseteq Mentions(row) /\ LinkOf(row)[1] = "link"
<1>1. PICK a \in Agents, s \in Subs, m \in Mcps : row = Mcp(a, s, m)
  BY RowMentions DEF Row
<1> QED BY <1>1, RowMentions

\* The two hold from the beginning.
LEMMA InitRefs ==
  ASSUME Init
  PROVE  MentionsKept /\ LinksKept
<1>1. PICK agents \in Starts, subs \in {Subs, {Served}} : db = Tables(agents, subs)
  BY DEF Init
<1>2. db.agents = agents /\ DOMAIN db.subs = subs
      /\ db.rows = {Link(a, x) : a \in DOMAIN agents, x \in subs}
                     \cup {Default(Served, m) : m \in Mcps}
                     \cup {Mcp(a, Served, m) : a \in DOMAIN agents, m \in Mcps}
  BY <1>1 DEF Tables
<1>3. Served \in subs
  BY <1>1, ServedIsSub
<1>4. \A r \in Requests : tx[r].ins = {}
  BY NoWriteAtAll DEF Init
<1>5. \A row \in db.rows : Mentions(row) \subseteq DOMAIN db.agents \cup DOMAIN db.subs \cup Mcps
  BY <1>2, <1>3, RowMentions
<1>6. \A row \in db.rows : row[1] = "mcp" => LinkOf(row) \in db.rows
  BY <1>2, <1>3, RowMentions
<1> QED BY <1>4, <1>5, <1>6 DEF MentionsKept, LinksKept

\* Statements that write agents, or nothing at all.
LEMMA PutRefs ==
  ASSUME MentionsKept, LinksKept, NEW r \in Requests, db' = db,
         \A q \in Requests : tx'[q].gone = tx[q].gone /\ tx'[q].ins = tx[q].ins /\ tx'[q].del = tx[q].del,
         \A q \in Requests : DOMAIN tx[q].put \subseteq DOMAIN tx'[q].put
  PROVE  MentionsKept' /\ LinksKept'
<1>1. MentionsKept'
  BY DEF MentionsKept
<1>2. LinksKept'
  BY DEF LinksKept
<1> QED BY <1>1, <1>2

\* Rows are deleted.
LEMMA DelRefs ==
  ASSUME Written, MentionsKept, LinksKept, NEW r \in Requests, db' = db, NEW e,
         tx' = [tx EXCEPT ![r].del = e],
         \A q \in Requests \ {r} : \A row \in tx[q].ins : row[1] = "mcp" => LinkOf(row) \notin e
  PROVE  MentionsKept' /\ LinksKept'
<1>1. /\ \A q \in Requests : /\ tx'[q].gone = tx[q].gone /\ tx'[q].ins = tx[q].ins
                             /\ tx'[q].put = tx[q].put
      /\ \A q \in Requests \ {r} : tx'[q].del = tx[q].del
      /\ tx'[r].del = e
  BY FieldsOfWrites DEF Written, Write
<1>2. MentionsKept'
  BY <1>1 DEF MentionsKept
<1>3. LinksKept'
  BY <1>1 DEF LinksKept
<1> QED BY <1>2, <1>3

\* An agent or a subagent is deleted to which nothing refers that others insert.
LEMMA GoneRefs ==
  ASSUME Written, MentionsKept, LinksKept, NEW r \in Requests, db' = db, NEW e,
         tx' = [tx EXCEPT ![r].gone = e], \A x \in e : ~Shared(x, r)
  PROVE  MentionsKept' /\ LinksKept'
<1>1. /\ \A q \in Requests : /\ tx'[q].del = tx[q].del /\ tx'[q].ins = tx[q].ins
                             /\ tx'[q].put = tx[q].put
      /\ \A q \in Requests \ {r} : tx'[q].gone = tx[q].gone
      /\ tx'[r].gone = e
  BY FieldsOfWrites DEF Written, Write
<1>2. \A q \in Requests \ {r} : \A row \in tx[q].ins : Mentions(row) \cap e = {}
  BY DEF Shared
<1>3. MentionsKept'
  BY <1>1, <1>2 DEF MentionsKept
<1>4. LinksKept'
  BY <1>1 DEF LinksKept
<1> QED BY <1>3, <1>4

\* Rows are inserted.
LEMMA InsRefs ==
  ASSUME Written, MentionsKept, LinksKept, NEW r \in Requests, db' = db, NEW e,
         tx' = [tx EXCEPT ![r].ins = e],
         \A row \in e \ tx[r].ins :
            /\ Mentions(row) \subseteq DOMAIN db.agents \cup DOMAIN tx[r].put \cup DOMAIN db.subs \cup Mcps
            /\ \A q \in Requests \ {r} : Mentions(row) \cap tx[q].gone = {}
            /\ row[1] = "mcp" =>
                \/ LinkOf(row) \in e
                \/ LinkOf(row) \in db.rows /\ \A q \in Requests \ {r} : LinkOf(row) \notin tx[q].del,
         tx[r].ins \subseteq e
  PROVE  MentionsKept' /\ LinksKept'
<1>1. /\ \A q \in Requests : /\ tx'[q].del = tx[q].del /\ tx'[q].gone = tx[q].gone
                             /\ tx'[q].put = tx[q].put
      /\ \A q \in Requests \ {r} : tx'[q].ins = tx[q].ins
      /\ tx'[r].ins = e
  BY FieldsOfWrites DEF Written, Write
<1>2. MentionsKept'
  BY <1>1 DEF MentionsKept
<1>3. LinksKept'
  BY <1>1 DEF LinksKept
<1> QED BY <1>2, <1>3

\* A request ends; the catalogue may have grown.
LEMMA EndRefs ==
  ASSUME Written, MentionsKept, LinksKept, NEW r \in Requests,
         tx' = [tx EXCEPT ![r] = NoWrites],
         db'.agents = db.agents, DOMAIN db.subs \subseteq DOMAIN db'.subs, db.rows \subseteq db'.rows,
         \A row \in db'.rows \ db.rows :
            row[1] # "mcp" /\ Mentions(row) \subseteq DOMAIN db'.subs \cup Mcps
  PROVE  MentionsKept' /\ LinksKept'
<1>1. /\ tx'[r].gone = {} /\ tx'[r].ins = {} /\ tx'[r].del = {}
      /\ \A q \in Requests \ {r} : tx'[q] = tx[q]
  BY NoWriteAtAll DEF Written
<1>2. MentionsKept'
  BY <1>1 DEF MentionsKept
<1>3. LinksKept'
  BY <1>1 DEF LinksKept
<1> QED BY <1>2, <1>3

\* A commit applies deletions with what depends on them.
LEMMA CommitRefs ==
  ASSUME Types, Written, Exclusive, MentionsKept, LinksKept, NEW r \in Requests, Commit(r)
  PROVE  MentionsKept' /\ LinksKept'
<1>1. /\ db' = Applied(r) /\ db'.agents = AgentsOf(r)
      /\ DOMAIN db'.subs = (DOMAIN db.subs) \ tx[r].gone
      /\ tx' = [tx EXCEPT ![r] = NoWrites]
  BY SeenTypes DEF Commit, Finish
<1>2. /\ tx'[r].gone = {} /\ tx'[r].ins = {} /\ tx'[r].del = {}
      /\ \A q \in Requests \ {r} : tx'[q] = tx[q]
  BY <1>1, NoWriteAtAll DEF Written
<1>3. \A row : row \in db'.rows <=>
          /\ row \in RowsOf(r) /\ Mentions(row) \cap tx[r].gone = {}
          /\ ~(row[1] = "mcp" /\ LinkOf(row) \in tx[r].del \ tx[r].ins)
  BY <1>1 DEF Applied, LinkOf
<1>4. \A row \in db'.rows : Mentions(row) \subseteq DOMAIN db'.agents \cup DOMAIN db'.subs \cup Mcps
  <2> SUFFICES ASSUME NEW row \in db'.rows
               PROVE  Mentions(row) \subseteq DOMAIN db'.agents \cup DOMAIN db'.subs \cup Mcps
    OBVIOUS
  <2>1. row \in db.rows \/ row \in tx[r].ins
    BY <1>3 DEF RowsOf
  <2>2. Mentions(row) \cap tx[r].gone = {}
    BY <1>3
  <2>3. Mentions(row) \subseteq DOMAIN db.agents \cup DOMAIN tx[r].put \cup DOMAIN db.subs \cup Mcps
    BY <2>1 DEF MentionsKept
  <2>4. DOMAIN AgentsOf(r) = (DOMAIN db.agents \cup DOMAIN tx[r].put) \ tx[r].gone
    BY SeenAgents
  <2> QED BY <1>1, <2>2, <2>3, <2>4
<1>5. ASSUME NEW q \in Requests \ {r}, NEW row \in tx[q].ins
      PROVE  /\ Mentions(row) \subseteq
                  DOMAIN db'.agents \cup DOMAIN tx[q].put \cup DOMAIN db'.subs \cup Mcps
             /\ \A p \in Requests \ {q} : Mentions(row) \cap tx'[p].gone = {}
  <2>1. Mentions(row) \subseteq DOMAIN db.agents \cup DOMAIN tx[q].put \cup DOMAIN db.subs \cup Mcps
    BY DEF MentionsKept
  <2>2. \A p \in Requests \ {q} : Mentions(row) \cap tx[p].gone = {}
    BY DEF MentionsKept
  <2>3. Mentions(row) \cap tx[r].gone = {}
    BY <2>2
  <2>4. \A x : x \in DOMAIN db.agents /\ x \notin tx[r].gone => x \in DOMAIN db'.agents
    BY <1>1, SeenAgents
  <2>5. \A p \in Requests \ {q} : tx'[p].gone \subseteq tx[p].gone
    BY <1>2
  <2>6. Mentions(row) \subseteq DOMAIN db'.agents \cup DOMAIN tx[q].put \cup DOMAIN db'.subs \cup Mcps
    BY <1>1, <2>1, <2>3, <2>4
  <2> QED BY <2>2, <2>5, <2>6
<1>6. MentionsKept'
  BY <1>2, <1>4, <1>5 DEF MentionsKept
<1>7. ASSUME NEW row \in db'.rows, row[1] = "mcp"
      PROVE  LinkOf(row) \in db'.rows
  <2>1. row \in Row
    BY <1>3, SeenTypes
  <2>2. Mentions(LinkOf(row)) \cap tx[r].gone = {} /\ LinkOf(row)[1] # "mcp"
    BY <1>3, <1>7, <2>1, LinkMentions
  <2>3. LinkOf(row) \in RowsOf(r)
    BY <1>3, <1>7 DEF RowsOf, LinksKept
  <2> QED BY <1>3, <2>2, <2>3
<1>8. ASSUME NEW q \in Requests \ {r}, NEW row \in tx[q].ins, row[1] = "mcp"
      PROVE  \/ LinkOf(row) \in tx[q].ins
             \/ LinkOf(row) \in db'.rows /\ \A p \in Requests \ {q} : LinkOf(row) \notin tx'[p].del
  <2>1. CASE LinkOf(row) \notin tx[q].ins
    <3>1. LinkOf(row) \in db.rows /\ \A p \in Requests \ {q} : LinkOf(row) \notin tx[p].del
      BY <1>8, <2>1 DEF LinksKept
    <3>2. Mentions(row) \cap tx[r].gone = {}
      BY DEF MentionsKept
    <3>3. row \in Row
      BY DEF Written, Write
    <3>4. Mentions(LinkOf(row)) \cap tx[r].gone = {} /\ LinkOf(row)[1] # "mcp"
      BY <1>8, <3>2, <3>3, LinkMentions
    <3>5. LinkOf(row) \in db'.rows
      BY <1>3, <3>1, <3>4 DEF RowsOf
    <3> QED BY <1>2, <3>1, <3>5
  <2> QED BY <2>1
<1>9. LinksKept'
  BY <1>2, <1>7, <1>8 DEF LinksKept
<1> QED BY <1>6, <1>9

\* A transaction that is rolled back.
LEMMA FailRefs ==
  ASSUME Written, MentionsKept, LinksKept, NEW r \in Requests, Fail(r)
  PROVE  MentionsKept' /\ LinksKept'
<1>1. db' = db /\ tx' = [tx EXCEPT ![r] = NoWrites]
  BY DEF Fail, Keep
<1> QED BY <1>1, EndRefs

\* Statements that write agents only.
LEMMA PutOnlyRefs ==
  ASSUME Written, MentionsKept, LinksKept, NEW r \in Requests, db' = db, NEW e,
         tx' = [tx EXCEPT ![r].put = e], DOMAIN tx[r].put \subseteq DOMAIN e
  PROVE  MentionsKept' /\ LinksKept'
<1>1. /\ \A q \in Requests : tx'[q].gone = tx[q].gone /\ tx'[q].ins = tx[q].ins /\ tx'[q].del = tx[q].del
      /\ \A q \in Requests : DOMAIN tx[q].put \subseteq DOMAIN tx'[q].put
  BY FieldsOfWrites DEF Written, Write
<1> QED BY <1>1, PutRefs

LEMMA NoWriteRefs ==
  ASSUME MentionsKept, LinksKept, NEW r \in Requests, db' = db, tx' = tx
  PROVE  MentionsKept' /\ LinksKept'
BY PutRefs

\* Every step of a request.
LEMMA StepRefs ==
  ASSUME Types, Written, Exclusive, MentionsKept, LinksKept, NEW r \in Requests, Step(r)
  PROVE  MentionsKept' /\ LinksKept'
<1>0. req[r] \in Request /\ Write(tx[r]) /\ Staged(req[r].at, tx[r])
  BY DEF Types, Written
<1>a. DOMAIN AgentsOf(r) \subseteq DOMAIN db.agents \cup DOMAIN tx[r].put
  BY SeenAgents
<1> USE DEF Keep, NoWrite
<1>1. CASE ReadForCreate(r) \/ ReadForUpdate(r) \/ Count(r) \/ ReadForAttach(r) \/ ReadLink(r)
  BY <1>1, FailRefs, NoWriteRefs DEF ReadForCreate, ReadForUpdate, Count, ReadForAttach, ReadLink
<1>2. CASE Resolve(r) \/ Reload(r) \/ Cascade(r) \/ AbortDeadlock(r)
  BY <1>2, FailRefs, NoWriteRefs DEF Resolve, Reload, Cascade, AbortDeadlock
<1>3. CASE Clear(r)
  <2>1. Fail(r) \/ \E e : tx' = [tx EXCEPT ![r].put = e] /\ db' = db
    BY <1>3 DEF Clear
  <2>2. DOMAIN tx[r].put = {}
    BY <1>0, <1>3 DEF Clear, Staged
  <2> QED BY <2>1, <2>2, FailRefs, PutOnlyRefs
<1>4. CASE Insert(r)
  <2>1. \/ Fail(r)
        \/ \E a, new : tx' = [tx EXCEPT ![r].put = With(@, a, new)] /\ db' = db
        \/ tx' = [tx EXCEPT ![r] = NoWrites] /\ db' = db
    BY <1>4 DEF Insert
  <2>2. \A a, new : DOMAIN tx[r].put \subseteq DOMAIN With(tx[r].put, a, new)
    BY DEF With
  <2> QED BY <2>1, <2>2, FailRefs, PutOnlyRefs, EndRefs
<1>5. CASE Target(r)
  <2>1. Fail(r) \/ \E a, new : tx' = [tx EXCEPT ![r].put = With(@, a, new)] /\ db' = db
    BY <1>5 DEF Target
  <2>2. \A a, new : DOMAIN tx[r].put \subseteq DOMAIN With(tx[r].put, a, new)
    BY DEF With
  <2> QED BY <2>1, <2>2, FailRefs, PutOnlyRefs
<1>6. CASE Rename(r)
  <2>1. \/ Fail(r)
        \/ \E a, new : tx' = [tx EXCEPT ![r].put = With(@, a, new)] /\ db' = db
        \/ tx' = tx /\ db' = db
    BY <1>6 DEF Rename
  <2>2. \A a, new : DOMAIN tx[r].put \subseteq DOMAIN With(tx[r].put, a, new)
    BY DEF With
  <2> QED BY <2>1, <2>2, FailRefs, PutOnlyRefs, NoWriteRefs
<1>7. CASE DeleteRow(r)
  <2> DEFINE e == {req[r].agent} \cap DOMAIN db.agents
  <2>1. Fail(r) \/ (tx' = [tx EXCEPT ![r].gone = e] /\ db' = db /\ ~Shared(req[r].agent, r))
    BY <1>7 DEF DeleteRow
  <2>2. \A x \in e : x = req[r].agent
    OBVIOUS
  <2> HIDE DEF e
  <2> QED BY <2>1, <2>2, FailRefs, GoneRefs
<1>8. CASE LockSub(r)
  <2>1. PICK s \in req[r].subs :
           Fail(r) \/ (tx' = [tx EXCEPT ![r].gone = {s}] /\ db' = db /\ ~Shared(s, r))
    BY <1>8 DEF LockSub
  <2> DEFINE e == {s}
  <2>2. ~Shared(s, r) => \A x \in e : ~Shared(x, r)
    OBVIOUS
  <2>3. Fail(r) \/ (tx' = [tx EXCEPT ![r].gone = e] /\ db' = db /\ ~Shared(s, r))
    BY <2>1
  <2> HIDE DEF e
  <2> QED BY <2>2, <2>3, FailRefs, GoneRefs
<1>9. CASE LinkSubagents(r)
  <2>1. CASE LinkNext(r)
    <3> DEFINE a == req[r].agent
    <3>1. PICK s \in req[r].subs :
             /\ ~KeyLocked(a, r) /\ ~KeyLocked(s, r)
             /\ \/ Fail(r)
                \/ /\ tx' = [tx EXCEPT ![r].ins = @ \cup LinkRows(r, s)] /\ db' = db
                   /\ a \in DOMAIN AgentsOf(r) /\ s \in DOMAIN db.subs
      BY <2>1 DEF LinkNext
    <3> DEFINE e == tx[r].ins \cup LinkRows(r, s)
    <3>2. CASE ~Fail(r)
      <4>1. tx' = [tx EXCEPT ![r].ins = e] /\ db' = db /\ a \in DOMAIN AgentsOf(r) /\ s \in DOMAIN db.subs
        BY <3>1, <3>2
      <4>2. Servers(db.rows, s) \subseteq Mcps
        <5>1. \A row \in Row : row[1] = "default" => row[3] \in Mcps
          BY DEF Row, Link, Mcp, Task, Default
        <5> QED BY <5>1 DEF Servers, Types
      <4>3. \A q \in Requests \ {r} : tx[q].gone \cap {a, s} = {} /\ tx[q].gone \cap Mcps = {}
        BY <3>1, CatalogAssumption DEF KeyLocked, Written, Write
      <4>4. ASSUME NEW row \in LinkRows(r, s)
            PROVE  /\ Mentions(row) \subseteq DOMAIN db.agents \cup DOMAIN tx[r].put \cup DOMAIN db.subs \cup Mcps
                   /\ \A q \in Requests \ {r} : Mentions(row) \cap tx[q].gone = {}
                   /\ row[1] = "mcp" => LinkOf(row) \in e
        <5>1. row = Link(a, s) \/ \E m \in Mcps : row = Mcp(a, s, m)
          BY <4>2 DEF LinkRows
        <5>2. Link(a, s) \in e
          BY DEF LinkRows
        <5>3. Mentions(row) \subseteq {a, s} \cup Mcps
          BY <5>1, RowMentions
        <5>4. row[1] = "mcp" => LinkOf(row) = Link(a, s)
          BY <5>1, RowMentions
        <5> QED BY <1>a, <4>1, <4>3, <5>2, <5>3, <5>4
      <4>5. tx[r].ins \subseteq e /\ e \ tx[r].ins \subseteq LinkRows(r, s)
        OBVIOUS
      <4>6. \A row \in e \ tx[r].ins :
              /\ Mentions(row) \subseteq DOMAIN db.agents \cup DOMAIN tx[r].put \cup DOMAIN db.subs \cup Mcps
              /\ \A q \in Requests \ {r} : Mentions(row) \cap tx[q].gone = {}
              /\ row[1] = "mcp" =>
                  \/ LinkOf(row) \in e
                  \/ LinkOf(row) \in db.rows /\ \A q \in Requests \ {r} : LinkOf(row) \notin tx[q].del
        BY <4>4, <4>5
      <4> HIDE DEF e, a
      <4> QED BY <4>1, <4>5, <4>6, InsRefs
    <3> QED BY <3>2, FailRefs
  <2>2. CASE NoWrite /\ Keep
    BY <2>2, NoWriteRefs
  <2> QED BY <1>9, <2>1, <2>2 DEF LinkSubagents
<1>10. CASE Unlink(r)
  <2> DEFINE e == {Link(req[r].agent, s) : s \in req[r].subs} \cap db.rows
  <2>1. /\ tx' = [tx EXCEPT ![r].del = e] /\ db' = db
        /\ \A l \in e : \A q \in Requests \ {r} : \A x \in tx[q].ins :
              x[1] = "mcp" => <<x[2], x[3]>> # <<l[2], l[3]>>
    BY <1>10 DEF Unlink
  <2>2. ASSUME NEW q \in Requests \ {r}, NEW row \in tx[q].ins, row[1] = "mcp", LinkOf(row) \in e
        PROVE  FALSE
    <3>1. <<row[2], row[3]>> # <<LinkOf(row)[2], LinkOf(row)[3]>>
      BY <2>1, <2>2
    <3> QED BY <3>1 DEF LinkOf, Link
  <2> HIDE DEF e
  <2> QED BY <2>1, <2>2, DelRefs
<1>11. CASE RemoveMcp(r)
  <2> DEFINE e == McpRows(r) \cap db.rows
  <2>1. tx' = [tx EXCEPT ![r].del = e] /\ db' = db
    BY <1>11 DEF RemoveMcp
  <2>2. \A row : LinkOf(row) \notin e
    BY RowMentions DEF McpRows, LinkOf
  <2> HIDE DEF e
  <2> QED BY <2>1, <2>2, DelRefs
<1>12. CASE DeleteOld(r)
  <2> DEFINE e == {row \in db.rows : row[1] = "default" /\ row[2] \in req[r].subs}
  <2>1. Fail(r) \/ (tx' = [tx EXCEPT ![r].del = e] /\ db' = db)
    BY <1>12 DEF DeleteOld
  <2>2. \A row : LinkOf(row) \notin e
    BY RowMentions DEF LinkOf
  <2> HIDE DEF e
  <2> QED BY <2>1, <2>2, FailRefs, DelRefs
<1>13. CASE AddMcp(r)
  <2>1. PICK row \in McpRows(r) :
           /\ ~Pending(LinkOf(row), r) /\ ~KeyLocked(row[2], r) /\ ~KeyLocked(row[3], r)
           /\ \/ Fail(r)
              \/ tx' = [tx EXCEPT ![r].ins = {row}] /\ db' = db /\ LinkOf(row) \in db.rows
    BY <1>13 DEF AddMcp, LinkOf
  <2>2. tx[r].ins = {}
    BY <1>0, <1>13 DEF AddMcp, Staged
  <2>3. CASE ~Fail(r)
    <3>1. PICK s \in Subs, m \in Mcps : row = Mcp(req[r].agent, s, m)
      BY <1>0, <2>1 DEF McpRows, Request
    <3> DEFINE a == req[r].agent
    <3>2. row[2] = a /\ row[3] = s /\ LinkOf(row) = Link(a, s) /\ Mentions(row) = {a, s, m}
      BY <3>1, RowMentions DEF Mcp
    <3>3. {a, s} \subseteq DOMAIN db.agents \cup DOMAIN db.subs \cup Mcps
      BY <2>1, <2>3, <3>2, RowMentions DEF MentionsKept
    <3>4. \A q \in Requests \ {r} : {a, s, m} \cap tx[q].gone = {}
      BY <2>1, <3>2, CatalogAssumption DEF KeyLocked, Written, Write
    <3>5. LinkOf(row) \in db.rows /\ \A q \in Requests \ {r} : LinkOf(row) \notin tx[q].del
      BY <2>1, <2>3 DEF Pending
    <3>6. m \in Mcps /\ Mentions(row) \subseteq
            DOMAIN db.agents \cup DOMAIN tx[r].put \cup DOMAIN db.subs \cup Mcps
      BY <3>1, <3>2, <3>3
    <3> DEFINE e == {row}
    <3>7. tx' = [tx EXCEPT ![r].ins = e] /\ db' = db
      BY <2>1, <2>3
    <3>8. \A x \in e \ tx[r].ins :
            /\ Mentions(x) \subseteq DOMAIN db.agents \cup DOMAIN tx[r].put \cup DOMAIN db.subs \cup Mcps
            /\ \A q \in Requests \ {r} : Mentions(x) \cap tx[q].gone = {}
            /\ x[1] = "mcp" =>
                  \/ LinkOf(x) \in e
                  \/ LinkOf(x) \in db.rows /\ \A q \in Requests \ {r} : LinkOf(x) \notin tx[q].del
      BY <3>2, <3>4, <3>5, <3>6
    <3>9. tx[r].ins \subseteq e
      BY <2>2
    <3> HIDE DEF e
    <3> QED BY <3>7, <3>8, <3>9, InsRefs
  <2> QED BY <2>3, FailRefs
<1>14. CASE InsertTask(r)
  <2> DEFINE a == req[r].agent
             e == tx[r].ins \cup {Task(a)}
  <2>1. /\ ~KeyLocked(a, r)
        /\ Fail(r) \/ (tx' = [tx EXCEPT ![r].ins = e] /\ db' = db /\ a \in DOMAIN AgentsOf(r))
    BY <1>14 DEF InsertTask
  <2>2. \A q \in Requests \ {r} : a \notin tx[q].gone
    BY <2>1 DEF KeyLocked
  <2>3. \A row \in e \ tx[r].ins : Mentions(row) = {a} /\ row[1] # "mcp"
    BY RowMentions
  <2>4. tx[r].ins \subseteq e
    OBVIOUS
  <2> HIDE DEF e, a
  <2> QED BY <1>a, <2>1, <2>2, <2>3, <2>4, FailRefs, InsRefs
<1>15. CASE InsertNew(r)
  <2> DEFINE e == {Default(s, m) : s \in req[r].subs, m \in req[r].servers}
  <2>1. /\ \A row \in e : ~KeyLocked(row[2], r)
        /\ \/ Fail(r)
           \/ /\ tx' = [tx EXCEPT ![r].ins = e] /\ db' = db
              /\ e = {} \/ req[r].subs \subseteq DOMAIN db.subs
    BY <1>15 DEF InsertNew
  <2>2. tx[r].ins = {}
    BY <1>0, <1>15 DEF InsertNew, Staged
  <2>3. ASSUME NEW row \in e, e = {} \/ req[r].subs \subseteq DOMAIN db.subs
        PROVE  /\ Mentions(row) \subseteq DOMAIN db.subs \cup Mcps /\ row[1] # "mcp"
               /\ \A q \in Requests \ {r} : Mentions(row) \cap tx[q].gone = {}
    <3>1. PICK s \in req[r].subs, m \in req[r].servers : row = Default(s, m)
      OBVIOUS
    <3>2. Mentions(row) = {s, m} /\ row[2] = s /\ row[1] # "mcp" /\ m \in Mcps
      BY <1>0, <3>1, RowMentions DEF Default, Request
    <3> QED BY <2>1, <2>3, <3>1, <3>2, CatalogAssumption DEF KeyLocked, Written, Write
  <2> HIDE DEF e
  <2> QED BY <2>1, <2>2, <2>3, FailRefs, InsRefs
<1>16. CASE WriteSub(r)
  <2>1. PICK s \in req[r].subs :
           \/ Fail(r)
           \/ Finish(r, [db EXCEPT !.subs = [x \in (DOMAIN @) \cup {s} |-> x = s \/ @[x]],
                                   !.rows = @ \cup {Default(s, m) : m \in req[r].servers}])
    BY <1>16 DEF WriteSub
  <2>2. CASE ~Fail(r)
    <3>1. /\ db' = [db EXCEPT !.subs = [x \in (DOMAIN @) \cup {s} |-> x = s \/ @[x]],
                              !.rows = @ \cup {Default(s, m) : m \in req[r].servers}]
          /\ tx' = [tx EXCEPT ![r] = NoWrites]
      BY <2>1, <2>2 DEF Finish
    <3>2. /\ db'.agents = db.agents /\ DOMAIN db'.subs = (DOMAIN db.subs) \cup {s}
          /\ db'.rows = db.rows \cup {Default(s, m) : m \in req[r].servers}
      BY <3>1 DEF Types
    <3>3. \A m \in req[r].servers : m \in Mcps
      BY <1>0 DEF Request
    <3>4. \A row \in db'.rows \ db.rows : row[1] # "mcp" /\ Mentions(row) \subseteq DOMAIN db'.subs \cup Mcps
      BY <3>2, <3>3, RowMentions
    <3> QED BY <3>1, <3>2, <3>4, EndRefs
  <2> QED BY <2>2, FailRefs
<1>17. CASE WriteActive(r)
  <2>1. PICK s \in req[r].subs : Fail(r) \/ Finish(r, [db EXCEPT !.subs[s] = req[r].wants])
    BY <1>17 DEF WriteActive
  <2>2. CASE ~Fail(r)
    <3>1. db' = [db EXCEPT !.subs[s] = req[r].wants] /\ tx' = [tx EXCEPT ![r] = NoWrites]
      BY <2>1, <2>2 DEF Finish
    <3>2. db'.agents = db.agents /\ DOMAIN db'.subs = DOMAIN db.subs /\ db'.rows = db.rows
      BY <3>1 DEF Types
    <3> QED BY <3>1, <3>2, EndRefs
  <2> QED BY <2>2, FailRefs
<1>18. CASE Commit(r)
  BY <1>18, CommitRefs
<1> QED
  BY <1>1, <1>2, <1>3, <1>4, <1>5, <1>6, <1>7, <1>8, <1>9, <1>10, <1>11, <1>12, <1>13, <1>14,
     <1>15, <1>16, <1>17, <1>18 DEF Step

-----------------------------------------------------------------------------
(* The tasks.                                                              *)

\* No statement deletes a task, and an agent that a request has deleted has none.
TasksSafe ==
  \A r \in Requests : \A a \in Agents :
    Task(a) \notin tx[r].del /\ (a \in tx[r].gone => Task(a) \notin db.rows)

LEMMA InitWritten == ASSUME Init PROVE Written
BY NoWriteAtAll DEF Init, Written, Write, Staged, WriteFields

FirstPlaces ==
  {"create", "update", "count", "attach", "detach", "mcp", "get", "old", "newsub", "toggle", "dropsub"}

\* What a request that begins changes.
BeginKeeps(r) ==
  /\ db' = db /\ tx' = tx /\ deleted' = deleted /\ req[r].at = "idle"
  /\ \E new : new.at \in FirstPlaces /\ req' = [req EXCEPT ![r] = new]

LEMMA BeginKept ==
  ASSUME NEW r \in Requests, NEW new, Begin(r, new), new.at \in FirstPlaces
  PROVE  BeginKeeps(r)
BY DEF Begin, BeginKeeps

LEMMA AskKeeps ==
  ASSUME NEW r \in Requests, Ask(r)
  PROVE  BeginKeeps(r)
<1> USE DEF Idle, FirstPlaces
<1>1. ASSUME NEW name \in Names, NEW wants \in BOOLEAN, NEW subs \in Teams,
             Create(r, name, wants, subs)
      PROVE  BeginKeeps(r)
  BY <1>1, BeginKept DEF Create
<1>2. ASSUME NEW a \in Agents, NEW name \in Names \cup {None}, NEW wants \in BOOLEAN,
             Update(r, a, name, wants)
      PROVE  BeginKeeps(r)
  BY <1>2, BeginKept DEF Update
<1>3. ASSUME NEW a \in Agents, Delete(r, a)
      PROVE  BeginKeeps(r)
  BY <1>3, BeginKept DEF Delete
<1>4. ASSUME NEW a \in Agents, NEW s \in Subs, Attach(r, a, s)
      PROVE  BeginKeeps(r)
  BY <1>4, BeginKept DEF Attach
<1>5. ASSUME NEW a \in Agents, NEW s \in Subs, Detach(r, a, s)
      PROVE  BeginKeeps(r)
  BY <1>5, BeginKept DEF Detach
<1>6. ASSUME NEW a \in Agents, NEW s \in Subs, NEW m \in Mcps,
             NEW kind \in {"addmcp", "dropmcp"}, Toggle(r, kind, a, s, m)
      PROVE  BeginKeeps(r)
  BY <1>6, BeginKept DEF Toggle
<1>7. ASSUME NEW s \in Subs, NEW servers \in SUBSET Mcps, SetDefaults(r, s, servers)
      PROVE  BeginKeeps(r)
  BY <1>7, BeginKept DEF SetDefaults
<1>8. ASSUME NEW s \in Subs, NEW servers \in SUBSET Mcps, NewSub(r, s, servers)
      PROVE  BeginKeeps(r)
  BY <1>8, BeginKept DEF NewSub
<1>9. ASSUME NEW s \in Subs, NEW on \in BOOLEAN, SetActive(r, s, on)
      PROVE  BeginKeeps(r)
  BY <1>9, BeginKept DEF SetActive
<1>10. ASSUME NEW s \in Subs, DeleteSub(r, s)
      PROVE  BeginKeeps(r)
  BY <1>10, BeginKept DEF DeleteSub
<1>11. ASSUME NEW a \in Agents \cup {None}, Submit(r, a)
      PROVE  BeginKeeps(r)
  BY <1>11, BeginKept DEF Submit
<1>12. CASE AskAgents(r)
  BY <1>1, <1>2, <1>3, <1>12 DEF AskAgents
<1>13. CASE AskLinks(r)
  BY <1>4, <1>5, <1>6, <1>13 DEF AskLinks
<1>14. CASE AskCatalog(r)
  BY <1>7, <1>8, <1>9, <1>10, <1>14 DEF AskCatalog
<1> QED BY <1>11, <1>12, <1>13, <1>14 DEF Ask

\* It holds from the beginning.
LEMMA InitTasks == ASSUME Init PROVE TasksSafe
BY NoWriteAtAll DEF Init, TasksSafe

\* A request ends, and the tasks that are committed are its own.
LEMMA EndTasks ==
  ASSUME Written, MentionsKept, TasksSafe, NEW r \in Requests, tx' = [tx EXCEPT ![r] = NoWrites],
         \A a \in Agents : Task(a) \in db'.rows => Task(a) \in db.rows \cup tx[r].ins
  PROVE  TasksSafe'
<1>1. /\ tx'[r].gone = {} /\ tx'[r].del = {}
      /\ \A q \in Requests \ {r} : tx'[q] = tx[q]
  BY NoWriteAtAll DEF Written
<1>2. ASSUME NEW q \in Requests \ {r}, NEW a \in Agents, a \in tx[q].gone
      PROVE  Task(a) \notin tx[r].ins
  BY <1>2, RowMentions DEF MentionsKept
<1> QED BY <1>1, <1>2 DEF TasksSafe

LEMMA FailTasks ==
  ASSUME Written, MentionsKept, TasksSafe, NEW r \in Requests, Fail(r)
  PROVE  TasksSafe'
BY EndTasks DEF Fail, Keep

\* The rows a statement deletes are no tasks.
LEMMA DeletedRows ==
  ASSUME NEW r \in Requests, Unlink(r) \/ RemoveMcp(r) \/ DeleteOld(r)
  PROVE  \/ Fail(r)
         \/ \E e : /\ tx' = [tx EXCEPT ![r].del = e] /\ db' = db
                   /\ \A a \in Agents : Task(a) \notin e
<1> USE RowMentions DEF Keep
<1>1. CASE Unlink(r)
  <2> DEFINE e == {Link(req[r].agent, s) : s \in req[r].subs} \cap db.rows
  <2>1. tx' = [tx EXCEPT ![r].del = e] /\ db' = db
    BY <1>1 DEF Unlink
  <2>2. \A a \in Agents : Task(a) \notin e
    OBVIOUS
  <2> QED BY <2>1, <2>2
<1>2. CASE RemoveMcp(r)
  <2> DEFINE e == McpRows(r) \cap db.rows
  <2>1. tx' = [tx EXCEPT ![r].del = e] /\ db' = db
    BY <1>2 DEF RemoveMcp
  <2>2. \A a \in Agents : Task(a) \notin e
    BY DEF McpRows
  <2> QED BY <2>1, <2>2
<1>3. CASE DeleteOld(r)
  <2> DEFINE e == {row \in db.rows : row[1] = "default" /\ row[2] \in req[r].subs}
  <2>1. Fail(r) \/ (tx' = [tx EXCEPT ![r].del = e] /\ db' = db)
    BY <1>3 DEF DeleteOld
  <2>2. \A a \in Agents : Task(a) \notin e
    OBVIOUS
  <2> QED BY <2>1, <2>2
<1> QED BY <1>1, <1>2, <1>3

\* Statements that delete nothing and commit nothing.
Deletes(r) == Unlink(r) \/ RemoveMcp(r) \/ DeleteOld(r) \/ DeleteRow(r) \/ LockSub(r)
LEMMA OtherSteps ==
  ASSUME NEW r \in Requests, Step(r), ~Deletes(r), ~Commit(r), ~WriteSub(r), ~WriteActive(r)
  PROVE  db' = db /\ \E e : \/ tx' = tx
                           \/ tx' = [tx EXCEPT ![r].put = e]
                           \/ tx' = [tx EXCEPT ![r].ins = e]
                           \/ tx' = [tx EXCEPT ![r] = NoWrites]
<1> USE DEF Keep, NoWrite
<1>0. Fail(r) => db' = db /\ tx' = [tx EXCEPT ![r] = NoWrites]
  BY DEF Fail
<1>1. CASE ReadForCreate(r) \/ ReadForUpdate(r)
  BY <1>0, <1>1 DEF ReadForCreate, ReadForUpdate
<1>11. CASE Count(r) \/ ReadForAttach(r) \/ ReadLink(r)
  BY <1>0, <1>11 DEF Count, ReadForAttach, ReadLink
<1>2. CASE Resolve(r) \/ Reload(r)
  BY <1>0, <1>2 DEF Resolve, Reload
<1>12. CASE Cascade(r) \/ AbortDeadlock(r)
  BY <1>0, <1>12 DEF Cascade, AbortDeadlock
<1>3. CASE LinkSubagents(r)
  BY <1>0, <1>3 DEF LinkSubagents, LinkNext
<1>4. CASE AddMcp(r)
  BY <1>0, <1>4 DEF AddMcp
<1>5. CASE InsertTask(r)
  BY <1>0, <1>5 DEF InsertTask
<1>6. CASE InsertNew(r)
  <2> DEFINE e == {Default(s, m) : s \in req[r].subs, m \in req[r].servers}
  <2>1. Fail(r) \/ (tx' = [tx EXCEPT ![r].ins = e] /\ db' = db)
    BY <1>6 DEF InsertNew
  <2> HIDE DEF e
  <2> QED BY <1>0, <2>1
<1>7. CASE Clear(r)
  BY <1>0, <1>7 DEF Clear
<1>8. CASE Insert(r)
  BY <1>0, <1>8 DEF Insert
<1>9. CASE Target(r)
  BY <1>0, <1>9 DEF Target
<1>10. CASE Rename(r)
  BY <1>0, <1>10 DEF Rename
<1> QED
  BY <1>1, <1>2, <1>3, <1>4, <1>5, <1>6, <1>7, <1>8, <1>9, <1>10, <1>11, <1>12 DEF Step, Deletes

\* Every step of a request.
LEMMA StepTasks ==
  ASSUME Types, Written, MentionsKept, TasksSafe, NEW r \in Requests, Step(r)
  PROVE  TasksSafe'
<1>0. req[r] \in Request
  BY DEF Types
<1>1. CASE Unlink(r) \/ RemoveMcp(r) \/ DeleteOld(r)
  <2>1. CASE ~Fail(r)
    <3>1. PICK e : /\ tx' = [tx EXCEPT ![r].del = e] /\ db' = db
                   /\ \A a \in Agents : Task(a) \notin e
      BY <1>1, <2>1, DeletedRows
    <3>2. \A q \in Requests : /\ tx'[q].gone = tx[q].gone
                              /\ tx'[q].del = IF q = r THEN e ELSE tx[q].del
      BY <3>1, FieldsOfWrites DEF Written, Write
    <3> QED BY <3>1, <3>2 DEF TasksSafe
  <2> QED BY <2>1, FailTasks
<1>2. CASE DeleteRow(r)
  <2> DEFINE e == {req[r].agent} \cap DOMAIN db.agents
  <2>1. Fail(r) \/ (tx' = [tx EXCEPT ![r].gone = e] /\ db' = db /\ Task(req[r].agent) \notin db.rows)
    BY <1>2 DEF DeleteRow, Keep
  <2>2. \A x \in e : x = req[r].agent
    OBVIOUS
  <2> HIDE DEF e
  <2>3. CASE ~Fail(r)
    <3>1. \A q \in Requests : /\ tx'[q].del = tx[q].del
                              /\ tx'[q].gone = IF q = r THEN e ELSE tx[q].gone
      BY <2>1, <2>3, FieldsOfWrites DEF Written, Write
    <3> QED BY <2>1, <2>2, <2>3, <3>1 DEF TasksSafe
  <2> QED BY <2>3, FailTasks
<1>3. CASE LockSub(r)
  <2>0. PICK s \in req[r].subs : Fail(r) \/ (tx' = [tx EXCEPT ![r].gone = {s}] /\ db' = db)
    BY <1>3 DEF LockSub, Keep
  <2> DEFINE e == {s}
  <2>1. Fail(r) \/ (tx' = [tx EXCEPT ![r].gone = e] /\ db' = db)
    BY <2>0
  <2>2. \A a \in Agents : a \notin e
    BY <1>0, <2>0, CatalogAssumption DEF Request
  <2> HIDE DEF e
  <2>3. CASE ~Fail(r)
    <3>1. \A q \in Requests : /\ tx'[q].del = tx[q].del
                              /\ tx'[q].gone = IF q = r THEN e ELSE tx[q].gone
      BY <2>1, <2>3, FieldsOfWrites DEF Written, Write
    <3> QED BY <2>1, <2>2, <2>3, <3>1 DEF TasksSafe
  <2> QED BY <2>3, FailTasks
<1>4. CASE WriteSub(r)
  <2>1. PICK s \in req[r].subs :
           \/ Fail(r)
           \/ Finish(r, [db EXCEPT !.subs = [x \in (DOMAIN @) \cup {s} |-> x = s \/ @[x]],
                                   !.rows = @ \cup {Default(s, m) : m \in req[r].servers}])
    BY <1>4 DEF WriteSub
  <2>2. CASE ~Fail(r)
    <3>1. /\ db' = [db EXCEPT !.subs = [x \in (DOMAIN @) \cup {s} |-> x = s \/ @[x]],
                              !.rows = @ \cup {Default(s, m) : m \in req[r].servers}]
          /\ tx' = [tx EXCEPT ![r] = NoWrites]
      BY <2>1, <2>2 DEF Finish
    <3>2. db'.rows = db.rows \cup {Default(s, m) : m \in req[r].servers}
      BY <3>1 DEF Types
    <3>3. \A a \in Agents : Task(a) \in db'.rows => Task(a) \in db.rows
      BY <3>2, RowMentions
    <3> QED BY <3>1, <3>3, EndTasks
  <2> QED BY <2>2, FailTasks
<1>5. CASE WriteActive(r)
  <2>1. PICK s \in req[r].subs : Fail(r) \/ Finish(r, [db EXCEPT !.subs[s] = req[r].wants])
    BY <1>5 DEF WriteActive
  <2>2. CASE ~Fail(r)
    <3>1. db' = [db EXCEPT !.subs[s] = req[r].wants] /\ tx' = [tx EXCEPT ![r] = NoWrites]
      BY <2>1, <2>2 DEF Finish
    <3>2. db'.rows = db.rows
      BY <3>1 DEF Types
    <3> QED BY <3>1, <3>2, EndTasks
  <2> QED BY <2>2, FailTasks
<1>6. CASE Commit(r)
  <2>1. tx' = [tx EXCEPT ![r] = NoWrites] /\ db'.rows \subseteq db.rows \cup tx[r].ins
    BY <1>6, SeenTypes DEF Commit, Finish, RowsOf
  <2> QED BY <2>1, EndTasks
<1>7. CASE ~Deletes(r) /\ ~Commit(r) /\ ~WriteSub(r) /\ ~WriteActive(r)
  <2>1. PICK e : /\ db' = db
                 /\ \/ tx' = tx
                    \/ tx' = [tx EXCEPT ![r].put = e]
                    \/ tx' = [tx EXCEPT ![r].ins = e]
                    \/ tx' = [tx EXCEPT ![r] = NoWrites]
    BY <1>7, OtherSteps
  <2>2. CASE tx' # [tx EXCEPT ![r] = NoWrites]
    <3>1. \A q \in Requests : tx'[q].del = tx[q].del /\ tx'[q].gone = tx[q].gone
      BY <2>1, <2>2, FieldsOfWrites DEF Written, Write
    <3> QED BY <2>1, <3>1 DEF TasksSafe
  <2>3. CASE tx' = [tx EXCEPT ![r] = NoWrites]
    BY <2>1, <2>3, EndTasks
  <2> QED BY <2>2, <2>3
<1> QED BY <1>1, <1>2, <1>3, <1>4, <1>5, <1>6, <1>7 DEF Deletes

-----------------------------------------------------------------------------
(* The default agent and the new one.                                      *)

\* The user has agents, or has deleted the default one.
Started == DOMAIN db.agents # {} \/ deleted
\* The agents a request has inserted, those it has made no longer the default one, and those it
\* has made the default one.
Born(r) == DOMAIN tx[r].put \ DOMAIN db.agents
Cleared(r) == {d \in DOMAIN tx[r].put \cap Defaults(db.agents) : ~tx[r].put[d].dflt}
Raised(r) == {e \in DOMAIN tx[r].put : tx[r].put[e].dflt}
LinkedSubs(r) == {s \in Subs : Link(req[r].agent, s) \in tx[r].ins}

\* The agent of a user who has none becomes the default one, and a request that clears the
\* default has raised another one or is about to.
DefaultFor(r) ==
  /\ req[r].at \in {"clear", "insert"} \/ Born(r) # {} => req[r].wants \/ Started
  /\ Cleared(r) # {} => Raised(r) # {} \/ (req[r].at \in {"insert", "target"} /\ req[r].wants)
\* A request inserts one agent, and links it to every subagent before it goes on.
NewbornFor(r) ==
  Born(r) # {} =>
    /\ req[r].at \in {"link", "task", "commit"}
    /\ Born(r) = {req[r].agent} /\ tx[r].put[req[r].agent].dflt = req[r].wants
    /\ LinkedSubs(r) \subseteq req[r].subs
    /\ req[r].at # "link" => LinkedSubs(r) = req[r].subs
Defaulted == \A r \in Requests : DefaultFor(r) /\ NewbornFor(r)

\* A request that has inserted and changed no agent.
LEMMA NoAgentWritten ==
  ASSUME NEW r, DOMAIN tx[r].put = {}, req[r].at \notin {"clear", "insert"}
  PROVE  DefaultFor(r) /\ NewbornFor(r)
BY DEF DefaultFor, NewbornFor, Born, Cleared

\* The two hold from the beginning.
LEMMA InitDefaults == ASSUME Init PROVE DefaultUnlessDeleted /\ Defaulted
<1>1. \A r \in Requests : DOMAIN tx[r].put = {} /\ req[r].at = "idle"
  BY NoWriteAtAll DEF Init, Idle
<1>2. Defaulted
  BY <1>1, NoAgentWritten DEF Defaulted
<1>3. PICK agents : db.agents = agents /\ deleted = (DOMAIN agents # {} /\ Defaults(agents) = {})
  BY DEF Init, Tables
<1> QED BY <1>2, <1>3 DEF DefaultUnlessDeleted

\* What others do leaves a request's agents alone.
LEMMA OthersDefault ==
  ASSUME NEW q, req'[q] = req[q], tx'[q] = tx[q], DefaultFor(q), NewbornFor(q),
         \A x \in DOMAIN tx[q].put :
            /\ x \in DOMAIN db'.agents <=> x \in DOMAIN db.agents
            /\ x \in DOMAIN db.agents => db'.agents[x] = db.agents[x],
         Started => Started'
  PROVE  DefaultFor(q)' /\ NewbornFor(q)'
<1>1. Born(q)' = Born(q) /\ Raised(q)' = Raised(q) /\ LinkedSubs(q)' = LinkedSubs(q)
  BY DEF Born, Raised, LinkedSubs
<1>2. Cleared(q)' = Cleared(q)
  BY DEF Cleared, Defaults
<1> QED BY <1>1, <1>2 DEF DefaultFor, NewbornFor

\* A step that changes no agent.
LEMMA SameAgents ==
  ASSUME db'.agents = db.agents, deleted' = deleted \/ deleted' = (Defaults(db.agents) = {} /\ deleted),
         DefaultUnlessDeleted
  PROVE  DefaultUnlessDeleted' /\ (Started => Started')
<1>1. Defaults(db.agents)' = Defaults(db.agents)
  BY DEF Defaults
<1>2. DOMAIN db.agents = {} => Defaults(db.agents) = {}
  BY DEF Defaults
<1>3. Defaults(db.agents) = {} => (deleted' <=> deleted)
  OBVIOUS
<1> QED BY <1>1, <1>2, <1>3 DEF DefaultUnlessDeleted, Started

\* The step of one request, which keeps its own part.
LEMMA OneDefault ==
  ASSUME Defaulted, DefaultUnlessDeleted, NEW r \in Requests,
         \A q \in Requests \ {r} : req'[q] = req[q] /\ tx'[q] = tx[q],
         db'.agents = db.agents, deleted' = deleted \/ deleted' = (Defaults(db.agents) = {} /\ deleted),
         DefaultFor(r)' /\ NewbornFor(r)'
  PROVE  DefaultUnlessDeleted' /\ Defaulted'
<1>1. DefaultUnlessDeleted' /\ (Started => Started')
  BY SameAgents
<1>2. \A q \in Requests \ {r} : DefaultFor(q)' /\ NewbornFor(q)'
  BY <1>1, OthersDefault DEF Defaulted
<1> QED BY <1>1, <1>2 DEF Defaulted

\* A step after which the request has no agent in hand, such as an error.
LEMMA NoneDefault ==
  ASSUME Defaulted, DefaultUnlessDeleted, NEW r \in Requests,
         \A q \in Requests \ {r} : req'[q] = req[q] /\ tx'[q] = tx[q],
         db'.agents = db.agents, deleted' = deleted \/ deleted' = (Defaults(db.agents) = {} /\ deleted),
         DOMAIN tx'[r].put = {}, req'[r].at \notin {"clear", "insert"}
  PROVE  DefaultUnlessDeleted' /\ Defaulted'
<1>1. DefaultFor(r)' /\ NewbornFor(r)'
  BY DEF DefaultFor, NewbornFor, Born, Cleared
<1> QED BY <1>1, OneDefault

LEMMA FailDefault ==
  ASSUME Types, Written, Defaulted, DefaultUnlessDeleted, NEW r \in Requests, Fail(r)
  PROVE  DefaultUnlessDeleted' /\ Defaulted'
<1>1. /\ DOMAIN tx'[r].put = {} /\ req'[r].at = "idle"
      /\ \A q \in Requests \ {r} : req'[q] = req[q] /\ tx'[q] = tx[q]
      /\ db'.agents = db.agents /\ deleted' = deleted
  BY NoWriteAtAll DEF Fail, Keep, Written, Types, Idle
<1> QED BY <1>1, NoneDefault

\* Statements of requests that write no agent.
LEMMA QuietDefault ==
  ASSUME Types, Written, Defaulted, DefaultUnlessDeleted, NEW r \in Requests,
         \/ Count(r) \/ DeleteRow(r) \/ ReadForAttach(r) \/ Unlink(r) \/ ReadLink(r) \/ RemoveMcp(r)
         \/ Reload(r) \/ DeleteOld(r) \/ InsertNew(r) \/ LockSub(r) \/ Cascade(r) \/ AddMcp(r)
         \/ AbortDeadlock(r)
  PROVE  DefaultUnlessDeleted' /\ Defaulted'
<1>0. req[r] \in Request /\ Write(tx[r]) /\ Staged(req[r].at, tx[r])
  BY DEF Types, Written
<1>1. \/ Fail(r)
      \/ /\ req[r].at \in {"count", "delete", "attach", "detach", "mcp", "dropmcp", "reload", "old", "new",
                           "dropsub", "cascade", "addmcp"}
         /\ db' = db /\ deleted' = deleted
         /\ \E at \in {"delete", "commit", "link", "addmcp", "dropmcp", "task", "new", "cascade"} : \E new :
              req' = [req EXCEPT ![r] = new] /\ new.at = at
         /\ \E e : \/ tx' = tx
                   \/ tx' = [tx EXCEPT ![r].gone = e]
                   \/ tx' = [tx EXCEPT ![r].ins = e]
                   \/ tx' = [tx EXCEPT ![r].del = e]
  <2> DEFINE places == {"delete", "commit", "link", "addmcp", "dropmcp", "task", "new", "cascade"}
             Goes == \E at \in places : \E new : req' = [req EXCEPT ![r] = new] /\ new.at = at
  <2>1. ASSUME NEW at \in places, Go(r, at)
        PROVE  Goes
    <3> DEFINE new == [req[r] EXCEPT !.at = at]
    <3>1. req' = [req EXCEPT ![r] = new] /\ new.at = at
      BY <1>0, <2>1 DEF Go, Types, Request
    <3> QED BY <3>1
  <2> USE DEF Keep, NoWrite
  <2>2. CASE Count(r)
    BY <2>1, <2>2 DEF Count
  <2>3. CASE DeleteRow(r)
    BY <2>1, <2>3 DEF DeleteRow
  <2>4. CASE ReadForAttach(r)
    BY <2>1, <2>4 DEF ReadForAttach
  <2>5. CASE Unlink(r)
    BY <2>1, <2>5 DEF Unlink
  <2>6. CASE ReadLink(r)
    <3>1. req[r].at = "mcp" => req[r].kind \in places
      BY <1>0 DEF Request
    <3> QED BY <2>1, <2>6, <3>1 DEF ReadLink
  <2>7. CASE RemoveMcp(r)
    BY <2>1, <2>7 DEF RemoveMcp
  <2>8. CASE Reload(r)
    <3>1. CASE ~Fail(r)
      <4> DEFINE d == CHOOSE d \in Defaults(db.agents) : TRUE
                 new == [req[r] EXCEPT !.at = "task", !.subs = {}, !.agent = d]
      <4>1. req' = [req EXCEPT ![r] = new] /\ tx' = tx /\ db' = db /\ deleted' = deleted
            /\ req[r].at = "reload"
        BY <2>8, <3>1 DEF Reload, Types
      <4>2. new.at = "task"
        BY <1>0 DEF Request
      <4> HIDE DEF new
      <4> QED BY <4>1, <4>2
    <3> QED BY <3>1
  <2>9. CASE DeleteOld(r)
    BY <2>1, <2>9 DEF DeleteOld
  <2>10. CASE InsertNew(r)
    BY <2>1, <2>10 DEF InsertNew
  <2>11. CASE LockSub(r)
    BY <2>1, <2>11 DEF LockSub
  <2>12. CASE Cascade(r)
    BY <2>1, <2>12 DEF Cascade
  <2>13. CASE AddMcp(r)
    BY <2>1, <2>13 DEF AddMcp
  <2>14. CASE AbortDeadlock(r)
    BY <2>14 DEF AbortDeadlock
  <2> HIDE DEF Goes
  <2> QED
    BY <2>2, <2>3, <2>4, <2>5, <2>6, <2>7, <2>8, <2>9, <2>10, <2>11, <2>12, <2>13, <2>14 DEF Goes
<1>2. CASE ~Fail(r)
  <2>1. DOMAIN tx[r].put = {}
    BY <1>0, <1>1, <1>2 DEF Staged
  <2>2. DOMAIN tx'[r].put = {} /\ \A q \in Requests \ {r} : tx'[q] = tx[q]
    BY <1>1, <1>2, <2>1, FieldsOfWrites DEF Written, Write
  <2>3. req'[r].at \notin {"clear", "insert"} /\ \A q \in Requests \ {r} : req'[q] = req[q]
    BY <1>1, <1>2 DEF Types
  <2> QED BY <1>1, <1>2, <2>2, <2>3, NoneDefault
<1> QED BY <1>2, FailDefault

\* A commit that leaves no default agent is that of a request that deleted it.
LEMMA CommitDefault ==
  ASSUME Types, Written, Exclusive, Defaulted, DefaultUnlessDeleted, NEW r \in Requests, Commit(r)
  PROVE  DefaultUnlessDeleted' /\ Defaulted'
<1>1. /\ db'.agents = AgentsOf(r) /\ tx' = [tx EXCEPT ![r] = NoWrites]
      /\ req' = [req EXCEPT ![r] = Idle] /\ req[r].at = "commit"
      /\ deleted' = /\ Defaults(db'.agents) = {}
                    /\ deleted \/ Defaults(db.agents) \cap tx[r].gone # {}
  BY SeenTypes DEF Commit, Finish
<1>2. /\ \A q \in Requests \ {r} : req'[q] = req[q] /\ tx'[q] = tx[q]
      /\ DOMAIN tx'[r].put = {} /\ req'[r].at = "idle"
  BY <1>1, NoWriteAtAll DEF Written, Types, Idle
<1>3. tx[r].gone # {} => DOMAIN tx[r].put = {}
  BY DEF Written, Staged
<1>4. /\ DOMAIN AgentsOf(r) = (DOMAIN db.agents \cup DOMAIN tx[r].put) \ tx[r].gone
      /\ \A a \in DOMAIN AgentsOf(r) :
           AgentsOf(r)[a] = IF a \in DOMAIN tx[r].put THEN tx[r].put[a] ELSE db.agents[a]
  BY SeenAgents
<1>5. DefaultFor(r) /\ NewbornFor(r)
  BY DEF Defaulted
<1>6. ASSUME Defaults(db'.agents) = {}, DOMAIN db'.agents # {} \/ Started
      PROVE  deleted \/ Defaults(db.agents) \cap tx[r].gone # {}
  <2>1. CASE Defaults(db.agents) = {} /\ DOMAIN db.agents # {}
    BY <2>1 DEF DefaultUnlessDeleted
  <2>2. CASE DOMAIN db.agents = {} /\ ~deleted
    <3>1. DOMAIN db'.agents # {} /\ ~Started
      BY <1>6, <2>2 DEF Started
    <3>2. tx[r].gone = {} /\ Born(r) = DOMAIN AgentsOf(r) /\ Born(r) = DOMAIN tx[r].put
          /\ Born(r) # {}
      BY <1>1, <1>3, <1>4, <2>2, <3>1 DEF Born
    <3> DEFINE a == req[r].agent
    <3>3. a \in DOMAIN tx[r].put /\ tx[r].put[a].dflt = req[r].wants /\ req[r].wants
      BY <1>5, <3>1, <3>2 DEF DefaultFor, NewbornFor
    <3>4. a \in DOMAIN db'.agents /\ db'.agents[a].dflt
      BY <1>1, <1>4, <3>2, <3>3
    <3> QED BY <1>6, <3>4 DEF Defaults
  <2>3. CASE Defaults(db.agents) # {} /\ Defaults(db.agents) \cap tx[r].gone = {}
    <3>1. PICK d \in DOMAIN db.agents : db.agents[d].dflt /\ d \notin tx[r].gone
      BY <2>3 DEF Defaults
    <3>2. d \in DOMAIN db'.agents /\ ~db'.agents[d].dflt
      BY <1>1, <1>4, <1>6, <3>1 DEF Defaults
    <3>3. d \in DOMAIN tx[r].put /\ ~tx[r].put[d].dflt
      BY <1>1, <1>4, <3>1, <3>2
    <3>4. d \in Cleared(r)
      BY <3>1, <3>3 DEF Cleared, Defaults
    <3>5. Raised(r) # {}
      BY <1>1, <1>5, <3>4 DEF DefaultFor
    <3>6. PICK e \in DOMAIN tx[r].put : tx[r].put[e].dflt
      BY <3>5 DEF Raised
    <3>7. e \in DOMAIN db'.agents /\ db'.agents[e].dflt
      BY <1>1, <1>3, <1>4, <3>6
    <3> QED BY <1>6, <3>7 DEF Defaults
  <2> QED BY <2>1, <2>2, <2>3 DEF Defaults
<1>7. DefaultUnlessDeleted'
  BY <1>1, <1>6 DEF DefaultUnlessDeleted
<1>8. Started => Started'
  <2>1. CASE Defaults(db'.agents) # {}
    BY <2>1 DEF Defaults, Started
  <2>2. CASE Defaults(db'.agents) = {}
    BY <1>1, <1>6, <2>2 DEF Started
  <2> QED BY <2>1, <2>2
<1>9. ASSUME NEW q \in Requests \ {r}
      PROVE  DefaultFor(q)' /\ NewbornFor(q)'
  <2>1. \A x \in DOMAIN tx[q].put : x \notin DOMAIN tx[r].put /\ x \notin tx[r].gone
    BY DEF Exclusive, Changed
  <2>2. \A x \in DOMAIN tx[q].put :
            /\ x \in DOMAIN db'.agents <=> x \in DOMAIN db.agents
            /\ x \in DOMAIN db.agents => db'.agents[x] = db.agents[x]
    BY <1>1, <1>4, <2>1
  <2>3. DefaultFor(q) /\ NewbornFor(q)
    BY DEF Defaulted
  <2> QED BY <1>2, <1>8, <2>2, <2>3, OthersDefault
<1>10. DefaultFor(r)' /\ NewbornFor(r)'
  BY <1>2 DEF DefaultFor, NewbornFor, Born, Cleared
<1> QED BY <1>7, <1>9, <1>10 DEF Defaulted

\* A statement that leaves the request's agents, and what they are for, as they are.
LEMMA GoOnDefault ==
  ASSUME Types, Written, Defaulted, DefaultUnlessDeleted, NEW r \in Requests,
         db' = db, deleted' = deleted,
         \A q \in Requests \ {r} : req'[q] = req[q] /\ tx'[q] = tx[q],
         tx'[r].put = tx[r].put, LinkedSubs(r)' = LinkedSubs(r),
         req'[r].agent = req[r].agent, req'[r].wants = req[r].wants, req'[r].subs = req[r].subs,
         req[r].at \in {"rename", "task"} \/ (req[r].at = "link" /\ LinkedSubs(r) = req[r].subs),
         req'[r].at \in {"task", "commit"}
  PROVE  DefaultUnlessDeleted' /\ Defaulted'
<1>1. DefaultFor(r) /\ NewbornFor(r)
  BY DEF Defaulted
<1>2. Born(r)' = Born(r) /\ Raised(r)' = Raised(r) /\ Cleared(r)' = Cleared(r)
  BY DEF Born, Raised, Cleared
<1>3. DefaultFor(r)'
  BY <1>1, <1>2 DEF DefaultFor, Started
<1>4. NewbornFor(r)'
  BY <1>1, <1>2 DEF NewbornFor
<1> QED BY <1>3, <1>4, OneDefault

\* A request that goes on keeps what it carries.
LEMMA GoKeeps ==
  ASSUME Types, NEW r \in Requests, NEW at, Go(r, at)
  PROVE  /\ \A q \in Requests \ {r} : req'[q] = req[q]
         /\ req'[r].at = at /\ req'[r].agent = req[r].agent /\ req'[r].wants = req[r].wants
         /\ req'[r].subs = req[r].subs
BY DEF Types, Go, Request

\* The reads that decide whether the new agent is the default one.
LEMMA ReadDefault ==
  ASSUME Types, Written, Defaulted, DefaultUnlessDeleted, NEW r \in Requests,
         ReadForCreate(r) \/ ReadForUpdate(r) \/ Resolve(r)
  PROVE  DefaultUnlessDeleted' /\ Defaulted'
<1>0. req[r] \in Request /\ Write(tx[r]) /\ Staged(req[r].at, tx[r])
  BY DEF Types, Written
<1>1. CASE ~Fail(r)
  <2>1. /\ tx' = tx /\ db' = db /\ deleted' = deleted
        /\ \A q \in Requests \ {r} : req'[q] = req[q]
        /\ req[r].at \in {"create", "update", "get"}
    BY <1>1 DEF ReadForCreate, ReadForUpdate, Resolve, Keep, NoWrite, Types, Go
  <2>2. req'[r].at \in {"clear", "insert"} => req'[r].wants \/ DOMAIN db.agents # {}
    <3>1. CASE ReadForCreate(r)
      <4> DEFINE wants == req[r].wants \/ DOMAIN db.agents = {}
      <4>1. req' = [req EXCEPT ![r].at = "clear", ![r].wants = wants, ![r].mine = Defaults(db.agents)]
        BY <1>1, <3>1 DEF ReadForCreate
      <4>2. wants <=> (req[r].wants \/ DOMAIN db.agents = {})
        OBVIOUS
      <4> HIDE DEF wants
      <4>3. req'[r].wants = wants
        BY <1>0, <4>1 DEF Types, Request
      <4> QED BY <4>2, <4>3
    <3>2. CASE ReadForUpdate(r)
      BY <1>0, <1>1, <3>2 DEF ReadForUpdate, Types, Request
    <3>3. CASE Resolve(r)
      <4>1. \A at : Go(r, at) => req'[r].at = at
        BY GoKeeps
      <4>2. \/ req'[r].at = "task"
            \/ req' = [req EXCEPT ![r].at = "insert", ![r].name = TheName,
                                  ![r].wants = TRUE, ![r].subs = Active]
        BY <1>0, <1>1, <3>3, <4>1 DEF Resolve, Types, Request
      <4> QED BY <1>0, <4>2 DEF Types, Request
    <3> QED BY <3>1, <3>2, <3>3
  <2>3. DOMAIN tx'[r].put = {}
    BY <1>0, <2>1 DEF Staged
  <2>4. DefaultFor(r)' /\ NewbornFor(r)'
    BY <2>1, <2>2, <2>3 DEF DefaultFor, NewbornFor, Born, Cleared, Started
  <2> QED BY <2>1, <2>4, OneDefault
<1> QED BY <1>1, FailDefault

\* The defaults that were read are cleared, for the sake of another.
LEMMA ClearDefault ==
  ASSUME Types, Written, Defaulted, DefaultUnlessDeleted, NEW r \in Requests, Clear(r)
  PROVE  DefaultUnlessDeleted' /\ Defaulted'
<1> DEFINE old == IF req[r].wants THEN req[r].mine ELSE {}
           e == [a \in old |-> [db.agents[a] EXCEPT !.dflt = FALSE]]
           at == IF req[r].kind = "create" THEN "insert" ELSE "target"
<1>1. CASE ~Fail(r)
  <2>1. /\ tx' = [tx EXCEPT ![r].put = e] /\ db' = db /\ deleted' = deleted /\ Go(r, at)
        /\ old \subseteq DOMAIN db.agents /\ req[r].at = "clear"
    BY <1>1 DEF Clear, Keep
  <2>2. DOMAIN e = old /\ (old # {} => req[r].wants)
    OBVIOUS
  <2> HIDE DEF old, e
  <2>3. DOMAIN tx'[r].put = old /\ \A q \in Requests \ {r} : tx'[q] = tx[q]
    BY <2>1, <2>2, FieldsOfWrites DEF Written, Write
  <2>4. /\ req'[r].at \in {"insert", "target"} /\ req'[r].wants = req[r].wants
        /\ \A q \in Requests \ {r} : req'[q] = req[q]
    BY <2>1, GoKeeps
  <2>5. Born(r)' = {} /\ (Cleared(r)' # {} => req[r].wants)
    BY <2>1, <2>2, <2>3 DEF Born, Cleared
  <2>6. req[r].wants \/ Started
    BY <2>1 DEF Defaulted, DefaultFor
  <2>7. DefaultFor(r)'
    BY <2>1, <2>4, <2>5, <2>6 DEF DefaultFor, Started
  <2>8. NewbornFor(r)'
    BY <2>5 DEF NewbornFor
  <2> QED BY <2>1, <2>3, <2>4, <2>7, <2>8, OneDefault
<1> QED BY <1>1, FailDefault

\* The new agent is inserted.
LEMMA InsertDefault ==
  ASSUME Types, Written, Defaulted, DefaultUnlessDeleted, NEW r \in Requests, Insert(r)
  PROVE  DefaultUnlessDeleted' /\ Defaulted'
<1>0. req[r] \in Request /\ Write(tx[r]) /\ Staged(req[r].at, tx[r]) /\ req[r].at = "insert"
  BY DEF Types, Written, Insert
<1> DEFINE new == [name |-> req[r].name, dflt |-> req[r].wants]
<1>1. PICK a \in Agents :
         /\ a \notin (DOMAIN db.agents) \cup UNION {DOMAIN tx[q].put : q \in Requests}
         /\ \/ /\ tx' = [tx EXCEPT ![r].put = With(@, a, new)] /\ db' = db /\ deleted' = deleted
               /\ req' = [req EXCEPT ![r].at = "link", ![r].agent = a]
            \/ /\ tx' = [tx EXCEPT ![r] = NoWrites] /\ db' = db /\ deleted' = deleted
               /\ Go(r, "reload")
            \/ Fail(r)
  BY DEF Insert, Keep
<1>2. CASE /\ tx' = [tx EXCEPT ![r].put = With(@, a, new)] /\ db' = db /\ deleted' = deleted
           /\ req' = [req EXCEPT ![r].at = "link", ![r].agent = a]
  <2> DEFINE e == With(tx[r].put, a, new)
  <2>1. tx' = [tx EXCEPT ![r].put = e]
    BY <1>2
  <2>2. /\ DOMAIN e = DOMAIN tx[r].put \cup {a}
        /\ \A x \in DOMAIN e : e[x] = IF x = a THEN new ELSE tx[r].put[x]
    BY DEF With
  <2> HIDE DEF e
  <2>3. tx'[r].put = e /\ tx'[r].ins = tx[r].ins /\ \A q \in Requests \ {r} : tx'[q] = tx[q]
    BY <2>1, FieldsOfWrites DEF Written, Write
  <2>4. /\ req'[r].at = "link" /\ req'[r].agent = a /\ req'[r].wants = req[r].wants
        /\ req'[r].subs = req[r].subs /\ \A q \in Requests \ {r} : req'[q] = req[q]
    BY <1>0, <1>2 DEF Types, Request
  <2>5. DefaultFor(r) /\ NewbornFor(r)
    BY DEF Defaulted
  <2>6. Born(r) = {} /\ a \notin DOMAIN tx[r].put /\ a \notin DOMAIN db.agents
    BY <1>0, <1>1, <2>5 DEF NewbornFor
  <2>7. Born(r)' = {a}
    BY <1>2, <2>2, <2>3, <2>6 DEF Born
  <2>8. e[a] = new /\ new.dflt = req[r].wants
    BY <2>2
  <2>9. LinkedSubs(r)' = {}
    BY <1>0, <2>3 DEF LinkedSubs, Staged
  <2>10. NewbornFor(r)'
    BY <2>3, <2>4, <2>7, <2>8, <2>9 DEF NewbornFor
  <2>11. Cleared(r)' # {} => Cleared(r) # {}
    BY <1>2, <2>2, <2>3, <2>6 DEF Cleared, Defaults
  <2>12. Raised(r) # {} \/ req[r].wants => Raised(r)' # {}
    BY <2>2, <2>3, <2>6, <2>8 DEF Raised
  <2>13. req[r].wants \/ Started
    BY <1>0, <2>5 DEF DefaultFor
  <2>14. DefaultFor(r)'
    BY <1>2, <2>4, <2>5, <2>11, <2>12, <2>13 DEF DefaultFor, Started
  <2> QED BY <1>2, <2>3, <2>4, <2>10, <2>14, OneDefault
<1>3. CASE /\ tx' = [tx EXCEPT ![r] = NoWrites] /\ db' = db /\ deleted' = deleted
           /\ Go(r, "reload")
  <2>1. /\ DOMAIN tx'[r].put = {} /\ \A q \in Requests \ {r} : tx'[q] = tx[q]
    BY <1>3, NoWriteAtAll DEF Written
  <2>2. req'[r].at = "reload" /\ \A q \in Requests \ {r} : req'[q] = req[q]
    BY <1>3, GoKeeps
  <2> QED BY <1>3, <2>1, <2>2, NoneDefault
<1> QED BY <1>1, <1>2, <1>3, FailDefault

\* A statement that changes an agent, and leaves it the default one or makes it so.
LEMMA ChangeDefault ==
  ASSUME Types, Written, Defaulted, DefaultUnlessDeleted, NEW r \in Requests,
         req[r].at \in {"target", "rename"}, db' = db, deleted' = deleted,
         NEW a \in DOMAIN AgentsOf(r), NEW new,
         tx' = [tx EXCEPT ![r].put = With(@, a, new)],
         (new.dflt = AgentsOf(r)[a].dflt /\ req[r].at = "rename") \/ new.dflt = TRUE,
         NEW at \in {"rename", "commit"}, Go(r, at)
  PROVE  DefaultUnlessDeleted' /\ Defaulted'
<1>0. req[r] \in Request /\ Write(tx[r]) /\ Staged(req[r].at, tx[r])
  BY DEF Types, Written
<1> DEFINE e == With(tx[r].put, a, new)
<1>1. tx' = [tx EXCEPT ![r].put = e]
  OBVIOUS
<1>2. /\ DOMAIN e = DOMAIN tx[r].put \cup {a}
      /\ \A x \in DOMAIN e : e[x] = IF x = a THEN new ELSE tx[r].put[x]
  BY DEF With
<1> HIDE DEF e
<1>3. tx'[r].put = e /\ \A q \in Requests \ {r} : tx'[q] = tx[q]
  BY <1>1, FieldsOfWrites DEF Written, Write
<1>4. req'[r].at = at /\ \A q \in Requests \ {r} : req'[q] = req[q]
  BY GoKeeps
<1>5. DefaultFor(r) /\ NewbornFor(r)
  BY DEF Defaulted
<1>6. Born(r) = {}
  BY <1>5 DEF NewbornFor
<1>7. a \in DOMAIN db.agents /\ AgentsOf(r)[a] = IF a \in DOMAIN tx[r].put THEN tx[r].put[a] ELSE db.agents[a]
  BY <1>6, SeenAgents DEF Born
<1>8. Born(r)' = {}
  BY <1>2, <1>3, <1>6, <1>7 DEF Born
<1>9. NewbornFor(r)'
  BY <1>8 DEF NewbornFor
<1>10. e[a] = new /\ \A x \in DOMAIN tx[r].put \ {a} : e[x] = tx[r].put[x]
  BY <1>2
<1>11. CASE new.dflt = TRUE
  <2>1. Raised(r)' # {}
    BY <1>2, <1>3, <1>10, <1>11 DEF Raised
  <2>2. DefaultFor(r)'
    BY <1>4, <1>8, <2>1 DEF DefaultFor
  <2> QED BY <1>3, <1>4, <1>9, <2>2, OneDefault
<1>12. CASE new.dflt = AgentsOf(r)[a].dflt /\ req[r].at = "rename"
  <2>1. Cleared(r)' # {} => Cleared(r) # {}
    <3> SUFFICES ASSUME NEW d \in Cleared(r)' PROVE d \in Cleared(r)
      OBVIOUS
    <3>1. d \in DOMAIN e /\ d \in Defaults(db.agents) /\ ~e[d].dflt
      BY <1>3 DEF Cleared
    <3>2. CASE d = a
      BY <1>7, <1>10, <1>12, <3>1, <3>2 DEF Cleared, Defaults
    <3>3. CASE d # a
      BY <1>2, <1>10, <3>1, <3>3 DEF Cleared
    <3> QED BY <3>2, <3>3
  <2>2. Raised(r) # {} => Raised(r)' # {}
    <3> SUFFICES ASSUME NEW d \in Raised(r) PROVE d \in Raised(r)'
      OBVIOUS
    <3>1. d \in DOMAIN tx[r].put /\ tx[r].put[d].dflt
      BY DEF Raised
    <3>2. CASE d = a
      BY <1>2, <1>3, <1>7, <1>10, <1>12, <3>1, <3>2 DEF Raised
    <3>3. CASE d # a
      BY <1>2, <1>3, <1>10, <3>1, <3>3 DEF Raised
    <3> QED BY <3>2, <3>3
  <2>3. DefaultFor(r)'
    BY <1>4, <1>5, <1>8, <1>12, <2>1, <2>2 DEF DefaultFor
  <2> QED BY <1>3, <1>4, <1>9, <2>3, OneDefault
<1> QED BY <1>11, <1>12

\* Every step of a request, and its beginning.
LEMMA StepDefault ==
  ASSUME Types, Written, Exclusive, Defaulted, DefaultUnlessDeleted, NEW r \in Requests, Step(r)
  PROVE  DefaultUnlessDeleted' /\ Defaulted'
<1>0. req[r] \in Request /\ Write(tx[r]) /\ Staged(req[r].at, tx[r])
  BY DEF Types, Written
<1>1. CASE ReadForCreate(r) \/ ReadForUpdate(r) \/ Resolve(r)
  BY <1>1, ReadDefault
<1>2. CASE \/ Count(r) \/ DeleteRow(r) \/ ReadForAttach(r) \/ Unlink(r) \/ ReadLink(r) \/ RemoveMcp(r)
           \/ Reload(r) \/ DeleteOld(r) \/ InsertNew(r) \/ LockSub(r) \/ Cascade(r) \/ AddMcp(r)
           \/ AbortDeadlock(r)
  BY <1>2, QuietDefault
<1>3. CASE Clear(r)
  BY <1>3, ClearDefault
<1>4. CASE Insert(r)
  BY <1>4, InsertDefault
<1>5. CASE Commit(r)
  BY <1>5, CommitDefault
<1>6. CASE Target(r)
  <2> DEFINE a == req[r].agent
             new == [AgentsOf(r)[a] EXCEPT !.dflt = TRUE]
  <2>1. \/ Fail(r)
        \/ /\ tx' = [tx EXCEPT ![r].put = With(@, a, new)] /\ db' = db /\ deleted' = deleted
           /\ Go(r, "rename") /\ a \in DOMAIN AgentsOf(r) /\ req[r].at = "target"
    BY <1>6 DEF Target, Keep
  <2>2. a \in DOMAIN AgentsOf(r) => new.dflt = TRUE
    BY SeenTypes DEF AgentTable
  <2> HIDE DEF new
  <2> QED BY <2>1, <2>2, FailDefault, ChangeDefault
<1>7. CASE Rename(r)
  <2> DEFINE a == req[r].agent
             new == [AgentsOf(r)[a] EXCEPT !.name = req[r].name]
  <2>1. /\ req[r].at = "rename"
        /\ \/ Fail(r)
           \/ tx' = tx /\ db' = db /\ deleted' = deleted /\ Go(r, "commit")
           \/ /\ tx' = [tx EXCEPT ![r].put = With(@, a, new)] /\ db' = db /\ deleted' = deleted
              /\ Go(r, "commit") /\ a \in DOMAIN AgentsOf(r)
    BY <1>7 DEF Rename, Keep, NoWrite
  <2>2. a \in DOMAIN AgentsOf(r) => new.dflt = AgentsOf(r)[a].dflt
    BY SeenTypes DEF AgentTable
  <2> HIDE DEF new
  <2>3. CASE tx' = tx /\ db' = db /\ deleted' = deleted /\ Go(r, "commit")
    <3>1. LinkedSubs(r)' = LinkedSubs(r)
      BY <2>3, GoKeeps DEF LinkedSubs
    <3> QED BY <2>1, <2>3, <3>1, GoKeeps, GoOnDefault
  <2> QED BY <2>1, <2>2, <2>3, FailDefault, ChangeDefault
<1>8. CASE LinkSubagents(r)
  <2>1. CASE LinkNext(r)
    <3>1. PICK s \in req[r].subs :
             \/ Fail(r)
             \/ /\ tx' = [tx EXCEPT ![r].ins = @ \cup LinkRows(r, s)]
                /\ req' = req /\ db' = db /\ deleted' = deleted
      BY <2>1 DEF LinkNext, Keep
    <3> DEFINE e == tx[r].ins \cup LinkRows(r, s)
    <3>2. \A x \in Subs : Link(req[r].agent, x) \in e => Link(req[r].agent, x) \in tx[r].ins \/ x = s
      BY RowMentions DEF LinkRows, Link, Mcp
    <3>3. CASE ~Fail(r)
      <4>1. tx' = [tx EXCEPT ![r].ins = e] /\ req' = req /\ db' = db /\ deleted' = deleted
        BY <3>1, <3>3
      <4> HIDE DEF e
      <4>2. tx'[r].put = tx[r].put /\ tx'[r].ins = e /\ \A q \in Requests \ {r} : tx'[q] = tx[q]
        BY <4>1, FieldsOfWrites DEF Written, Write
      <4>3. LinkedSubs(r)' \subseteq LinkedSubs(r) \cup {s}
        BY <3>2, <4>1, <4>2 DEF LinkedSubs
      <4>4. Born(r)' = Born(r) /\ Raised(r)' = Raised(r) /\ Cleared(r)' = Cleared(r) /\ Started' = Started
        BY <4>1, <4>2 DEF Born, Raised, Cleared, Started
      <4>5. DefaultFor(r) /\ NewbornFor(r) /\ req[r].at = "link"
        BY <1>8 DEF Defaulted, LinkSubagents
      <4>6. DefaultFor(r)'
        BY <4>1, <4>4, <4>5 DEF DefaultFor
      <4>7. NewbornFor(r)'
        BY <3>1, <4>1, <4>2, <4>3, <4>4, <4>5 DEF NewbornFor
      <4> QED BY <4>1, <4>2, <4>6, <4>7, OneDefault
    <3> QED BY <3>3, FailDefault
  <2>2. CASE ~LinkNext(r)
    <3> DEFINE at == IF req[r].kind = "submit" THEN "task" ELSE "commit"
    <3>1. tx' = tx /\ db' = db /\ deleted' = deleted /\ Go(r, at) /\ req[r].at = "link"
          /\ Linked(r) = req[r].subs
      BY <1>8, <2>2 DEF LinkSubagents, NoWrite, Keep
    <3>2. at \in {"task", "commit"}
      OBVIOUS
    <3> HIDE DEF at
    <3>3. LinkedSubs(r)' = LinkedSubs(r)
      BY <3>1, GoKeeps DEF LinkedSubs
    <3>4. CASE LinkedSubs(r) = req[r].subs
      BY <3>1, <3>2, <3>3, <3>4, GoKeeps, GoOnDefault
    <3>5. CASE LinkedSubs(r) # req[r].subs
      <4>1. Linked(r) \subseteq LinkedSubs(r)
        BY <1>0 DEF Linked, LinkedSubs, Request
      <4>2. Born(r) = {}
        BY <3>1, <3>5, <4>1 DEF Defaulted, NewbornFor
      <4>3. Born(r)' = {} /\ Raised(r)' = Raised(r) /\ Cleared(r)' = Cleared(r)
        BY <3>1, <4>2 DEF Born, Raised, Cleared
      <4>4. req'[r].at \in {"task", "commit"} /\ \A q \in Requests \ {r} : req'[q] = req[q]
        BY <3>1, <3>2, GoKeeps
      <4>5. DefaultFor(r)
        BY DEF Defaulted
      <4>6. DefaultFor(r)' /\ NewbornFor(r)'
        BY <3>1, <4>3, <4>4, <4>5 DEF DefaultFor, NewbornFor
      <4> QED BY <3>1, <4>4, <4>6, OneDefault
    <3> QED BY <3>4, <3>5
  <2> QED BY <2>1, <2>2
<1>9. CASE InsertTask(r)
  <2> DEFINE e == tx[r].ins \cup {Task(req[r].agent)}
  <2>1. \/ Fail(r)
        \/ /\ tx' = [tx EXCEPT ![r].ins = e] /\ Go(r, "commit") /\ db' = db /\ deleted' = deleted
           /\ req[r].at = "task"
    BY <1>9 DEF InsertTask, Keep
  <2>2. \A x \in Subs : Link(req[r].agent, x) \in e <=> Link(req[r].agent, x) \in tx[r].ins
    BY RowMentions DEF Link, Task
  <2> HIDE DEF e
  <2>3. CASE ~Fail(r)
    <3>1. tx'[r].put = tx[r].put /\ tx'[r].ins = e /\ \A q \in Requests \ {r} : tx'[q] = tx[q]
      BY <2>1, <2>3, FieldsOfWrites DEF Written, Write
    <3>2. LinkedSubs(r)' = LinkedSubs(r)
      BY <2>1, <2>2, <2>3, <3>1, GoKeeps DEF LinkedSubs
    <3> QED BY <2>1, <2>3, <3>1, <3>2, GoKeeps, GoOnDefault
  <2> QED BY <2>3, FailDefault
<1>10. CASE WriteSub(r) \/ WriteActive(r)
  <2>1. CASE ~Fail(r)
    <3>1. PICK answer : Finish(r, answer) /\ answer.agents = db.agents
      BY <1>10, <2>1, CatalogSteps
    <3>2. tx[r].gone = {}
      BY <1>0, <1>10 DEF WriteSub, WriteActive, Staged
    <3>3. /\ db'.agents = db.agents /\ DOMAIN tx'[r].put = {} /\ req'[r].at = "idle"
          /\ \A q \in Requests \ {r} : req'[q] = req[q] /\ tx'[q] = tx[q]
      BY <3>1, NoWriteAtAll DEF Finish, Written, Types, Idle
    <3>4. deleted' = (Defaults(db.agents) = {} /\ deleted)
      BY <3>1, <3>2 DEF Finish, Types
    <3> QED BY <3>3, <3>4, NoneDefault
  <2> QED BY <2>1, FailDefault
<1> QED
  BY <1>1, <1>2, <1>3, <1>4, <1>5, <1>6, <1>7, <1>8, <1>9, <1>10 DEF Step

LEMMA AskDefault ==
  ASSUME Types, Written, Defaulted, DefaultUnlessDeleted, NEW r \in Requests, Ask(r)
  PROVE  DefaultUnlessDeleted' /\ Defaulted'
<1>1. PICK new : /\ db' = db /\ tx' = tx /\ deleted' = deleted /\ req[r].at = "idle"
                 /\ new.at \in FirstPlaces /\ req' = [req EXCEPT ![r] = new]
  BY AskKeeps DEF BeginKeeps
<1>2. DOMAIN tx'[r].put = {}
  BY <1>1 DEF Written, Staged
<1>3. req'[r].at \notin {"clear", "insert"} /\ \A q \in Requests \ {r} : req'[q] = req[q]
  BY <1>1 DEF Types, FirstPlaces
<1> QED BY <1>1, <1>2, <1>3, NoneDefault

-----------------------------------------------------------------------------
(* The inductive invariant.                                                *)

\* Only a commit changes agents or removes rows.
LEMMA AgentsChange ==
  ASSUME Types, NEW r \in Requests, Step(r), ~Commit(r)
  PROVE  db'.agents = db.agents /\ db.rows \subseteq db'.rows
<1>1. CASE Deletes(r)
  BY <1>1 DEF Deletes, Unlink, RemoveMcp, DeleteOld, DeleteRow, LockSub, Keep, Fail
<1>2. CASE WriteSub(r) \/ WriteActive(r)
  BY <1>2, CatalogSteps DEF Fail, Keep, Finish
<1>3. CASE ~Deletes(r) /\ ~WriteSub(r) /\ ~WriteActive(r)
  BY <1>3, OtherSteps
<1> QED BY <1>1, <1>2, <1>3

\* The inductive invariant: what the tables and the requests hold (Types, Written), the locks
\* (Exclusive), the unique indexes (Distinct), the foreign keys (MentionsKept, LinksKept), and
\* what the properties add to them.
Consistent ==
  /\ Types /\ Written /\ Exclusive /\ Distinct /\ MentionsKept /\ LinksKept
  /\ TasksSafe /\ DefaultUnlessDeleted /\ Defaulted

\* It holds from the beginning, and every step keeps it.
LEMMA InitConsistent == Init => Consistent
BY InitTypes, InitWritten, InitDistinct, InitRefs, InitTasks, InitDefaults DEF Consistent

LEMMA NextConsistent == Consistent /\ [Next]_vars => Consistent'
<1> SUFFICES ASSUME Consistent, [Next]_vars
             PROVE  Consistent'
  OBVIOUS
<1> USE DEF Consistent
<1>1. CASE UNCHANGED vars
  <2>1. Types' /\ Written'
    BY <1>1 DEF vars, Types, Written
  <2>2. Exclusive' /\ Distinct'
    BY <1>1, SameDistinct DEF vars
  <2>3. MentionsKept' /\ LinksKept'
    BY <1>1 DEF vars, MentionsKept, LinksKept
  <2>4. TasksSafe'
    BY <1>1 DEF vars, TasksSafe
  <2>5. DefaultUnlessDeleted'
    BY <1>1 DEF vars, DefaultUnlessDeleted
  <2>6. Defaulted'
    BY <1>1 DEF vars, Defaulted, DefaultFor, NewbornFor, Born, Cleared, Raised, LinkedSubs, Started
  <2> QED BY <2>1, <2>2, <2>3, <2>4, <2>5, <2>6
<1>2. ASSUME NEW r \in Requests, Ask(r)
      PROVE  Consistent'
  <2>1. db' = db /\ tx' = tx
    BY <1>2, AskKeeps DEF BeginKeeps
  <2>2. Types' /\ Written'
    BY <1>2, AskTypes, AskWritten
  <2>3. Exclusive' /\ Distinct'
    BY <2>1, SameDistinct
  <2>4. MentionsKept' /\ LinksKept' /\ TasksSafe'
    BY <2>1, NoWriteRefs DEF TasksSafe
  <2>5. DefaultUnlessDeleted' /\ Defaulted'
    BY <1>2, AskDefault
  <2> QED BY <2>2, <2>3, <2>4, <2>5
<1>3. ASSUME NEW r \in Requests, Step(r)
      PROVE  Consistent'
  BY <1>3, StepTypes, StepWritten, StepDistinct, StepRefs, StepTasks, StepDefault
<1> QED BY <1>1, <1>2, <1>3 DEF Next

\* Whatever the requests do, the tables and their uncommitted writes agree.
THEOREM Consistency == Spec => []Consistent
BY InitConsistent, NextConsistent, PTL DEF Spec

-----------------------------------------------------------------------------
(* The theorems.                                                           *)

\* The columns, the unique indexes and the foreign keys of the tables hold at every commit,
\* however many requests there are and however they interleave (db/models/agent.py).
THEOREM Typing == Spec => []TypeOK
<1>1. Consistent => TypeOK
  BY DEF Consistent, TypeOK, Types, Request, Distinct, MentionsKept, LinksKept, LinkOf
<1> QED BY <1>1, Consistency, PTL

\* A user with agents has a default one, unless the default was deleted (agent_query.py
\* set_default, agent_service.py create).
THEOREM DefaultStays == Spec => []DefaultUnlessDeleted
<1>1. Consistent => DefaultUnlessDeleted
  BY DEF Consistent
<1> QED BY <1>1, Consistency, PTL

\* A commit leaves every task that it finds.
LEMMA CommitKeepsTasks ==
  ASSUME Consistent, NEW r \in Requests, Commit(r), NEW a \in Agents, Task(a) \in db.rows
  PROVE  Task(a) \in db'.rows
<1>1. db' = Applied(r)
  BY DEF Commit, Finish
<1>2. Task(a) \in RowsOf(r)
  BY DEF RowsOf, Consistent, TasksSafe
<1>3. Mentions(Task(a)) \cap tx[r].gone = {} /\ Task(a)[1] # "mcp"
  BY RowMentions DEF Consistent, TasksSafe
<1> QED
  BY <1>1, <1>2, <1>3 DEF Applied

\* No request on agents, links or the catalogue removes a task (agent_query.py delete,
\* db/models/agent.py).
THEOREM TasksSurvive == Spec => TasksKept
<1>1. Consistent /\ [Next]_vars =>
        [\A a \in Agents : Task(a) \in db.rows => Task(a) \in db'.rows]_vars
  <2> SUFFICES ASSUME Consistent, Next, NEW a \in Agents, Task(a) \in db.rows
               PROVE  Task(a) \in db'.rows
    BY DEF vars
  <2>1. PICK r \in Requests : Ask(r) \/ Step(r)
    BY DEF Next
  <2>2. CASE Ask(r)
    BY <2>2, AskKeeps DEF BeginKeeps
  <2>3. CASE Step(r) /\ ~Commit(r)
    BY <2>3, AgentsChange DEF Consistent
  <2>4. CASE Commit(r)
    BY <2>4, CommitKeepsTasks
  <2> QED BY <2>1, <2>2, <2>3, <2>4
<1> QED
  BY <1>1, Consistency, PTL DEF Spec, TasksKept

\* An agent that is committed has the links its request inserted, and no others.
LEMMA CommitBears ==
  ASSUME Consistent, NEW r \in Requests, Commit(r),
         NEW a \in (DOMAIN db'.agents) \ (DOMAIN db.agents)
  PROVE  a \in DOMAIN tx[r].put /\ {s \in Subs : Link(a, s) \in db'.rows} = req[r].subs
<1> USE DEF Consistent
<1>1. /\ db' = Applied(r) /\ db'.agents = AgentsOf(r) /\ req[r].at = "commit"
  BY SeenTypes DEF Commit, Finish
<1>2. a \in Born(r) /\ a \in Agents
  <2>1. a \in DOMAIN AgentsOf(r) /\ a \notin DOMAIN db.agents
    BY <1>1
  <2>2. a \in DOMAIN tx[r].put
    BY <2>1, SeenAgents
  <2>3. a \in Agents
    BY <2>1, SeenTypes
  <2> QED BY <2>1, <2>2, <2>3 DEF Born
<1>3. a = req[r].agent /\ LinkedSubs(r) = req[r].subs
  BY <1>1, <1>2 DEF Defaulted, NewbornFor
<1>4. tx[r].gone = {}
  BY <1>2 DEF Written, Staged, Born
<1>5. \A s \in Subs : Link(a, s) \notin db.rows
  <2> SUFFICES ASSUME NEW s \in Subs, Link(a, s) \in db.rows PROVE FALSE
    OBVIOUS
  <2>1. a \in DOMAIN db.agents \cup DOMAIN db.subs \cup Mcps
    BY RowMentions DEF MentionsKept
  <2> QED BY <1>2, <2>1, CatalogAssumption DEF Types
<1>6. \A s \in Subs : Link(a, s) \in db'.rows <=> Link(a, s) \in RowsOf(r)
  BY <1>1, <1>4, RowMentions DEF Applied
<1>7. \A s \in Subs : Link(a, s) \in db'.rows <=> Link(a, s) \in tx[r].ins
  BY <1>5, <1>6 DEF RowsOf
<1> QED BY <1>2, <1>3, <1>7 DEF LinkedSubs, Born

\* An agent appears together with every subagent it was asked for (agent_service.py create and
\* _auto_provision_default).
THEOREM BornReady == Spec => BornComplete
<1>1. Consistent /\ [Next]_vars =>
        [\A a \in (DOMAIN db'.agents) \ (DOMAIN db.agents) :
            \E r \in Requests :
                /\ a \in DOMAIN tx[r].put
                /\ {s \in Subs : Link(a, s) \in db'.rows} = req[r].subs]_vars
  <2> SUFFICES ASSUME Consistent, Next, NEW a \in (DOMAIN db'.agents) \ (DOMAIN db.agents)
               PROVE  \E r \in Requests :
                        /\ a \in DOMAIN tx[r].put
                        /\ {s \in Subs : Link(a, s) \in db'.rows} = req[r].subs
    BY DEF vars
  <2>1. PICK r \in Requests : Ask(r) \/ Step(r)
    BY DEF Next
  <2>2. CASE Ask(r)
    BY <2>2, AskKeeps DEF BeginKeeps
  <2>3. CASE Step(r) /\ ~Commit(r)
    BY <2>3, AgentsChange DEF Consistent
  <2>4. CASE Commit(r)
    BY <2>4, CommitBears
  <2> QED BY <2>1, <2>2, <2>3, <2>4
<1> QED
  BY <1>1, Consistency, PTL DEF Spec, BornComplete
=============================================================================
