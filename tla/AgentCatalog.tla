----------------------------- MODULE AgentCatalog -----------------------------
(***************************************************************************)
(* One user's agents and the catalogue of subagents they are built from:   *)
(* the requests of services/agent_service.py and the statements of         *)
(* db/queries/agent_query.py, each request one READ COMMITTED transaction  *)
(* of the database.                                                        *)
(*                                                                         *)
(* A request sees what is committed and its own writes, a statement waits  *)
(* for a row that another request has changed (action disabled), and the   *)
(* unique indexes (one name, one default agent per user), the foreign keys *)
(* and their cascades are those of db/models/agent.py.                     *)
(***************************************************************************)
EXTENDS Integers, Sequences, FiniteSets, TLC

CONSTANTS Requests,     \* requests in progress at the same time
          Agents,       \* rows the table agents may get
          Subs, Mcps,   \* subagents and MCP servers of the catalogue
          Starts,       \* what the user's agents may be when the model starts
          MaxRequests   \* bound: requests in all

VARIABLES db,       \* what is committed: agents, subs (active or not), rows of the other tables
          tx,       \* per request, its uncommitted writes
          req,      \* per request, where it is and what it has read
          begun,    \* number of requests begun
          deleted   \* the user deleted the default agent and has none since

vars == <<db, tx, req, begun, deleted>>

None == "none"
TheName == "default-orchestrator"
Names == {TheName, "other"}
AgentRow == [name : Names, dflt : BOOLEAN]
Defaults(agents) == {a \in DOMAIN agents : agents[a].dflt}

\* The unique indexes of the table agents.
Clashing(new, row) == row.name = new.name \/ (row.dflt /\ new.dflt)
Unique(agents) == \A a, b \in DOMAIN agents : a # b => ~Clashing(agents[a], agents[b])

\* A key is of one table.
ASSUME CatalogAssumption ==
    /\ MaxRequests \in Nat
    /\ Subs # {} /\ Agents \cap Subs = {} /\ Mcps \cap (Agents \cup Subs) = {}
ASSUME StartsAssumption ==
    \A agents \in Starts :
        /\ DOMAIN agents \subseteq Agents /\ agents \in [DOMAIN agents -> AgentRow]
        /\ Unique(agents)

\* Rows: <<"link", a, s>>, <<"mcp", a, s, m>>, <<"task", a>> and <<"default", s, m>>.
Link(a, s) == <<"link", a, s>>
Mcp(a, s, m) == <<"mcp", a, s, m>>
Task(a) == <<"task", a>>
Default(s, m) == <<"default", s, m>>
Mentions(row) == {row[i] : i \in 2..Len(row)}

With(agents, a, row) ==
    [x \in (DOMAIN agents) \cup {a} |-> IF x = a THEN row ELSE agents[x]]
NoWrites == [put |-> <<>>, gone |-> {}, ins |-> {}, del |-> {}]
Idle == [at |-> "idle", kind |-> None, agent |-> None, name |-> None, wants |-> FALSE,
         subs |-> {}, servers |-> {}, mine |-> {}]
Kinds == {None, "create", "update", "delete", "submit", "attach", "detach", "addmcp",
          "dropmcp", "defaults", "toggle", "dropsub", "newsub"}
Places == {"idle", "create", "clear", "insert", "link", "target", "rename", "update", "count",
           "delete", "get", "reload", "task", "attach", "detach", "mcp", "addmcp", "dropmcp",
           "old", "new", "newsub", "toggle", "dropsub", "cascade", "commit"}

\* What request r sees.
AgentsOf(r) ==
    [a \in ((DOMAIN db.agents) \cup (DOMAIN tx[r].put)) \ tx[r].gone |->
        IF a \in DOMAIN tx[r].put THEN tx[r].put[a] ELSE db.agents[a]]
RowsOf(r) == (db.rows \ tx[r].del) \cup tx[r].ins
Servers(rows, s) == {row[3] : row \in {x \in rows : x[1] = "default" /\ x[2] = s}}

\* Rows that another request has changed, or refers to from a row it has inserted.
Locked(x, r) == \E q \in Requests \ {r} : x \in (DOMAIN tx[q].put) \cup tx[q].gone
Shared(x, r) == \E q \in Requests \ {r} : \E row \in tx[q].ins : x \in Mentions(row)
Pending(row, r) == \E q \in Requests \ {r} : row \in tx[q].ins \cup tx[q].del
\* ... in a way that a foreign key to it has to wait for: a new name, or its deletion.
KeyLocked(x, r) ==
    \E q \in Requests \ {r} :
        \/ x \in tx[q].gone
        \/ /\ x \in DOMAIN tx[q].put
           /\ x \in DOMAIN db.agents => tx[q].put[x].name # db.agents[x].name

\* The agents that r sees, and those of others, that would break a unique index.
Rivals(r, a, new) == {b \in (DOMAIN AgentsOf(r)) \ {a} : Clashing(new, AgentsOf(r)[b])}
Waits(r, a, new) ==
    \/ \E b \in Rivals(r, a, new) : Locked(b, r)
    \/ \E q \in Requests \ {r} : \E b \in DOMAIN tx[q].put : Clashing(new, tx[q].put[b])

-----------------------------------------------------------------------------
\* The subagent that has default servers; the catalogue of a new user may have no other.
Served == CHOOSE x \in Subs : TRUE

Tables(agents, subs) ==
    [agents |-> agents,
     subs   |-> [x \in subs |-> TRUE],
     rows   |-> {Link(a, x) : a \in DOMAIN agents, x \in subs}
                  \cup {Default(Served, m) : m \in Mcps}
                  \cup {Mcp(a, Served, m) : a \in DOMAIN agents, m \in Mcps}]

Init ==
    /\ \E agents \in Starts, subs \in {Subs, {Served}} :
        /\ DOMAIN agents # {} => subs = Subs
        /\ db = Tables(agents, subs)
        /\ deleted = (DOMAIN agents # {} /\ Defaults(agents) = {})
    /\ tx = [r \in Requests |-> NoWrites]
    /\ req = [r \in Requests |-> Idle]
    /\ begun = 0

Go(r, at) == req' = [req EXCEPT ![r].at = at]
Keep == UNCHANGED <<db, begun, deleted>>
NoWrite == UNCHANGED tx

\* A request begins.
Begin(r, new) ==
    /\ req[r].at = "idle"
    /\ begun < MaxRequests
    /\ begun' = begun + 1
    /\ req' = [req EXCEPT ![r] = new]
    /\ UNCHANGED <<db, tx, deleted>>

\* An error ends the request and rolls its transaction back.
Fail(r) ==
    /\ tx' = [tx EXCEPT ![r] = NoWrites]
    /\ req' = [req EXCEPT ![r] = Idle]
    /\ Keep

\* A fault: rows that refer to deleted ones stay.
AppliedNoCascade(r) ==
    [agents |-> AgentsOf(r),
     subs   |-> [s \in (DOMAIN db.subs) \ tx[r].gone |-> db.subs[s]],
     rows   |-> RowsOf(r)]
\* The writes of r become the database, with the rows that deleted rows take along.
Applied(r) ==
    LET subs  == [s \in (DOMAIN db.subs) \ tx[r].gone |-> db.subs[s]]
        dead(row) == Mentions(row) \cap tx[r].gone # {}
        cut(row) == row[1] = "mcp" /\ Link(row[2], row[3]) \in tx[r].del \ tx[r].ins
    IN  [agents |-> AgentsOf(r),
         subs   |-> subs,
         rows   |-> {row \in RowsOf(r) : ~dead(row) /\ ~cut(row)}]

Finish(r, answer) ==
    /\ db' = answer
    /\ tx' = [tx EXCEPT ![r] = NoWrites]
    /\ req' = [req EXCEPT ![r] = Idle]
    /\ deleted' = /\ Defaults(answer.agents) = {}
                  /\ deleted \/ Defaults(db.agents) \cap tx[r].gone # {}
    /\ UNCHANGED begun

Commit(r) ==
    /\ req[r].at = "commit"
    /\ Finish(r, Applied(r))

-----------------------------------------------------------------------------
(* Agents.                                                                 *)

\* create and update begin with reads: the requested subagents, which must be active, and
\* the user's agents, whose defaults are to be cleared.  A first agent is the default.
Create(r, name, wants, subs) ==
    Begin(r, [Idle EXCEPT !.at = "create", !.kind = "create", !.name = name,
                          !.wants = wants, !.subs = subs])
ReadForCreate(r) ==
    /\ req[r].at = "create"
    /\ IF \A s \in req[r].subs : s \in DOMAIN db.subs /\ db.subs[s]
       THEN /\ req' = [req EXCEPT ![r].at = "clear",
                                  ![r].wants = @ \/ DOMAIN db.agents = {},
                                  ![r].mine = Defaults(db.agents)]
            /\ NoWrite /\ Keep
       ELSE Fail(r)

Update(r, a, name, wants) ==
    Begin(r, [Idle EXCEPT !.at = "update", !.kind = "update", !.agent = a,
                          !.name = name, !.wants = wants])
ReadForUpdate(r) ==
    /\ req[r].at = "update"
    /\ IF req[r].agent \in DOMAIN db.agents
       THEN /\ req' = [req EXCEPT ![r].at = IF req[r].wants THEN "clear" ELSE "rename",
                                  ![r].mine = Defaults(db.agents)]
            /\ NoWrite /\ Keep
       ELSE Fail(r)

\* The defaults that were read are cleared; the row may be gone (StaleDataError).
Clear(r) ==
    /\ req[r].at = "clear"
    /\ LET old == IF req[r].wants THEN req[r].mine ELSE {}
       IN  /\ \A a \in old : ~Locked(a, r)
           /\ IF old \subseteq DOMAIN db.agents
              THEN /\ tx' = [tx EXCEPT ![r].put =
                               [a \in old |-> [db.agents[a] EXCEPT !.dflt = FALSE]]]
                   /\ Go(r, IF req[r].kind = "create" THEN "insert" ELSE "target")
                   /\ Keep
              ELSE Fail(r)

\* The INSERT of an agent.  A submission that loses to another one starts over with what
\* the winner committed; a request to create is refused.
Insert(r) ==
    /\ req[r].at = "insert"
    /\ LET new == [name |-> req[r].name, dflt |-> req[r].wants]
       IN  \E a \in Agents :
            /\ a \notin (DOMAIN db.agents) \cup UNION {DOMAIN tx[q].put : q \in Requests}
            /\ ~Waits(r, a, new)
            /\ IF Rivals(r, a, new) = {}
               THEN /\ tx' = [tx EXCEPT ![r].put = With(@, a, new)]
                    /\ req' = [req EXCEPT ![r].at = "link", ![r].agent = a]
                    /\ Keep
               ELSE IF req[r].kind = "submit"
               THEN /\ tx' = [tx EXCEPT ![r] = NoWrites]
                    /\ Go(r, "reload")
                    /\ Keep
               ELSE Fail(r)

\* A fault: the cleared defaults are committed although the new one is gone.
TargetCommits(r) ==
    /\ req[r].at = "target"
    /\ LET a == req[r].agent
       IN  IF a \notin DOMAIN AgentsOf(r)
           THEN Finish(r, Applied(r))
           ELSE LET new == [AgentsOf(r)[a] EXCEPT !.dflt = TRUE]
                IN  /\ ~Locked(a, r) /\ ~Waits(r, a, new)
                    /\ IF Rivals(r, a, new) = {}
                       THEN /\ tx' = [tx EXCEPT ![r].put = With(@, a, new)]
                            /\ Go(r, "rename")
                            /\ Keep
                       ELSE Fail(r)
\* The second half of set_default.  Neither a clash nor a row that is gone is caught.
Target(r) ==
    /\ req[r].at = "target"
    /\ LET a == req[r].agent
       IN  IF a \notin DOMAIN AgentsOf(r)
           THEN Fail(r)
           ELSE LET new == [AgentsOf(r)[a] EXCEPT !.dflt = TRUE]
                IN  /\ ~Locked(a, r) /\ ~Waits(r, a, new)
                    /\ IF Rivals(r, a, new) = {}
                       THEN /\ tx' = [tx EXCEPT ![r].put = With(@, a, new)]
                            /\ Go(r, "rename")
                            /\ Keep
                       ELSE Fail(r)

Rename(r) ==
    /\ req[r].at = "rename"
    /\ LET a == req[r].agent
       IN  IF req[r].name = None
           THEN Go(r, "commit") /\ NoWrite /\ Keep
           ELSE /\ ~Locked(a, r) /\ ~Shared(a, r)
                /\ IF a \notin DOMAIN AgentsOf(r)
                   THEN Fail(r)
                   ELSE LET new == [AgentsOf(r)[a] EXCEPT !.name = req[r].name]
                        IN  /\ ~Waits(r, a, new)
                            /\ IF Rivals(r, a, new) = {}
                               THEN /\ tx' = [tx EXCEPT ![r].put = With(@, a, new)]
                                    /\ Go(r, "commit")
                                    /\ Keep
                               ELSE Fail(r)

\* delete counts the agent's tasks first; the foreign key stops a task that came after.
Delete(r, a) == Begin(r, [Idle EXCEPT !.at = "count", !.kind = "delete", !.agent = a])
Count(r) ==
    /\ req[r].at = "count"
    /\ LET a == req[r].agent
       IN  IF a \in DOMAIN db.agents /\ Task(a) \notin db.rows
           THEN Go(r, "delete") /\ NoWrite /\ Keep
           ELSE Fail(r)
\* A fault: the tasks that arrived since go along.
DeleteRowCascades(r) ==
    /\ req[r].at = "delete"
    /\ LET a == req[r].agent
       IN  /\ ~Locked(a, r) /\ ~Shared(a, r)
           /\ tx' = [tx EXCEPT ![r].gone = {a} \cap DOMAIN db.agents]
           /\ Go(r, "commit")
           /\ Keep
DeleteRow(r) ==
    /\ req[r].at = "delete"
    /\ LET a == req[r].agent
       IN  /\ ~Locked(a, r) /\ ~Shared(a, r)
           /\ IF Task(a) \in db.rows
              THEN Fail(r)
              ELSE /\ tx' = [tx EXCEPT ![r].gone = {a} \cap DOMAIN db.agents]
                   /\ Go(r, "commit")
                   /\ Keep

-----------------------------------------------------------------------------
(* The links of an agent.                                                  *)

\* The subagents of the request are linked one after another, each with the servers that
\* are its defaults at that moment.
Linked(r) == {s \in req[r].subs : Link(req[r].agent, s) \in tx[r].ins}
LinkRows(r, s) ==
    {Link(req[r].agent, s)} \cup {Mcp(req[r].agent, s, m) : m \in Servers(db.rows, s)}
LinkNext(r) ==
    LET a == req[r].agent
    IN  \E s \in req[r].subs \ Linked(r) :
            /\ ~KeyLocked(a, r) /\ ~KeyLocked(s, r) /\ ~Pending(Link(a, s), r)
            /\ IF a \in DOMAIN AgentsOf(r) /\ s \in DOMAIN db.subs /\ Link(a, s) \notin db.rows
               THEN /\ tx' = [tx EXCEPT ![r].ins = @ \cup LinkRows(r, s)]
                    /\ UNCHANGED req
                    /\ Keep
               ELSE Fail(r)
\* A fault: the new agent is committed before its links.
LinkCommits(r) ==
    /\ req[r].at = "link"
    /\ \/ LinkNext(r)
       \/ /\ Linked(r) = {} /\ DOMAIN tx[r].put # {}
          /\ db' = Applied(r)
          /\ tx' = [tx EXCEPT ![r] = NoWrites]
          /\ UNCHANGED <<req, begun, deleted>>
       \/ /\ Linked(r) = req[r].subs
          /\ Go(r, IF req[r].kind = "submit" THEN "task" ELSE "commit")
          /\ NoWrite /\ Keep
LinkSubagents(r) ==
    /\ req[r].at = "link"
    /\ \/ LinkNext(r)
       \/ /\ Linked(r) = req[r].subs
          /\ Go(r, IF req[r].kind = "submit" THEN "task" ELSE "commit")
          /\ NoWrite /\ Keep

Attach(r, a, s) ==
    Begin(r, [Idle EXCEPT !.at = "attach", !.kind = "attach", !.agent = a, !.subs = {s}])
ReadForAttach(r) ==
    /\ req[r].at = "attach"
    /\ IF req[r].agent \in DOMAIN db.agents /\ \A s \in req[r].subs : s \in DOMAIN db.subs /\ db.subs[s]
       THEN Go(r, "link") /\ NoWrite /\ Keep
       ELSE Fail(r)

\* A detached subagent takes its servers along; no link is no error.
Detach(r, a, s) ==
    Begin(r, [Idle EXCEPT !.at = "detach", !.kind = "detach", !.agent = a, !.subs = {s}])
Unlink(r) ==
    /\ req[r].at = "detach"
    /\ LET links == {Link(req[r].agent, s) : s \in req[r].subs} \cap db.rows
       IN  /\ \A l \in links : /\ ~Pending(l, r) /\ ~Locked(l[2], r) /\ ~Locked(l[3], r)
                               /\ \A q \in Requests \ {r} : \A x \in tx[q].ins :
                                    x[1] = "mcp" => <<x[2], x[3]>> # <<l[2], l[3]>>
           /\ tx' = [tx EXCEPT ![r].del = links]
           /\ Go(r, "commit")
           /\ Keep

\* One server of one link, added or removed.
Toggle(r, kind, a, s, m) ==
    Begin(r, [Idle EXCEPT !.at = "mcp", !.kind = kind, !.agent = a, !.subs = {s}, !.servers = {m}])
ReadLink(r) ==
    /\ req[r].at = "mcp"
    /\ IF \A s \in req[r].subs : Link(req[r].agent, s) \in db.rows
       THEN Go(r, req[r].kind) /\ NoWrite /\ Keep
       ELSE Fail(r)
McpRows(r) == {Mcp(req[r].agent, s, m) : s \in req[r].subs, m \in req[r].servers}
AddMcp(r) ==
    /\ req[r].at = "addmcp"
    /\ \E row \in McpRows(r) :
        /\ ~Pending(row, r) /\ ~Pending(Link(row[2], row[3]), r)
        /\ ~KeyLocked(row[2], r) /\ ~KeyLocked(row[3], r)
        /\ IF Link(row[2], row[3]) \in db.rows /\ row \notin db.rows
           THEN /\ tx' = [tx EXCEPT ![r].ins = {row}]
                /\ Go(r, "commit")
                /\ Keep
           ELSE Fail(r)
RemoveMcp(r) ==
    /\ req[r].at = "dropmcp"
    /\ \A row \in McpRows(r) : ~Pending(row, r)
    /\ tx' = [tx EXCEPT ![r].del = McpRows(r) \cap db.rows]
    /\ Go(r, "commit")
    /\ Keep

-----------------------------------------------------------------------------
(* The submission of a task.                                               *)

\* The agent that is named, else the default, else a new one with every active subagent.
Submit(r, a) ==
    Begin(r, [Idle EXCEPT !.at = "get", !.kind = "submit", !.agent = a])
Active == {s \in DOMAIN db.subs : db.subs[s]}
Resolve(r) ==
    /\ req[r].at = "get"
    /\ LET a == req[r].agent
       IN  IF a # None
           THEN IF a \in DOMAIN db.agents THEN Go(r, "task") /\ NoWrite /\ Keep ELSE Fail(r)
           ELSE IF Defaults(db.agents) # {}
           THEN /\ req' = [req EXCEPT ![r].at = "task",
                                      ![r].agent = CHOOSE d \in Defaults(db.agents) : TRUE]
                /\ NoWrite /\ Keep
           ELSE IF Active # {}
           THEN /\ req' = [req EXCEPT ![r].at = "insert", ![r].name = TheName,
                                      ![r].wants = TRUE, ![r].subs = Active]
                /\ NoWrite /\ Keep
           ELSE Fail(r)

\* A fault: the loser tries again for as long as the name is taken.
ReloadRetries(r) ==
    /\ req[r].at = "reload"
    /\ IF Defaults(db.agents) # {}
       THEN req' = [req EXCEPT ![r].at = "task", ![r].subs = {},
                               ![r].agent = CHOOSE d \in Defaults(db.agents) : TRUE]
       ELSE Go(r, "insert")
    /\ NoWrite /\ Keep
\* A lost race: the winner's agent, if it is a default one.
Reload(r) ==
    /\ req[r].at = "reload"
    /\ IF Defaults(db.agents) # {}
       THEN /\ req' = [req EXCEPT ![r].at = "task", ![r].subs = {},
                                  ![r].agent = CHOOSE d \in Defaults(db.agents) : TRUE]
            /\ NoWrite /\ Keep
       ELSE Fail(r)

InsertTask(r) ==
    /\ req[r].at = "task"
    /\ LET a == req[r].agent
       IN  /\ ~KeyLocked(a, r)
           /\ IF a \in DOMAIN AgentsOf(r)
              THEN /\ tx' = [tx EXCEPT ![r].ins = @ \cup {Task(a)}]
                   /\ Go(r, "commit")
                   /\ Keep
              ELSE Fail(r)

-----------------------------------------------------------------------------
(* The administrator's catalogue.                                          *)

\* The servers of a subagent are replaced: the old rows go, then the new ones come.
SetDefaults(r, s, servers) ==
    Begin(r, [Idle EXCEPT !.at = "old", !.kind = "defaults", !.subs = {s}, !.servers = servers])
DeleteOld(r) ==
    /\ req[r].at = "old"
    /\ LET old == {row \in db.rows : row[1] = "default" /\ row[2] \in req[r].subs}
       IN  /\ \A row \in old : ~Pending(row, r) /\ ~Locked(row[2], r)
           /\ IF req[r].subs \subseteq DOMAIN db.subs
              THEN tx' = [tx EXCEPT ![r].del = old] /\ Go(r, "new") /\ Keep
              ELSE Fail(r)
InsertNew(r) ==
    /\ req[r].at = "new"
    /\ LET new == {Default(s, m) : s \in req[r].subs, m \in req[r].servers}
       IN  /\ \A row \in new : ~Pending(row, r) /\ ~KeyLocked(row[2], r)
           /\ IF new = {} \/ (req[r].subs \subseteq DOMAIN db.subs /\ new \cap (db.rows \ tx[r].del) = {})
              THEN tx' = [tx EXCEPT ![r].ins = new] /\ Go(r, "commit") /\ Keep
              ELSE Fail(r)

\* A new subagent with its default servers.  Its name may be taken, or be that of a row whose
\* deletion is not committed yet.  No request in progress knows a row that is new.
NewSub(r, s, servers) ==
    Begin(r, [Idle EXCEPT !.at = "newsub", !.kind = "newsub", !.subs = {s}, !.servers = servers])
Known(s, r) == \E q \in Requests \ {r} : s \in req[q].subs /\ req[q].kind # "newsub"
WriteSub(r) ==
    /\ req[r].at = "newsub"
    /\ \E s \in req[r].subs :
        IF s \in DOMAIN db.subs
        THEN ~Locked(s, r) /\ Fail(r)
        ELSE /\ ~Known(s, r)
             /\ Finish(r, [db EXCEPT !.subs = [x \in (DOMAIN @) \cup {s} |-> x = s \/ @[x]],
                                    !.rows = @ \cup {Default(s, m) : m \in req[r].servers}])

\* Switched on or off.
SetActive(r, s, on) ==
    Begin(r, [Idle EXCEPT !.at = "toggle", !.kind = "toggle", !.subs = {s}, !.wants = on])
WriteActive(r) ==
    /\ req[r].at = "toggle"
    /\ \E s \in req[r].subs :
        /\ ~Locked(s, r)
        /\ IF s \in DOMAIN db.subs
           THEN Finish(r, [db EXCEPT !.subs[s] = req[r].wants])
           ELSE Fail(r)

\* The row is locked once nothing inserted refers to it; the cascade then waits for rows
\* that others are deleting.
DeleteSub(r, s) ==
    Begin(r, [Idle EXCEPT !.at = "dropsub", !.kind = "dropsub", !.subs = {s}])
LockSub(r) ==
    /\ req[r].at = "dropsub"
    /\ \E s \in req[r].subs :
        /\ ~Locked(s, r) /\ ~Shared(s, r)
        /\ IF s \in DOMAIN db.subs
           THEN tx' = [tx EXCEPT ![r].gone = {s}] /\ Go(r, "cascade") /\ Keep
           ELSE Fail(r)
Held(r) ==
    {q \in Requests \ {r} : \E row \in tx[q].del : Mentions(row) \cap req[r].subs # {}}
Cascade(r) ==
    /\ req[r].at = "cascade"
    /\ Held(r) = {}
    /\ Go(r, "commit")
    /\ NoWrite /\ Keep

\* PostgreSQL ends one of two requests that wait for each other: one deletes a subagent,
\* the other has deleted its defaults and now inserts new ones.
AbortDeadlock(r) ==
    /\ \E q \in Requests \ {r} :
        \E x, y \in {r, q} :
            /\ req[x].at = "cascade" /\ y \in Held(x)
            /\ req[y].at = "new" /\ req[y].servers # {}
    /\ Fail(r)

-----------------------------------------------------------------------------
\* What the user and the administrator may ask for.  An agent has to be asked for with a
\* subagent at least.
Teams == (SUBSET Subs) \ {{}}
AskAgents(r) ==
    \/ \E name \in Names, wants \in BOOLEAN, subs \in Teams : Create(r, name, wants, subs)
    \/ \E a \in Agents :
        \/ \E name \in Names \cup {None}, wants \in BOOLEAN : Update(r, a, name, wants)
        \/ Delete(r, a)
AskLinks(r) ==
    \E a \in Agents, s \in Subs :
        \/ Attach(r, a, s)
        \/ Detach(r, a, s)
        \/ \E m \in Mcps, kind \in {"addmcp", "dropmcp"} : Toggle(r, kind, a, s, m)
AskCatalog(r) ==
    \E s \in Subs :
        \/ \E servers \in SUBSET Mcps : SetDefaults(r, s, servers) \/ NewSub(r, s, servers)
        \/ \E on \in BOOLEAN : SetActive(r, s, on)
        \/ DeleteSub(r, s)
Ask(r) ==
    \/ AskAgents(r)
    \/ AskLinks(r)
    \/ \E a \in Agents \cup {None} : Submit(r, a)
    \/ AskCatalog(r)

Step(r) ==
    \/ ReadForCreate(r) \/ ReadForUpdate(r) \/ Clear(r) \/ Insert(r) \/ Target(r) \/ Rename(r)
    \/ Count(r) \/ DeleteRow(r) \/ LinkSubagents(r) \/ ReadForAttach(r) \/ Unlink(r)
    \/ ReadLink(r) \/ AddMcp(r) \/ RemoveMcp(r) \/ Resolve(r) \/ Reload(r) \/ InsertTask(r)
    \/ DeleteOld(r) \/ InsertNew(r) \/ WriteSub(r) \/ WriteActive(r) \/ LockSub(r) \/ Cascade(r)
    \/ AbortDeadlock(r) \/ Commit(r)

Next == \E r \in Requests : Ask(r) \/ Step(r)
Spec == Init /\ [][Next]_vars

\* A request that can run does, and PostgreSQL's deadlock detector ends what cannot.
FairSpec == Spec /\ \A r \in Requests : WF_vars(Step(r))

-----------------------------------------------------------------------------
(* Properties.                                                             *)

Row ==
    {Link(a, s) : a \in Agents, s \in Subs} \cup {Task(a) : a \in Agents}
      \cup {Mcp(a, s, m) : a \in Agents, s \in Subs, m \in Mcps}
      \cup {Default(s, m) : s \in Subs, m \in Mcps}

\* The tables hold what their columns allow: at most one default agent, no name twice, and
\* no row that refers to one that is gone (the constraints of db/models/agent.py).
TypeOK ==
    /\ db.rows \subseteq Row
    /\ DOMAIN db.agents \subseteq Agents /\ DOMAIN db.subs \subseteq Subs
    /\ \A row \in db.rows :
        Mentions(row) \subseteq (DOMAIN db.agents) \cup (DOMAIN db.subs) \cup Mcps
    /\ \A row \in db.rows : row[1] = "mcp" => Link(row[2], row[3]) \in db.rows
    /\ Unique(db.agents)
    /\ \A r \in Requests : req[r].at \in Places /\ req[r].kind \in Kinds
    /\ begun \in 0..MaxRequests /\ deleted \in BOOLEAN

\* A user with agents has a default one, unless the default was deleted: however requests to
\* create, to update and to delete interleave, the two writes of set_default take effect
\* together or not at all (agent_query.py set_default, agent_service.py create).
DefaultUnlessDeleted == DOMAIN db.agents # {} /\ Defaults(db.agents) = {} => deleted

\* An agent appears together with every subagent it was asked for: whoever reads it, the loser
\* of a race between two first submissions included, finds it ready to delegate
\* (agent_service.py create and _auto_provision_default).
BornComplete ==
    [][\A a \in (DOMAIN db'.agents) \ (DOMAIN db.agents) :
        \E r \in Requests :
            /\ a \in DOMAIN tx[r].put
            /\ {s \in Subs : Link(a, s) \in db'.rows} = req[r].subs]_vars

\* No request on agents removes a task: one submitted between the count and the deletion
\* of its agent stops the deletion (agent_query.py delete).
TasksKept == [][\A a \in Agents : Task(a) \in db.rows => Task(a) \in db'.rows]_vars

\* Every request ends, also one that loses a race to insert, waits for another request's rows
\* or is caught in a deadlock.
RequestsEnd == \A r \in Requests : req[r].at # "idle" ~> req[r].at = "idle"
=============================================================================
