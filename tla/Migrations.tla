------------------------------ MODULE Migrations ------------------------------
(***************************************************************************)
(* The Alembic migrations of src/db/migrations: 38 revisions with two      *)
(* branches that merge again, applied by "alembic upgrade head" with the   *)
(* application stopped (deploy_dev.sh), and undone one at a time by        *)
(* "alembic downgrade -1" (Makefile).                                      *)
(*                                                                         *)
(* A run is one transaction (env.py), except that an autocommit block      *)
(* commits what came before it.  Between runs the application of the       *)
(* deployed release and its administrators write rows.  What a revision    *)
(* does to tables, columns and enumerations is a record (Rnnnn); what it   *)
(* does to rows is an operator (Datannnn, Undonnnn).  Columns that come    *)
(* with their table and stay are part of the table.                        *)
(***************************************************************************)
EXTENDS Integers, FiniteSets

CONSTANTS Users,       \* owners of tasks
          Releases,    \* revisions that were the head of a deployed release
          MaxCrashes,  \* bound: interrupted upgrades
          MaxDowns,    \* bound: downgrades
          MaxWrites    \* bound: writes of users and administrators

ASSUME BoundsAssumption == {MaxCrashes, MaxDowns, MaxWrites} \subseteq Nat

VARIABLES applied,  \* alembic_version as the running transaction sees it: every revision in
          db,       \* the database as the running transaction sees it
          disk,     \* [applied, db]: what the last commit left
          run,      \* "idle", or the revision an upgrade heads for
          added,    \* the revision whose autocommit block has run, or "none"
          failed,   \* the step the last run died of: <<"up" or "down", revision>>, or <<>>
          crashes,
          downs,
          writes

vars == <<applied, db, disk, run, added, failed, crashes, downs, writes>>

None == "none"

\* The content of the two texts that the properties tell apart is a tag.
Row(role, pattern) == [role |-> role, seed |-> pattern, pattern |-> pattern]
Rows(role, patterns) == {Row(role, p) : p \in patterns}

SeedText == "seed"            \* the prompts of 0020 and 0022devops, which 0027 knows to restore
MultilangText == "languages"  \* those that 0027 puts in their place
NewSubagent(name, text) == [name |-> name, text |-> text, escalates |-> FALSE]

\* An empty database.
Blank ==
    [tables |-> {}, cols |-> {}, enums |-> {}, blocks |-> {}, subagents |-> <<>>,
     tools |-> {}, grants |-> {}, servers |-> {}, inProcess |-> {}, defaults |-> {},
     patterns |-> {}, agents |-> {}, links |-> {}, mounts |-> {}, tasks |-> <<>>,
     longPreview |-> FALSE]

\* The rows of f, and those of g under keys that f does not have.
Joined(f, g) ==
    [x \in (DOMAIN f) \cup (DOMAIN g) |-> IF x \in DOMAIN f THEN f[x] ELSE g[x]]

Named(d, name) == {s \in DOMAIN d.subagents : d.subagents[s].name = name}
Ids(d, names) == UNION {Named(d, n) : n \in names}

-----------------------------------------------------------------------------
(* The schema each revision changes.                                       *)

\* A revision after the revisions ps.  On the way down, tables and columns go and
\* come back, types made with their table go, and values added to a type stay.
After(ps) ==
    [parents |-> ps, create |-> {}, drop |-> {}, add |-> {}, del |-> {}, types |-> {},
     values |-> {}, autocommit |-> FALSE]

\* Tables of the first design of agents and memory.
EarlyTables == {"episodes", "code_chunks", "agents", "tools", "pipelines"}
R0001 == [After({}) EXCEPT
    !.create = {"projects", "project_repos", "tasks"} \cup EarlyTables,
    !.add = {<<"project_repos", "oauth_token_encrypted">>},
    !.types = {<<"git_provider_kind", "github">>}
              \cup ({"task_status"} \X {"running", "awaiting_ci", "fixing", "completed",
                                       "needs_human", "failed"})
              \cup ({"tool_kind"} \X {"mcp", "http"})]

R0002 == [After({"0001"}) EXCEPT !.create = {"user_oauth_credentials"}]

R0004 == [After({"0002"}) EXCEPT !.values = {<<"task_status", "awaiting_approval">>}]

R0005 == [After({"0004"}) EXCEPT
    !.create = {"prompt_blocks"},
    !.add = {"prompt_blocks"} \X {"created_at", "updated_at"}]

R0006 == After({"0005"})
R0007 == After({"0006"})
R0008 == After({"0007"})
R0009 == After({"0008"})
R0010 == After({"0009"})

R0011 == [After({"0010"}) EXCEPT
    !.add = {"user_oauth_credentials"} \X
            {"refresh_token_encrypted", "expires_at", "provider_account_id",
             "account_label", "raw_metadata"}]

R0012 == [After({"0011"}) EXCEPT
    !.values = {<<"git_provider_kind", "jira">>},
    !.autocommit = TRUE]

R0013 == [After({"0012"}) EXCEPT
    !.create = {"credentials", "credential_events"},
    !.types = {<<"credential_kind", "bearer">>}]

R0014 == [After({"0013"}) EXCEPT
    !.values = {<<"credential_kind", "oauth">>, <<"provider_kind", "google">>,
                <<"provider_kind", "slack">>},
    !.autocommit = TRUE]

R0015 == [After({"0014"}) EXCEPT !.drop = {"user_oauth_credentials"}]

R0016Aws == [After({"0015"}) EXCEPT
    !.values = {<<"provider_kind", "aws">>},
    !.autocommit = TRUE]

\* A fault: the column is dropped under a name it does not have.
R0016DropMisnamed == [After({"0015"}) EXCEPT
    !.drop = {"prompt_blocks"},
    !.del = {<<"project_repos", "oauth_token">>}]
R0016Drop == [After({"0015"}) EXCEPT
    !.drop = {"prompt_blocks"},
    !.del = {<<"project_repos", "oauth_token_encrypted">>}]

R0017 == After({"0016aws", "0016drop"})

R0018 == [After({"0017"}) EXCEPT !.create = {"mcp_server_configs", "agent_tool_configs"}]

R0019 == [After({"0018"}) EXCEPT !.create = {"user_tool_configs"}]

R0020 == [After({"0019"}) EXCEPT !.create = {"subagents", "subagent_tools"}]

R0021 == [After({"0020"}) EXCEPT
    !.drop = {"agents"},
    !.create = {"system_tools", "subagent_system_tools", "agents", "agent_subagents",
                "agent_subagent_mcps"},
    !.add = {<<"tasks", "agent_id">>}]

R0022Devops == After({"0021"})
R0022Memory == [After({"0021"}) EXCEPT !.create = {"memory_nodes", "memory_edges"}]

R0023 == After({"0022memory", "0022devops"})

R0024 == [After({"0023"}) EXCEPT
    !.create = {"task_approvals"},
    !.types = {"approval_status"} \X {"pending", "approved", "denied"}]

R0025 == [After({"0024"}) EXCEPT
    !.create = {"task_messages"},
    !.add = {<<"task_approvals", "user_response">>},
    !.types = ({"message_role"} \X {"user", "agent", "system"})
              \cup ({"message_kind"} \X {"chat", "approval_request", "approval_response",
                                         "status", "error"})]

R0026 == After({"0025"})
R0027 == After({"0026"})

R0028 == [After({"0027"}) EXCEPT !.create = {"team_agent_configs", "team_agent_system_tools"}]

R0029 == [After({"0028"}) EXCEPT
    !.values = {"task_status"} \X {"awaiting_user_message", "publishing"}]

R0030 == After({"0029"})
R0031 == After({"0030"})

\* A fault: the revision records itself and adds nothing.
R0032NoColumn == After({"0031"})
R0032 == [After({"0031"}) EXCEPT !.add = {<<"tasks", "sdk_session_id">>}]

R0033 == [After({"0032"}) EXCEPT
    !.values = {<<"provider_kind", "azure">>},
    !.autocommit = TRUE]

R0034 == After({"0033"})
R0035 == After({"0034"})
R0036 == After({"0035"})
R0037 == After({"0036"})

Revs ==
    {"0001", "0002", "0004", "0005", "0006", "0007", "0008", "0009", "0010", "0011",
     "0012", "0013", "0014", "0015", "0016aws", "0016drop", "0017", "0018", "0019",
     "0020", "0021", "0022devops", "0022memory", "0023", "0024", "0025", "0026", "0027",
     "0028", "0029", "0030", "0031", "0032", "0033", "0034", "0035", "0036", "0037"}

Revision ==
    [r \in Revs |->
        CASE r = "0001" -> R0001 [] r = "0002" -> R0002 [] r = "0004" -> R0004
          [] r = "0005" -> R0005 [] r = "0006" -> R0006 [] r = "0007" -> R0007
          [] r = "0008" -> R0008 [] r = "0009" -> R0009 [] r = "0010" -> R0010
          [] r = "0011" -> R0011 [] r = "0012" -> R0012 [] r = "0013" -> R0013
          [] r = "0014" -> R0014 [] r = "0015" -> R0015 [] r = "0016aws" -> R0016Aws
          [] r = "0016drop" -> R0016Drop [] r = "0017" -> R0017 [] r = "0018" -> R0018
          [] r = "0019" -> R0019 [] r = "0020" -> R0020 [] r = "0021" -> R0021
          [] r = "0022devops" -> R0022Devops [] r = "0022memory" -> R0022Memory
          [] r = "0023" -> R0023 [] r = "0024" -> R0024 [] r = "0025" -> R0025
          [] r = "0026" -> R0026 [] r = "0027" -> R0027 [] r = "0028" -> R0028
          [] r = "0029" -> R0029 [] r = "0030" -> R0030 [] r = "0031" -> R0031
          [] r = "0032" -> R0032 [] r = "0033" -> R0033 [] r = "0034" -> R0034
          [] r = "0035" -> R0035 [] r = "0036" -> R0036 [] r = "0037" -> R0037]

Newest == "0037"

-----------------------------------------------------------------------------
(* Rows: the prompt blocks (0005 to 0010).                                 *)

Block(key) == [key |-> key, workspace |-> FALSE]
Keys(d) == {b.key : b \in d.blocks}
AddBlocks(d, keys, probe) ==
    IF probe \in Keys(d) THEN d ELSE [d EXCEPT !.blocks = @ \cup {Block(k) : k \in keys}]
DropBlocks(d, keys) == [d EXCEPT !.blocks = {b \in @ : b.key \notin keys}]

FirstBlocks ==
    {"identity", "safety_rules", "tool_rules", "tech_lead_role", "architect_role",
     "senior_developer_role", "code_reviewer_role", "qa_engineer_role",
     "release_manager_role", "devops_engineer_role", "task_decomposer_role"}
Data0005(d) == AddBlocks(d, FirstBlocks, "identity")

WorkspaceRoles ==
    {"tech_lead_role", "architect_role", "senior_developer_role", "code_reviewer_role"}
Workspace(d, on) ==
    [d EXCEPT !.blocks = {[b EXCEPT !.workspace =
                               IF b.key \in WorkspaceRoles THEN on ELSE @] : b \in @}]
Data0006(d) == Workspace(d, TRUE)
Undo0006(d) == Workspace(d, FALSE)

Data0007(d) == AddBlocks(d, {"coder_role"}, "coder_role")
Undo0007(d) == DropBlocks(d, {"coder_role"})

RolesV2 == {"researcher_role", "planner_role", "implementer_role", "publisher_role"}
Data0008(d) == AddBlocks(d, RolesV2, "researcher_role")
Undo0008(d) == DropBlocks(d, RolesV2)

Data0009(d) == AddBlocks(d, {"developer_role"}, "developer_role")
Undo0009(d) == DropBlocks(d, {"developer_role"})

Data0010(d) == DropBlocks(d, {"qa_engineer_role"})
\* A fault: the downgrade does not put the block back.
Undo0010Nothing(d) == d
Undo0010(d) == AddBlocks(d, {"qa_engineer_role"}, "none")

(* The two spellings of the provider enumeration (0012).                   *)
Renamed(d, from, to) ==
    [d EXCEPT !.enums = {IF e[1] = from THEN <<to, e[2]>> ELSE e : e \in @}]
Data0012(d) == Renamed(d, "git_provider_kind", "provider_kind")
Undo0012(d) == Renamed(d, "provider_kind", "git_provider_kind")

-----------------------------------------------------------------------------
(* Rows: the agent catalogue (0018 to 0037).                               *)

Integrations == {"github", "jira", "slack", "aws"}

Data0018(d) ==
    [d EXCEPT
        !.servers = @ \cup Integrations,
        !.patterns = @ \cup Rows("lead", Integrations) \cup Rows("code-implementer", Integrations)
                     \cup Rows("manager", {"jira"}) \cup Rows("repo-scanner", {"jira"})
                     \cup Rows("publisher", {"github"})]

FirstSubagents == {"code-implementer", "code-explorer", "test-runner", "manager", "repo-scanner"}

\* The rows of a new subagent; a name that is taken is left alone.
Insert(d, names) ==
    LET free == {n \in names : Named(d, n) = {}}
    IN  [d EXCEPT !.subagents = Joined(@, [n \in free |-> NewSubagent(n, SeedText)])]
Grant(d, names, tools) == [d EXCEPT !.grants = @ \cup (Ids(d, names) \X (tools \cap d.tools))]
Default(d, names, servers) ==
    [d EXCEPT !.defaults = @ \cup (Ids(d, names) \X (servers \cap d.servers))]
Undefault(d, names, servers) == [d EXCEPT !.defaults = @ \ (Ids(d, names) \X servers)]

Data0020(d) ==
    LET with == Insert(d, FirstSubagents)
    IN  Default(Default(with, {"code-implementer"}, Integrations),
                {"manager", "repo-scanner"}, {"jira"})

\* Every link of agent and subagent gets the servers the subagent has by default.
CopyDefaults(d, names) ==
    [d EXCEPT !.mounts = @ \cup
        UNION {{<<l[1], l[2], f[2]>> : f \in {x \in d.defaults : x[1] = l[2]}}
               : l \in {k \in d.links : k[2] \in names}}]

\* A fault: all tasks are pointed at one agent.
Data0021OneAgent(d) ==
    LET owners == DOMAIN d.tasks
        with   == [d EXCEPT !.agents = @ \cup owners,
                            !.tools = @ \cup {"core"},
                            !.links = @ \cup (owners \X (DOMAIN d.subagents))]
        tooled == Grant(with, {"code-implementer", "code-explorer", "test-runner",
                               "repo-scanner"}, {"core"})
    IN  [CopyDefaults(tooled, DOMAIN d.subagents) EXCEPT
            !.tasks = [u \in owners |-> [@[u] EXCEPT !.agent = CHOOSE a \in owners : TRUE]]]
\* Every owner of a task gets a default agent with all subagents, and the owner's tasks
\* are pointed at it before the column refuses NULL.
Data0021(d) ==
    LET owners == DOMAIN d.tasks
        with   == [d EXCEPT !.agents = @ \cup owners,
                            !.tools = @ \cup {"core"},
                            !.links = @ \cup (owners \X (DOMAIN d.subagents))]
        tooled == Grant(with, {"code-implementer", "code-explorer", "test-runner",
                               "repo-scanner"}, {"core"})
    IN  [CopyDefaults(tooled, DOMAIN d.subagents) EXCEPT
            !.tasks = [u \in owners |-> [@[u] EXCEPT !.agent = u]]]

\* The subagent devops with its server, linked to the default agents there are.
Data0022Devops(d) ==
    LET with   == [Insert(d, {"devops"}) EXCEPT !.servers = @ \cup {"clyde_github"},
                                                !.inProcess = @ \cup {"clyde_github"}]
        given  == Default(Grant(with, {"devops"}, {"core"}), {"devops"}, {"clyde_github"})
        linked == [given EXCEPT !.links = @ \cup (given.agents \X Ids(given, {"devops"}))]
    IN  CopyDefaults(linked, Ids(linked, {"devops"}))

\* Deleting rows takes the rows that refer to them along (ON DELETE CASCADE).
DeleteSubagents(d, ids) ==
    [d EXCEPT !.subagents = [s \in DOMAIN @ \ ids |-> @[s]],
              !.grants = {g \in @ : g[1] \notin ids},
              !.defaults = {f \in @ : f[1] \notin ids},
              !.links = {l \in @ : l[2] \notin ids},
              !.mounts = {m \in @ : m[2] \notin ids}]
DeleteServers(d, names) ==
    [d EXCEPT !.servers = @ \ names, !.inProcess = @ \ names,
              !.defaults = {f \in @ : f[2] \notin names},
              !.mounts = {m \in @ : m[3] \notin names}]
Undo0022Devops(d) == DeleteSubagents(DeleteServers(d, {"clyde_github"}), Ids(d, {"devops"}))

\* The escalation block is appended to every prompt that lacks it.
SetEscalation(d, on) ==
    [d EXCEPT !.subagents = [s \in DOMAIN @ |-> [@[s] EXCEPT !.escalates = on]]]
Data0026(d) == SetEscalation(d, TRUE)
Undo0026(d) == SetEscalation(d, FALSE)

\* Five prompts are replaced as a whole, whoever wrote the old one.
Rewritten == {"test-runner", "code-implementer", "manager", "repo-scanner", "devops"}
\* A fault: the prompts are replaced without a look at the name.
RewriteAll(d, text) ==
    [d EXCEPT !.subagents = [s \in DOMAIN @ |-> NewSubagent(@[s].name, text)]]
Rewrite(d, text) ==
    [d EXCEPT !.subagents = [s \in DOMAIN @ |->
        IF @[s].name \in Rewritten THEN NewSubagent(@[s].name, text) ELSE @[s]]]

\* The language tools, and the servers each subagent has by default.
Tools0027(d) ==
    LET with == Grant([d EXCEPT !.tools = @ \cup {"lang"}],
                      {"test-runner", "code-implementer", "devops"}, {"lang"})
        less == Undefault(with, {"code-implementer"}, {"azure", "jira", "slack", "aws"})
    IN  Default(Default(less, {"manager"}, {"slack"}), {"devops", "repo-scanner"}, {"github"})
Data0027(d) == Rewrite(Tools0027(d), MultilangText)

DeleteTools(d, names) ==
    [d EXCEPT !.tools = @ \ names, !.grants = {g \in @ : g[2] \notin names}]
Undo0027(d) ==
    LET old  == Rewrite(d, SeedText)
        less == Undefault(Undefault(old, {"repo-scanner", "devops"}, {"github"}),
                          {"manager"}, {"slack"})
    IN  DeleteTools(Default(less, {"code-implementer"}, {"jira", "slack", "aws", "azure"}), {"lang"})

\* The tool mcp-memory outlives the downgrade; a later upgrade uses the row it finds.
Data0028(d) == [d EXCEPT !.tools = @ \cup {"mcp-memory"}]

NewStatuses == {"awaiting_user_message", "publishing"}
Undo0029(d) ==
    [d EXCEPT !.tasks = [u \in DOMAIN @ |->
        IF @[u].status \in NewStatuses THEN [@[u] EXCEPT !.status = "failed"] ELSE @[u]]]

Data0030(d) == [d EXCEPT !.grants = @ \cup ((DOMAIN d.subagents) \X {"mcp-memory"})]
Undo0030(d) == [d EXCEPT !.grants = {g \in @ : g[2] # "mcp-memory"}]

\* The subagent is renamed, with the rows that name it by its role; its prompt is replaced
\* if it still opens the way the migrations wrote it, and is not put back by a downgrade.
RenameSubagent(d, from, to) ==
    [d EXCEPT
        !.subagents = [s \in DOMAIN @ |->
            IF @[s].name = from THEN [@[s] EXCEPT !.name = to] ELSE @[s]],
        !.patterns = {IF r.role = from THEN [r EXCEPT !.role = to] ELSE r : r \in @}]
Data0031(d) ==
    LET with == RenameSubagent(d, "repo-scanner", "code-auditor")
    IN  [with EXCEPT !.subagents = [s \in DOMAIN @ |->
            IF @[s].name = "code-auditor" /\ @[s].text \in {SeedText, MultilangText}
            THEN NewSubagent("code-auditor", "audit") ELSE @[s]]]
Undo0031(d) == RenameSubagent(d, "code-auditor", "repo-scanner")

GoogleRoles == {"lead", "code-implementer", "manager"}
Missing(d, roles, pattern) ==
    {r \in roles : \A x \in d.patterns : <<x.role, x.pattern>> # <<r, pattern>>}
AddPattern(d, roles, pattern) ==
    [d EXCEPT !.patterns = @ \cup UNION {Rows(r, {pattern}) : r \in Missing(d, roles, pattern)}]
DropPatterns(d, ps) == [d EXCEPT !.patterns = {x \in @ : x.pattern \notin ps}]

Data0034(d) ==
    AddPattern(AddPattern([d EXCEPT !.servers = @ \cup {"google_gmail", "google_calendar"}],
                          GoogleRoles, "google_gmail"), GoogleRoles, "google_calendar")
Undo0034(d) ==
    DeleteServers(DropPatterns(d, {"google_gmail", "google_calendar"}),
                  {"google_gmail", "google_calendar"})

Data0036(d) == AddPattern(d, GoogleRoles, "clyde_google")
Undo0036(d) == DropPatterns(d, {"clyde_google"})

Relabel(d, ps, to) ==
    [d EXCEPT !.patterns = {IF r.pattern \in ps THEN [r EXCEPT !.pattern = to] ELSE r : r \in @}]
\* Of the rows of a role with this pattern one stays.
Deduplicate(d, p) ==
    [d EXCEPT !.patterns = {r \in @ : r.pattern = p =>
        r = CHOOSE x \in @ : x.pattern = p /\ x.role = r.role}]

Data0037(d) ==
    LET named == Relabel(Relabel(d, {"clyde_azure"}, "azure"),
                         {"clyde_google", "google_gmail", "google_calendar"}, "google")
        once  == Deduplicate(Deduplicate(named, "azure"), "google")
    IN  AddPattern(AddPattern(once, GoogleRoles, "azure"), GoogleRoles, "google")
Undo0037(d) == DropPatterns(d, {"azure", "google"})

-----------------------------------------------------------------------------
(* A revision, both ways.                                                  *)

\* The rows of tables that are dropped.
Emptied(d, ts) ==
    [d EXCEPT !.blocks    = IF "prompt_blocks" \in ts THEN {} ELSE @,
              !.servers   = IF "mcp_server_configs" \in ts THEN {} ELSE @,
              !.patterns  = IF "agent_tool_configs" \in ts THEN {} ELSE @,
              !.subagents = IF "subagents" \in ts THEN <<>> ELSE @,
              !.defaults  = IF "subagent_tools" \in ts THEN {} ELSE @,
              !.tasks     = IF "tasks" \in ts THEN <<>> ELSE @]

Types(d) == {e[1] : e \in d.enums}

WithValues(d, v) == [d EXCEPT !.enums = @ \cup v.values]

SchemaUp(d, v) ==
    LET less == Emptied(d, v.drop)
    IN  [WithValues(less, v) EXCEPT
            !.tables = (@ \ v.drop) \cup v.create,
            !.cols   = ({c \in @ : c[1] \notin v.drop} \ v.del) \cup v.add,
            !.enums  = @ \cup {t \in v.types : t[1] \notin Types(d)}]

SchemaDown(d, v) ==
    LET less == Emptied(d, v.create)
    IN  [less EXCEPT
            !.tables = (@ \cup v.drop) \ v.create,
            !.cols   = {c \in (@ \cup v.del) \ v.add : c[1] \notin v.create},
            !.enums  = {e \in @ : e[1] \notin {t[1] : t \in v.types}}]

RowsUp(r, d) ==
    CASE r = "0005" -> Data0005(d) [] r = "0006" -> Data0006(d) [] r = "0007" -> Data0007(d)
      [] r = "0008" -> Data0008(d) [] r = "0009" -> Data0009(d) [] r = "0010" -> Data0010(d)
      [] r = "0012" -> Data0012(d) [] r = "0018" -> Data0018(d) [] r = "0020" -> Data0020(d)
      [] r = "0021" -> Data0021(d) [] r = "0022devops" -> Data0022Devops(d)
      [] r = "0026" -> Data0026(d) [] r = "0027" -> Data0027(d) [] r = "0028" -> Data0028(d)
      [] r = "0030" -> Data0030(d) [] r = "0031" -> Data0031(d) [] r = "0034" -> Data0034(d)
      [] r = "0036" -> Data0036(d) [] r = "0037" -> Data0037(d)
      [] OTHER -> d

RowsDown(r, d) ==
    CASE r = "0006" -> Undo0006(d) [] r = "0007" -> Undo0007(d) [] r = "0008" -> Undo0008(d)
      [] r = "0009" -> Undo0009(d) [] r = "0010" -> Undo0010(d) [] r = "0012" -> Undo0012(d)
      [] r = "0022devops" -> Undo0022Devops(d) [] r = "0026" -> Undo0026(d)
      [] r = "0027" -> Undo0027(d) [] r = "0029" -> Undo0029(d) [] r = "0030" -> Undo0030(d)
      [] r = "0031" -> Undo0031(d) [] r = "0034" -> Undo0034(d) [] r = "0036" -> Undo0036(d)
      [] r = "0037" -> Undo0037(d)
      [] OTHER -> d

Upgraded(r, d) == RowsUp(r, SchemaUp(d, Revision[r]))
Downgraded(r, d) == SchemaDown(RowsDown(r, d), Revision[r])

\* An upgrade step fails on a table that exists, a table or column that does not, and on a
\* rename to a name that is taken.
UpWorks(r, d) ==
    LET v == Revision[r]
    IN  /\ v.drop \subseteq d.tables
        /\ v.create \cap (d.tables \ v.drop) = {}
        /\ v.del \subseteq d.cols
        /\ v.add \cap d.cols = {}
        /\ {c[1] : c \in v.add} \subseteq d.tables \cup v.create
        /\ {e[1] : e \in v.values} \subseteq Types(d)
        /\ (r = "0031" /\ Named(d, "repo-scanner") # {}) => Named(d, "code-auditor") = {}

\* A downgrade step puts back what the upgrade dropped before it drops what it created;
\* 0015 refuses, 0035 narrows a column, and 0022devops puts the old check on transports back.
DownWorks(r, d) ==
    LET v == Revision[r]
    IN  /\ v.drop \cap d.tables = {}
        /\ v.create \subseteq d.tables
        /\ v.add \subseteq d.cols
        /\ r # "0015"
        /\ r = "0035" => ~d.longPreview
        /\ r = "0022devops" => d.inProcess \subseteq {"clyde_github"}
        /\ (r = "0031" /\ Named(d, "code-auditor") # {}) => Named(d, "repo-scanner") = {}

-----------------------------------------------------------------------------
(* Runs.                                                                   *)

RevisionAnd[r \in Revs] == {r} \cup UNION {RevisionAnd[p] : p \in Revision[r].parents}
Ancestors == [r \in Revs |-> RevisionAnd[r]]

Heads(s) == {r \in s : \A q \in s : r \notin Revision[q].parents}

Init ==
    /\ applied = {} /\ db = Blank
    /\ disk = [applied |-> {}, db |-> Blank]
    /\ run = "idle" /\ added = None /\ failed = <<>>
    /\ crashes = 0 /\ downs = 0 /\ writes = 0

\* "alembic upgrade head" in the release whose newest revision is r.
Deploy(r) ==
    /\ run = "idle"
    /\ r \in Releases \ applied
    /\ applied \subseteq Ancestors[r]
    /\ run' = r
    /\ failed' = <<>>
    /\ UNCHANGED <<applied, db, disk, added, crashes, downs, writes>>

Due(r) ==
    /\ run \in Revs
    /\ r \in Ancestors[run] \ applied
    /\ Revision[r].parents \subseteq applied

\* The autocommit block of r: everything before it is committed, then each value by itself.
AddValues(r) ==
    /\ Due(r)
    /\ Revision[r].autocommit /\ added # r /\ UpWorks(r, db)
    /\ db' = WithValues(db, Revision[r])
    /\ disk' = [applied |-> applied, db |-> db']
    /\ added' = r
    /\ UNCHANGED <<applied, run, failed, crashes, downs, writes>>

Upgrade(r) ==
    /\ Due(r)
    /\ Revision[r].autocommit => added = r
    /\ UpWorks(r, db)
    /\ db' = Upgraded(r, db)
    /\ applied' = applied \cup {r}
    /\ UNCHANGED <<disk, run, added, failed, crashes, downs, writes>>

RollBack ==
    /\ applied' = disk.applied /\ db' = disk.db
    /\ run' = "idle"
    /\ added' = None
    /\ UNCHANGED <<disk, downs, writes>>

\* A fault: the connection is closed without a commit.
CommitNothing ==
    /\ run \in applied
    /\ RollBack
    /\ UNCHANGED <<failed, crashes>>
\* The run reaches its head and commits.
Commit ==
    /\ run \in applied
    /\ disk' = [applied |-> applied, db |-> db]
    /\ run' = "idle"
    /\ added' = None
    /\ UNCHANGED <<applied, db, failed, crashes, downs, writes>>

Fail(r) ==
    /\ Due(r)
    /\ ~UpWorks(r, db)
    /\ failed' = <<"up", r>>
    /\ RollBack
    /\ UNCHANGED crashes

\* The container is killed, or the connection is lost.
Crash ==
    /\ run # "idle"
    /\ crashes < MaxCrashes
    /\ crashes' = crashes + 1
    /\ RollBack
    /\ UNCHANGED failed

\* "alembic downgrade -1"; with two heads it takes either.
Downgrade(r) ==
    /\ run = "idle"
    /\ r \in Heads(applied)
    /\ downs < MaxDowns
    /\ downs' = downs + 1
    /\ IF DownWorks(r, db)
       THEN /\ db' = Downgraded(r, db)
            /\ applied' = applied \ {r}
            /\ disk' = [applied |-> applied', db |-> db']
            /\ failed' = <<>>
       ELSE /\ failed' = <<"down", r>>
            /\ UNCHANGED <<applied, db, disk>>
    /\ UNCHANGED <<run, added, crashes, writes>>

-----------------------------------------------------------------------------
(* The application between runs.                                           *)

Write(d) ==
    /\ run = "idle"
    /\ writes < MaxWrites
    /\ writes' = writes + 1
    /\ db' = d
    /\ disk' = [applied |-> applied, db |-> d]
    /\ UNCHANGED <<applied, run, added, failed, crashes, downs>>

\* A user's first task.  From 0021 on, it comes with a default agent that has every
\* subagent, and every subagent's default servers.
CreateTask(u) ==
    /\ "tasks" \in db.tables
    /\ u \notin DOMAIN db.tasks
    /\ LET ours == "0021" \in applied
           task == [status |-> "running", agent |-> IF ours THEN u ELSE None]
           with == [db EXCEPT !.tasks = Joined(@, [x \in {u} |-> task])]
           team == [with EXCEPT !.agents = @ \cup {u},
                                !.links = @ \cup ({u} \X (DOMAIN db.subagents))]
       IN  Write(IF ours THEN CopyDefaults(team, DOMAIN db.subagents) ELSE with)

\* A chat session waits, or publishes, in a release that has those statuses.
SetStatus(u, status) ==
    /\ "0029" \in applied
    /\ u \in DOMAIN db.tasks
    /\ db.tasks[u].status # status
    /\ Write([db EXCEPT !.tasks[u].status = status])

\* An administrator makes a subagent.
AdminCreates(name) ==
    /\ "subagents" \in db.tables
    /\ "admin" \notin DOMAIN db.subagents /\ Named(db, name) = {}
    /\ Write([db EXCEPT !.subagents = Joined(@, [x \in {"admin"} |-> NewSubagent(name, "admin")]),
                        !.grants = @ \cup ({"admin"} \X (db.tools \cap {"core"}))])

\* An administrator writes a prompt anew.
AdminEdits(s) ==
    /\ s \in DOMAIN db.subagents
    /\ db.subagents[s].text # "admin"
    /\ Write([db EXCEPT !.subagents[s] = NewSubagent(db.subagents[s].name, "admin")])

\* An administrator adds a server of the kind 0022devops allows, and the pattern that 0037
\* renames and no revision adds.
AdminAddsServer ==
    /\ "0022devops" \in applied
    /\ "in_house" \notin db.servers
    /\ Write([db EXCEPT !.servers = @ \cup {"in_house"}, !.inProcess = @ \cup {"in_house"}])

AdminAddsPattern ==
    /\ "agent_tool_configs" \in db.tables
    /\ "0037" \notin applied
    /\ Missing(db, {"manager"}, "clyde_azure") # {}
    /\ Write(AddPattern(db, {"manager"}, "clyde_azure"))

\* A credential whose preview needs the wider column.
StoreLongPreview ==
    /\ "0035" \in applied
    /\ ~db.longPreview
    /\ Write([db EXCEPT !.longPreview = TRUE])

Step == \E r \in Revs : AddValues(r) \/ Upgrade(r) \/ Fail(r)

Next ==
    \/ \E r \in Releases : Deploy(r)
    \/ Step
    \/ Commit
    \/ Crash
    \/ \E r \in Revs : Downgrade(r)
    \/ \E u \in Users : CreateTask(u) \/ \E status \in NewStatuses : SetStatus(u, status)
    \/ \E name \in {"custom", "code-auditor"} : AdminCreates(name)
    \/ \E s \in {"repo-scanner", "code-explorer"} : AdminEdits(s)
    \/ AdminAddsServer
    \/ AdminAddsPattern
    \/ StoreLongPreview

Spec == Init /\ [][Next]_vars

\* A run goes on until it ends, and the newest release is deployed again until it is in.
\* (The first conjunct is weak fairness of Step, which is enabled when a revision is due.)
FairSpec ==
    /\ Spec
    /\ []<>(\A r \in Revs : ~Due(r)) \/ []<><<Step>>_vars
    /\ WF_vars(Commit) /\ WF_vars(Deploy(Newest))

-----------------------------------------------------------------------------
(* The models of src/db/models: what the newest release expects to find.   *)

Model(tables, cols, enums) == [tables |-> tables, cols |-> cols, enums |-> enums]

AgentModel ==
    Model({"system_tools", "subagent_system_tools", "agents", "agent_subagents",
           "agent_subagent_mcps"}, {}, {})
ToolConfigModel ==
    Model({"agent_tool_configs", "mcp_server_configs", "user_tool_configs"}, {}, {})
SubagentModel == Model({"subagents", "subagent_tools"}, {}, {})
TeamAgentModel == Model({"team_agent_system_tools", "team_agent_configs"}, {}, {})
CredentialModel == Model({"credentials"}, {}, {"credential_kind"} \X {"bearer", "oauth"})
CredentialEventModel == Model({"credential_events"}, {}, {})
MemoryModel == Model({"memory_nodes", "memory_edges"}, {}, {})
ProjectModel ==
    Model({"projects", "project_repos"}, {},
          {"provider_kind"} \X {"github", "jira", "google", "slack", "aws", "azure"})
TaskModel ==
    Model({"tasks"}, {"tasks"} \X {"agent_id", "sdk_session_id"},
          {"task_status"} \X {"running", "awaiting_approval", "awaiting_user_message",
                              "publishing", "awaiting_ci", "fixing", "completed",
                              "needs_human", "failed"})
TaskApprovalModel ==
    Model({"task_approvals"}, {<<"task_approvals", "user_response">>},
          {"approval_status"} \X {"pending", "approved", "denied"})
TaskMessageModel ==
    Model({"task_messages"}, {},
          ({"message_role"} \X {"user", "agent", "system"})
          \cup ({"message_kind"} \X {"chat", "approval_request", "approval_response",
                                     "status", "error"}))

Models == {AgentModel, ToolConfigModel, SubagentModel, TeamAgentModel, CredentialModel,
           CredentialEventModel, MemoryModel, ProjectModel, TaskModel, TaskApprovalModel, TaskMessageModel}

-----------------------------------------------------------------------------
(* Properties.                                                             *)

\* At the head, whatever deployments, crashes and downgrades led there, the database has
\* every table, column and enumeration value the models use: the 38 revisions add up to the
\* models, which are written by hand beside them.
HeadMatchesModels ==
    Newest \in disk.applied => \A m \in Models :
        /\ m.tables \subseteq disk.db.tables
        /\ m.cols \subseteq disk.db.cols
        /\ m.enums \subseteq disk.db.enums

\* What the revisions s add up to, whatever the order they were applied in and whatever was
\* undone in between.
Given(s, field) == UNION {Revision[r][field] : r \in s}
DroppedFor(s) == UNION {Revision[r].drop \ Revision[r].create : r \in s}
TablesOf(s) == Given(s, "create") \ DroppedFor(s)
ColsOf(s) == {c \in Given(s, "add") : c[1] \notin DroppedFor(s)} \ Given(s, "del")
Spelled(s, type) ==
    IF type = "git_provider_kind" /\ "0012" \in s THEN "provider_kind" ELSE type
EnumsOf(s) == {<<Spelled(s, e[1]), e[2]>> : e \in Given(s, "types") \cup Given(s, "values")}
KeysOf(s) ==
    ((IF "0005" \in s THEN FirstBlocks ELSE {})
     \cup (IF "0007" \in s THEN {"coder_role"} ELSE {})
     \cup (IF "0008" \in s THEN RolesV2 ELSE {})
     \cup (IF "0009" \in s THEN {"developer_role"} ELSE {}))
    \ (IF "0010" \in s THEN {"qa_engineer_role"} ELSE {})
BlocksOf(s) ==
    {[key |-> k, workspace |-> "0006" \in s /\ k \in WorkspaceRoles] : k \in KeysOf(s)}

\* The schema, and the prompt blocks while they were in use, depend on the revisions alone:
\* not on where an upgrade was cut in two, which branch went first, or what was undone and
\* done again.  (Values of an enumeration and the timestamps of prompt_blocks are the
\* exceptions the revisions name.)
Counted(s, cols) == {c \in cols : "0015" \in s => c[1] # "prompt_blocks"}
SchemaDetermined ==
    LET s == disk.applied
        d == disk.db
    IN  /\ d.tables = TablesOf(s)
        /\ Counted(s, d.cols) = Counted(s, ColsOf(s))
        /\ EnumsOf(s) \subseteq d.enums
        /\ "0015" \notin s => d.blocks = BlocksOf(s)

\* From 0021 on every task has the default agent of its own owner.
TasksOwned ==
    "0021" \in disk.applied =>
        \A u \in DOMAIN disk.db.tasks : /\ disk.db.tasks[u].agent = u
                                        /\ u \in disk.db.agents

\* From 0022devops on every default agent, old or new, has every subagent the revisions
\* made, and may mount the in-process GitHub server for devops.
AgentsComplete ==
    "0022devops" \in disk.applied =>
        \A u \in disk.db.agents :
            /\ {u} \X (DOMAIN disk.db.subagents \ {"admin"}) \subseteq disk.db.links
            /\ <<u, "devops", "clyde_github">> \in disk.db.mounts

\* No task has a status that the deployed release does not know.
StatusesKnown ==
    "0029" \notin disk.applied =>
        \A u \in DOMAIN disk.db.tasks : disk.db.tasks[u].status \notin NewStatuses

\* At the head each role has one row for each in-process server: nothing in the table keeps
\* a second one out.
OnePatternPerRole ==
    Newest \in disk.applied =>
        \A role \in GoogleRoles, p \in {"azure", "google"} :
            Cardinality({r \in disk.db.patterns : r.role = role /\ r.pattern = p}) = 1

\* No row of a table between two others outlives one of them, on the way up or down.
ReferencesHold ==
    /\ disk.db.grants \subseteq (DOMAIN disk.db.subagents) \X disk.db.tools
    /\ disk.db.defaults \subseteq (DOMAIN disk.db.subagents) \X disk.db.servers
    /\ disk.db.links \subseteq disk.db.agents \X (DOMAIN disk.db.subagents)

\* What the revisions do to rows leaves data that the deployed release can work with, in
\* whatever order releases, downgrades and writes come.
RowsSound ==
    /\ ReferencesHold
    /\ TasksOwned
    /\ AgentsComplete
    /\ StatusesKnown
    /\ OnePatternPerRole

NameTaken == \E s \in DOMAIN disk.db.subagents :
    s # "repo-scanner" /\ disk.db.subagents[s].name = "code-auditor"

\* An upgrade dies only of the name code-auditor being taken; a downgrade of 0015 (which
\* refuses), of 0021 (whose first table still exists), of a preview too long, and of a
\* server that the old check forbids.
OnlyKnownFailures ==
    \/ failed = <<>>
    \/ failed = <<"up", "0031">> /\ NameTaken
    \/ failed \in {<<"down", "0015">>, <<"down", "0021">>}
    \/ failed = <<"down", "0035">> /\ disk.db.longPreview
    \/ failed = <<"down", "0022devops">> /\ "in_house" \in disk.db.inProcess

\* No upgrade takes from administrators and users what they made: a task keeps its status,
\* a subagent its name, its text and its tools.  (The prompts that administrators edited of
\* the subagents of the revisions are not kept: 0027 replaces five of them.)
MadeByHand(d) ==
    [tasks |-> [u \in DOMAIN d.tasks |-> d.tasks[u].status],
     subagents |-> {<<d.subagents[s].name, d.subagents[s].text>>
                    : s \in (DOMAIN d.subagents) \cap {"admin"}},
     grants |-> {g \in d.grants : g[1] = "admin" /\ g[2] # "mcp-memory"},
     servers |-> d.servers \cap {"in_house"}]
HandMadeKept == [][Step => MadeByHand(db') = MadeByHand(db)]_vars

\* The newest release gets its schema in the end, however often a deployment is cut off,
\* unless the name that 0031 needs is taken.
HeadReached == <>[](Newest \in disk.applied \/ ("0031" \notin disk.applied /\ NameTaken))
=============================================================================
