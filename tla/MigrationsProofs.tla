-------------------------- MODULE MigrationsProofs --------------------------
(***************************************************************************)
(* Proofs about the migrations, for any users, any deployed releases and   *)
(* any number of crashes, downgrades and writes.                           *)
(*                                                                         *)
(* The invariant says of a set s of revisions and a database d that d is   *)
(* what s adds up to (Good): the schema in closed form, and rows that fit  *)
(* s.  It holds of the running transaction and of the last commit.  The    *)
(* proof goes revision by revision, both ways: first the table of          *)
(* revisions is read off field by field, then tables, columns,             *)
(* enumerations and blocks follow by set arithmetic, then what each        *)
(* revision does to rows, in terms of the fields it leaves alone (Only).   *)
(***************************************************************************)
EXTENDS Migrations, FiniteSetTheorems, TLAPS

-----------------------------------------------------------------------------
(* A database that has the revisions s.                                    *)

\* A revision comes after its parents.
Closed(s) == s \subseteq Revs /\ \A r \in s : Revision[r].parents \subseteq s

Fields ==
    {"tables", "cols", "enums", "blocks", "subagents", "tools", "grants", "servers",
     "inProcess", "defaults", "patterns", "agents", "links", "mounts", "tasks", "longPreview"}
Shape(d) ==
    /\ DOMAIN d = Fields
    /\ \A x \in DOMAIN d.subagents : DOMAIN d.subagents[x] = {"name", "text", "escalates"}
    /\ \A r \in d.patterns : DOMAIN r = {"role", "seed", "pattern"}
    /\ \A u \in DOMAIN d.tasks : DOMAIN d.tasks[u] = {"status", "agent"}

\* The schema; a type is there only if a revision has made it.
TypesOf(s) == {Spelled(s, e[1]) : e \in Given(s, "types")}
Schema(s, d) ==
    /\ d.tables = TablesOf(s)
    /\ Counted(s, d.cols) = Counted(s, ColsOf(s))
    /\ EnumsOf(s) \subseteq d.enums
    /\ Types(d) \subseteq TypesOf(s)
Blocks(s, d) == "0015" \notin s => d.blocks = BlocksOf(s)

\* The subagents of the revisions and at most one of the administrator's.
Made(s) ==
    (IF "0020" \in s THEN FirstSubagents ELSE {})
    \cup (IF "0022devops" \in s THEN {"devops"} ELSE {})
NameOf(s, x) == IF x = "repo-scanner" /\ "0031" \in s THEN "code-auditor" ELSE x
Subagents(s, d) ==
    /\ DOMAIN d.subagents \ {"admin"} = Made(s)
    /\ \A x \in Made(s) : d.subagents[x].name = NameOf(s, x)
    /\ "admin" \in DOMAIN d.subagents =>
        /\ "0020" \in s
        /\ d.subagents["admin"].text = "admin"
        /\ d.subagents["admin"].name \in
               IF "0031" \in s THEN {"custom"} ELSE {"custom", "code-auditor"}

\* The rows that refer to them.
References(s, d) ==
    /\ d.grants \subseteq (DOMAIN d.subagents) \X d.tools
    /\ d.defaults \subseteq (DOMAIN d.subagents) \X d.servers
    /\ d.links \subseteq d.agents \X (DOMAIN d.subagents)
    /\ "0021" \notin s => d.tools = {} /\ d.agents = {}
    /\ "0028" \in s => "mcp-memory" \in d.tools
    /\ "0022devops" \in s => <<"devops", "clyde_github">> \in d.defaults
    /\ d.inProcess \subseteq {"clyde_github", "in_house"}
Agents(s, d) ==
    \A u \in d.agents :
        /\ {u} \X Made(s) \subseteq d.links
        /\ "0022devops" \in s => <<u, "devops", "clyde_github">> \in d.mounts
Tasks(s, d) ==
    /\ "0021" \in s =>
        \A u \in DOMAIN d.tasks : d.tasks[u].agent = u /\ u \in d.agents
    /\ "0029" \notin s => \A u \in DOMAIN d.tasks : d.tasks[u].status \notin NewStatuses
Patterns(s, d) ==
    Newest \in s =>
        \A role \in GoogleRoles, p \in {"azure", "google"} :
            Cardinality({r \in d.patterns : r.role = role /\ r.pattern = p}) = 1

RowsRight(s, d) ==
    /\ Shape(d) /\ Subagents(s, d) /\ References(s, d) /\ Agents(s, d) /\ Tasks(s, d)
    /\ Patterns(s, d)
Good(s, d) == Closed(s) /\ Schema(s, d) /\ Blocks(s, d) /\ RowsRight(s, d)

\* The inductive invariant.
Inv ==
    /\ Good(applied, db)
    /\ Good(disk.applied, disk.db)
    /\ run = "idle" => applied = disk.applied /\ db = disk.db
    /\ run # "idle" => failed = <<>>
    /\ MadeByHand(db) = MadeByHand(disk.db)
    /\ OnlyKnownFailures

-----------------------------------------------------------------------------
(* The table of revisions, field by field.                                 *)

\* The tables a revision creates.
LEMMA Created ==
    ASSUME NEW r \in Revs
    PROVE  Revision[r].create =
             CASE r = "0001" -> {"projects", "project_repos", "tasks"} \cup EarlyTables
               [] r = "0002" -> {"user_oauth_credentials"}
               [] r = "0005" -> {"prompt_blocks"}
               [] r = "0013" -> {"credentials", "credential_events"}
               [] r = "0018" -> {"mcp_server_configs", "agent_tool_configs"}
               [] r = "0019" -> {"user_tool_configs"}
               [] r = "0020" -> {"subagents", "subagent_tools"}
               [] r = "0021" -> {"system_tools", "subagent_system_tools", "agents",
                                 "agent_subagents", "agent_subagent_mcps"}
               [] r = "0022memory" -> {"memory_nodes", "memory_edges"}
               [] r = "0024" -> {"task_approvals"}
               [] r = "0025" -> {"task_messages"}
               [] r = "0028" -> {"team_agent_configs", "team_agent_system_tools"}
               [] OTHER -> {}
BY DEF Revs, Revision, After, R0001, R0002, R0004, R0005, R0006, R0007, R0008, R0009, R0010,
       R0011, R0012, R0013, R0014, R0015, R0016Aws, R0016Drop, R0017, R0018, R0019, R0020,
       R0021, R0022Devops, R0022Memory, R0023, R0024, R0025, R0026, R0027, R0028, R0029, R0030,
       R0031, R0032, R0033, R0034, R0035, R0036, R0037

\* The tables a revision drops.
LEMMA Dropped ==
    ASSUME NEW r \in Revs
    PROVE  Revision[r].drop = CASE r = "0015" -> {"user_oauth_credentials"}
                                [] r = "0016drop" -> {"prompt_blocks"}
                                [] r = "0021" -> {"agents"}
                                [] OTHER -> {}
BY DEF Revs, Revision, After, R0001, R0002, R0004, R0005, R0006, R0007, R0008, R0009, R0010,
       R0011, R0012, R0013, R0014, R0015, R0016Aws, R0016Drop, R0017, R0018, R0019, R0020,
       R0021, R0022Devops, R0022Memory, R0023, R0024, R0025, R0026, R0027, R0028, R0029, R0030,
       R0031, R0032, R0033, R0034, R0035, R0036, R0037

\* The columns a revision adds to tables that exist.
LEMMA Added ==
    ASSUME NEW r \in Revs
    PROVE  Revision[r].add =
             CASE r = "0001" -> {<<"project_repos", "oauth_token_encrypted">>}
               [] r = "0005" -> {"prompt_blocks"} \X {"created_at", "updated_at"}
               [] r = "0011" -> {"user_oauth_credentials"} \X
                                {"refresh_token_encrypted", "expires_at", "provider_account_id",
                                 "account_label", "raw_metadata"}
               [] r = "0021" -> {<<"tasks", "agent_id">>}
               [] r = "0025" -> {<<"task_approvals", "user_response">>}
               [] r = "0032" -> {<<"tasks", "sdk_session_id">>}
               [] OTHER -> {}
BY DEF Revs, Revision, After, R0001, R0002, R0004, R0005, R0006, R0007, R0008, R0009, R0010,
       R0011, R0012, R0013, R0014, R0015, R0016Aws, R0016Drop, R0017, R0018, R0019, R0020,
       R0021, R0022Devops, R0022Memory, R0023, R0024, R0025, R0026, R0027, R0028, R0029, R0030,
       R0031, R0032, R0033, R0034, R0035, R0036, R0037

\* The one column a revision drops.
LEMMA Removed ==
    ASSUME NEW r \in Revs
    PROVE  Revision[r].del =
             IF r = "0016drop" THEN {<<"project_repos", "oauth_token_encrypted">>} ELSE {}
BY DEF Revs, Revision, After, R0001, R0002, R0004, R0005, R0006, R0007, R0008, R0009, R0010,
       R0011, R0012, R0013, R0014, R0015, R0016Aws, R0016Drop, R0017, R0018, R0019, R0020,
       R0021, R0022Devops, R0022Memory, R0023, R0024, R0025, R0026, R0027, R0028, R0029, R0030,
       R0031, R0032, R0033, R0034, R0035, R0036, R0037

\* The revisions that make enumerations.
LEMMA TypesMade ==
    ASSUME NEW r \in Revs
    PROVE  Revision[r].types =
             CASE r = "0001" -> R0001.types [] r = "0013" -> R0013.types
               [] r = "0024" -> R0024.types [] r = "0025" -> R0025.types
               [] OTHER -> {}
BY DEF Revs, Revision, After, R0001, R0002, R0004, R0005, R0006, R0007, R0008, R0009, R0010,
       R0011, R0012, R0013, R0014, R0015, R0016Aws, R0016Drop, R0017, R0018, R0019, R0020,
       R0021, R0022Devops, R0022Memory, R0023, R0024, R0025, R0026, R0027, R0028, R0029, R0030,
       R0031, R0032, R0033, R0034, R0035, R0036, R0037

\* The values a revision adds to an enumeration that exists.
LEMMA ValuesAdded ==
    ASSUME NEW r \in Revs
    PROVE  Revision[r].values =
             CASE r = "0004" -> {<<"task_status", "awaiting_approval">>}
               [] r = "0012" -> {<<"git_provider_kind", "jira">>}
               [] r = "0014" -> {<<"credential_kind", "oauth">>, <<"provider_kind", "google">>,
                                 <<"provider_kind", "slack">>}
               [] r = "0016aws" -> {<<"provider_kind", "aws">>}
               [] r = "0029" -> {"task_status"} \X {"awaiting_user_message", "publishing"}
               [] r = "0033" -> {<<"provider_kind", "azure">>}
               [] OTHER -> {}
BY DEF Revs, Revision, After, R0001, R0002, R0004, R0005, R0006, R0007, R0008, R0009, R0010,
       R0011, R0012, R0013, R0014, R0015, R0016Aws, R0016Drop, R0017, R0018, R0019, R0020,
       R0021, R0022Devops, R0022Memory, R0023, R0024, R0025, R0026, R0027, R0028, R0029, R0030,
       R0031, R0032, R0033, R0034, R0035, R0036, R0037

\* The down_revision of each revision.
LEMMA Parents ==
    ASSUME NEW r \in Revs
    PROVE  Revision[r].parents =
        CASE r = "0001" -> {} [] r = "0002" -> {"0001"} [] r = "0004" -> {"0002"}
          [] r = "0005" -> {"0004"} [] r = "0006" -> {"0005"} [] r = "0007" -> {"0006"}
          [] r = "0008" -> {"0007"} [] r = "0009" -> {"0008"} [] r = "0010" -> {"0009"}
          [] r = "0011" -> {"0010"} [] r = "0012" -> {"0011"} [] r = "0013" -> {"0012"}
          [] r = "0014" -> {"0013"} [] r = "0015" -> {"0014"} [] r = "0016aws" -> {"0015"}
          [] r = "0016drop" -> {"0015"} [] r = "0017" -> {"0016aws", "0016drop"}
          [] r = "0018" -> {"0017"} [] r = "0019" -> {"0018"} [] r = "0020" -> {"0019"}
          [] r = "0021" -> {"0020"} [] r = "0022devops" -> {"0021"}
          [] r = "0022memory" -> {"0021"} [] r = "0023" -> {"0022memory", "0022devops"}
          [] r = "0024" -> {"0023"} [] r = "0025" -> {"0024"} [] r = "0026" -> {"0025"}
          [] r = "0027" -> {"0026"} [] r = "0028" -> {"0027"} [] r = "0029" -> {"0028"}
          [] r = "0030" -> {"0029"} [] r = "0031" -> {"0030"} [] r = "0032" -> {"0031"}
          [] r = "0033" -> {"0032"} [] r = "0034" -> {"0033"} [] r = "0035" -> {"0034"}
          [] r = "0036" -> {"0035"} [] r = "0037" -> {"0036"}
BY DEF Revs, Revision, After, R0001, R0002, R0004, R0005, R0006, R0007, R0008, R0009, R0010,
       R0011, R0012, R0013, R0014, R0015, R0016Aws, R0016Drop, R0017, R0018, R0019, R0020,
       R0021, R0022Devops, R0022Memory, R0023, R0024, R0025, R0026, R0027, R0028, R0029, R0030,
       R0031, R0032, R0033, R0034, R0035, R0036, R0037

\* What a database with a revision has had before: the two branches and their two merges.
LEMMA Earlier ==
    ASSUME NEW s, Closed(s)
    PROVE  /\ "0002" \in s => "0001" \in s
           /\ "0004" \in s => "0002" \in s
           /\ "0005" \in s => "0004" \in s
           /\ "0006" \in s => "0005" \in s
           /\ "0007" \in s => "0006" \in s
           /\ "0008" \in s => "0007" \in s
           /\ "0009" \in s => "0008" \in s
           /\ "0010" \in s => "0009" \in s
           /\ "0011" \in s => "0010" \in s
           /\ "0012" \in s => "0011" \in s
           /\ "0013" \in s => "0012" \in s
           /\ "0014" \in s => "0013" \in s
           /\ "0015" \in s => "0014" \in s
           /\ "0016aws" \in s => "0015" \in s
           /\ "0016drop" \in s => "0015" \in s
           /\ "0017" \in s => "0016aws" \in s /\ "0016drop" \in s
           /\ "0018" \in s => "0017" \in s
           /\ "0019" \in s => "0018" \in s
           /\ "0020" \in s => "0019" \in s
           /\ "0021" \in s => "0020" \in s
           /\ "0022devops" \in s => "0021" \in s
           /\ "0022memory" \in s => "0021" \in s
           /\ "0023" \in s => "0022devops" \in s /\ "0022memory" \in s
           /\ "0024" \in s => "0023" \in s
           /\ "0025" \in s => "0024" \in s
           /\ "0026" \in s => "0025" \in s
           /\ "0027" \in s => "0026" \in s
           /\ "0028" \in s => "0027" \in s
           /\ "0029" \in s => "0028" \in s
           /\ "0030" \in s => "0029" \in s
           /\ "0031" \in s => "0030" \in s
           /\ "0032" \in s => "0031" \in s
           /\ "0033" \in s => "0032" \in s
           /\ "0034" \in s => "0033" \in s
           /\ "0035" \in s => "0034" \in s
           /\ "0036" \in s => "0035" \in s
           /\ "0037" \in s => "0036" \in s
BY Parents DEF Closed, Revs

\* A revision whose parents are applied keeps the order.
LEMMA ClosedUp ==
    ASSUME NEW s, Closed(s), NEW r \in Revs, Revision[r].parents \subseteq s
    PROVE  Closed(s \cup {r})
BY DEF Closed

\* So does undoing a head.
LEMMA ClosedDown ==
    ASSUME NEW s, Closed(s), NEW r \in Heads(s)
    PROVE  Closed(s \ {r})
BY DEF Closed, Heads

\* The tables that are gone for good.
LEMMA Gone ==
    ASSUME NEW s, s \subseteq Revs
    PROVE  \A t :
             t \in DroppedFor(s) <=>
               \/ t = "user_oauth_credentials" /\ "0015" \in s
               \/ t = "prompt_blocks" /\ "0016drop" \in s
<1>1. ASSUME NEW r \in s
      PROVE  Revision[r].drop \ Revision[r].create =
               CASE r = "0015" -> {"user_oauth_credentials"}
                 [] r = "0016drop" -> {"prompt_blocks"}
                 [] OTHER -> {}
  BY Created, Dropped
<1>2. ASSUME NEW t \in DroppedFor(s)
      PROVE  \/ t = "user_oauth_credentials" /\ "0015" \in s
             \/ t = "prompt_blocks" /\ "0016drop" \in s
  BY <1>1 DEF DroppedFor
<1>3. /\ "0015" \in s => "user_oauth_credentials" \in DroppedFor(s)
      /\ "0016drop" \in s => "prompt_blocks" \in DroppedFor(s)
  BY <1>1 DEF DroppedFor
<1>4. QED
  BY <1>2, <1>3

\* A table has one maker, except that 0021 makes agents anew.
LEMMA OneMaker ==
    ASSUME NEW r \in Revs, NEW q \in Revs, q # r,
           NEW t \in Revision[r].create, t \in Revision[q].create
    PROVE  t = "agents" /\ {q, r} = {"0001", "0021"}
BY Created DEF EarlyTables

\* One more revision adds its own part of a field.
LEMMA GivenUp ==
    ASSUME NEW s, NEW r, NEW field
    PROVE  Given(s \cup {r}, field) = Given(s, field) \cup Revision[r][field]
BY DEF Given

\* An upgrade's drops and creations lead from one closed form of the tables to the next.
LEMMA TablesUp ==
    ASSUME NEW s, Closed(s), NEW r \in Revs \ s, Revision[r].parents \subseteq s
    PROVE  TablesOf(s \cup {r}) = (TablesOf(s) \ Revision[r].drop) \cup Revision[r].create
<1> DEFINE z == s \cup {r}
<1>1. Closed(z) /\ s \subseteq Revs /\ z \subseteq Revs
  BY ClosedUp DEF Closed
<1>2. Given(z, "create") = Given(s, "create") \cup Revision[r].create
  BY GivenUp
<1>3. DroppedFor(z) = DroppedFor(s) \cup (Revision[r].drop \ Revision[r].create)
  BY DEF DroppedFor
<1>4. Revision[r].create \cap DroppedFor(s) = {}
  <2>1. ASSUME NEW t \in Revision[r].create, t \in {"user_oauth_credentials", "prompt_blocks"}
        PROVE  \/ t = "user_oauth_credentials" /\ r = "0002"
               \/ t = "prompt_blocks" /\ r = "0005"
    BY <2>1, Created DEF EarlyTables
  <2>2. QED
    BY <1>1, <2>1, Gone, Earlier
<1>5. QED
  BY <1>2, <1>3, <1>4 DEF TablesOf

\* 0021 cannot be undone: agents, which it would put back, is there.
LEMMA AgentsStay ==
    ASSUME NEW s, Closed(s), NEW r \in s, Revision[r].drop \cap TablesOf(s) = {}
    PROVE  r # "0021"
<1>1. SUFFICES ASSUME r = "0021" PROVE FALSE
  OBVIOUS
<1>2. r \in Revs /\ s \subseteq Revs
  BY DEF Closed
<1>3. "agents" \in Revision[r].create /\ "agents" \in Revision[r].drop
  BY <1>1, <1>2, Created, Dropped
<1>4. "agents" \notin DroppedFor(s) /\ "agents" \in Given(s, "create")
  BY <1>2, <1>3, Gone DEF Given
<1>5. QED
  BY <1>3, <1>4 DEF TablesOf

\* A downgrade leads back to the tables before, if what it puts back is not there.
LEMMA TablesDown ==
    ASSUME NEW s, Closed(s), NEW r \in Heads(s),
           Revision[r].drop \cap TablesOf(s) = {}, r # "0015"
    PROVE  TablesOf(s \ {r}) = (TablesOf(s) \cup Revision[r].drop) \ Revision[r].create
<1> DEFINE z == s \ {r}
<1>1. Closed(z) /\ s \subseteq Revs /\ z \subseteq Revs /\ r \in Revs /\ s = z \cup {r}
  BY ClosedDown DEF Closed, Heads
<1>2. Given(s, "create") = Given(z, "create") \cup Revision[r].create
  BY <1>1 DEF Given
<1>3. DroppedFor(s) = DroppedFor(z) \cup (Revision[r].drop \ Revision[r].create)
  BY <1>1 DEF DroppedFor
<1>4. r # "0021"
  BY <1>1, AgentsStay
<1>5. Revision[r].create \cap TablesOf(z) = {}
  <2>1. SUFFICES ASSUME NEW t \in Revision[r].create, NEW q \in z, t \in Revision[q].create
                 PROVE  FALSE
    BY DEF TablesOf, Given
  <2>2. {q, r} = {"0001", "0021"}
    BY <1>1, <2>1, OneMaker
  <2>3. q = "0021" /\ r = "0001"
    BY <1>4, <2>2
  <2>4. QED
    BY <1>1, <2>1, <2>3, Earlier
<1>6. ASSUME NEW t \in Revision[r].drop
      PROVE  t \in TablesOf(z)
  <2>1. r = "0016drop" /\ t = "prompt_blocks"
    BY <1>1, <1>4, <1>6, Dropped
  <2>2. "0005" \in z /\ "prompt_blocks" \in Revision["0005"].create
    BY <1>1, <2>1, Earlier, Created DEF Revs
  <2>3. t \in Given(z, "create")
    BY <2>1, <2>2 DEF Given
  <2>4. t \notin DroppedFor(z)
    BY <1>1, <2>1, Gone
  <2>5. QED
    BY <2>3, <2>4 DEF TablesOf
<1>7. QED
  BY <1>2, <1>3, <1>5, <1>6 DEF TablesOf

\* Where the columns that come and go belong.
LEMMA ColumnAdded ==
    ASSUME NEW r \in Revs, NEW c \in Revision[r].add
    PROVE  \/ r = "0001" /\ c = <<"project_repos", "oauth_token_encrypted">>
           \/ r = "0005" /\ c[1] = "prompt_blocks"
           \/ r = "0011" /\ c[1] = "user_oauth_credentials"
           \/ r = "0021" /\ c = <<"tasks", "agent_id">>
           \/ r = "0025" /\ c = <<"task_approvals", "user_response">>
           \/ r = "0032" /\ c = <<"tasks", "sdk_session_id">>
BY Added

\* Only 0016drop drops a column, the plain token of a repository.
LEMMA ColumnRemoved ==
    ASSUME NEW s, s \subseteq Revs, NEW c
    PROVE  c \in Given(s, "del") <=>
             "0016drop" \in s /\ c = <<"project_repos", "oauth_token_encrypted">>
BY Removed DEF Given

\* An upgrade leads to the columns of the revisions after it.
LEMMA ColsUp ==
    ASSUME NEW s, Closed(s), NEW r \in Revs \ s, Revision[r].parents \subseteq s,
           NEW cols, Counted(s, cols) = Counted(s, ColsOf(s))
    PROVE  LET v == Revision[r]
               z == s \cup {r}
           IN  Counted(z, ({c \in cols : c[1] \notin v.drop} \ v.del) \cup v.add)
                 = Counted(z, ColsOf(z))
<1> DEFINE v == Revision[r]
           z == s \cup {r}
           new == ({c \in cols : c[1] \notin v.drop} \ v.del) \cup v.add
<1>1. Closed(z) /\ s \subseteq Revs /\ z \subseteq Revs
  BY ClosedUp DEF Closed
<1>2. Given(z, "add") = Given(s, "add") \cup v.add /\ Given(z, "del") = Given(s, "del") \cup v.del
  BY GivenUp
<1>3. DroppedFor(z) = DroppedFor(s) \cup (v.drop \ v.create)
  BY DEF DroppedFor
<1>4. ASSUME NEW c, "0015" \in z => c[1] # "prompt_blocks"
      PROVE  c \in new <=> c \in ColsOf(z)
  <2>1. CASE c \in v.add
    <3>1. c[1] \notin DroppedFor(z)
      BY <1>1, <1>4, <2>1, ColumnAdded, Gone, Earlier
    <3>2. c \notin Given(z, "del")
      <4>1. c = <<"project_repos", "oauth_token_encrypted">> => r = "0001"
        BY <2>1, ColumnAdded
      <4>2. QED
        BY <1>1, <4>1, ColumnRemoved, Earlier
    <3>3. QED
      BY <1>2, <2>1, <3>1, <3>2 DEF ColsOf
  <2>2. CASE c \notin v.add
    <3>1. c \in cols <=> c \in ColsOf(s)
      BY <1>4 DEF Counted
    <3>2. c \in Given(s, "add") => c[1] # "agents"
      BY <1>1, ColumnAdded DEF Given
    <3>3. v.drop \ v.create = v.drop \ {"agents"}
      BY Dropped, Created DEF EarlyTables
    <3>4. QED
      BY <1>2, <1>3, <2>2, <3>1, <3>2, <3>3 DEF ColsOf
  <2>3. QED
    BY <2>1, <2>2
<1>5. QED
  BY <1>4 DEF Counted

\* A downgrade leads back to the columns before.
LEMMA ColsDown ==
    ASSUME NEW s, Closed(s), NEW r \in Heads(s), r # "0015", r # "0021",
           NEW cols, Counted(s, cols) = Counted(s, ColsOf(s))
    PROVE  LET v == Revision[r]
               z == s \ {r}
           IN  Counted(z, {c \in (cols \cup v.del) \ v.add : c[1] \notin v.create})
                 = Counted(z, ColsOf(z))
<1> DEFINE v == Revision[r]
           z == s \ {r}
           new == {c \in (cols \cup v.del) \ v.add : c[1] \notin v.create}
<1>1. Closed(z) /\ s \subseteq Revs /\ z \subseteq Revs /\ r \in Revs /\ s = z \cup {r}
  BY ClosedDown DEF Closed, Heads
<1>2. Given(s, "add") = Given(z, "add") \cup v.add /\ Given(s, "del") = Given(z, "del") \cup v.del
  BY <1>1 DEF Given
<1>3. DroppedFor(s) = DroppedFor(z) \cup (v.drop \ v.create)
  BY <1>1 DEF DroppedFor
<1>4. ASSUME NEW c, "0015" \in z => c[1] # "prompt_blocks"
      PROVE  c \in new <=> c \in ColsOf(z)
  <2>0. "0015" \in s => c[1] # "prompt_blocks"
    BY <1>4
  <2>1. c \in cols <=> c \in ColsOf(s)
    BY <2>0 DEF Counted
  <2>2. CASE c \in v.add \/ c[1] \in v.create
    <3>1. c \notin new
      BY <2>2
    <3>2. ASSUME NEW q \in z, c \in Revision[q].add
          PROVE  FALSE
      <4>1. q \in Revs /\ q # r
        BY <1>1, <3>2
      <4>2. c \notin v.add
        BY <1>1, <3>2, <4>1, ColumnAdded
      <4>3. c[1] \in v.create
        BY <2>2, <4>2
      <4>4. QED
        BY <1>1, <3>2, <4>3, ColumnAdded, Created, Earlier, SMTT(20) DEF EarlyTables
    <3>3. c \notin ColsOf(z)
      BY <3>2 DEF ColsOf, Given
    <3>4. QED
      BY <3>1, <3>3
  <2>3. CASE c \notin v.add /\ c[1] \notin v.create
    <3>1. CASE r = "0016drop"
      <4>1. v.create = {} /\ v.drop = {"prompt_blocks"}
            /\ v.del = {<<"project_repos", "oauth_token_encrypted">>} /\ v.add = {}
        BY <1>1, <3>1, Created, Dropped, Added, Removed
      <4>2. "0001" \in z /\ "0015" \in z
        BY <1>1, <3>1, Earlier
      <4>3. c = <<"project_repos", "oauth_token_encrypted">> => c \in ColsOf(z)
        <5>1. SUFFICES ASSUME c = <<"project_repos", "oauth_token_encrypted">>
                       PROVE  c \in ColsOf(z)
          OBVIOUS
        <5>2. c \in Given(z, "add")
          BY <4>2, <5>1, Added DEF Given, Revs
        <5>3. c \notin Given(z, "del")
          <6>1. z \subseteq Revs /\ "0016drop" \notin z
            BY <1>1, <3>1
          <6>2. QED
            BY <6>1, ColumnRemoved
        <5>4. c[1] \notin DroppedFor(z)
          BY <1>1, <5>1, Gone
        <5>5. QED
          BY <5>2, <5>3, <5>4 DEF ColsOf
      <4>4. QED
        BY <1>2, <1>3, <1>4, <2>1, <2>3, <4>1, <4>2, <4>3 DEF ColsOf
    <3>2. CASE r # "0016drop"
      <4>1. v.drop = {} /\ v.del = {}
        BY <1>1, <3>2, Dropped, Removed
      <4>2. QED
        BY <1>2, <1>3, <2>1, <2>3, <4>1 DEF ColsOf
    <3>3. QED
      BY <3>1, <3>2
  <2>4. QED
    BY <2>2, <2>3
<1>5. QED
  BY <1>4 DEF Counted

\* Which revision makes which enumeration.
LEMMA TypeMade ==
    ASSUME NEW r \in Revs, NEW e \in Revision[r].types
    PROVE  /\ e = <<e[1], e[2]>>
           /\ \/ r = "0001" /\ e[1] \in {"git_provider_kind", "task_status", "tool_kind"}
              \/ r = "0013" /\ e[1] = "credential_kind"
              \/ r = "0024" /\ e[1] = "approval_status"
              \/ r = "0025" /\ e[1] \in {"message_role", "message_kind"}
<1>1. \/ r = "0001" /\ e \in R0001.types
      \/ r = "0013" /\ e \in R0013.types
      \/ r = "0024" /\ e \in R0024.types
      \/ r = "0025" /\ e \in R0025.types
  BY TypesMade
<1>2. ASSUME e \in R0001.types
      PROVE  e = <<e[1], e[2]>> /\ e[1] \in {"git_provider_kind", "task_status", "tool_kind"}
  BY <1>2 DEF R0001, After
<1>3. ASSUME e \in R0013.types
      PROVE  e = <<e[1], e[2]>> /\ e[1] = "credential_kind"
  BY <1>3 DEF R0013, After
<1>4. ASSUME e \in R0024.types
      PROVE  e = <<e[1], e[2]>> /\ e[1] = "approval_status"
  BY <1>4 DEF R0024, After
<1>5. ASSUME e \in R0025.types
      PROVE  e = <<e[1], e[2]>> /\ e[1] \in {"message_role", "message_kind"}
  BY <1>5 DEF R0025, After
<1>6. QED
  BY <1>1, <1>2, <1>3, <1>4, <1>5

\* Which revision adds values to which enumeration.
LEMMA ValueAdded ==
    ASSUME NEW r \in Revs, NEW e \in Revision[r].values
    PROVE  /\ e = <<e[1], e[2]>>
           /\ \/ r \in {"0004", "0029"} /\ e[1] = "task_status"
              \/ r = "0012" /\ e[1] = "git_provider_kind"
              \/ r = "0014" /\ e[1] \in {"credential_kind", "provider_kind"}
              \/ r \in {"0016aws", "0033"} /\ e[1] = "provider_kind"
BY ValuesAdded

\* The types of what the revisions s add to enumerations.
LEMMA KnownTypes ==
    ASSUME NEW s, Closed(s), NEW e \in Given(s, "types") \cup Given(s, "values")
    PROVE  /\ e = <<e[1], e[2]>>
           /\ "0001" \in s
           /\ e[1] = "provider_kind" => "0012" \in s
           /\ e[1] = "credential_kind" => "0013" \in s
           /\ e[1] = "approval_status" => "0024" \in s
           /\ e[1] \in {"message_role", "message_kind"} => "0025" \in s
<1>1. PICK q \in s : e \in Revision[q].types \/ e \in Revision[q].values
  BY DEF Given
<1>2. q \in Revs
  BY DEF Closed
<1>3. QED
  BY <1>1, <1>2, TypeMade, ValueAdded, Earlier

\* An upgrade leaves every value of its revisions, and no enumeration that none of them made.
LEMMA EnumsUp ==
    ASSUME NEW s, Closed(s), NEW r \in Revs \ s, Revision[r].parents \subseteq s, r # "0012",
           NEW es, EnumsOf(s) \subseteq es, {e[1] : e \in es} \subseteq TypesOf(s),
           {e[1] : e \in Revision[r].values} \subseteq {e[1] : e \in es}
    PROVE  LET v   == Revision[r]
               new == (es \cup v.values) \cup {t \in v.types : t[1] \notin {e[1] : e \in es}}
           IN  /\ EnumsOf(s \cup {r}) \subseteq new
               /\ {e[1] : e \in new} \subseteq TypesOf(s \cup {r})
<1> DEFINE v == Revision[r]
           z == s \cup {r}
           new == (es \cup v.values) \cup {t \in v.types : t[1] \notin {e[1] : e \in es}}
<1>1. Closed(z) /\ s \subseteq Revs /\ z \subseteq Revs
  BY ClosedUp DEF Closed
<1>2. /\ Given(z, "types") = Given(s, "types") \cup v.types
      /\ Given(z, "values") = Given(s, "values") \cup v.values
  BY GivenUp
<1>3. \A t : Spelled(z, t) = Spelled(s, t)
  BY DEF Spelled
<1>4. ASSUME NEW e \in v.types
      PROVE  e \in new /\ Spelled(z, e[1]) = e[1] /\ e = <<e[1], e[2]>>
  <2>1. e = <<e[1], e[2]>> /\ Spelled(z, e[1]) = e[1]
    BY <1>1, <1>4, TypeMade, Earlier DEF Spelled
  <2>2. e[1] \notin TypesOf(s)
    <3>1. SUFFICES ASSUME NEW f \in Given(s, "types"), e[1] = Spelled(s, f[1])
                   PROVE  FALSE
      BY DEF TypesOf
    <3>2. PICK q \in s : f \in Revision[q].types
      BY DEF Given
    <3>3. q \in Revs /\ q # r
      BY <1>1, <3>2
    <3>4. QED
      BY <1>1, <1>4, <3>1, <3>2, <3>3, TypeMade, Earlier DEF Spelled
  <2>3. QED
    BY <1>4, <2>1, <2>2
<1>5. ASSUME NEW e \in v.values
      PROVE  e \in new /\ Spelled(z, e[1]) = e[1] /\ e = <<e[1], e[2]>>
  BY <1>5, ValueAdded DEF Spelled
<1>6. ASSUME NEW e \in Given(z, "types") \cup Given(z, "values")
      PROVE  <<Spelled(z, e[1]), e[2]>> \in new
  <2>1. CASE e \in Given(s, "types") \cup Given(s, "values")
    BY <1>3, <2>1 DEF EnumsOf
  <2>2. CASE e \in v.types \cup v.values
    BY <1>4, <1>5, <2>2
  <2>3. QED
    BY <1>2, <1>6, <2>1, <2>2
<1>7. ASSUME NEW e \in new
      PROVE  e[1] \in TypesOf(z)
  <2>1. TypesOf(s) \subseteq TypesOf(z)
    BY <1>2, <1>3 DEF TypesOf
  <2>2. CASE e \in v.types
    BY <1>2, <1>4, <2>2 DEF TypesOf
  <2>3. QED
    BY <1>7, <2>1, <2>2
<1>8. QED
  BY <1>6, <1>7 DEF EnumsOf

\* What 0012 does to an enumeration.
Respelled(es) == {IF e[1] = "git_provider_kind" THEN <<"provider_kind", e[2]>> ELSE e : e \in es}

\* So does 0012, which renames an enumeration after it added a value.
LEMMA EnumsUp0012 ==
    ASSUME NEW s, Closed(s), NEW r \in Revs \ s, Revision[r].parents \subseteq s, r = "0012",
           NEW z, z = s \cup {r},
           NEW es, EnumsOf(s) \subseteq es, {e[1] : e \in es} \subseteq TypesOf(s),
           NEW mid, mid = es \cup {<<"git_provider_kind", "jira">>}
    PROVE  /\ EnumsOf(z) \subseteq Respelled(mid)
           /\ {e[1] : e \in Respelled(mid)} \subseteq TypesOf(z)
<1> DEFINE v == Revision[r]
           Ren(e) == IF e[1] = "git_provider_kind" THEN <<"provider_kind", e[2]>> ELSE e
           new == Respelled(mid)
<1>1. r = "0012" /\ r \notin s /\ Closed(z) /\ s \subseteq Revs /\ z \subseteq Revs
  BY ClosedUp DEF Closed
<1>2. v.types = {} /\ v.values = {<<"git_provider_kind", "jira">>}
  BY <1>1, TypesMade, ValuesAdded
<1>3. /\ Given(z, "types") = Given(s, "types")
      /\ Given(z, "values") = Given(s, "values") \cup v.values
  BY <1>1, <1>2 DEF Given
<1>4. \A t : Spelled(s, t) = t
  BY <1>1 DEF Spelled
<1>5. ASSUME NEW e \in mid
      PROVE  Ren(e) \in new
  BY DEF Respelled
<1>6. ASSUME NEW e \in new
      PROVE  \E m \in mid : e = Ren(m)
  BY DEF Respelled
<1>7. ASSUME NEW e \in Given(z, "types") \cup Given(z, "values")
      PROVE  <<Spelled(z, e[1]), e[2]>> \in new
  <2>1. <<e[1], e[2]>> \in mid
    <3>1. CASE e \in Given(s, "types") \cup Given(s, "values")
      <4>1. <<Spelled(s, e[1]), e[2]>> \in EnumsOf(s)
        BY <3>1 DEF EnumsOf
      <4>2. QED
        BY <1>4, <4>1
    <3>2. CASE e \in v.values
      BY <1>2, <3>2
    <3>3. QED
      BY <1>3, <1>7, <3>1, <3>2
  <2>2. Ren(<<e[1], e[2]>>) \in new
    BY <1>5, <2>1
  <2>3. Ren(<<e[1], e[2]>>) = <<Spelled(z, e[1]), e[2]>>
    BY <1>1 DEF Spelled
  <2>4. QED
    BY <2>2, <2>3
<1>8. ASSUME NEW e \in mid
      PROVE  Ren(e)[1] \in TypesOf(z)
  <2>1. PICK f \in Given(s, "types") : e[1] = f[1]
    <3>1. CASE e \in es
      BY <1>4, <3>1 DEF TypesOf
    <3>2. CASE e = <<"git_provider_kind", "jira">>
      <4>1. <<"git_provider_kind", "github">> \in Revision["0001"].types
        BY TypesMade DEF Revs, R0001, After
      <4>2. "0001" \in s
        BY <1>1, Earlier
      <4>3. <<"git_provider_kind", "github">> \in Given(s, "types")
        BY <4>1, <4>2 DEF Given
      <4>4. QED
        BY <3>2, <4>3
    <3>3. QED
      BY <3>1, <3>2
  <2>2. Spelled(z, f[1]) \in TypesOf(z)
    BY <1>3 DEF TypesOf
  <2>3. Ren(e)[1] = Spelled(z, f[1])
    BY <1>1, <2>1 DEF Spelled
  <2>4. QED
    BY <2>2, <2>3
<1> HIDE DEF Ren, new
<1>9. EnumsOf(z) \subseteq new
  BY <1>7 DEF EnumsOf
<1>10. ASSUME NEW e \in new
       PROVE  e[1] \in TypesOf(z)
  <2>1. PICK m \in mid : e = Ren(m)
    BY <1>6
  <2>2. QED
    BY <1>8, <2>1
<1>11. QED
  BY <1>9, <1>10 DEF new

\* A downgrade drops whole enumerations only: added values stay, as in PostgreSQL they must.
LEMMA EnumsDown ==
    ASSUME NEW s, Closed(s), NEW r \in Heads(s), r # "0012",
           NEW es, EnumsOf(s) \subseteq es, {e[1] : e \in es} \subseteq TypesOf(s)
    PROVE  LET v   == Revision[r]
               new == {e \in es : e[1] \notin {t[1] : t \in v.types}}
           IN  /\ EnumsOf(s \ {r}) \subseteq new
               /\ {e[1] : e \in new} \subseteq TypesOf(s \ {r})
<1> DEFINE v == Revision[r]
           z == s \ {r}
           new == {e \in es : e[1] \notin {t[1] : t \in v.types}}
<1>1. Closed(z) /\ s \subseteq Revs /\ z \subseteq Revs /\ r \in Revs /\ s = z \cup {r} /\ r \notin z
  BY ClosedDown DEF Closed, Heads
<1>2. /\ Given(s, "types") = Given(z, "types") \cup v.types
      /\ Given(s, "values") = Given(z, "values") \cup v.values
  BY <1>1 DEF Given
<1>3. \A t : Spelled(z, t) = Spelled(s, t)
  BY DEF Spelled
<1>4. ASSUME NEW e \in Given(z, "types") \cup Given(z, "values")
      PROVE  <<Spelled(z, e[1]), e[2]>> \in new
  <2>1. <<Spelled(z, e[1]), e[2]>> \in es
    BY <1>2, <1>3, <1>4 DEF EnumsOf
  <2>2. ASSUME NEW t \in v.types
        PROVE  Spelled(z, e[1]) # t[1]
    BY <1>1, <1>4, <2>2, TypeMade, KnownTypes, Earlier DEF Spelled
  <2>3. QED
    BY <2>1, <2>2
<1>5. ASSUME NEW e \in new
      PROVE  e[1] \in TypesOf(z)
  <2>1. PICK f \in Given(s, "types") : e[1] = Spelled(s, f[1])
    BY <1>5 DEF TypesOf
  <2>2. CASE f \in Given(z, "types")
    BY <1>3, <2>1, <2>2 DEF TypesOf
  <2>3. CASE f \in v.types
    <3>1. Spelled(s, f[1]) = f[1]
      BY <1>1, <2>3, TypeMade, Earlier DEF Spelled
    <3>2. QED
      BY <1>5, <2>1, <2>3, <3>1
  <2>4. QED
    BY <1>2, <2>1, <2>2, <2>3
<1>6. QED
  BY <1>4, <1>5 DEF EnumsOf

\* The downgrade of 0012 gives the enumeration its old name back.
LEMMA EnumsDown0012 ==
    ASSUME NEW s, Closed(s), NEW r \in Heads(s), r = "0012",
           NEW z, z = s \ {r},
           NEW es, EnumsOf(s) \subseteq es, {e[1] : e \in es} \subseteq TypesOf(s)
    PROVE  LET new == {IF e[1] = "provider_kind" THEN <<"git_provider_kind", e[2]>> ELSE e : e \in es}
           IN  /\ EnumsOf(z) \subseteq new
               /\ {e[1] : e \in new} \subseteq TypesOf(z)
<1> DEFINE Ren(e) == IF e[1] = "provider_kind" THEN <<"git_provider_kind", e[2]>> ELSE e
           new == {Ren(e) : e \in es}
<1>1. Closed(z) /\ s \subseteq Revs /\ s = z \cup {r} /\ r \in Revs /\ r \in s /\ r = "0012"
  <2>1. Closed(z)
    BY ClosedDown
  <2>2. s \subseteq Revs
    BY DEF Closed
  <2>3. r \in s
    BY DEF Heads
  <2>4. QED
    BY <2>1, <2>2, <2>3
<1>2. /\ Given(s, "types") = Given(z, "types")
      /\ Given(z, "values") \subseteq Given(s, "values")
  BY <1>1, TypesMade DEF Given
<1>3. \A t : Spelled(z, t) = t
  BY <1>1 DEF Spelled
<1>4. ASSUME NEW e \in Given(z, "types") \cup Given(z, "values")
      PROVE  <<Spelled(z, e[1]), e[2]>> \in new
  <2>1. <<Spelled(s, e[1]), e[2]>> \in es
    BY <1>2, <1>4 DEF EnumsOf
  <2>2. e[1] # "provider_kind"
    BY <1>1, <1>4, KnownTypes
  <2>3. Ren(<<Spelled(s, e[1]), e[2]>>) = <<e[1], e[2]>>
    BY <1>1, <2>2 DEF Spelled
  <2>4. Ren(<<Spelled(s, e[1]), e[2]>>) \in new
    BY <2>1
  <2>5. QED
    BY <1>3, <2>3, <2>4
<1>5. ASSUME NEW e \in es
      PROVE  Ren(e)[1] \in TypesOf(z)
  <2>1. PICK f \in Given(s, "types") : e[1] = Spelled(s, f[1])
    BY <1>5 DEF TypesOf
  <2>2. f[1] # "provider_kind"
    <3>1. "0012" \notin z /\ f \in Given(z, "types")
      BY <1>1, <1>2
    <3>2. QED
      BY <1>1, <3>1, KnownTypes
  <2>3. Ren(e)[1] = f[1]
    BY <1>1, <2>1, <2>2 DEF Spelled
  <2>4. f[1] \in TypesOf(z)
    BY <1>2, <1>3 DEF TypesOf
  <2>5. QED
    BY <2>3, <2>4
<1>6. EnumsOf(z) \subseteq new
  <2> HIDE DEF new
  <2>1. QED
    BY <1>4 DEF EnumsOf
<1>7. {e[1] : e \in new} \subseteq TypesOf(z)
  BY <1>5
<1>8. QED
  BY <1>6, <1>7

\* A prompt block whose text names the workspace if its key is among the roles in ws.
Entry(k, ws) == [key |-> k, workspace |-> k \in ws]
Entries(keys, ws) == {Entry(k, ws) : k \in keys}
WorkOf(s) == IF "0006" \in s THEN WorkspaceRoles ELSE {}

\* An entry has the key it was made for.
LEMMA EntryKey == \A k, ws : Entry(k, ws).key = k
BY DEF Entry

\* An entry depends on whether its own key is among the roles.
LEMMA EntryAlike ==
    ASSUME NEW k, NEW v, NEW w, k \in v <=> k \in w
    PROVE  Entry(k, v) = Entry(k, w)
<1>1. (k \in v) = (k \in w)
  OBVIOUS
<1>2. QED
  BY <1>1 DEF Entry

\* A new block does not name the workspace.
LEMMA EntryNew == \A k : Block(k) = Entry(k, {})
<1> TAKE k
<1>1. (k \in {}) = FALSE
  OBVIOUS
<1>2. QED
  BY <1>1 DEF Entry, Block

\* What 0006 does to one block, and its downgrade.
Workspaced(b, on) == [b EXCEPT !.workspace = IF b.key \in WorkspaceRoles THEN on ELSE @]

\* 0006 changes the blocks of the workspace roles alone.
LEMMA WorkspacedSets ==
    ASSUME NEW k, NEW old, NEW new
    PROVE  Workspaced([key |-> k, workspace |-> old], new)
             = [key |-> k, workspace |-> IF k \in WorkspaceRoles THEN new ELSE old]
BY DEF Workspaced

\* 0006 and its downgrade lead from one form of a block to the other and back.
LEMMA EntryWorkspaced ==
    ASSUME NEW k
    PROVE  /\ Workspaced(Entry(k, {}), TRUE) = Entry(k, WorkspaceRoles)
           /\ Workspaced(Entry(k, WorkspaceRoles), FALSE) = Entry(k, {})
<1>1. CASE k \in WorkspaceRoles
  <2>1. (k \in WorkspaceRoles) = TRUE /\ (k \in {}) = FALSE
    BY <1>1
  <2>2. /\ Entry(k, {}) = [key |-> k, workspace |-> FALSE]
        /\ Entry(k, WorkspaceRoles) = [key |-> k, workspace |-> TRUE]
    BY <2>1 DEF Entry
  <2>3. /\ Workspaced([key |-> k, workspace |-> FALSE], TRUE) = [key |-> k, workspace |-> TRUE]
        /\ Workspaced([key |-> k, workspace |-> TRUE], FALSE) = [key |-> k, workspace |-> FALSE]
    BY <1>1, WorkspacedSets
  <2>4. QED
    BY <2>2, <2>3
<1>2. CASE k \notin WorkspaceRoles
  <2>1. (k \in WorkspaceRoles) = FALSE /\ (k \in {}) = FALSE
    BY <1>2
  <2>2. /\ Entry(k, {}) = [key |-> k, workspace |-> FALSE]
        /\ Entry(k, WorkspaceRoles) = [key |-> k, workspace |-> FALSE]
    BY <2>1 DEF Entry
  <2>3. /\ Workspaced([key |-> k, workspace |-> FALSE], TRUE) = [key |-> k, workspace |-> FALSE]
        /\ Workspaced([key |-> k, workspace |-> FALSE], FALSE) = [key |-> k, workspace |-> FALSE]
    BY <1>2, WorkspacedSets
  <2>4. QED
    BY <2>2, <2>3
<1>3. QED
  BY <1>1, <1>2

\* The closed form of the blocks is made of such entries.
LEMMA BlocksEntries ==
    ASSUME NEW s
    PROVE  BlocksOf(s) = Entries(KeysOf(s), WorkOf(s))
<1>1. ASSUME NEW k
      PROVE  [key |-> k, workspace |-> "0006" \in s /\ k \in WorkspaceRoles] = Entry(k, WorkOf(s))
  <2>1. ("0006" \in s /\ k \in WorkspaceRoles) = (k \in WorkOf(s))
    BY DEF WorkOf
  <2>2. QED
    BY <2>1 DEF Entry
<1>2. QED
  BY <1>1 DEF BlocksOf, Entries

\* What inserting blocks does to them, skipped if the probe is there.
LEMMA EntriesAdd ==
    ASSUME NEW d, DOMAIN d = Fields, NEW ks, NEW ws, d.blocks = Entries(ks, ws),
           NEW new, NEW probe, \A k \in new : k \notin ws
    PROVE  AddBlocks(d, new, probe).blocks
             = IF probe \in ks THEN Entries(ks, ws) ELSE Entries(ks \cup new, ws)
<1>1. Keys(d) = ks
  BY EntryKey DEF Keys, Entries
<1>2. {Block(k) : k \in new} = {Entry(k, ws) : k \in new}
  BY EntryNew, EntryAlike
<1>3. AddBlocks(d, new, probe).blocks
        = IF probe \in Keys(d) THEN d.blocks ELSE d.blocks \cup {Block(k) : k \in new}
  BY DEF AddBlocks, Fields
<1>4. QED
  BY <1>1, <1>2, <1>3 DEF Entries

\* What deleting blocks does to them.
LEMMA EntriesDrop ==
    ASSUME NEW d, DOMAIN d = Fields, NEW ks, NEW ws, d.blocks = Entries(ks, ws), NEW old
    PROVE  DropBlocks(d, old).blocks = Entries(ks \ old, ws)
<1>1. DropBlocks(d, old).blocks = {b \in d.blocks : b.key \notin old}
  BY DEF DropBlocks, Fields
<1>2. QED
  BY <1>1, EntryKey DEF Entries

\* What 0006 and its downgrade do to all the blocks.
LEMMA EntriesWorkspaced ==
    ASSUME NEW d, DOMAIN d = Fields, NEW ks
    PROVE  /\ d.blocks = Entries(ks, {}) => Data0006(d).blocks = Entries(ks, WorkspaceRoles)
           /\ d.blocks = Entries(ks, WorkspaceRoles) => Undo0006(d).blocks = Entries(ks, {})
<1>1. /\ Data0006(d).blocks = {Workspaced(b, TRUE) : b \in d.blocks}
      /\ Undo0006(d).blocks = {Workspaced(b, FALSE) : b \in d.blocks}
  BY DEF Data0006, Undo0006, Workspace, Workspaced, Fields
<1>2. {Workspaced(b, TRUE) : b \in Entries(ks, {})} = Entries(ks, WorkspaceRoles)
  BY EntryWorkspaced DEF Entries
<1>3. {Workspaced(b, FALSE) : b \in Entries(ks, WorkspaceRoles)} = Entries(ks, {})
  BY EntryWorkspaced DEF Entries
<1>4. QED
  BY <1>1, <1>2, <1>3

\* The data of 0005 to 0010 lead to the blocks of the revisions after them.
LEMMA BlocksUp ==
    ASSUME NEW s, Closed(s), NEW r \in Revs \ s, NEW z, z = s \cup {r}, Closed(z),
           r \in {"0005", "0006", "0007", "0008", "0009", "0010"},
           NEW d, DOMAIN d = Fields, d.blocks = BlocksOf(s)
    PROVE  RowsUp(r, d).blocks = BlocksOf(z)
<1>1. d.blocks = Entries(KeysOf(s), WorkOf(s)) /\ BlocksOf(z) = Entries(KeysOf(z), WorkOf(z))
  BY BlocksEntries
<1>2. CASE r = "0005"
  <2>1. KeysOf(s) = {} /\ KeysOf(z) = FirstBlocks /\ WorkOf(s) = {} /\ WorkOf(z) = {}
    BY <1>2, Earlier DEF KeysOf, WorkOf
  <2>2. RowsUp(r, d) = AddBlocks(d, FirstBlocks, "identity")
    BY <1>2 DEF RowsUp, Data0005
  <2>3. AddBlocks(d, FirstBlocks, "identity").blocks = Entries(KeysOf(s) \cup FirstBlocks, {})
    BY <1>1, <2>1, EntriesAdd
  <2>4. QED
    BY <1>1, <2>1, <2>2, <2>3
<1>3. CASE r = "0006"
  <2>1. KeysOf(z) = KeysOf(s) /\ WorkOf(s) = {} /\ WorkOf(z) = WorkspaceRoles
    BY <1>3 DEF KeysOf, WorkOf
  <2>2. RowsUp(r, d) = Data0006(d)
    BY <1>3 DEF RowsUp
  <2>3. QED
    BY <1>1, <2>1, <2>2, EntriesWorkspaced
<1>4. CASE r = "0007"
  <2> DEFINE new == {"coder_role"}
  <2>1. KeysOf(z) = KeysOf(s) \cup new /\ "coder_role" \notin KeysOf(s)
    BY <1>4, Earlier DEF KeysOf, FirstBlocks, RolesV2
  <2>2. WorkOf(z) = WorkOf(s) /\ \A k \in new : k \notin WorkOf(s)
    BY <1>4 DEF WorkOf, WorkspaceRoles
  <2>3. RowsUp(r, d) = AddBlocks(d, new, "coder_role")
    BY <1>4 DEF RowsUp, Data0007
  <2> HIDE DEF new
  <2>4. QED
    BY <1>1, <2>1, <2>2, <2>3, EntriesAdd
<1>5. CASE r = "0008"
  <2>1. KeysOf(z) = KeysOf(s) \cup RolesV2 /\ "researcher_role" \notin KeysOf(s)
    BY <1>5, Earlier DEF KeysOf, FirstBlocks, RolesV2
  <2>2. WorkOf(z) = WorkOf(s) /\ \A k \in RolesV2 : k \notin WorkOf(s)
    BY <1>5 DEF WorkOf, WorkspaceRoles, RolesV2
  <2>3. RowsUp(r, d) = AddBlocks(d, RolesV2, "researcher_role")
    BY <1>5 DEF RowsUp, Data0008
  <2>4. AddBlocks(d, RolesV2, "researcher_role").blocks = Entries(KeysOf(s) \cup RolesV2, WorkOf(s))
    BY <1>1, <2>1, <2>2, EntriesAdd
  <2>5. QED
    BY <1>1, <2>1, <2>2, <2>3, <2>4
<1>6. CASE r = "0009"
  <2> DEFINE new == {"developer_role"}
  <2>1. KeysOf(z) = KeysOf(s) \cup new /\ "developer_role" \notin KeysOf(s)
    BY <1>6, Earlier DEF KeysOf, FirstBlocks, RolesV2
  <2>2. WorkOf(z) = WorkOf(s) /\ \A k \in new : k \notin WorkOf(s)
    BY <1>6 DEF WorkOf, WorkspaceRoles
  <2>3. RowsUp(r, d) = AddBlocks(d, new, "developer_role")
    BY <1>6 DEF RowsUp, Data0009
  <2> HIDE DEF new
  <2>4. QED
    BY <1>1, <2>1, <2>2, <2>3, EntriesAdd
<1>7. CASE r = "0010"
  <2> DEFINE new == {"qa_engineer_role"}
  <2>1. KeysOf(z) = KeysOf(s) \ new /\ WorkOf(z) = WorkOf(s)
    BY <1>7 DEF KeysOf, WorkOf
  <2>2. RowsUp(r, d) = DropBlocks(d, new)
    BY <1>7 DEF RowsUp, Data0010
  <2> HIDE DEF new
  <2>3. QED
    BY <1>1, <2>1, <2>2, EntriesDrop
<1>8. QED
  BY <1>2, <1>3, <1>4, <1>5, <1>6, <1>7

\* Their downgrades lead back to the blocks before.
LEMMA BlocksDown ==
    ASSUME NEW s, Closed(s), NEW r \in s, NEW z, z = s \ {r}, Closed(z),
           r \in {"0006", "0007", "0008", "0009", "0010"},
           NEW d, DOMAIN d = Fields, d.blocks = BlocksOf(s)
    PROVE  RowsDown(r, d).blocks = BlocksOf(z)
<1>1. d.blocks = Entries(KeysOf(s), WorkOf(s)) /\ BlocksOf(z) = Entries(KeysOf(z), WorkOf(z))
  BY BlocksEntries
<1>3. CASE r = "0006"
  <2>1. KeysOf(z) = KeysOf(s) /\ WorkOf(s) = WorkspaceRoles /\ WorkOf(z) = {}
    BY <1>3 DEF KeysOf, WorkOf
  <2>2. RowsDown(r, d) = Undo0006(d)
    BY <1>3 DEF RowsDown
  <2>3. QED
    BY <1>1, <2>1, <2>2, EntriesWorkspaced
<1>4. CASE r = "0007"
  <2> DEFINE new == {"coder_role"}
  <2>1. KeysOf(z) = KeysOf(s) \ new
    BY <1>4, Earlier DEF KeysOf, FirstBlocks, RolesV2
  <2>2. WorkOf(z) = WorkOf(s)
    BY <1>4 DEF WorkOf
  <2>3. RowsDown(r, d) = DropBlocks(d, new)
    BY <1>4 DEF RowsDown, Undo0007
  <2> HIDE DEF new
  <2>4. QED
    BY <1>1, <2>1, <2>2, <2>3, EntriesDrop
<1>5. CASE r = "0008"
  <2>1. KeysOf(z) = KeysOf(s) \ RolesV2
    BY <1>5, Earlier DEF KeysOf, FirstBlocks, RolesV2
  <2>2. WorkOf(z) = WorkOf(s)
    BY <1>5 DEF WorkOf
  <2>3. RowsDown(r, d) = DropBlocks(d, RolesV2)
    BY <1>5 DEF RowsDown, Undo0008
  <2>4. DropBlocks(d, RolesV2).blocks = Entries(KeysOf(s) \ RolesV2, WorkOf(s))
    BY <1>1, EntriesDrop
  <2>5. QED
    BY <1>1, <2>1, <2>2, <2>3, <2>4
<1>6. CASE r = "0009"
  <2> DEFINE new == {"developer_role"}
  <2>1. KeysOf(z) = KeysOf(s) \ new
    BY <1>6, Earlier DEF KeysOf, FirstBlocks, RolesV2
  <2>2. WorkOf(z) = WorkOf(s)
    BY <1>6 DEF WorkOf
  <2>3. RowsDown(r, d) = DropBlocks(d, new)
    BY <1>6 DEF RowsDown, Undo0009
  <2> HIDE DEF new
  <2>4. QED
    BY <1>1, <2>1, <2>2, <2>3, EntriesDrop
<1>7. CASE r = "0010"
  <2> DEFINE new == {"qa_engineer_role"}
  <2>1. KeysOf(z) = KeysOf(s) \cup new /\ "none" \notin KeysOf(s)
    BY <1>7, Earlier DEF KeysOf, FirstBlocks, RolesV2
  <2>2. WorkOf(z) = WorkOf(s) /\ \A k \in new : k \notin WorkOf(s)
    BY <1>7 DEF WorkOf, WorkspaceRoles
  <2>3. RowsDown(r, d) = AddBlocks(d, new, "none")
    BY <1>7 DEF RowsDown, Undo0010
  <2> HIDE DEF new
  <2>4. QED
    BY <1>1, <2>1, <2>2, <2>3, EntriesAdd
<1>8. QED
  BY <1>3, <1>4, <1>5, <1>6, <1>7


\* Nothing but the fields fs changes from d to e.
Only(d, e, fs) == DOMAIN e = Fields /\ \A f \in Fields \ fs : e[f] = d[f]

\* The fields that two steps change.
LEMMA OnlyTrans ==
    ASSUME NEW d, NEW e, NEW g, NEW fs, NEW gs, Only(d, e, fs), Only(e, g, gs)
    PROVE  Only(d, g, fs \cup gs)
BY DEF Only

\* A step leaves the database its fields.
LEMMA OnlyFields == \A d, e, fs : Only(d, e, fs) => DOMAIN e = Fields
BY DEF Only

\* A step that changes few fields changes at most more.
LEMMA OnlyMore ==
    ASSUME NEW d, NEW e, NEW fs, NEW gs, fs \subseteq gs, Only(d, e, fs)
    PROVE  Only(d, e, gs)
BY DEF Only

\* Operators on blocks change the blocks.
LEMMA BlocksOnly ==
    ASSUME NEW d, DOMAIN d = Fields, NEW keys, NEW probe
    PROVE  /\ Only(d, AddBlocks(d, keys, probe), {"blocks"})
           /\ Only(d, DropBlocks(d, keys), {"blocks"})
           /\ Only(d, Data0006(d), {"blocks"})
           /\ Only(d, Undo0006(d), {"blocks"})
BY DEF Only, AddBlocks, DropBlocks, Data0006, Undo0006, Workspace, Fields

\* Renaming an enumeration respells its values.
LEMMA RenamedOnly ==
    ASSUME NEW d, DOMAIN d = Fields, NEW from, NEW to
    PROVE  /\ Only(d, Renamed(d, from, to), {"enums"})
           /\ Renamed(d, from, to).enums
                = {IF e[1] = from THEN <<to, e[2]>> ELSE e : e \in d.enums}
BY DEF Only, Renamed, Fields

\* Insert makes the subagents whose names are free.
LEMMA InsertOnly ==
    ASSUME NEW d, DOMAIN d = Fields, NEW names
    PROVE  /\ Only(d, Insert(d, names), {"subagents"})
           /\ Insert(d, names).subagents
                = Joined(d.subagents, [n \in {m \in names : Named(d, m) = {}} |->
                                          NewSubagent(n, SeedText)])
BY DEF Only, Insert, Fields

\* Grant gives the tools there are to the subagents of those names.
LEMMA GrantOnly ==
    ASSUME NEW d, DOMAIN d = Fields, NEW names, NEW tools
    PROVE  /\ Only(d, Grant(d, names, tools), {"grants"})
           /\ Grant(d, names, tools).grants
                = d.grants \cup (Ids(d, names) \X (tools \cap d.tools))
BY DEF Only, Grant, Fields

\* Default and Undefault change the default servers of the subagents of those names.
LEMMA DefaultOnly ==
    ASSUME NEW d, DOMAIN d = Fields, NEW names, NEW servers
    PROVE  /\ Only(d, Default(d, names, servers), {"defaults"})
           /\ Default(d, names, servers).defaults
                = d.defaults \cup (Ids(d, names) \X (servers \cap d.servers))
           /\ Only(d, Undefault(d, names, servers), {"defaults"})
           /\ Undefault(d, names, servers).defaults
                = d.defaults \ (Ids(d, names) \X servers)
BY DEF Only, Default, Undefault, Fields

\* CopyDefaults gives every link the default servers of its subagent, and takes nothing.
LEMMA CopyOnly ==
    ASSUME NEW d, DOMAIN d = Fields, NEW names
    PROVE  /\ Only(d, CopyDefaults(d, names), {"mounts"})
           /\ \A m \in d.mounts : m \in CopyDefaults(d, names).mounts
           /\ \A l \in d.links, f \in d.defaults :
                 l[2] \in names /\ f[1] = l[2]
                   => <<l[1], l[2], f[2]>> \in CopyDefaults(d, names).mounts
<1> DEFINE From(l) == {<<l[1], l[2], f[2]>> : f \in {x \in d.defaults : x[1] = l[2]}}
           new == UNION {From(l) : l \in {k \in d.links : k[2] \in names}}
<1>1. CopyDefaults(d, names) = [d EXCEPT !.mounts = @ \cup new]
  BY DEF CopyDefaults
<1>2. ASSUME NEW l \in d.links, NEW f \in d.defaults, l[2] \in names, f[1] = l[2]
      PROVE  <<l[1], l[2], f[2]>> \in new
  <2>1. <<l[1], l[2], f[2]>> \in From(l)
    BY <1>2
  <2> HIDE DEF From
  <2>2. QED
    BY <1>2, <2>1
<1> HIDE DEF new
<1>3. Only(d, CopyDefaults(d, names), {"mounts"}) /\ CopyDefaults(d, names).mounts = d.mounts \cup new
  BY <1>1 DEF Only, Fields
<1>4. QED
  BY <1>2, <1>3

\* Rewriting prompts and setting the escalation flag change subagents alone.
LEMMA SubagentsOnly ==
    ASSUME NEW d, DOMAIN d = Fields, NEW text, NEW on
    PROVE  /\ Only(d, Rewrite(d, text), {"subagents"})
           /\ Only(d, SetEscalation(d, on), {"subagents"})
BY DEF Only, Rewrite, SetEscalation, Fields

\* What the deletes cascade to.
LEMMA DeleteOnly ==
    ASSUME NEW d, DOMAIN d = Fields, NEW names
    PROVE  /\ Only(d, DeleteTools(d, names), {"tools", "grants"})
           /\ DeleteTools(d, names).tools = d.tools \ names
           /\ \A g : g \in DeleteTools(d, names).grants <=> g \in d.grants /\ g[2] \notin names
           /\ Only(d, DeleteServers(d, names), {"servers", "inProcess", "defaults", "mounts"})
           /\ DeleteServers(d, names).servers = d.servers \ names
           /\ DeleteServers(d, names).inProcess = d.inProcess \ names
           /\ \A f : f \in DeleteServers(d, names).defaults <=> f \in d.defaults /\ f[2] \notin names
           /\ \A m : m \in DeleteServers(d, names).mounts <=> m \in d.mounts /\ m[3] \notin names
           /\ Only(d, DeleteSubagents(d, names),
                   {"subagents", "grants", "defaults", "links", "mounts"})
           /\ DOMAIN DeleteSubagents(d, names).subagents = DOMAIN d.subagents \ names
           /\ \A x \in DOMAIN d.subagents \ names :
                DeleteSubagents(d, names).subagents[x] = d.subagents[x]
           /\ \A g : g \in DeleteSubagents(d, names).grants <=> g \in d.grants /\ g[1] \notin names
           /\ \A f : f \in DeleteSubagents(d, names).defaults <=> f \in d.defaults /\ f[1] \notin names
           /\ \A l : l \in DeleteSubagents(d, names).links <=> l \in d.links /\ l[2] \notin names
           /\ \A m : m \in DeleteSubagents(d, names).mounts <=> m \in d.mounts /\ m[2] \notin names
<1>1. /\ Only(d, DeleteTools(d, names), {"tools", "grants"})
      /\ DeleteTools(d, names).tools = d.tools \ names
      /\ \A g : g \in DeleteTools(d, names).grants <=> g \in d.grants /\ g[2] \notin names
  BY DEF Only, DeleteTools, Fields
<1>2. /\ Only(d, DeleteServers(d, names), {"servers", "inProcess", "defaults", "mounts"})
      /\ DeleteServers(d, names).servers = d.servers \ names
      /\ DeleteServers(d, names).inProcess = d.inProcess \ names
      /\ \A f : f \in DeleteServers(d, names).defaults <=> f \in d.defaults /\ f[2] \notin names
      /\ \A m : m \in DeleteServers(d, names).mounts <=> m \in d.mounts /\ m[3] \notin names
  BY DEF Only, DeleteServers, Fields
<1>3. /\ Only(d, DeleteSubagents(d, names),
              {"subagents", "grants", "defaults", "links", "mounts"})
      /\ DOMAIN DeleteSubagents(d, names).subagents = DOMAIN d.subagents \ names
      /\ \A x \in DOMAIN d.subagents \ names :
           DeleteSubagents(d, names).subagents[x] = d.subagents[x]
      /\ \A g : g \in DeleteSubagents(d, names).grants <=> g \in d.grants /\ g[1] \notin names
      /\ \A f : f \in DeleteSubagents(d, names).defaults <=> f \in d.defaults /\ f[1] \notin names
      /\ \A l : l \in DeleteSubagents(d, names).links <=> l \in d.links /\ l[2] \notin names
      /\ \A m : m \in DeleteSubagents(d, names).mounts <=> m \in d.mounts /\ m[2] \notin names
  BY DEF Only, DeleteSubagents, Fields
<1>4. QED
  BY <1>1, <1>2, <1>3

\* Operators on patterns change the patterns.
LEMMA PatternsOnly ==
    ASSUME NEW d, DOMAIN d = Fields
    PROVE  /\ \A roles, p : Only(d, AddPattern(d, roles, p), {"patterns"})
           /\ \A ps : Only(d, DropPatterns(d, ps), {"patterns"})
           /\ \A ps, p : Only(d, Relabel(d, ps, p), {"patterns"})
           /\ \A p : Only(d, Deduplicate(d, p), {"patterns"})
<1>1. \A roles, p : Only(d, AddPattern(d, roles, p), {"patterns"})
  BY DEF Only, AddPattern, Fields
<1>2. \A ps : Only(d, DropPatterns(d, ps), {"patterns"})
  BY DEF Only, DropPatterns, Fields
<1>3. \A ps, p : Only(d, Relabel(d, ps, p), {"patterns"})
  BY DEF Only, Relabel, Fields
<1>4. \A p : Only(d, Deduplicate(d, p), {"patterns"})
  BY DEF Only, Deduplicate, Fields
<1>5. QED
  BY <1>1, <1>2, <1>3, <1>4

\* The fields whose rows the upgrade of r may change, and those its downgrade may.
UpFields(r) ==
    CASE r \in {"0005", "0006", "0007", "0008", "0009", "0010"} -> {"blocks"}
      [] r = "0012" -> {"enums"}
      [] r = "0018" -> {"servers", "patterns"}
      [] r = "0020" -> {"subagents", "defaults"}
      [] r = "0021" -> {"agents", "tools", "links", "grants", "mounts", "tasks"}
      [] r = "0022devops" -> {"subagents", "servers", "inProcess", "grants", "defaults", "links", "mounts"}
      [] r = "0026" -> {"subagents"}
      [] r = "0027" -> {"tools", "grants", "defaults", "subagents"}
      [] r = "0028" -> {"tools"}
      [] r = "0030" -> {"grants"}
      [] r = "0031" -> {"subagents", "patterns"}
      [] r = "0034" -> {"servers", "patterns"}
      [] r \in {"0036", "0037"} -> {"patterns"}
      [] OTHER -> {}
DownFields(r) ==
    CASE r \in {"0006", "0007", "0008", "0009", "0010"} -> {"blocks"}
      [] r = "0012" -> {"enums"}
      [] r = "0022devops" -> {"subagents", "servers", "inProcess", "grants", "defaults", "links", "mounts"}
      [] r = "0026" -> {"subagents"}
      [] r = "0027" -> {"tools", "grants", "defaults", "subagents"}
      [] r = "0029" -> {"tasks"}
      [] r = "0030" -> {"grants"}
      [] r = "0031" -> {"subagents", "patterns"}
      [] r = "0034" -> {"servers", "inProcess", "defaults", "mounts", "patterns"}
      [] r \in {"0036", "0037"} -> {"patterns"}
      [] OTHER -> {}

\* 0005 to 0010 write blocks.
LEMMA DataBlocksOnly ==
    ASSUME NEW d, DOMAIN d = Fields
    PROVE  /\ Only(d, Data0005(d), {"blocks"})
           /\ Only(d, Data0007(d), {"blocks"}) /\ Only(d, Undo0007(d), {"blocks"})
           /\ Only(d, Data0008(d), {"blocks"}) /\ Only(d, Undo0008(d), {"blocks"})
           /\ Only(d, Data0009(d), {"blocks"}) /\ Only(d, Undo0009(d), {"blocks"})
           /\ Only(d, Data0010(d), {"blocks"}) /\ Only(d, Undo0010(d), {"blocks"})
BY BlocksOnly DEF Data0005, Data0007, Undo0007, Data0008, Undo0008, Data0009, Undo0009, Data0010, Undo0010

\* The tables that 0020 writes rows of.
LEMMA Only0020 ==
    ASSUME NEW d, DOMAIN d = Fields
    PROVE  Only(d, Data0020(d), {"subagents", "defaults"})
<1> DEFINE a == Insert(d, FirstSubagents)
           b == Default(a, {"code-implementer"}, Integrations)
           c == Default(b, {"manager", "repo-scanner"}, {"jira"})
<1>1. Only(d, a, {"subagents"})
  BY InsertOnly
<1>2. Only(a, b, {"defaults"})
  BY <1>1, OnlyFields, DefaultOnly
<1>3. Only(b, c, {"defaults"})
  BY <1>2, OnlyFields, DefaultOnly
<1>4. Data0020(d) = c
  BY DEF Data0020
<1> HIDE DEF a, b, c
<1>5. QED
  BY <1>1, <1>2, <1>3, <1>4 DEF Only

\* The tables that 0021 writes rows of.
LEMMA Only0021 ==
    ASSUME NEW d, DOMAIN d = Fields
    PROVE  Only(d, Data0021(d), {"agents", "tools", "links", "grants", "mounts", "tasks"})
<1> DEFINE owners == DOMAIN d.tasks
           names == {"code-implementer", "code-explorer", "test-runner", "repo-scanner"}
           a == [d EXCEPT !.agents = @ \cup owners,
                          !.tools = @ \cup {"core"},
                          !.links = @ \cup (owners \X (DOMAIN d.subagents))]
           b == Grant(a, names, {"core"})
           c == CopyDefaults(b, DOMAIN d.subagents)
           e == [c EXCEPT !.tasks = [u \in owners |-> [@[u] EXCEPT !.agent = u]]]
<1>1. Only(d, a, {"agents", "tools", "links"})
  BY DEF Only, Fields
<1>2. Data0021(d) = e
  BY DEF Data0021
<1> HIDE DEF a
<1>3. Only(a, b, {"grants"})
  BY <1>1, OnlyFields, GrantOnly
<1> HIDE DEF b
<1>4. Only(b, c, {"mounts"})
  BY <1>3, OnlyFields, CopyOnly
<1> HIDE DEF c
<1>5. Only(c, e, {"tasks"})
  BY <1>4 DEF Only, Fields
<1> HIDE DEF e
<1>6. QED
  BY <1>1, <1>2, <1>3, <1>4, <1>5 DEF Only

\* The tables that 0022devops and its downgrade write rows of.
LEMMA Only0022 ==
    ASSUME NEW d, DOMAIN d = Fields
    PROVE  /\ Only(d, Data0022Devops(d), {"subagents", "servers", "inProcess", "grants", "defaults",
                                          "links", "mounts"})
           /\ Only(d, Undo0022Devops(d), {"subagents", "servers", "inProcess", "grants", "defaults",
                                          "links", "mounts"})
<1> DEFINE a == Insert(d, {"devops"})
           b == [a EXCEPT !.servers = @ \cup {"clyde_github"}, !.inProcess = @ \cup {"clyde_github"}]
           c == Grant(b, {"devops"}, {"core"})
           e == Default(c, {"devops"}, {"clyde_github"})
           f == [e EXCEPT !.links = @ \cup (e.agents \X Ids(e, {"devops"}))]
           g == CopyDefaults(f, Ids(f, {"devops"}))
           h == DeleteServers(d, {"clyde_github"})
<1>1. Only(d, a, {"subagents"})
  BY InsertOnly
<1>2. Data0022Devops(d) = g
  BY DEF Data0022Devops
<1> HIDE DEF a
<1>3. Only(a, b, {"servers", "inProcess"})
  BY <1>1 DEF Only, Fields
<1> HIDE DEF b
<1>4. Only(b, c, {"grants"})
  BY <1>3, OnlyFields, GrantOnly
<1> HIDE DEF c
<1>5. Only(c, e, {"defaults"})
  BY <1>4, OnlyFields, DefaultOnly
<1> HIDE DEF e
<1>6. Only(e, f, {"links"})
  BY <1>5 DEF Only, Fields
<1> HIDE DEF f
<1>7. Only(f, g, {"mounts"})
  BY <1>6, OnlyFields, CopyOnly
<1> HIDE DEF g
<1>8. Only(d, h, {"servers", "inProcess", "defaults", "mounts"})
  BY DeleteOnly
<1>9. Undo0022Devops(d) = DeleteSubagents(h, Ids(d, {"devops"}))
  BY DEF Undo0022Devops
<1> HIDE DEF h
<1>10. Only(h, DeleteSubagents(h, Ids(d, {"devops"})),
            {"subagents", "grants", "defaults", "links", "mounts"})
  BY <1>8, OnlyFields, DeleteOnly
<1>11. Only(d, Undo0022Devops(d), {"subagents", "servers", "inProcess", "grants", "defaults",
                                   "links", "mounts"})
  BY <1>8, <1>9, <1>10 DEF Only
<1>12. QED
  BY <1>1, <1>2, <1>3, <1>4, <1>5, <1>6, <1>7, <1>11 DEF Only

\* The tables that 0027 and its downgrade write rows of.
LEMMA Only0027 ==
    ASSUME NEW d, DOMAIN d = Fields
    PROVE  /\ Only(d, Tools0027(d), {"tools", "grants", "defaults"})
           /\ Only(d, Data0027(d), {"tools", "grants", "defaults", "subagents"})
           /\ Only(d, Undo0027(d), {"tools", "grants", "defaults", "subagents"})
<1> DEFINE o == [d EXCEPT !.tools = @ \cup {"lang"}]
           a == Grant(o, {"test-runner", "code-implementer", "devops"}, {"lang"})
           b == Undefault(a, {"code-implementer"}, {"azure", "jira", "slack", "aws"})
           c == Default(b, {"manager"}, {"slack"})
           e == Default(c, {"devops", "repo-scanner"}, {"github"})
           t == Tools0027(d)
           m == Rewrite(d, SeedText)
           n == Undefault(m, {"repo-scanner", "devops"}, {"github"})
           p == Undefault(n, {"manager"}, {"slack"})
           q == Default(p, {"code-implementer"}, {"jira", "slack", "aws", "azure"})
           u == DeleteTools(q, {"lang"})
<1>1. t = e
  BY DEF Tools0027
<1>2. Only(d, o, {"tools"})
  BY DEF Only, Fields
<1> HIDE DEF o
<1>3. Only(o, a, {"grants"})
  BY <1>2, OnlyFields, GrantOnly
<1> HIDE DEF a
<1>4. Only(a, b, {"defaults"})
  BY <1>3, OnlyFields, DefaultOnly
<1> HIDE DEF b
<1>5. Only(b, c, {"defaults"})
  BY <1>4, OnlyFields, DefaultOnly
<1> HIDE DEF c
<1>6. Only(c, e, {"defaults"})
  BY <1>5, OnlyFields, DefaultOnly
<1> HIDE DEF e
<1>7. Only(d, t, {"tools", "grants", "defaults"})
  BY <1>1, <1>2, <1>3, <1>4, <1>5, <1>6 DEF Only
<1>8. Data0027(d) = Rewrite(t, MultilangText)
  BY DEF Data0027
<1>9. Undo0027(d) = u
  BY DEF Undo0027
<1>10. Only(d, m, {"subagents"})
  BY SubagentsOnly
<1> HIDE DEF m
<1>11. Only(m, n, {"defaults"})
  BY <1>10, OnlyFields, DefaultOnly
<1> HIDE DEF n
<1>12. Only(n, p, {"defaults"})
  BY <1>11, OnlyFields, DefaultOnly
<1> HIDE DEF p
<1>13. Only(p, q, {"defaults"})
  BY <1>12, OnlyFields, DefaultOnly
<1> HIDE DEF q
<1>14. Only(q, u, {"tools", "grants"})
  BY <1>13, OnlyFields, DeleteOnly
<1> HIDE DEF t, u
<1>15. Only(d, Undo0027(d), {"tools", "grants", "defaults", "subagents"})
  BY <1>9, <1>10, <1>11, <1>12, <1>13, <1>14 DEF Only
<1>16. Only(t, Rewrite(t, MultilangText), {"subagents"})
  BY <1>7, OnlyFields, SubagentsOnly
<1>17. Only(d, Data0027(d), {"tools", "grants", "defaults", "subagents"})
  BY <1>7, <1>8, <1>16 DEF Only
<1>18. QED
  BY <1>7, <1>15, <1>17 DEF t

\* The tables that 0031 and its downgrade write rows of.
LEMMA Only0031 ==
    ASSUME NEW d, DOMAIN d = Fields
    PROVE  /\ Only(d, Data0031(d), {"subagents", "patterns"})
           /\ Only(d, Undo0031(d), {"subagents", "patterns"})
<1>1. ASSUME NEW from, NEW to
      PROVE  Only(d, RenameSubagent(d, from, to), {"subagents", "patterns"})
  BY DEF Only, RenameSubagent, Fields
<1> DEFINE a == RenameSubagent(d, "repo-scanner", "code-auditor")
           b == [a EXCEPT !.subagents = [s \in DOMAIN @ |->
                    IF @[s].name = "code-auditor" /\ @[s].text \in {SeedText, MultilangText}
                    THEN NewSubagent("code-auditor", "audit") ELSE @[s]]]
<1>2. Only(d, a, {"subagents", "patterns"})
  BY <1>1
<1>3. Data0031(d) = b
  BY DEF Data0031
<1> HIDE DEF a
<1>4. Only(a, b, {"subagents"})
  BY <1>2 DEF Only, Fields
<1> HIDE DEF b
<1>5. QED
  BY <1>1, <1>2, <1>3, <1>4 DEF Only, Undo0031

\* The tables that 0034, 0036, 0037 and their downgrades write rows of.
LEMMA OnlyPatterns ==
    ASSUME NEW d, DOMAIN d = Fields
    PROVE  /\ Only(d, Data0034(d), {"servers", "patterns"})
           /\ Only(d, Undo0034(d), {"servers", "inProcess", "defaults", "mounts", "patterns"})
           /\ Only(d, Data0036(d), {"patterns"})
           /\ Only(d, Undo0036(d), {"patterns"})
           /\ Only(d, Data0037(d), {"patterns"})
           /\ Only(d, Undo0037(d), {"patterns"})
<1> DEFINE a == [d EXCEPT !.servers = @ \cup {"google_gmail", "google_calendar"}]
           b == AddPattern(a, GoogleRoles, "google_gmail")
           c == AddPattern(b, GoogleRoles, "google_calendar")
           u == DropPatterns(d, {"google_gmail", "google_calendar"})
           v == DeleteServers(u, {"google_gmail", "google_calendar"})
           l == Relabel(d, {"clyde_azure"}, "azure")
           m == Relabel(l, {"clyde_google", "google_gmail", "google_calendar"}, "google")
           n == Deduplicate(m, "azure")
           p == Deduplicate(n, "google")
           q == AddPattern(p, GoogleRoles, "azure")
           w == AddPattern(q, GoogleRoles, "google")
<1>1. Data0034(d) = c /\ Undo0034(d) = v /\ Data0037(d) = w
  BY DEF Data0034, Undo0034, Data0037
<1>2. Only(d, a, {"servers"})
  BY DEF Only, Fields
<1> HIDE DEF a
<1>3. Only(a, b, {"patterns"})
  BY <1>2, OnlyFields, PatternsOnly
<1> HIDE DEF b
<1>4. Only(b, c, {"patterns"})
  BY <1>3, OnlyFields, PatternsOnly
<1> HIDE DEF c
<1>5. Only(d, u, {"patterns"})
  BY PatternsOnly
<1> HIDE DEF u
<1>6. Only(u, v, {"servers", "inProcess", "defaults", "mounts"})
  BY <1>5, OnlyFields, DeleteOnly
<1> HIDE DEF v
<1>7. Only(d, l, {"patterns"})
  BY PatternsOnly
<1> HIDE DEF l
<1>8. Only(l, m, {"patterns"})
  BY <1>7, OnlyFields, PatternsOnly
<1> HIDE DEF m
<1>9. Only(m, n, {"patterns"})
  BY <1>8, OnlyFields, PatternsOnly
<1> HIDE DEF n
<1>10. Only(n, p, {"patterns"})
  BY <1>9, OnlyFields, PatternsOnly
<1> HIDE DEF p
<1>11. Only(p, q, {"patterns"})
  BY <1>10, OnlyFields, PatternsOnly
<1> HIDE DEF q
<1>12. Only(q, w, {"patterns"})
  BY <1>11, OnlyFields, PatternsOnly
<1> HIDE DEF w
<1>13. Only(d, Data0037(d), {"patterns"})
  BY <1>1, <1>7, <1>8, <1>9, <1>10, <1>11, <1>12 DEF Only
<1>14. Only(d, Data0034(d), {"servers", "patterns"})
  BY <1>1, <1>2, <1>3, <1>4 DEF Only
<1>15. Only(d, Undo0034(d), {"servers", "inProcess", "defaults", "mounts", "patterns"})
  BY <1>1, <1>5, <1>6 DEF Only
<1>16. QED
  BY <1>13, <1>14, <1>15, PatternsOnly DEF Data0036, Undo0036, Undo0037

\* The tables that the remaining revisions write rows of.
LEMMA OnlySmall ==
    ASSUME NEW d, DOMAIN d = Fields
    PROVE  /\ Only(d, Data0012(d), {"enums"}) /\ Only(d, Undo0012(d), {"enums"})
           /\ Only(d, Data0018(d), {"servers", "patterns"})
           /\ Only(d, Data0026(d), {"subagents"}) /\ Only(d, Undo0026(d), {"subagents"})
           /\ Only(d, Data0028(d), {"tools"})
           /\ Only(d, Undo0029(d), {"tasks"})
           /\ Only(d, Data0030(d), {"grants"}) /\ Only(d, Undo0030(d), {"grants"})
<1>1. Only(d, Data0012(d), {"enums"}) /\ Only(d, Undo0012(d), {"enums"})
  BY RenamedOnly DEF Data0012, Undo0012
<1>2. Only(d, Data0026(d), {"subagents"}) /\ Only(d, Undo0026(d), {"subagents"})
  BY SubagentsOnly DEF Data0026, Undo0026
<1>3. Only(d, Data0018(d), {"servers", "patterns"})
  BY DEF Only, Data0018, Fields
<1>4. Only(d, Data0028(d), {"tools"})
  BY DEF Only, Data0028, Fields
<1>5. Only(d, Undo0029(d), {"tasks"})
  BY DEF Only, Undo0029, Fields
<1>6. Only(d, Data0030(d), {"grants"}) /\ Only(d, Undo0030(d), {"grants"})
  BY DEF Only, Data0030, Undo0030, Fields
<1>7. QED
  BY <1>1, <1>2, <1>3, <1>4, <1>5, <1>6

\* No upgrade changes rows of a table that UpFields does not name.
LEMMA RowsUpOnly ==
    ASSUME NEW d, DOMAIN d = Fields, NEW r \in Revs
    PROVE  Only(d, RowsUp(r, d), UpFields(r))
<1>1. Only(d, d, {})
  BY DEF Only
<1>2. QED
  BY <1>1, BlocksOnly, DataBlocksOnly, Only0020, Only0021, Only0022, Only0027, Only0031,
     OnlyPatterns, OnlySmall DEF RowsUp, UpFields

\* No downgrade changes rows of a table that DownFields does not name.
LEMMA RowsDownOnly ==
    ASSUME NEW d, DOMAIN d = Fields, NEW r \in Revs
    PROVE  Only(d, RowsDown(r, d), DownFields(r))
<1>1. Only(d, d, {})
  BY DEF Only
<1>2. QED
  BY <1>1, BlocksOnly, DataBlocksOnly, Only0022, Only0027, Only0031,
     OnlyPatterns, OnlySmall DEF RowsDown, DownFields

\* A dropped table takes its rows with it.
LEMMA EmptiedIs ==
    ASSUME NEW d, DOMAIN d = Fields, NEW ts
    PROVE  /\ Only(d, Emptied(d, ts),
                   {"blocks", "servers", "patterns", "subagents", "defaults", "tasks"})
           /\ Emptied(d, ts).blocks = IF "prompt_blocks" \in ts THEN {} ELSE d.blocks
           /\ Emptied(d, ts).servers = IF "mcp_server_configs" \in ts THEN {} ELSE d.servers
           /\ Emptied(d, ts).patterns = IF "agent_tool_configs" \in ts THEN {} ELSE d.patterns
           /\ Emptied(d, ts).subagents = IF "subagents" \in ts THEN <<>> ELSE d.subagents
           /\ Emptied(d, ts).defaults = IF "subagent_tools" \in ts THEN {} ELSE d.defaults
           /\ Emptied(d, ts).tasks = IF "tasks" \in ts THEN <<>> ELSE d.tasks
BY DEF Only, Emptied, Fields

\* What an upgrade does to the schema, field by field.
LEMMA SchemaUpIs ==
    ASSUME NEW d, DOMAIN d = Fields, NEW r \in Revs
    PROVE  LET v == Revision[r]
               e == SchemaUp(d, v)
           IN  /\ Only(d, e, {"tables", "cols", "enums", "blocks"})
               /\ e.tables = (d.tables \ v.drop) \cup v.create
               /\ e.cols = ({c \in d.cols : c[1] \notin v.drop} \ v.del) \cup v.add
               /\ e.enums = (d.enums \cup v.values) \cup {t \in v.types : t[1] \notin Types(d)}
               /\ e.blocks = IF r = "0016drop" THEN {} ELSE d.blocks
<1> DEFINE v == Revision[r]
           a == Emptied(d, v.drop)
           b == WithValues(a, v)
           e == SchemaUp(d, v)
<1>1. e = [b EXCEPT !.tables = (@ \ v.drop) \cup v.create,
                    !.cols   = ({c \in @ : c[1] \notin v.drop} \ v.del) \cup v.add,
                    !.enums  = @ \cup {t \in v.types : t[1] \notin Types(d)}]
  BY DEF SchemaUp
<1>2. Only(d, a, {"blocks"}) /\ a.blocks = IF r = "0016drop" THEN {} ELSE d.blocks
  <2>1. /\ "prompt_blocks" \in v.drop <=> r = "0016drop"
        /\ v.drop \cap {"mcp_server_configs", "agent_tool_configs", "subagents",
                        "subagent_tools", "tasks"} = {}
    BY Dropped
  <2> HIDE DEF v
  <2>2. QED
    BY <2>1, EmptiedIs DEF Only, Fields
<1> HIDE DEF a
<1>3. Only(a, b, {"enums"}) /\ b.enums = a.enums \cup v.values
  BY <1>2 DEF WithValues, Only, Fields
<1> HIDE DEF b, v
<1>4. /\ Only(b, e, {"tables", "cols", "enums"})
      /\ e.tables = (b.tables \ v.drop) \cup v.create
      /\ e.cols = ({c \in b.cols : c[1] \notin v.drop} \ v.del) \cup v.add
      /\ e.enums = b.enums \cup {t \in v.types : t[1] \notin Types(d)}
  BY <1>1, <1>3 DEF Only, Fields
<1> HIDE DEF e
<1>5. /\ Only(d, e, {"tables", "cols", "enums", "blocks"})
      /\ b.tables = d.tables /\ b.cols = d.cols /\ a.enums = d.enums /\ e.blocks = a.blocks
  BY <1>2, <1>3, <1>4 DEF Only, Fields
<1>6. QED
  BY <1>2, <1>3, <1>4, <1>5 DEF e, v

\* What a downgrade does to the schema, field by field.
LEMMA SchemaDownIs ==
    ASSUME NEW d, DOMAIN d = Fields, NEW r \in Revs
    PROVE  LET v == Revision[r]
               e == SchemaDown(d, v)
           IN  /\ Only(d, e, {"tables", "cols", "enums", "blocks", "servers", "patterns",
                              "subagents", "defaults", "tasks"})
               /\ e.tables = (d.tables \cup v.drop) \ v.create
               /\ e.cols = {c \in (d.cols \cup v.del) \ v.add : c[1] \notin v.create}
               /\ e.enums = {t \in d.enums : t[1] \notin {u[1] : u \in v.types}}
               /\ e.blocks = IF r = "0005" THEN {} ELSE d.blocks
               /\ e.servers = IF r = "0018" THEN {} ELSE d.servers
               /\ e.patterns = IF r = "0018" THEN {} ELSE d.patterns
               /\ e.subagents = IF r = "0020" THEN <<>> ELSE d.subagents
               /\ e.defaults = IF r = "0020" THEN {} ELSE d.defaults
               /\ e.tasks = IF r = "0001" THEN <<>> ELSE d.tasks
<1> DEFINE v == Revision[r]
           a == Emptied(d, v.create)
           e == SchemaDown(d, v)
<1>1. e = [a EXCEPT !.tables = (@ \cup v.drop) \ v.create,
                    !.cols   = {c \in (@ \cup v.del) \ v.add : c[1] \notin v.create},
                    !.enums  = {t \in @ : t[1] \notin {u[1] : u \in v.types}}]
  BY DEF SchemaDown
<1>2. /\ "prompt_blocks" \in v.create <=> r = "0005"
      /\ "mcp_server_configs" \in v.create <=> r = "0018"
      /\ "agent_tool_configs" \in v.create <=> r = "0018"
      /\ "subagents" \in v.create <=> r = "0020"
      /\ "subagent_tools" \in v.create <=> r = "0020"
      /\ "tasks" \in v.create <=> r = "0001"
  BY Created DEF EarlyTables
<1> HIDE DEF v
<1>3. /\ Only(d, a, {"blocks", "servers", "patterns", "subagents", "defaults", "tasks"})
      /\ a.blocks = IF r = "0005" THEN {} ELSE d.blocks
      /\ a.servers = IF r = "0018" THEN {} ELSE d.servers
      /\ a.patterns = IF r = "0018" THEN {} ELSE d.patterns
      /\ a.subagents = IF r = "0020" THEN <<>> ELSE d.subagents
      /\ a.defaults = IF r = "0020" THEN {} ELSE d.defaults
      /\ a.tasks = IF r = "0001" THEN <<>> ELSE d.tasks
  BY <1>2, EmptiedIs
<1> HIDE DEF a
<1>4. /\ Only(a, e, {"tables", "cols", "enums"})
      /\ e.tables = (a.tables \cup v.drop) \ v.create
      /\ e.cols = {c \in (a.cols \cup v.del) \ v.add : c[1] \notin v.create}
      /\ e.enums = {t \in a.enums : t[1] \notin {u[1] : u \in v.types}}
  BY <1>1, <1>3 DEF Only, Fields
<1> HIDE DEF e
<1>5. /\ Only(d, e, {"tables", "cols", "enums", "blocks", "servers", "patterns",
                     "subagents", "defaults", "tasks"})
      /\ a.tables = d.tables /\ a.cols = d.cols /\ a.enums = d.enums
      /\ e.blocks = a.blocks /\ e.servers = a.servers /\ e.patterns = a.patterns
      /\ e.subagents = a.subagents /\ e.defaults = a.defaults /\ e.tasks = a.tasks
  BY <1>3, <1>4 DEF Only, Fields
<1>6. QED
  BY <1>3, <1>4, <1>5 DEF e, v

\* An upgrade that is due does what it should to tables, columns, enumerations and blocks.
LEMMA SchemaRightUp ==
    ASSUME NEW s, Closed(s), NEW r \in Revs \ s, Revision[r].parents \subseteq s,
           NEW z, z = s \cup {r}, NEW d, DOMAIN d = Fields, Schema(s, d), Blocks(s, d),
           {e[1] : e \in Revision[r].values} \subseteq Types(d)
    PROVE  Schema(z, Upgraded(r, d)) /\ Blocks(z, Upgraded(r, d))
<1> DEFINE v == Revision[r]
           e == SchemaUp(d, v)
           f == RowsUp(r, e)
<1>1. Closed(z)
  BY ClosedUp
<1>2. Upgraded(r, d) = f
  BY DEF Upgraded
<1>3. /\ Only(d, e, {"tables", "cols", "enums", "blocks"})
      /\ e.tables = (d.tables \ v.drop) \cup v.create
      /\ e.cols = ({c \in d.cols : c[1] \notin v.drop} \ v.del) \cup v.add
      /\ e.enums = (d.enums \cup v.values) \cup {t \in v.types : t[1] \notin Types(d)}
      /\ e.blocks = IF r = "0016drop" THEN {} ELSE d.blocks
  BY SchemaUpIs
<1> HIDE DEF e
<1>4. Only(e, f, UpFields(r))
  BY <1>3, OnlyFields, RowsUpOnly
<1>5. /\ f.tables = e.tables /\ f.cols = e.cols
      /\ r # "0012" => f.enums = e.enums
      /\ r \notin {"0005", "0006", "0007", "0008", "0009", "0010"} => f.blocks = e.blocks
  BY <1>4 DEF Only, UpFields, Fields
<1>6. r = "0012" => f.enums = Respelled(e.enums)
  <2>1. r = "0012" => f = Renamed(e, "git_provider_kind", "provider_kind")
    BY DEF RowsUp, Data0012
  <2> HIDE DEF f
  <2>2. QED
    BY <1>3, <2>1, OnlyFields, RenamedOnly DEF Respelled
<1> HIDE DEF f
<1>7. f.tables = TablesOf(z)
  <2>1. TablesOf(s \cup {r}) = (TablesOf(s) \ v.drop) \cup v.create
    BY TablesUp
  <2>2. QED
    BY <1>3, <1>5, <2>1 DEF Schema
<1>8. Counted(z, f.cols) = Counted(z, ColsOf(z))
  <2>1. Counted(s, d.cols) = Counted(s, ColsOf(s))
    BY DEF Schema
  <2>2. Counted(s \cup {r}, ({c \in d.cols : c[1] \notin v.drop} \ v.del) \cup v.add)
          = Counted(s \cup {r}, ColsOf(s \cup {r}))
    BY <2>1, ColsUp
  <2>3. QED
    BY <1>3, <1>5, <2>2
<1>9. EnumsOf(z) \subseteq f.enums /\ Types(f) \subseteq TypesOf(z)
  <2>1. EnumsOf(s) \subseteq d.enums /\ {t[1] : t \in d.enums} \subseteq TypesOf(s)
    BY DEF Schema, Types
  <2>2. CASE r # "0012"
    <3>1. {t[1] : t \in v.values} \subseteq {t[1] : t \in d.enums}
      BY DEF Types
    <3>2. /\ EnumsOf(s \cup {r}) \subseteq (d.enums \cup v.values) \cup {t \in v.types : t[1] \notin {u[1] : u \in d.enums}}
          /\ {t[1] : t \in (d.enums \cup v.values) \cup {t \in v.types : t[1] \notin {u[1] : u \in d.enums}}} \subseteq TypesOf(s \cup {r})
      BY <2>1, <2>2, <3>1, EnumsUp
    <3>3. f.enums = (d.enums \cup v.values) \cup {t \in v.types : t[1] \notin {u[1] : u \in d.enums}}
      BY <1>3, <1>5, <2>2 DEF Types
    <3>4. QED
      BY <3>2, <3>3 DEF Types
  <2>3. CASE r = "0012"
    <3>1. v.types = {} /\ v.values = {<<"git_provider_kind", "jira">>}
      BY <2>3, TypesMade, ValuesAdded
    <3>2. e.enums = d.enums \cup {<<"git_provider_kind", "jira">>}
      BY <1>3, <3>1
    <3>3. EnumsOf(z) \subseteq Respelled(e.enums) /\ {t[1] : t \in Respelled(e.enums)} \subseteq TypesOf(z)
      BY <2>1, <2>3, <3>2, EnumsUp0012
    <3>4. QED
      BY <1>6, <2>3, <3>3 DEF Types
  <2>4. QED
    BY <2>2, <2>3
<1>10. Blocks(z, f)
  <2>1. SUFFICES ASSUME "0015" \notin z PROVE f.blocks = BlocksOf(z)
    BY DEF Blocks
  <2>2. r # "0016drop" /\ e.blocks = BlocksOf(s)
    BY <1>1, <1>3, <2>1, Earlier DEF Blocks
  <2>3. CASE r \in {"0005", "0006", "0007", "0008", "0009", "0010"}
    BY <1>1, <1>3, <2>2, <2>3, OnlyFields, BlocksUp DEF f
  <2>4. CASE r \notin {"0005", "0006", "0007", "0008", "0009", "0010"}
    <3>1. BlocksOf(z) = BlocksOf(s)
      BY <2>4 DEF BlocksOf, KeysOf
    <3>2. QED
      BY <1>5, <2>2, <2>4, <3>1
  <2>5. QED
    BY <2>3, <2>4
<1>11. QED
  BY <1>2, <1>7, <1>8, <1>9, <1>10 DEF Schema

\* A downgrade that works leads back to the schema before.
LEMMA SchemaRightDown ==
    ASSUME NEW s, Closed(s), NEW r \in Heads(s), NEW z, z = s \ {r},
           NEW d, DOMAIN d = Fields, Schema(s, d), Blocks(s, d), DownWorks(r, d)
    PROVE  Schema(z, Downgraded(r, d)) /\ Blocks(z, Downgraded(r, d))
<1> DEFINE v == Revision[r]
           e == RowsDown(r, d)
           f == SchemaDown(e, v)
<1>1. Closed(z) /\ r \in s /\ r \in Revs
  BY ClosedDown DEF Closed, Heads
<1>2. Downgraded(r, d) = f
  BY DEF Downgraded
<1>3. v.drop \cap TablesOf(s) = {} /\ r # "0015"
  BY DEF DownWorks, Schema
<1>4. r # "0021"
  BY <1>1, <1>3, AgentsStay
<1>5. Only(d, e, DownFields(r))
  BY <1>1, RowsDownOnly
<1>6. r = "0012" => e.enums = {IF t[1] = "provider_kind" THEN <<"git_provider_kind", t[2]>> ELSE t
                               : t \in d.enums}
  <2>1. r = "0012" => e = Renamed(d, "provider_kind", "git_provider_kind")
    BY DEF RowsDown, Undo0012
  <2> HIDE DEF e
  <2>2. QED
    BY <2>1, RenamedOnly
<1>7. r \in {"0006", "0007", "0008", "0009", "0010"} /\ d.blocks = BlocksOf(s) => e.blocks = BlocksOf(z)
  BY <1>1, BlocksDown
<1> HIDE DEF e
<1>8. /\ e.tables = d.tables /\ e.cols = d.cols
      /\ r # "0012" => e.enums = d.enums
      /\ r \notin {"0006", "0007", "0008", "0009", "0010"} => e.blocks = d.blocks
  BY <1>5 DEF Only, DownFields, Fields
<1>9. /\ f.tables = (e.tables \cup v.drop) \ v.create
      /\ f.cols = {c \in (e.cols \cup v.del) \ v.add : c[1] \notin v.create}
      /\ f.enums = {t \in e.enums : t[1] \notin {u[1] : u \in v.types}}
      /\ f.blocks = IF r = "0005" THEN {} ELSE e.blocks
  BY <1>1, <1>5, OnlyFields, SchemaDownIs
<1> HIDE DEF f
<1>10. f.tables = TablesOf(z)
  <2>1. TablesOf(s \ {r}) = (TablesOf(s) \cup v.drop) \ v.create
    BY <1>3, TablesDown
  <2>2. QED
    BY <1>8, <1>9, <2>1 DEF Schema
<1>11. Counted(z, f.cols) = Counted(z, ColsOf(z))
  <2>1. Counted(s, d.cols) = Counted(s, ColsOf(s))
    BY DEF Schema
  <2>2. Counted(s \ {r}, {c \in (d.cols \cup v.del) \ v.add : c[1] \notin v.create})
          = Counted(s \ {r}, ColsOf(s \ {r}))
    BY <1>3, <1>4, <2>1, ColsDown
  <2>3. QED
    BY <1>8, <1>9, <2>2
<1>12. EnumsOf(z) \subseteq f.enums /\ Types(f) \subseteq TypesOf(z)
  <2>1. EnumsOf(s) \subseteq d.enums /\ {t[1] : t \in d.enums} \subseteq TypesOf(s)
    BY DEF Schema, Types
  <2>2. CASE r # "0012"
    <3>1. /\ EnumsOf(s \ {r}) \subseteq {t \in d.enums : t[1] \notin {u[1] : u \in v.types}}
          /\ {t[1] : t \in {t \in d.enums : t[1] \notin {u[1] : u \in v.types}}} \subseteq TypesOf(s \ {r})
      BY <2>1, <2>2, EnumsDown
    <3>2. QED
      BY <1>8, <1>9, <2>2, <3>1 DEF Types
  <2>3. CASE r = "0012"
    <3>1. /\ EnumsOf(z) \subseteq {IF t[1] = "provider_kind" THEN <<"git_provider_kind", t[2]>> ELSE t
                                   : t \in d.enums}
          /\ {t[1] : t \in {IF t[1] = "provider_kind" THEN <<"git_provider_kind", t[2]>> ELSE t
                            : t \in d.enums}} \subseteq TypesOf(z)
      BY <2>1, <2>3, EnumsDown0012
    <3>2. v.types = {}
      BY <1>1, <2>3, TypesMade
    <3>3. f.enums = e.enums
      BY <1>9, <3>2
    <3>4. QED
      BY <1>6, <2>3, <3>1, <3>3 DEF Types
  <2>4. QED
    BY <2>2, <2>3
<1>13. Blocks(z, f)
  <2>1. SUFFICES ASSUME "0015" \notin z PROVE f.blocks = BlocksOf(z)
    BY DEF Blocks
  <2>2. "0015" \notin s /\ d.blocks = BlocksOf(s)
    BY <1>3, <2>1 DEF Blocks
  <2>3. CASE r = "0005"
    <3>1. KeysOf(z) = {}
      BY <1>1, <2>3, Earlier DEF KeysOf
    <3>2. QED
      BY <1>9, <2>3, <3>1 DEF BlocksOf
  <2>4. CASE r \in {"0006", "0007", "0008", "0009", "0010"}
    BY <1>7, <1>9, <2>2, <2>4
  <2>5. CASE r \notin {"0005", "0006", "0007", "0008", "0009", "0010"}
    <3>1. BlocksOf(z) = BlocksOf(s)
      BY <2>5 DEF BlocksOf, KeysOf
    <3>2. QED
      BY <1>8, <1>9, <2>2, <2>5, <3>1
  <2>6. QED
    BY <2>3, <2>4, <2>5
<1>14. QED
  BY <1>2, <1>10, <1>11, <1>12, <1>13 DEF Schema


\* A revision that is due finds the schema it needs.
LEMMA SchemaAllows ==
    ASSUME NEW s, Closed(s), NEW r \in Revs \ s, Revision[r].parents \subseteq s,
           NEW d, Schema(s, d)
    PROVE  LET v == Revision[r]
           IN  /\ v.drop \subseteq d.tables
               /\ v.create \cap (d.tables \ v.drop) = {}
               /\ v.del \subseteq d.cols
               /\ v.add \cap d.cols = {}
               /\ {c[1] : c \in v.add} \subseteq d.tables \cup v.create
               /\ {e[1] : e \in v.values} \subseteq Types(d)
<1> DEFINE v == Revision[r]
           z == s \cup {r}
<1>1. Closed(z) /\ s \subseteq Revs /\ d.tables = TablesOf(s)
  BY ClosedUp DEF Closed, Schema
<1>2. ASSUME NEW q \in s, NEW t \in Revision[q].create,
             t = "user_oauth_credentials" => "0015" \notin s,
             t = "prompt_blocks" => "0016drop" \notin s
      PROVE  t \in d.tables
  BY <1>1, <1>2, Gone DEF TablesOf, Given
<1>3. v.drop \subseteq d.tables
  <2>1. SUFFICES ASSUME NEW t \in v.drop PROVE t \in d.tables
    OBVIOUS
  <2>2. CASE r = "0015"
    <3>1. t = "user_oauth_credentials" /\ "0002" \in s /\ t \in Revision["0002"].create
      BY <1>1, <2>1, <2>2, Dropped, Created, Earlier DEF Revs
    <3>2. QED
      BY <1>2, <2>2, <3>1
  <2>3. CASE r = "0016drop"
    <3>1. t = "prompt_blocks" /\ "0005" \in s /\ t \in Revision["0005"].create
      BY <1>1, <2>1, <2>3, Dropped, Created, Earlier DEF Revs
    <3>2. QED
      BY <1>2, <2>3, <3>1
  <2>4. CASE r = "0021"
    <3>1. t = "agents" /\ "0001" \in s /\ t \in Revision["0001"].create
      BY <1>1, <2>1, <2>4, Dropped, Created, Earlier DEF Revs, EarlyTables
    <3>2. QED
      BY <1>2, <3>1
  <2>5. QED
    BY <2>1, <2>2, <2>3, <2>4, Dropped
<1>4. v.create \cap (d.tables \ v.drop) = {}
  <2>1. SUFFICES ASSUME NEW t \in v.create, t \in d.tables, t \notin v.drop
                 PROVE  FALSE
    OBVIOUS
  <2>2. PICK q \in s : t \in Revision[q].create
    BY <1>1, <2>1 DEF TablesOf, Given
  <2>3. t = "agents" /\ {q, r} = {"0001", "0021"}
    BY <1>1, <2>1, <2>2, OneMaker
  <2>4. r # "0021"
    BY <2>1, <2>3, Dropped
  <2>5. r = "0001" /\ q = "0021"
    BY <2>3, <2>4
  <2>6. QED
    BY <1>1, <2>2, <2>5, Earlier
<1>5. ASSUME NEW c, c[1] # "prompt_blocks", c \in ColsOf(s)
      PROVE  c \in d.cols
  BY <1>5 DEF Schema, Counted
<1>6. v.del \subseteq d.cols
  <2>1. SUFFICES ASSUME NEW c \in v.del PROVE c \in d.cols
    OBVIOUS
  <2>2. r = "0016drop" /\ c = <<"project_repos", "oauth_token_encrypted">>
    BY <2>1, Removed
  <2>3. "0001" \in s /\ c \in Revision["0001"].add
    BY <1>1, <2>2, Added, Earlier DEF Revs
  <2>4. c \in Given(s, "add")
    BY <2>3 DEF Given
  <2>5. c \notin Given(s, "del")
    BY <1>1, <2>2, ColumnRemoved
  <2>6. c[1] \notin DroppedFor(s)
    BY <1>1, <2>2, Gone
  <2>7. QED
    BY <1>5, <2>2, <2>4, <2>5, <2>6 DEF ColsOf
<1>7. v.add \cap d.cols = {}
  <2>1. SUFFICES ASSUME NEW c \in v.add, c \in d.cols PROVE FALSE
    OBVIOUS
  <2>2. c[1] = "prompt_blocks" => "0015" \notin s
    BY <1>1, <2>1, ColumnAdded, Earlier
  <2>3. c \in ColsOf(s)
    BY <2>1, <2>2 DEF Schema, Counted
  <2>4. PICK q \in s : c \in Revision[q].add
    BY <2>3 DEF ColsOf, Given
  <2>5. QED
    BY <1>1, <2>1, <2>4, ColumnAdded
<1>8. {c[1] : c \in v.add} \subseteq d.tables \cup v.create
  <2>1. SUFFICES ASSUME NEW c \in v.add PROVE c[1] \in d.tables \cup v.create
    OBVIOUS
  <2>2. CASE r \in {"0001", "0005"}
    BY <2>1, <2>2, ColumnAdded, Created
  <2>3. CASE r = "0011"
    <3>1. c[1] = "user_oauth_credentials" /\ "0002" \in s /\ "0015" \notin s
          /\ c[1] \in Revision["0002"].create
      BY <1>1, <2>1, <2>3, ColumnAdded, Created, Earlier DEF Revs
    <3>2. QED
      BY <1>2, <3>1
  <2>4. CASE r \in {"0021", "0032"}
    <3>1. c[1] = "tasks" /\ "0001" \in s /\ c[1] \in Revision["0001"].create
      BY <1>1, <2>1, <2>4, ColumnAdded, Created, Earlier DEF Revs
    <3>2. QED
      BY <1>2, <3>1
  <2>5. CASE r = "0025"
    <3>1. c[1] = "task_approvals" /\ "0024" \in s /\ c[1] \in Revision["0024"].create
      BY <1>1, <2>1, <2>5, ColumnAdded, Created, Earlier DEF Revs
    <3>2. QED
      BY <1>2, <3>1
  <2>6. QED
    BY <2>1, <2>2, <2>3, <2>4, <2>5, ColumnAdded
<1>9. {e[1] : e \in v.values} \subseteq Types(d)
  <2>1. SUFFICES ASSUME NEW e \in v.values PROVE e[1] \in Types(d)
    OBVIOUS
  <2>2. ASSUME NEW q \in s, NEW f \in Revision[q].types
        PROVE  Spelled(s, f[1]) \in Types(d)
    <3>1. f \in Given(s, "types")
      BY DEF Given
    <3>2. <<Spelled(s, f[1]), f[2]>> \in EnumsOf(s)
      BY <3>1 DEF EnumsOf
    <3>3. <<Spelled(s, f[1]), f[2]>> \in d.enums
      BY <3>2 DEF Schema
    <3>4. QED
      BY <3>3 DEF Types
  <2>3. "0001" \in s
    BY <1>1, <2>1, ValueAdded, Earlier
  <2>4. /\ <<"git_provider_kind", "github">> \in Revision["0001"].types
        /\ <<"task_status", "running">> \in Revision["0001"].types
    BY TypesMade DEF Revs, R0001, After
  <2>5. Spelled(s, "git_provider_kind") \in Types(d) /\ "task_status" \in Types(d)
    BY <2>2, <2>3, <2>4 DEF Spelled
  <2>6. "0013" \in s => "credential_kind" \in Types(d)
    <3>1. <<"credential_kind", "bearer">> \in Revision["0013"].types
      BY TypesMade DEF Revs, R0013, After
    <3>2. QED
      BY <2>2, <3>1 DEF Spelled
  <2>7. QED
    BY <1>1, <2>1, <2>5, <2>6, ValueAdded, Earlier DEF Spelled
<1>10. QED
  BY <1>3, <1>4, <1>6, <1>7, <1>8, <1>9

\* The 38 revisions make every table, column and value that the models use.
LEMMA ModelsMet ==
    ASSUME NEW s, Closed(s), Newest \in s, NEW d, Schema(s, d), NEW m \in Models
    PROVE  m.tables \subseteq d.tables /\ m.cols \subseteq d.cols /\ m.enums \subseteq d.enums
<1>1. s = Revs
  <2>1. /\ "0001" \in s /\ "0002" \in s /\ "0004" \in s /\ "0005" \in s
        /\ "0006" \in s /\ "0007" \in s /\ "0008" \in s /\ "0009" \in s
        /\ "0010" \in s /\ "0011" \in s /\ "0012" \in s /\ "0013" \in s
        /\ "0014" \in s /\ "0015" \in s /\ "0016aws" \in s /\ "0016drop" \in s
        /\ "0017" \in s /\ "0018" \in s /\ "0019" \in s /\ "0020" \in s
        /\ "0021" \in s /\ "0022devops" \in s /\ "0022memory" \in s /\ "0023" \in s
        /\ "0024" \in s /\ "0025" \in s /\ "0026" \in s /\ "0027" \in s
        /\ "0028" \in s /\ "0029" \in s /\ "0030" \in s /\ "0031" \in s
        /\ "0032" \in s /\ "0033" \in s /\ "0034" \in s /\ "0035" \in s
        /\ "0036" \in s /\ "0037" \in s
    BY Earlier DEF Newest
  <2>2. ASSUME NEW r \in Revs PROVE r \in s
    BY <2>1, <2>2 DEF Revs
  <2>3. s \subseteq Revs
    BY DEF Closed
  <2>4. QED
    BY <2>2, <2>3
<1>2. ASSUME NEW r \in Revs, NEW t \in Revision[r].create, t \notin {"user_oauth_credentials", "prompt_blocks"}
      PROVE  t \in d.tables
  BY <1>1, <1>2, Gone DEF Schema, TablesOf, Given
<1>3. ASSUME NEW r \in Revs, NEW c \in Revision[r].add, c[1] \in {"tasks", "task_approvals"}
      PROVE  c \in d.cols
  <2>1. c \in Given(s, "add") /\ c \notin Given(s, "del") /\ c[1] \notin DroppedFor(s)
    BY <1>1, <1>3, ColumnRemoved, Gone DEF Given
  <2>2. QED
    BY <1>3, <2>1 DEF ColsOf, Schema, Counted
<1>4. ASSUME NEW r \in Revs, NEW e \in Revision[r].types \cup Revision[r].values
      PROVE  <<IF e[1] = "git_provider_kind" THEN "provider_kind" ELSE e[1], e[2]>> \in d.enums
  <2>1. e \in Given(s, "types") \cup Given(s, "values")
    BY <1>1, <1>4 DEF Given
  <2>2. <<Spelled(s, e[1]), e[2]>> \in EnumsOf(s)
    BY <2>1 DEF EnumsOf
  <2>3. QED
    BY <1>1, <2>2 DEF Schema, Spelled, Revs
<1>5. m.tables \subseteq d.tables
  <2>1. SUFFICES ASSUME NEW t \in m.tables
                 PROVE  \E r \in Revs : t \in Revision[r].create \ {"user_oauth_credentials", "prompt_blocks"}
    BY <1>2
  <2>2. t \in {"projects", "project_repos", "tasks", "credentials", "credential_events",
               "mcp_server_configs", "agent_tool_configs", "user_tool_configs", "subagents",
               "subagent_tools", "system_tools", "subagent_system_tools", "agents",
               "agent_subagents", "agent_subagent_mcps", "memory_nodes", "memory_edges",
               "task_approvals", "task_messages", "team_agent_configs", "team_agent_system_tools"}
    BY DEF Models, Model, AgentModel, ToolConfigModel, SubagentModel, TeamAgentModel,
           CredentialModel, CredentialEventModel, MemoryModel, ProjectModel, TaskModel,
           TaskApprovalModel, TaskMessageModel
  <2>3. \E r \in {"0001", "0013", "0018", "0019", "0020", "0021", "0022memory", "0024", "0025", "0028"} :
            t \in Revision[r].create
    BY <2>2, Created DEF Revs
  <2>4. QED
    BY <2>2, <2>3 DEF Revs
<1>6. m.cols \subseteq d.cols
  <2>1. SUFFICES ASSUME NEW c \in m.cols PROVE c \in d.cols
    OBVIOUS
  <2>2. c \in {<<"tasks", "agent_id">>, <<"tasks", "sdk_session_id">>, <<"task_approvals", "user_response">>}
    BY DEF Models, Model, AgentModel, ToolConfigModel, SubagentModel, TeamAgentModel,
           CredentialModel, CredentialEventModel, MemoryModel, ProjectModel, TaskModel,
           TaskApprovalModel, TaskMessageModel
  <2>3. c \in Revision["0021"].add \cup Revision["0025"].add \cup Revision["0032"].add
    BY <2>2, Added DEF Revs
  <2>4. QED
    BY <1>3, <2>2, <2>3 DEF Revs
<1>7. m.enums \subseteq d.enums
  <2>1. SUFFICES ASSUME NEW e \in m.enums PROVE e \in d.enums
    OBVIOUS
  <2>2. \/ e \in {"credential_kind"} \X {"bearer", "oauth"}
        \/ e \in {"provider_kind"} \X {"github", "jira", "google", "slack", "aws", "azure"}
        \/ e \in {"task_status"} \X {"running", "awaiting_approval", "awaiting_user_message",
                                     "publishing", "awaiting_ci", "fixing", "completed",
                                     "needs_human", "failed"}
        \/ e \in R0024.types
        \/ e \in R0025.types
    BY DEF Models, Model, AgentModel, ToolConfigModel, SubagentModel, TeamAgentModel,
           CredentialModel, CredentialEventModel, MemoryModel, ProjectModel, TaskModel,
           TaskApprovalModel, TaskMessageModel, R0024, R0025, After
  <2>3. CASE e \in {"credential_kind"} \X {"bearer", "oauth"}
    <3>1. e \in Revision["0013"].types \cup Revision["0014"].values
      BY <2>3, TypesMade, ValuesAdded DEF Revs, R0013, After
    <3>2. QED
      BY <1>4, <2>3, <3>1 DEF Revs
  <2>4. CASE e \in {"provider_kind"} \X {"github", "jira", "google", "slack", "aws", "azure"}
    <3>1. \/ e \in Revision["0014"].values \cup Revision["0016aws"].values \cup Revision["0033"].values
          \/ <<"git_provider_kind", e[2]>> \in Revision["0001"].types \cup Revision["0012"].values
      BY <2>4, TypesMade, ValuesAdded DEF Revs, R0001, After
    <3>2. QED
      BY <1>4, <2>4, <3>1 DEF Revs
  <2>5. CASE e \in {"task_status"} \X {"running", "awaiting_approval", "awaiting_user_message",
                                       "publishing", "awaiting_ci", "fixing", "completed",
                                       "needs_human", "failed"}
    <3>1. e \in Revision["0001"].types \cup Revision["0004"].values \cup Revision["0029"].values
      BY <2>5, TypesMade, ValuesAdded DEF Revs, R0001, After
    <3>2. QED
      BY <1>4, <2>5, <3>1 DEF Revs
  <2>6. CASE e \in R0024.types \/ e \in R0025.types
    <3>1. e \in Revision["0024"].types \cup Revision["0025"].types
      BY <2>6, TypesMade DEF Revs
    <3>2. e = <<e[1], e[2]>> /\ e[1] # "git_provider_kind"
      BY <3>1, TypeMade DEF Revs
    <3>3. QED
      BY <1>4, <3>1, <3>2 DEF Revs
  <2>7. QED
    BY <2>2, <2>3, <2>4, <2>5, <2>6
<1>8. QED
  BY <1>5, <1>6, <1>7

\* The revisions that change what the rows must be.
Marks == {"0020", "0021", "0022devops", "0028", "0029", "0031", "0037"}
Agree(s, z) == \A q \in Marks : q \in s <=> q \in z

\* What is not touched stays as it should be.
LEMMA Untouched ==
    ASSUME NEW s, NEW z, Agree(s, z), NEW d, RowsRight(s, d), NEW e, NEW fs, Only(d, e, fs)
    PROVE  /\ fs \cap {"subagents", "patterns", "tasks"} = {} => Shape(e)
           /\ "subagents" \notin fs => Subagents(z, e)
           /\ fs \cap {"subagents", "grants", "defaults", "links", "agents", "tools", "servers",
                       "inProcess"} = {} => References(z, e)
           /\ fs \cap {"agents", "links", "mounts"} = {} => Agents(z, e)
           /\ fs \cap {"agents", "tasks"} = {} => Tasks(z, e)
           /\ "patterns" \notin fs => Patterns(z, e)
<1>1. /\ "0020" \in s <=> "0020" \in z
      /\ "0021" \in s <=> "0021" \in z
      /\ "0022devops" \in s <=> "0022devops" \in z
      /\ "0028" \in s <=> "0028" \in z
      /\ "0029" \in s <=> "0029" \in z
      /\ "0031" \in s <=> "0031" \in z
      /\ "0037" \in s <=> "0037" \in z
  BY DEF Agree, Marks
<1>2. Made(s) = Made(z) /\ \A x : NameOf(s, x) = NameOf(z, x)
  BY <1>1 DEF Made, NameOf
<1>3. fs \cap {"subagents", "patterns", "tasks"} = {} => Shape(e)
  BY DEF RowsRight, Shape, Only, Fields
<1>4. "subagents" \notin fs => Subagents(z, e)
  <2>1. "subagents" \notin fs => e.subagents = d.subagents
    BY DEF Only, Fields
  <2>2. QED
    BY <1>1, <1>2, <2>1 DEF RowsRight, Subagents
<1>5. fs \cap {"subagents", "grants", "defaults", "links", "agents", "tools", "servers",
               "inProcess"} = {} => References(z, e)
  BY <1>1 DEF RowsRight, References, Only, Fields
<1>6. fs \cap {"agents", "links", "mounts"} = {} => Agents(z, e)
  BY <1>1, <1>2 DEF RowsRight, Agents, Only, Fields
<1>7. fs \cap {"agents", "tasks"} = {} => Tasks(z, e)
  BY <1>1 DEF RowsRight, Tasks, Only, Fields
<1>8. "patterns" \notin fs => Patterns(z, e)
  <2>1. "patterns" \notin fs => e.patterns = d.patterns
    BY DEF Only, Fields
  <2>2. Newest \in s <=> Newest \in z
    BY <1>1 DEF Newest
  <2>3. Patterns(s, d)
    BY DEF RowsRight
  <2>4. QED
    BY <2>1, <2>2, <2>3 DEF Patterns
<1>9. QED
  BY <1>3, <1>4, <1>5, <1>6, <1>7, <1>8

\* Who has a name.
LEMMA NamedIs ==
    ASSUME NEW s, NEW d, Subagents(s, d), NEW n, NEW x
    PROVE  x \in Named(d, n) <=>
             \/ x \in Made(s) /\ NameOf(s, x) = n
             \/ /\ x = "admin" /\ "admin" \in DOMAIN d.subagents
                /\ d.subagents["admin"].name = n
BY DEF Named, Subagents, Made, FirstSubagents

\* The names the revisions give to their subagents are not the administrator's.
LEMMA IdsMade ==
    ASSUME NEW s, NEW d, Subagents(s, d),
           NEW names, names \subseteq FirstSubagents \cup {"devops"}
    PROVE  Ids(d, names) \subseteq Made(s) /\ Made(s) \subseteq DOMAIN d.subagents
           /\ "admin" \notin Ids(d, names)
<1>1. Made(s) \subseteq DOMAIN d.subagents /\ "admin" \notin Made(s)
  BY DEF Subagents, Made, FirstSubagents
<1>2. ASSUME NEW n \in names, NEW x \in Named(d, n)
      PROVE  x \in Made(s)
  <2>1. n \notin {"custom", "code-auditor"}
    BY DEF FirstSubagents
  <2>2. "admin" \in DOMAIN d.subagents => d.subagents["admin"].name \in {"custom", "code-auditor"}
    BY DEF Subagents
  <2>3. \/ x \in Made(s)
        \/ "admin" \in DOMAIN d.subagents /\ d.subagents["admin"].name = n
    BY <1>2, NamedIs
  <2>4. QED
    BY <2>1, <2>2, <2>3
<1>3. QED
  BY <1>1, <1>2 DEF Ids

\* The name devops finds the subagent of 0022devops, once there is one.
LEMMA IdsDevops ==
    ASSUME NEW s, NEW d, Subagents(s, d)
    PROVE  Ids(d, {"devops"}) = IF "0022devops" \in s THEN {"devops"} ELSE {}
<1>1. Ids(d, {"devops"}) = Named(d, "devops")
  BY DEF Ids
<1>2. ASSUME NEW x PROVE x \in Named(d, "devops") <=> x = "devops" /\ "0022devops" \in s
  <2>1. \/ ~(x \in Made(s) /\ NameOf(s, x) = "devops") /\ ~(x = "devops" /\ "0022devops" \in s)
        \/ (x \in Made(s) /\ NameOf(s, x) = "devops") /\ (x = "devops" /\ "0022devops" \in s)
    BY DEF Made, NameOf, FirstSubagents
  <2>2. QED
    BY <2>1, NamedIs DEF Subagents
<1>3. QED
  BY <1>1, <1>2

\* What administrators and users made is the same.
SameHand(d, e) ==
    /\ DOMAIN e.tasks = DOMAIN d.tasks
    /\ \A u \in DOMAIN d.tasks : e.tasks[u].status = d.tasks[u].status
    /\ "admin" \in DOMAIN e.subagents <=> "admin" \in DOMAIN d.subagents
    /\ "admin" \in DOMAIN d.subagents =>
          /\ e.subagents["admin"].name = d.subagents["admin"].name
          /\ e.subagents["admin"].text = d.subagents["admin"].text
    /\ \A g : g[1] = "admin" /\ g[2] # "mcp-memory" => (g \in e.grants <=> g \in d.grants)
    /\ "in_house" \in e.servers <=> "in_house" \in d.servers

\* The same rows made by hand, the same value of MadeByHand.
LEMMA Hand ==
    ASSUME NEW d, NEW e, SameHand(d, e)
    PROVE  MadeByHand(e) = MadeByHand(d)
<1>1. [u \in DOMAIN e.tasks |-> e.tasks[u].status] = [u \in DOMAIN d.tasks |-> d.tasks[u].status]
  BY DEF SameHand
<1>2. {<<e.subagents[s].name, e.subagents[s].text>> : s \in (DOMAIN e.subagents) \cap {"admin"}}
        = {<<d.subagents[s].name, d.subagents[s].text>> : s \in (DOMAIN d.subagents) \cap {"admin"}}
  BY DEF SameHand
<1>3. {g \in e.grants : g[1] = "admin" /\ g[2] # "mcp-memory"}
        = {g \in d.grants : g[1] = "admin" /\ g[2] # "mcp-memory"}
  BY DEF SameHand
<1>4. e.servers \cap {"in_house"} = d.servers \cap {"in_house"}
  BY DEF SameHand
<1>5. QED
  BY <1>1, <1>2, <1>3, <1>4 DEF MadeByHand

\* A step that writes none of the four tables keeps what was made by hand.
LEMMA HandUntouched ==
    ASSUME NEW d, NEW e, NEW fs, Only(d, e, fs), fs \cap {"tasks", "subagents", "grants", "servers"} = {}
    PROVE  SameHand(d, e)
BY DEF SameHand, Only, Fields

\* So do two steps that each keep it.
LEMMA HandTrans ==
    ASSUME NEW d, NEW e, NEW f, SameHand(d, e), SameHand(e, f)
    PROVE  SameHand(d, f)
BY DEF SameHand

\* Rows inserted beside those there are.
LEMMA JoinedIs ==
    ASSUME NEW f, NEW g
    PROVE  /\ DOMAIN Joined(f, g) = (DOMAIN f) \cup (DOMAIN g)
           /\ \A x \in DOMAIN f : Joined(f, g)[x] = f[x]
           /\ \A x \in (DOMAIN g) \ (DOMAIN f) : Joined(f, g)[x] = g[x]
BY DEF Joined

\* The columns of new rows.
LEMMA RowShapes ==
    /\ \A name, text : DOMAIN NewSubagent(name, text) = {"name", "text", "escalates"}
    /\ \A name, text : NewSubagent(name, text).name = name /\ NewSubagent(name, text).text = text
    /\ \A role, ps : \A r \in Rows(role, ps) : DOMAIN r = {"role", "seed", "pattern"}
<1>1. \A name, text : DOMAIN NewSubagent(name, text) = {"name", "text", "escalates"}
  BY DEF NewSubagent
<1>2. \A name, text : NewSubagent(name, text).name = name /\ NewSubagent(name, text).text = text
  BY DEF NewSubagent
<1>3. \A role, ps : \A r \in Rows(role, ps) : DOMAIN r = {"role", "seed", "pattern"}
  BY DEF Rows, Row
<1>4. QED
  BY <1>1, <1>2, <1>3

\* z is s and the revision r, which was not in s.
Comes(s, r, z) == Closed(s) /\ Closed(z) /\ r \notin s /\ z = s \cup {r}

\* What it says of two sets that one has a revision more.
LEMMA ComesIs ==
    ASSUME NEW s, NEW r, NEW z, Comes(s, r, z)
    PROVE  Closed(s) /\ Closed(z) /\ r \in z /\ r \notin s /\ \A q : q # r => (q \in s <=> q \in z)
BY DEF Comes

\* What a revision does to rows: they are as they should be once it is in, and what
\* administrators and users made is still there.
Does(z, d, e) == RowsRight(z, e) /\ SameHand(d, e)

\* 0018 writes servers and patterns that nothing refers to yet.
LEMMA Does0018 ==
    ASSUME NEW s, NEW z, Comes(s, "0018", z), NEW d, RowsRight(s, d)
    PROVE  Does(z, d, Data0018(d))
<1> DEFINE e == Data0018(d)
<1>1. Agree(s, z) /\ Newest \notin z
  BY ComesIs, Earlier DEF Agree, Marks, Newest
<1>2. Only(d, e, {"servers", "patterns"})
  BY OnlySmall DEF RowsRight, Shape
<1>3. /\ e.servers = d.servers \cup Integrations
      /\ e.patterns = ((((d.patterns \cup Rows("lead", Integrations)) \cup Rows("code-implementer", Integrations))
                       \cup Rows("manager", {"jira"})) \cup Rows("repo-scanner", {"jira"}))
                       \cup Rows("publisher", {"github"})
  BY DEF Data0018, RowsRight, Shape, Fields
<1> HIDE DEF e
<1>4. Shape(e)
  <2>1. \A r \in e.patterns : DOMAIN r = {"role", "seed", "pattern"}
    BY <1>3, RowShapes DEF RowsRight, Shape
  <2>2. QED
    BY <1>2, <2>1 DEF RowsRight, Shape, Only, Fields
<1>5. References(z, e)
  BY <1>1, <1>2, <1>3 DEF RowsRight, References, Only, Fields, Agree, Marks
<1>6. Subagents(z, e) /\ Agents(z, e) /\ Tasks(z, e)
  BY <1>1, <1>2, Untouched
<1>7. SameHand(d, e)
  BY <1>2, <1>3 DEF SameHand, Only, Fields, Integrations
<1>8. QED
  BY <1>1, <1>4, <1>5, <1>6, <1>7 DEF Does, RowsRight, Patterns, e

\* 0020 makes the first subagents and their default servers.
LEMMA Does0020 ==
    ASSUME NEW s, NEW z, Comes(s, "0020", z), NEW d, RowsRight(s, d)
    PROVE  Does(z, d, Data0020(d))
<1> DEFINE a == Insert(d, FirstSubagents)
           b == Default(a, {"code-implementer"}, Integrations)
           e == Default(b, {"manager", "repo-scanner"}, {"jira"})
<1>1. /\ "0020" \notin s /\ "0021" \notin s /\ "0022devops" \notin s /\ "0029" \notin s
      /\ "0020" \in z /\ "0021" \notin z /\ "0022devops" \notin z /\ "0028" \notin z
      /\ "0029" \notin z /\ "0031" \notin z /\ Newest \notin z
  BY ComesIs, Earlier DEF Newest
<1>2. DOMAIN d = Fields /\ Data0020(d) = e
  BY DEF Data0020, RowsRight, Shape
<1>3. DOMAIN d.subagents = {}
  BY <1>1 DEF RowsRight, Subagents, Made
<1>4. a.subagents = Joined(d.subagents, [n \in FirstSubagents |-> NewSubagent(n, SeedText)])
  <2>1. {m \in FirstSubagents : Named(d, m) = {}} = FirstSubagents
    BY <1>3 DEF Named
  <2>2. QED
    BY <1>2, <2>1, InsertOnly
<1>5. Only(d, a, {"subagents"})
  BY <1>2, InsertOnly
<1> HIDE DEF a
<1>6. /\ Only(a, b, {"defaults"})
      /\ b.defaults = a.defaults \cup (Ids(a, {"code-implementer"}) \X (Integrations \cap a.servers))
  BY <1>5, OnlyFields, DefaultOnly
<1> HIDE DEF b
<1>7. /\ Only(b, e, {"defaults"})
      /\ e.defaults = b.defaults \cup (Ids(b, {"manager", "repo-scanner"}) \X ({"jira"} \cap b.servers))
  BY <1>6, OnlyFields, DefaultOnly
<1> HIDE DEF e
<1>8. /\ Only(d, e, {"subagents", "defaults"}) /\ DOMAIN e = Fields
      /\ b.subagents = a.subagents /\ e.subagents = a.subagents
      /\ a.servers = d.servers /\ b.servers = d.servers /\ a.defaults = d.defaults
  BY <1>5, <1>6, <1>7 DEF Only, Fields
<1>9. /\ DOMAIN e.subagents = FirstSubagents
      /\ \A x \in FirstSubagents : e.subagents[x] = NewSubagent(x, SeedText)
  <2> DEFINE g == [n \in FirstSubagents |-> NewSubagent(n, SeedText)]
  <2>1. DOMAIN g = FirstSubagents /\ \A x \in FirstSubagents : g[x] = NewSubagent(x, SeedText)
    OBVIOUS
  <2> HIDE DEF g
  <2>2. e.subagents = Joined(d.subagents, g)
    BY <1>4, <1>8 DEF g
  <2>3. /\ DOMAIN Joined(d.subagents, g) = (DOMAIN d.subagents) \cup (DOMAIN g)
        /\ \A x \in (DOMAIN g) \ (DOMAIN d.subagents) : Joined(d.subagents, g)[x] = g[x]
    BY JoinedIs
  <2>4. QED
    BY <1>3, <2>1, <2>2, <2>3
<1>10. e.defaults \subseteq (DOMAIN e.subagents) \X e.servers
  <2>1. \A names : Ids(a, names) \subseteq DOMAIN e.subagents /\ Ids(b, names) \subseteq DOMAIN e.subagents
    BY <1>8 DEF Ids, Named
  <2>2. d.defaults = {} /\ e.servers = d.servers
    BY <1>3, <1>8 DEF RowsRight, References, Only, Fields
  <2>3. QED
    BY <1>6, <1>7, <1>8, <2>1, <2>2
<1>11. Shape(e)
  BY <1>8, <1>9, RowShapes DEF RowsRight, Shape, Only, Fields
<1>12. Subagents(z, e)
  BY <1>1, <1>9 DEF Subagents, Made, NameOf, NewSubagent, FirstSubagents
<1>13. /\ e.tools = {} /\ e.agents = {} /\ e.grants = {} /\ e.links = {}
       /\ e.tasks = d.tasks /\ e.inProcess = d.inProcess /\ d.grants = {} /\ e.servers = d.servers
  BY <1>1, <1>8 DEF RowsRight, References, Only, Fields
<1>14. References(z, e) /\ Agents(z, e) /\ Tasks(z, e) /\ Patterns(z, e)
  <2>1. References(z, e)
    BY <1>1, <1>10, <1>13 DEF RowsRight, References
  <2>2. Tasks(z, e)
    BY <1>1, <1>13 DEF RowsRight, Tasks
  <2>3. QED
    BY <1>1, <1>13, <2>1, <2>2 DEF Agents, Patterns
<1>15. SameHand(d, e)
  BY <1>3, <1>9, <1>13 DEF SameHand, FirstSubagents
<1>16. QED
  BY <1>2, <1>11, <1>12, <1>14, <1>15 DEF Does, RowsRight

\* 0021 gives every owner of a task one agent with the whole team, and every task its agent.
LEMMA Does0021 ==
    ASSUME NEW s, NEW z, Comes(s, "0021", z), NEW d, RowsRight(s, d)
    PROVE  Does(z, d, Data0021(d))
<1> DEFINE owners == DOMAIN d.tasks
           names == {"code-implementer", "code-explorer", "test-runner", "repo-scanner"}
           a == [d EXCEPT !.agents = @ \cup owners,
                          !.tools = @ \cup {"core"},
                          !.links = @ \cup (owners \X (DOMAIN d.subagents))]
           b == Grant(a, names, {"core"})
           c == CopyDefaults(b, DOMAIN d.subagents)
           e == [c EXCEPT !.tasks = [u \in owners |-> [@[u] EXCEPT !.agent = u]]]
<1>1. /\ "0021" \notin s /\ "0022devops" \notin s /\ "0028" \notin s /\ "0029" \notin s
      /\ "0031" \notin s /\ "0020" \in s
      /\ "0020" \in z /\ "0021" \in z /\ "0022devops" \notin z /\ "0028" \notin z
      /\ "0029" \notin z /\ "0031" \notin z /\ Newest \notin z
  <2>1. "0020" \in z
    BY ComesIs, Earlier
  <2>2. QED
    BY <2>1, ComesIs, Earlier DEF Newest
<1>2. DOMAIN d = Fields /\ Data0021(d) = e
  BY DEF Data0021, RowsRight, Shape
<1>3. /\ Only(d, a, {"agents", "tools", "links"})
      /\ a.agents = d.agents \cup owners /\ a.tools = d.tools \cup {"core"}
      /\ a.links = d.links \cup (owners \X (DOMAIN d.subagents))
  BY <1>2 DEF Only, Fields
<1> HIDE DEF a
<1>4. Only(a, b, {"grants"}) /\ b.grants = a.grants \cup (Ids(a, names) \X ({"core"} \cap a.tools))
  BY <1>3, OnlyFields, GrantOnly
<1> HIDE DEF b
<1>5. Only(b, c, {"mounts"})
  BY <1>4, OnlyFields, CopyOnly
<1> HIDE DEF c
<1>6. Only(c, e, {"tasks"}) /\ e.tasks = [u \in owners |-> [c.tasks[u] EXCEPT !.agent = u]]
  BY <1>5 DEF Only, Fields
<1> HIDE DEF e
<1>7. /\ Only(d, e, {"agents", "tools", "links", "grants", "mounts", "tasks"})
      /\ e.agents = a.agents /\ e.tools = a.tools /\ e.links = a.links /\ e.grants = b.grants
      /\ a.subagents = d.subagents /\ c.tasks = d.tasks /\ a.grants = d.grants
      /\ e.subagents = d.subagents
  BY <1>3, <1>4, <1>5, <1>6 DEF Only, Fields
<1>8. d.agents = {} /\ d.tools = {} /\ d.grants = {} /\ d.links = {}
  BY <1>1 DEF RowsRight, References
<1>9. Subagents(z, e)
  BY <1>1, <1>7 DEF RowsRight, Subagents, Made, NameOf
<1>10. Ids(a, names) \subseteq DOMAIN d.subagents /\ "admin" \notin Ids(a, names)
       /\ Made(z) \subseteq DOMAIN d.subagents
  <2>1. Ids(a, names) = Ids(e, names)
    BY <1>7 DEF Ids, Named
  <2>2. names \subseteq FirstSubagents \cup {"devops"}
    BY DEF FirstSubagents
  <2> HIDE DEF names
  <2>3. QED
    BY <1>7, <1>9, <2>1, <2>2, IdsMade
<1> HIDE DEF names
<1>11. /\ DOMAIN e.tasks = DOMAIN d.tasks
       /\ \A u \in DOMAIN d.tasks : /\ DOMAIN e.tasks[u] = {"status", "agent"}
                                    /\ e.tasks[u].status = d.tasks[u].status
                                    /\ e.tasks[u].agent = u
  BY <1>6, <1>7 DEF RowsRight, Shape
<1>12. Shape(e)
  BY <1>7, <1>11 DEF RowsRight, Shape, Only, Fields
<1>13. References(z, e)
  <2>1. e.grants \subseteq (DOMAIN e.subagents) \X e.tools
    BY <1>4, <1>7, <1>8, <1>10
  <2>2. e.links \subseteq e.agents \X (DOMAIN e.subagents)
    BY <1>3, <1>7, <1>8
  <2>3. e.defaults = d.defaults /\ e.servers = d.servers /\ e.inProcess = d.inProcess
    BY <1>7 DEF Only, Fields
  <2>4. QED
    BY <1>1, <1>7, <2>1, <2>2, <2>3 DEF RowsRight, References
<1>14. Agents(z, e)
  BY <1>1, <1>3, <1>7, <1>8, <1>10 DEF Agents
<1>15. Tasks(z, e)
  BY <1>1, <1>3, <1>7, <1>11 DEF RowsRight, Tasks
<1>16. SameHand(d, e)
  <2>1. e.servers = d.servers
    BY <1>7 DEF Only, Fields
  <2>2. \A g \in e.grants : g[1] # "admin"
    BY <1>4, <1>7, <1>8, <1>10
  <2>3. QED
    BY <1>7, <1>8, <1>11, <2>1, <2>2 DEF SameHand
<1>17. QED
  BY <1>1, <1>2, <1>9, <1>12, <1>13, <1>14, <1>15, <1>16 DEF Does, RowsRight, Patterns

\* 0022devops adds devops to every agent, with its server mounted.
LEMMA Does0022 ==
    ASSUME NEW s, NEW z, Comes(s, "0022devops", z), NEW d, RowsRight(s, d)
    PROVE  Does(z, d, Data0022Devops(d))
<1> DEFINE a == Insert(d, {"devops"})
           b == [a EXCEPT !.servers = @ \cup {"clyde_github"}, !.inProcess = @ \cup {"clyde_github"}]
           c == Grant(b, {"devops"}, {"core"})
           g == Default(c, {"devops"}, {"clyde_github"})
           f == [g EXCEPT !.links = @ \cup (g.agents \X Ids(g, {"devops"}))]
           e == CopyDefaults(f, Ids(f, {"devops"}))
<1>1. /\ "0022devops" \notin s /\ "0028" \notin s /\ "0029" \notin s /\ "0031" \notin s
      /\ "0020" \in s /\ "0021" \in s
      /\ "0020" \in z /\ "0021" \in z /\ "0022devops" \in z /\ "0028" \notin z
      /\ "0029" \notin z /\ "0031" \notin z /\ Newest \notin z
  <2>1. "0021" \in z
    BY ComesIs, Earlier
  <2>2. "0020" \in z
    BY <2>1, ComesIs, Earlier
  <2>3. QED
    BY <2>1, <2>2, ComesIs, Earlier DEF Newest
<1>2. DOMAIN d = Fields /\ Data0022Devops(d) = e
  BY DEF Data0022Devops, RowsRight, Shape
<1>3. /\ DOMAIN a.subagents = DOMAIN d.subagents \cup {"devops"}
      /\ "devops" \notin DOMAIN d.subagents
      /\ \A x \in DOMAIN d.subagents : a.subagents[x] = d.subagents[x]
      /\ a.subagents["devops"] = NewSubagent("devops", SeedText)
  <2> DEFINE free == {m \in {"devops"} : Named(d, m) = {}}
             h == [n \in free |-> NewSubagent(n, SeedText)]
  <2>1. "devops" \notin DOMAIN d.subagents
    BY <1>1 DEF RowsRight, Subagents, Made, FirstSubagents
  <2>2. Named(d, "devops") = {}
    BY <1>1, NamedIs DEF RowsRight, Subagents, Made, NameOf, FirstSubagents
  <2>3. DOMAIN h = {"devops"} /\ h["devops"] = NewSubagent("devops", SeedText)
    BY <2>2
  <2>4. a.subagents = Joined(d.subagents, h)
    BY <1>2, InsertOnly
  <2> HIDE DEF h
  <2>5. /\ DOMAIN Joined(d.subagents, h) = (DOMAIN d.subagents) \cup (DOMAIN h)
        /\ \A x \in DOMAIN d.subagents : Joined(d.subagents, h)[x] = d.subagents[x]
        /\ \A x \in (DOMAIN h) \ (DOMAIN d.subagents) : Joined(d.subagents, h)[x] = h[x]
    BY JoinedIs
  <2>6. QED
    BY <2>1, <2>3, <2>4, <2>5
<1>4. Only(d, a, {"subagents"})
  BY <1>2, InsertOnly
<1> HIDE DEF a
<1>5. /\ Only(a, b, {"servers", "inProcess"}) /\ b.servers = a.servers \cup {"clyde_github"}
      /\ b.inProcess = a.inProcess \cup {"clyde_github"}
  BY <1>4 DEF Only, Fields
<1> HIDE DEF b
<1>6. Only(b, c, {"grants"}) /\ c.grants = b.grants \cup (Ids(b, {"devops"}) \X ({"core"} \cap b.tools))
  BY <1>5, OnlyFields, GrantOnly
<1> HIDE DEF c
<1>7. /\ Only(c, g, {"defaults"})
      /\ g.defaults = c.defaults \cup (Ids(c, {"devops"}) \X ({"clyde_github"} \cap c.servers))
  BY <1>6, OnlyFields, DefaultOnly
<1> HIDE DEF g
<1>8. Only(g, f, {"links"}) /\ f.links = g.links \cup (g.agents \X Ids(g, {"devops"}))
  BY <1>7 DEF Only, Fields
<1> HIDE DEF f
<1>9. /\ Only(f, e, {"mounts"})
      /\ \A l \in f.links, x \in f.defaults :
            l[2] \in Ids(f, {"devops"}) /\ x[1] = l[2] => <<l[1], l[2], x[2]>> \in e.mounts
  BY <1>8, OnlyFields, CopyOnly
<1> HIDE DEF e
<1>10. /\ DOMAIN e = Fields
       /\ e.tables = d.tables /\ e.cols = d.cols /\ e.enums = d.enums /\ e.blocks = d.blocks
       /\ e.subagents = a.subagents /\ b.subagents = a.subagents /\ c.subagents = a.subagents
       /\ g.subagents = a.subagents /\ f.subagents = a.subagents
       /\ e.tools = d.tools /\ b.tools = d.tools
       /\ e.grants = c.grants /\ b.grants = d.grants
       /\ e.servers = b.servers /\ a.servers = d.servers /\ c.servers = b.servers
       /\ e.inProcess = b.inProcess /\ a.inProcess = d.inProcess
       /\ e.defaults = g.defaults /\ c.defaults = d.defaults /\ f.defaults = g.defaults
       /\ e.patterns = d.patterns /\ e.agents = d.agents /\ g.agents = d.agents
       /\ e.links = f.links /\ g.links = d.links /\ e.tasks = d.tasks
  BY <1>4, <1>5, <1>6, <1>7, <1>8, <1>9 DEF Only, Fields
<1>11. Shape(e)
  BY <1>3, <1>10, RowShapes DEF RowsRight, Shape
<1>12. Subagents(z, e)
  <2>1. Made(z) = Made(s) \cup {"devops"} /\ \A x : NameOf(z, x) = x /\ NameOf(s, x) = x
    BY <1>1 DEF Made, NameOf
  <2>2. QED
    BY <1>1, <1>3, <1>10, <2>1, RowShapes DEF RowsRight, Subagents
<1>13. /\ Ids(b, {"devops"}) = {"devops"} /\ Ids(c, {"devops"}) = {"devops"}
       /\ Ids(g, {"devops"}) = {"devops"} /\ Ids(f, {"devops"}) = {"devops"}
  <2>1. Ids(e, {"devops"}) = {"devops"}
    BY <1>1, <1>12, IdsDevops
  <2>2. QED
    BY <1>10, <2>1 DEF Ids, Named
<1>14. References(z, e)
  <2>1. e.grants \subseteq (DOMAIN e.subagents) \X e.tools
    BY <1>3, <1>6, <1>10, <1>13 DEF RowsRight, References
  <2>2. e.links \subseteq e.agents \X (DOMAIN e.subagents)
    BY <1>3, <1>8, <1>10, <1>13 DEF RowsRight, References
  <2>3. e.defaults \subseteq (DOMAIN e.subagents) \X e.servers /\ <<"devops", "clyde_github">> \in e.defaults
    BY <1>3, <1>5, <1>7, <1>10, <1>13 DEF RowsRight, References
  <2>4. e.inProcess \subseteq {"clyde_github", "in_house"}
    BY <1>5, <1>10 DEF RowsRight, References
  <2>5. QED
    BY <1>1, <2>1, <2>2, <2>3, <2>4 DEF References
<1>15. Agents(z, e)
  <2>1. SUFFICES ASSUME NEW u \in e.agents
                 PROVE  {u} \X Made(z) \subseteq e.links /\ <<u, "devops", "clyde_github">> \in e.mounts
    BY DEF Agents
  <2>2. Made(z) = Made(s) \cup {"devops"}
    BY <1>1 DEF Made
  <2>3. {u} \X Made(s) \subseteq d.links
    BY <1>10 DEF RowsRight, Agents
  <2>4. <<u, "devops">> \in f.links
    BY <1>8, <1>10, <1>13
  <2>5. <<"devops", "clyde_github">> \in f.defaults
    BY <1>10, <1>14, <1>1 DEF References
  <2>6. <<u, "devops", "clyde_github">> \in e.mounts
    BY <1>9, <1>13, <2>4, <2>5
  <2>7. QED
    BY <1>8, <1>10, <2>2, <2>3, <2>4, <2>6
<1>16. Tasks(z, e)
  BY <1>1, <1>10 DEF RowsRight, Tasks
<1>17. SameHand(d, e)
  BY <1>3, <1>5, <1>6, <1>10, <1>13 DEF SameHand
<1>18. QED
  BY <1>1, <1>2, <1>11, <1>12, <1>14, <1>15, <1>16, <1>17 DEF Does, RowsRight, Patterns

\* Subagents that are only rewritten.
LEMMA SubagentsRewritten ==
    ASSUME NEW s, NEW z, Agree(s, z), NEW d, RowsRight(s, d), NEW e, NEW fs, Only(d, e, fs),
           DOMAIN e.subagents = DOMAIN d.subagents,
           \A x \in DOMAIN d.subagents :
               /\ DOMAIN e.subagents[x] = {"name", "text", "escalates"}
               /\ e.subagents[x].name = d.subagents[x].name
               /\ x = "admin" => e.subagents[x].text = d.subagents[x].text
    PROVE  Subagents(z, e)
<1>1. Made(s) = Made(z) /\ \A x : NameOf(s, x) = NameOf(z, x)
  BY DEF Made, NameOf, Agree, Marks
<1>2. Made(s) \subseteq DOMAIN d.subagents
  BY DEF RowsRight, Subagents
<1>3. QED
  BY <1>1, <1>2 DEF RowsRight, Subagents, Agree, Marks

\* 0026 and its downgrade set the escalation flag and nothing else.
LEMMA Escalation ==
    ASSUME NEW s, NEW z, Agree(s, z), NEW d, RowsRight(s, d), NEW on
    PROVE  Does(z, d, SetEscalation(d, on))
<1> DEFINE e == SetEscalation(d, on)
<1>1. Only(d, e, {"subagents"})
  BY SubagentsOnly DEF RowsRight, Shape
<1>2. e.subagents = [x \in DOMAIN d.subagents |-> [d.subagents[x] EXCEPT !.escalates = on]]
  BY DEF SetEscalation, RowsRight, Shape, Fields
<1> HIDE DEF e
<1>3. /\ DOMAIN e.subagents = DOMAIN d.subagents
      /\ \A x \in DOMAIN d.subagents :
               /\ DOMAIN e.subagents[x] = {"name", "text", "escalates"}
               /\ e.subagents[x].name = d.subagents[x].name
               /\ e.subagents[x].text = d.subagents[x].text
  BY <1>2 DEF RowsRight, Shape
<1>4. Subagents(z, e)
  BY <1>1, <1>3, SubagentsRewritten
<1>5. Agents(z, e) /\ Tasks(z, e) /\ Patterns(z, e)
  BY <1>1, Untouched
<1>6. References(z, e) /\ Shape(e)
  BY <1>1, <1>3 DEF RowsRight, References, Shape, Only, Fields, Agree, Marks
<1>7. SameHand(d, e)
  BY <1>1, <1>3 DEF SameHand, Only, Fields
<1>8. QED
  BY <1>4, <1>5, <1>6, <1>7 DEF Does, RowsRight, e

\* Prompts replaced by name are not the administrator's.
LEMMA Rewriting ==
    ASSUME NEW s, NEW z, Agree(s, z), NEW d, RowsRight(s, d), NEW text
    PROVE  Does(z, d, Rewrite(d, text))
<1> DEFINE e == Rewrite(d, text)
<1>1. Only(d, e, {"subagents"})
  BY SubagentsOnly DEF RowsRight, Shape
<1>2. e.subagents = [x \in DOMAIN d.subagents |->
                        IF d.subagents[x].name \in Rewritten
                        THEN NewSubagent(d.subagents[x].name, text) ELSE d.subagents[x]]
  BY DEF Rewrite, RowsRight, Shape, Fields
<1> HIDE DEF e
<1>3. "admin" \in DOMAIN d.subagents => d.subagents["admin"].name \notin Rewritten
  BY DEF RowsRight, Subagents, Rewritten
<1>4. /\ DOMAIN e.subagents = DOMAIN d.subagents
      /\ \A x \in DOMAIN d.subagents :
               /\ DOMAIN e.subagents[x] = {"name", "text", "escalates"}
               /\ e.subagents[x].name = d.subagents[x].name
               /\ x = "admin" => e.subagents[x].text = d.subagents[x].text
  BY <1>2, <1>3, RowShapes DEF RowsRight, Shape
<1>5. Subagents(z, e)
  BY <1>1, <1>4, SubagentsRewritten
<1>6. Agents(z, e) /\ Tasks(z, e) /\ Patterns(z, e)
  BY <1>1, Untouched
<1>7. References(z, e) /\ Shape(e)
  BY <1>1, <1>4 DEF RowsRight, References, Shape, Only, Fields, Agree, Marks
<1>8. SameHand(d, e)
  BY <1>1, <1>4 DEF SameHand, Only, Fields
<1>9. QED
  BY <1>5, <1>6, <1>7, <1>8 DEF Does, RowsRight, e

\* The steps that 0027 and its downgrade take, and those of 0028 and 0030.
LEMMA Granting ==
    ASSUME NEW s, NEW d, RowsRight(s, d),
           NEW names, names \subseteq FirstSubagents \cup {"devops"}, NEW tools
    PROVE  Does(s, d, Grant(d, names, tools))
<1> DEFINE e == Grant(d, names, tools)
<1>1. /\ Only(d, e, {"grants"})
      /\ e.grants = d.grants \cup (Ids(d, names) \X (tools \cap d.tools))
  BY GrantOnly DEF RowsRight, Shape
<1> HIDE DEF e
<1>2. Agree(s, s)
  BY DEF Agree
<1>3. Shape(e) /\ Subagents(s, e) /\ Agents(s, e) /\ Tasks(s, e) /\ Patterns(s, e)
  BY <1>1, <1>2, Untouched
<1>4. Ids(d, names) \subseteq DOMAIN d.subagents /\ "admin" \notin Ids(d, names)
  BY IdsMade DEF RowsRight
<1>5. References(s, e)
  BY <1>1, <1>4 DEF RowsRight, References, Only, Fields
<1>6. SameHand(d, e)
  BY <1>1, <1>4 DEF SameHand, Only, Fields
<1>7. QED
  BY <1>3, <1>5, <1>6 DEF Does, RowsRight, e

\* Default servers come and go; what 0022devops needs stays.
LEMMA Defaulting ==
    ASSUME NEW s, NEW d, RowsRight(s, d), NEW names, NEW servers
    PROVE  /\ Does(s, d, Default(d, names, servers))
           /\ "clyde_github" \notin servers => Does(s, d, Undefault(d, names, servers))
<1>1. ASSUME NEW e, Only(d, e, {"defaults"}), e.defaults \subseteq (DOMAIN d.subagents) \X d.servers,
             "0022devops" \in s => <<"devops", "clyde_github">> \in e.defaults
      PROVE  Does(s, d, e)
  <2>1. Agree(s, s)
    BY DEF Agree
  <2>2. Shape(e) /\ Subagents(s, e) /\ Agents(s, e) /\ Tasks(s, e) /\ Patterns(s, e)
    BY <1>1, <2>1, Untouched
  <2>3. References(s, e)
    BY <1>1 DEF RowsRight, References, Only, Fields
  <2>4. SameHand(d, e)
    BY <1>1, HandUntouched
  <2>5. QED
    BY <2>2, <2>3, <2>4 DEF Does, RowsRight
<1>2. /\ Only(d, Default(d, names, servers), {"defaults"})
      /\ Default(d, names, servers).defaults
           = d.defaults \cup (Ids(d, names) \X (servers \cap d.servers))
      /\ Only(d, Undefault(d, names, servers), {"defaults"})
      /\ Undefault(d, names, servers).defaults = d.defaults \ (Ids(d, names) \X servers)
  BY DefaultOnly DEF RowsRight, Shape
<1>3. Ids(d, names) \subseteq DOMAIN d.subagents
  BY DEF Ids, Named
<1>4. /\ d.defaults \subseteq (DOMAIN d.subagents) \X d.servers
      /\ "0022devops" \in s => <<"devops", "clyde_github">> \in d.defaults
  BY DEF RowsRight, References
<1>5. Does(s, d, Default(d, names, servers))
  <2> DEFINE e == Default(d, names, servers)
  <2>1. /\ Only(d, e, {"defaults"}) /\ e.defaults \subseteq (DOMAIN d.subagents) \X d.servers
        /\ "0022devops" \in s => <<"devops", "clyde_github">> \in e.defaults
    BY <1>2, <1>3, <1>4
  <2> HIDE DEF e
  <2>2. Does(s, d, e)
    BY <1>1, <2>1
  <2>3. QED
    BY <2>2 DEF e
<1>6. "clyde_github" \notin servers => Does(s, d, Undefault(d, names, servers))
  <2> DEFINE e == Undefault(d, names, servers)
  <2>1. SUFFICES ASSUME "clyde_github" \notin servers PROVE Does(s, d, e)
    OBVIOUS
  <2>2. /\ Only(d, e, {"defaults"}) /\ e.defaults \subseteq (DOMAIN d.subagents) \X d.servers
        /\ "0022devops" \in s => <<"devops", "clyde_github">> \in e.defaults
    BY <1>2, <1>4, <2>1
  <2> HIDE DEF e
  <2>3. QED
    BY <1>1, <2>2
<1>7. QED
  BY <1>5, <1>6

\* A row for a tool, from 0021 on.
LEMMA Tooled ==
    ASSUME NEW s, NEW z, \A q \in Marks \ {"0028"} : q \in s <=> q \in z, "0021" \in s,
           NEW d, RowsRight(s, d),
           NEW tool, "0028" \in z => "0028" \in s \/ tool = "mcp-memory"
    PROVE  Does(z, d, [d EXCEPT !.tools = @ \cup {tool}])
<1> DEFINE e == [d EXCEPT !.tools = @ \cup {tool}]
<1>1. Only(d, e, {"tools"}) /\ e.tools = d.tools \cup {tool}
  BY DEF Only, RowsRight, Shape, Fields
<1> HIDE DEF e
<1>2. Agree(s, s)
  BY DEF Agree
<1>3. Shape(e) /\ Subagents(s, e) /\ Agents(s, e) /\ Tasks(s, e) /\ Patterns(s, e)
  BY <1>1, <1>2, Untouched
<1>4. /\ "0020" \in s <=> "0020" \in z
      /\ "0021" \in s <=> "0021" \in z
      /\ "0022devops" \in s <=> "0022devops" \in z
      /\ "0029" \in s <=> "0029" \in z
      /\ "0031" \in s <=> "0031" \in z
      /\ Newest \in s <=> Newest \in z
  BY DEF Marks, Newest
<1>5. Made(s) = Made(z) /\ \A x : NameOf(s, x) = NameOf(z, x)
  BY <1>4 DEF Made, NameOf
<1>6. Subagents(z, e)
  BY <1>3, <1>4, <1>5 DEF Subagents
<1>7. Agents(z, e) /\ Tasks(z, e) /\ Patterns(z, e)
  BY <1>3, <1>4, <1>5 DEF Agents, Tasks, Patterns
<1>8. References(z, e)
  BY <1>1, <1>4 DEF RowsRight, References, Only, Fields
<1>9. SameHand(d, e)
  BY <1>1, HandUntouched
<1>10. QED
  BY <1>3, <1>6, <1>7, <1>8, <1>9 DEF Does, RowsRight, e

\* Two steps on the rows, one after the other.
LEMMA DoesTrans ==
    ASSUME NEW s, NEW z, NEW d, NEW e, NEW f, Does(s, d, e), Does(z, e, f)
    PROVE  Does(z, d, f)
BY HandTrans DEF Does

\* Undoing grants and tools.
LEMMA Ungranting ==
    ASSUME NEW s, NEW z, Agree(s, z), NEW d, RowsRight(s, d)
    PROVE  /\ RowsRight(z, [d EXCEPT !.grants = {g \in @ : g[2] # "mcp-memory"}])
           /\ RowsRight(z, DeleteTools(d, {"lang"}))
<1>1. ASSUME NEW e, Only(d, e, {"grants", "tools"}), e.grants \subseteq d.grants,
             e.tools \subseteq d.tools, d.tools \subseteq e.tools \cup {"lang"},
             \A g \in e.grants : g[2] \in e.tools
      PROVE  RowsRight(z, e)
  <2>1. Shape(e) /\ Subagents(z, e) /\ Agents(z, e) /\ Tasks(z, e) /\ Patterns(z, e)
    BY <1>1, Untouched
  <2>2. References(z, e)
    BY <1>1 DEF RowsRight, References, Only, Fields, Agree, Marks
  <2>3. QED
    BY <2>1, <2>2 DEF RowsRight
<1>2. RowsRight(z, [d EXCEPT !.grants = {g \in @ : g[2] # "mcp-memory"}])
  <2> DEFINE e == [d EXCEPT !.grants = {g \in @ : g[2] # "mcp-memory"}]
  <2>1. Only(d, e, {"grants", "tools"}) /\ e.grants = {g \in d.grants : g[2] # "mcp-memory"} /\ e.tools = d.tools
    BY DEF Only, RowsRight, Shape, Fields
  <2>2. d.grants \subseteq (DOMAIN d.subagents) \X d.tools
    BY DEF RowsRight, References
  <2> HIDE DEF e
  <2>3. QED
    BY <1>1, <2>1, <2>2 DEF e
<1>3. RowsRight(z, DeleteTools(d, {"lang"}))
  <2> DEFINE lang == {"lang"}
             e == DeleteTools(d, lang)
  <2> HIDE DEF lang
  <2> HIDE DEF e
  <2>0. DOMAIN d = Fields
    BY DEF RowsRight, Shape
  <2>1. /\ Only(d, e, {"tools", "grants"})
        /\ e.tools = d.tools \ lang
        /\ \A g : g \in e.grants <=> g \in d.grants /\ g[2] \notin lang
    BY <2>0, DeleteOnly DEF e
  <2>2. d.grants \subseteq (DOMAIN d.subagents) \X d.tools
    BY DEF RowsRight, References
  <2>3. /\ Only(d, e, {"grants", "tools"}) /\ e.grants \subseteq d.grants
        /\ e.tools \subseteq d.tools /\ d.tools \subseteq e.tools \cup {"lang"}
        /\ \A g \in e.grants : g[2] \in e.tools
    BY <2>1, <2>2, OnlyMore DEF lang
  <2>4. RowsRight(z, e)
    BY <1>1, <2>3
  <2>5. QED
    BY <2>4 DEF e, lang
<1>4. QED
  BY <1>2, <1>3

\* 0027 grants, takes away and rewrites in one order, and no reference is left without its row.
LEMMA Does0027 ==
    ASSUME NEW s, "0021" \in s, NEW d, RowsRight(s, d)
    PROVE  Does(s, d, Data0027(d))
<1> DEFINE o == [d EXCEPT !.tools = @ \cup {"lang"}]
           named == {"test-runner", "code-implementer", "devops"}
           a == Grant(o, named, {"lang"})
           b == Undefault(a, {"code-implementer"}, {"azure", "jira", "slack", "aws"})
           c == Default(b, {"manager"}, {"slack"})
           e == Default(c, {"devops", "repo-scanner"}, {"github"})
<1>1. Agree(s, s) /\ named \subseteq FirstSubagents \cup {"devops"}
  BY DEF Agree, FirstSubagents
<1>2. Data0027(d) = Rewrite(e, MultilangText)
  BY DEF Data0027, Tools0027
<1>3. Does(s, d, o)
  BY Tooled
<1> HIDE DEF o, named
<1>4. Does(s, o, a)
  BY <1>1, <1>3, Granting DEF Does
<1> HIDE DEF a
<1>5. Does(s, a, b)
  <2> DEFINE servers == {"azure", "jira", "slack", "aws"}
  <2>1. "clyde_github" \notin servers
    OBVIOUS
  <2> HIDE DEF servers
  <2>2. Does(s, a, Undefault(a, {"code-implementer"}, servers))
    BY <1>4, <2>1, Defaulting DEF Does
  <2>3. QED
    BY <2>2 DEF servers
<1> HIDE DEF b
<1>6. Does(s, b, c)
  BY <1>5, Defaulting DEF Does
<1> HIDE DEF c
<1>7. Does(s, c, e)
  BY <1>6, Defaulting DEF Does
<1> HIDE DEF e
<1>8. Does(s, e, Rewrite(e, MultilangText))
  BY <1>1, <1>7, Rewriting DEF Does
<1>9. QED
  BY <1>2, <1>3, <1>4, <1>5, <1>6, <1>7, <1>8, DoesTrans

\* Its downgrade does too.
LEMMA Undoes0027 ==
    ASSUME NEW s, NEW z, Agree(s, z), NEW d, RowsRight(s, d)
    PROVE  RowsRight(z, Undo0027(d))
<1> DEFINE a == Rewrite(d, SeedText)
           b == Undefault(a, {"repo-scanner", "devops"}, {"github"})
           c == Undefault(b, {"manager"}, {"slack"})
           e == Default(c, {"code-implementer"}, {"jira", "slack", "aws", "azure"})
<1>1. Agree(s, s)
  BY DEF Agree
<1>2. Undo0027(d) = DeleteTools(e, {"lang"})
  BY DEF Undo0027
<1>3. RowsRight(s, a)
  BY <1>1, Rewriting DEF Does
<1> HIDE DEF a
<1>4. RowsRight(s, b)
  <2> DEFINE servers == {"github"}
  <2>1. "clyde_github" \notin servers
    OBVIOUS
  <2> HIDE DEF servers
  <2>2. Does(s, a, Undefault(a, {"repo-scanner", "devops"}, servers))
    BY <1>3, <2>1, Defaulting
  <2>3. QED
    BY <2>2 DEF Does, servers
<1> HIDE DEF b
<1>5. RowsRight(s, c)
  <2> DEFINE servers == {"slack"}
  <2>1. "clyde_github" \notin servers
    OBVIOUS
  <2> HIDE DEF servers
  <2>2. Does(s, b, Undefault(b, {"manager"}, servers))
    BY <1>4, <2>1, Defaulting
  <2>3. QED
    BY <2>2 DEF Does, servers
<1> HIDE DEF c
<1>6. RowsRight(s, e)
  BY <1>5, Defaulting DEF Does
<1> HIDE DEF e
<1>7. QED
  BY <1>2, <1>6, Ungranting

\* 0028 makes the tool that memory needs.
LEMMA Does0028 ==
    ASSUME NEW s, NEW z, Comes(s, "0028", z), NEW d, RowsRight(s, d)
    PROVE  Does(z, d, Data0028(d))
<1>1. "0021" \in s
  <2>1. "0021" \in z
    BY ComesIs, Earlier
  <2>2. QED
    BY <2>1, ComesIs
<1>2. \A q \in Marks \ {"0028"} : q \in s <=> q \in z
  BY ComesIs
<1>3. Does(z, d, [d EXCEPT !.tools = @ \cup {"mcp-memory"}])
  BY <1>1, <1>2, Tooled
<1>4. QED
  BY <1>3 DEF Data0028

\* 0030 grants it to every subagent.
LEMMA Does0030 ==
    ASSUME NEW s, NEW z, Comes(s, "0030", z), NEW d, RowsRight(s, d)
    PROVE  Does(z, d, Data0030(d))
<1> DEFINE e == Data0030(d)
<1>1. Agree(s, z) /\ "0028" \in z /\ "0028" \in s
  <2>1. "0028" \in z
    BY ComesIs, Earlier
  <2>2. QED
    BY <2>1, ComesIs DEF Agree, Marks
<1>2. Only(d, e, {"grants"}) /\ e.grants = d.grants \cup ((DOMAIN d.subagents) \X {"mcp-memory"})
  BY DEF Only, Data0030, RowsRight, Shape, Fields
<1> HIDE DEF e
<1>3. Shape(e) /\ Subagents(z, e) /\ Agents(z, e) /\ Tasks(z, e) /\ Patterns(z, e)
  BY <1>1, <1>2, Untouched
<1>4. References(z, e)
  BY <1>1, <1>2 DEF RowsRight, References, Only, Fields, Agree, Marks
<1>5. SameHand(d, e)
  BY <1>2 DEF SameHand, Only, Fields
<1>6. QED
  BY <1>3, <1>4, <1>5 DEF Does, RowsRight, e

\* The rename of 0031, one way and the other.
LEMMA RenameIs ==
    ASSUME NEW d, Shape(d), NEW from, NEW to
    PROVE  LET e == RenameSubagent(d, from, to)
           IN  /\ Only(d, e, {"subagents", "patterns"}) /\ Shape(e)
               /\ DOMAIN e.subagents = DOMAIN d.subagents
               /\ \A x \in DOMAIN d.subagents :
                     /\ e.subagents[x].name = IF d.subagents[x].name = from THEN to
                                              ELSE d.subagents[x].name
                     /\ e.subagents[x].text = d.subagents[x].text
<1> DEFINE e == RenameSubagent(d, from, to)
<1>1. /\ Only(d, e, {"subagents", "patterns"})
      /\ e.subagents = [x \in DOMAIN d.subagents |->
            IF d.subagents[x].name = from THEN [d.subagents[x] EXCEPT !.name = to] ELSE d.subagents[x]]
      /\ e.patterns = {IF r.role = from THEN [r EXCEPT !.role = to] ELSE r : r \in d.patterns}
  BY DEF Only, RenameSubagent, Shape, Fields
<1> HIDE DEF e
<1>2. /\ DOMAIN e.subagents = DOMAIN d.subagents
      /\ \A x \in DOMAIN d.subagents :
            /\ DOMAIN e.subagents[x] = {"name", "text", "escalates"}
            /\ e.subagents[x].name = IF d.subagents[x].name = from THEN to ELSE d.subagents[x].name
            /\ e.subagents[x].text = d.subagents[x].text
  BY <1>1 DEF Shape
<1>3. \A r \in e.patterns : DOMAIN r = {"role", "seed", "pattern"}
  BY <1>1 DEF Shape
<1>4. Shape(e)
  BY <1>1, <1>2, <1>3 DEF Shape, Only, Fields
<1>5. QED
  BY <1>1, <1>2, <1>4 DEF e

\* 0031 renames the scanner, with the patterns of its role, if the name is free.
LEMMA Does0031 ==
    ASSUME NEW s, NEW z, Comes(s, "0031", z), NEW d, RowsRight(s, d),
           Named(d, "repo-scanner") # {} => Named(d, "code-auditor") = {}
    PROVE  Does(z, d, Data0031(d))
<1> DEFINE a == RenameSubagent(d, "repo-scanner", "code-auditor")
           Audit(x) == a.subagents[x].name = "code-auditor"
                       /\ a.subagents[x].text \in {SeedText, MultilangText}
           e == [a EXCEPT !.subagents = [x \in DOMAIN @ |->
                    IF @[x].name = "code-auditor" /\ @[x].text \in {SeedText, MultilangText}
                    THEN NewSubagent("code-auditor", "audit") ELSE @[x]]]
<1>1. /\ "0020" \in s /\ "0020" \in z /\ "0031" \notin s /\ "0031" \in z
      /\ Newest \notin z /\ "0037" \notin s
      /\ "0022devops" \in s /\ "0022devops" \in z /\ "0021" \in s /\ "0021" \in z
      /\ "0028" \in s /\ "0028" \in z /\ "0029" \in z
  <2>1. /\ "0020" \in z /\ "0021" \in z /\ "0022devops" \in z /\ "0028" \in z /\ "0029" \in z
    BY ComesIs, Earlier
  <2>2. QED
    BY <2>1, ComesIs, Earlier DEF Newest
<1>2. Data0031(d) = e
  BY DEF Data0031
<1>3. /\ Only(d, a, {"subagents", "patterns"}) /\ Shape(a)
      /\ DOMAIN a.subagents = DOMAIN d.subagents
      /\ \A x \in DOMAIN d.subagents :
            /\ a.subagents[x].name = IF d.subagents[x].name = "repo-scanner" THEN "code-auditor"
                                     ELSE d.subagents[x].name
            /\ a.subagents[x].text = d.subagents[x].text
  BY RenameIs DEF RowsRight
<1> HIDE DEF a
<1>4. /\ Only(a, e, {"subagents"})
      /\ e.subagents = [x \in DOMAIN a.subagents |->
            IF Audit(x) THEN NewSubagent("code-auditor", "audit") ELSE a.subagents[x]]
  BY <1>3 DEF Only, Shape, Fields
<1> HIDE DEF e, Audit
<1>5. /\ Made(s) = Made(z) /\ Made(s) \subseteq DOMAIN d.subagents
      /\ \A x : NameOf(s, x) = x /\ NameOf(z, x) = IF x = "repo-scanner" THEN "code-auditor" ELSE x
  BY <1>1 DEF Made, NameOf, RowsRight, Subagents
<1>6. "admin" \in DOMAIN d.subagents => d.subagents["admin"].name = "custom"
  <2>1. "repo-scanner" \in Named(d, "repo-scanner")
    BY <1>1, NamedIs DEF RowsRight, Made, NameOf, FirstSubagents
  <2>2. "admin" \notin Named(d, "code-auditor")
    BY <2>1
  <2>3. QED
    BY <1>1, <2>2 DEF Named, RowsRight, Subagents
<1>7. /\ DOMAIN e.subagents = DOMAIN d.subagents
      /\ \A x \in DOMAIN d.subagents :
            /\ DOMAIN e.subagents[x] = {"name", "text", "escalates"}
            /\ e.subagents[x].name = IF d.subagents[x].name = "repo-scanner" THEN "code-auditor"
                                     ELSE d.subagents[x].name
      /\ "admin" \in DOMAIN d.subagents =>
            e.subagents["admin"].text = d.subagents["admin"].text
  BY <1>3, <1>4, <1>6, RowShapes DEF Audit, Shape
<1>8. Subagents(z, e)
  <2>1. DOMAIN e.subagents \ {"admin"} = Made(z)
    BY <1>5, <1>7 DEF RowsRight, Subagents
  <2>2. ASSUME NEW x \in Made(z) PROVE e.subagents[x].name = NameOf(z, x)
    <3>1. d.subagents[x].name = x
      BY <1>5 DEF RowsRight, Subagents
    <3>2. QED
      BY <1>5, <1>7, <3>1
  <2>3. "admin" \in DOMAIN e.subagents =>
            e.subagents["admin"].text = "admin" /\ e.subagents["admin"].name = "custom"
    BY <1>6, <1>7 DEF RowsRight, Subagents
  <2>4. QED
    BY <1>1, <2>1, <2>2, <2>3 DEF Subagents
<1>9. /\ Only(d, e, {"subagents", "patterns"}) /\ e.patterns = a.patterns
      /\ e.grants = d.grants /\ e.defaults = d.defaults /\ e.links = d.links /\ e.tools = d.tools
      /\ e.agents = d.agents /\ e.servers = d.servers /\ e.inProcess = d.inProcess
      /\ e.mounts = d.mounts /\ e.tasks = d.tasks
  BY <1>3, <1>4 DEF Only, Fields
<1>10. Shape(e)
  BY <1>3, <1>7, <1>9 DEF RowsRight, Shape, Only, Fields
<1>11. References(z, e)
  BY <1>1, <1>7, <1>9 DEF RowsRight, References
<1>12. Agents(z, e)
  BY <1>1, <1>5, <1>9 DEF RowsRight, Agents
<1>13. Tasks(z, e)
  BY <1>1, <1>9 DEF RowsRight, Tasks
<1>14. SameHand(d, e)
  BY <1>6, <1>7, <1>9 DEF SameHand
<1>15. QED
  BY <1>1, <1>2, <1>8, <1>10, <1>11, <1>12, <1>13, <1>14 DEF Does, RowsRight, Patterns

\* What the operators on the patterns of roles do to the rows, one by one.
LEMMA PatternOps ==
    ASSUME NEW d, Shape(d), NEW roles, NEW p, NEW ps
    PROVE  /\ \A x : x \in AddPattern(d, roles, p).patterns <=>
                        x \in d.patterns \/ \E r \in Missing(d, roles, p) : x = Row(r, p)
           /\ \A x : x \in DropPatterns(d, ps).patterns <=> x \in d.patterns /\ x.pattern \notin ps
           /\ Shape(AddPattern(d, roles, p)) /\ Shape(DropPatterns(d, ps))
           /\ Shape(Relabel(d, ps, p)) /\ Shape(Deduplicate(d, p))
<1>1. AddPattern(d, roles, p).patterns
        = d.patterns \cup UNION {Rows(r, {p}) : r \in Missing(d, roles, p)}
  BY DEF AddPattern, Shape, Fields
<1>2. ASSUME NEW x
      PROVE  x \in AddPattern(d, roles, p).patterns <=>
               (x \in d.patterns \/ \E r \in Missing(d, roles, p) : x = Row(r, p))
  BY <1>1 DEF Rows
<1>3. \A x : x \in DropPatterns(d, ps).patterns <=> x \in d.patterns /\ x.pattern \notin ps
  BY DEF DropPatterns, Shape, Fields
<1>4. Relabel(d, ps, p).patterns
        = {IF r.pattern \in ps THEN [r EXCEPT !.pattern = p] ELSE r : r \in d.patterns}
  BY DEF Relabel, Shape, Fields
<1>5. Deduplicate(d, p).patterns \subseteq d.patterns
  BY DEF Deduplicate, Shape, Fields
<1>6. ASSUME NEW e, Only(d, e, {"patterns"}),
             \A r \in e.patterns : DOMAIN r = {"role", "seed", "pattern"}
      PROVE  Shape(e)
  BY <1>6 DEF Shape, Only, Fields
<1>7. \A r \in AddPattern(d, roles, p).patterns : DOMAIN r = {"role", "seed", "pattern"}
  BY <1>2 DEF Shape, Row
<1>8. \A r \in DropPatterns(d, ps).patterns : DOMAIN r = {"role", "seed", "pattern"}
  BY <1>3 DEF Shape
<1>9. \A r \in Relabel(d, ps, p).patterns : DOMAIN r = {"role", "seed", "pattern"}
  BY <1>4 DEF Shape
<1>10. \A r \in Deduplicate(d, p).patterns : DOMAIN r = {"role", "seed", "pattern"}
  BY <1>5 DEF Shape
<1>11. /\ Only(d, AddPattern(d, roles, p), {"patterns"}) /\ Only(d, DropPatterns(d, ps), {"patterns"})
       /\ Only(d, Relabel(d, ps, p), {"patterns"}) /\ Only(d, Deduplicate(d, p), {"patterns"})
  BY PatternsOnly DEF Shape
<1>12. QED
  BY <1>2, <1>3, <1>6, <1>7, <1>8, <1>9, <1>10, <1>11

\* AddPattern writes patterns of the right shape.
LEMMA PatternAddedTo ==
    ASSUME NEW d, Shape(d), NEW roles, NEW p
    PROVE  Only(d, AddPattern(d, roles, p), {"patterns"}) /\ Shape(AddPattern(d, roles, p))
<1>1. Only(d, AddPattern(d, roles, p), {"patterns"})
  BY PatternsOnly DEF Shape
<1>2. Shape(AddPattern(d, roles, p))
  BY PatternOps
<1>3. QED
  BY <1>1, <1>2

\* A role has at most one row with the pattern p.
OneAtMost(d, p) ==
    \A x, y \in d.patterns : x.pattern = p /\ y.pattern = p /\ x.role = y.role => x = y
Has(d, roles, p) == \A r \in roles : \E x \in d.patterns : x.role = r /\ x.pattern = p

\* After Deduplicate a role has at most one row with the pattern.
LEMMA Deduplicated ==
    ASSUME NEW d, Shape(d), NEW p
    PROVE  /\ OneAtMost(Deduplicate(d, p), p)
           /\ \A q : OneAtMost(d, q) => OneAtMost(Deduplicate(d, p), q)
<1> DEFINE One(role) == CHOOSE x \in d.patterns : x.pattern = p /\ x.role = role
           e == Deduplicate(d, p)
<1>1. e.patterns = {r \in d.patterns : r.pattern = p => r = One(r.role)}
  BY DEF Deduplicate, Shape, Fields
<1> HIDE DEF One, e
<1>2. OneAtMost(e, p)
  BY <1>1 DEF OneAtMost
<1>3. \A q : OneAtMost(d, q) => OneAtMost(e, q)
  BY <1>1 DEF OneAtMost
<1>4. QED
  BY <1>2, <1>3 DEF e

\* AddPattern gives each role the pattern and duplicates no other.
LEMMA PatternAdded ==
    ASSUME NEW d, Shape(d), NEW roles, NEW p
    PROVE  /\ Has(AddPattern(d, roles, p), roles, p)
           /\ \A q : OneAtMost(d, q) => OneAtMost(AddPattern(d, roles, p), q)
           /\ \A q : Has(d, roles, q) => Has(AddPattern(d, roles, p), roles, q)
<1> DEFINE e == AddPattern(d, roles, p)
<1>1. \A x : x \in e.patterns <=>
                (x \in d.patterns \/ \E r \in Missing(d, roles, p) : x = Row(r, p))
  BY PatternOps
<1>2. \A r : Row(r, p).role = r /\ Row(r, p).pattern = p
  BY DEF Row
<1>3. \A r : r \in Missing(d, roles, p) <=>
               r \in roles /\ ~ \E x \in d.patterns : x.role = r /\ x.pattern = p
  BY DEF Missing
<1> HIDE DEF e
<1>4. ASSUME NEW r \in roles PROVE \E x \in e.patterns : x.role = r /\ x.pattern = p
  <2>1. CASE r \in Missing(d, roles, p)
    <3>1. Row(r, p) \in e.patterns
      BY <1>1, <2>1
    <3>2. QED
      BY <1>2, <3>1
  <2>2. CASE r \notin Missing(d, roles, p)
    BY <1>1, <1>3, <2>2
  <2>3. QED
    BY <2>1, <2>2
<1>5. ASSUME NEW q, OneAtMost(d, q),
             NEW x \in e.patterns, NEW y \in e.patterns,
             x.pattern = q, y.pattern = q, x.role = y.role
      PROVE  x = y
  <2>1. CASE x \in d.patterns /\ y \in d.patterns
    BY <1>5, <2>1 DEF OneAtMost
  <2>2. CASE x \notin d.patterns /\ y \notin d.patterns
    <3>1. PICK r \in Missing(d, roles, p) : x = Row(r, p)
      BY <1>1, <1>5, <2>2
    <3>2. PICK t \in Missing(d, roles, p) : y = Row(t, p)
      BY <1>1, <1>5, <2>2
    <3>3. QED
      BY <1>2, <1>5, <3>1, <3>2
  <2>3. CASE x \in d.patterns /\ y \notin d.patterns
    <3>1. PICK r \in Missing(d, roles, p) : y = Row(r, p)
      BY <1>1, <1>5, <2>3
    <3>2. QED
      BY <1>2, <1>3, <1>5, <2>3, <3>1
  <2>4. CASE x \notin d.patterns /\ y \in d.patterns
    <3>1. PICK r \in Missing(d, roles, p) : x = Row(r, p)
      BY <1>1, <1>5, <2>4
    <3>2. QED
      BY <1>2, <1>3, <1>5, <2>4, <3>1
  <2>5. QED
    BY <2>1, <2>2, <2>3, <2>4
<1>6. \A q : Has(d, roles, q) => Has(e, roles, q)
  BY <1>1 DEF Has
<1>7. QED
  BY <1>4, <1>5, <1>6 DEF Has, OneAtMost, e

\* A step of patterns alone.
LEMMA PatternsTouched ==
    ASSUME NEW s, NEW z, \A q \in Marks \ {"0037"} : q \in s <=> q \in z,
           NEW d, RowsRight(s, d), NEW e, Only(d, e, {"patterns"}), Shape(e), Patterns(z, e)
    PROVE  Does(z, d, e)
<1>1. Agree(s, s)
  BY DEF Agree
<1>2. Subagents(s, e) /\ References(s, e) /\ Agents(s, e) /\ Tasks(s, e)
  BY <1>1, Untouched
<1>3. /\ "0020" \in s <=> "0020" \in z
      /\ "0021" \in s <=> "0021" \in z
      /\ "0022devops" \in s <=> "0022devops" \in z
      /\ "0028" \in s <=> "0028" \in z
      /\ "0029" \in s <=> "0029" \in z
      /\ "0031" \in s <=> "0031" \in z
  BY DEF Marks
<1>4. Made(s) = Made(z) /\ \A x : NameOf(s, x) = NameOf(z, x)
  BY <1>3 DEF Made, NameOf
<1>5. Subagents(z, e)
  BY <1>2, <1>3, <1>4 DEF Subagents
<1>6. References(z, e)
  BY <1>2, <1>3 DEF References
<1>7. Agents(z, e) /\ Tasks(z, e)
  BY <1>2, <1>3, <1>4 DEF Agents, Tasks
<1>8. SameHand(d, e)
  BY HandUntouched
<1>9. QED
  BY <1>5, <1>6, <1>7, <1>8 DEF Does, RowsRight

\* 0034 adds the two Google servers and the patterns of their roles.
LEMMA Does0034 ==
    ASSUME NEW s, NEW z, Comes(s, "0034", z), NEW d, RowsRight(s, d)
    PROVE  Does(z, d, Data0034(d))
<1> DEFINE a == [d EXCEPT !.servers = @ \cup {"google_gmail", "google_calendar"}]
           b == AddPattern(a, GoogleRoles, "google_gmail")
           e == AddPattern(b, GoogleRoles, "google_calendar")
<1>1. Agree(s, z) /\ Newest \notin s /\ Newest \notin z
  BY ComesIs, Earlier DEF Agree, Marks, Newest
<1>2. Data0034(d) = e
  BY DEF Data0034
<1>3. Only(d, a, {"servers"}) /\ a.servers = d.servers \cup {"google_gmail", "google_calendar"}
  BY DEF Only, RowsRight, Shape, Fields
<1> HIDE DEF a
<1>4. Shape(a) /\ Subagents(z, a) /\ Agents(z, a) /\ Tasks(z, a) /\ Patterns(z, a)
  BY <1>1, <1>3, Untouched
<1>5. References(z, a)
  BY <1>1, <1>3 DEF RowsRight, References, Only, Fields, Agree, Marks
<1>6. SameHand(d, a)
  BY <1>3 DEF SameHand, Only, Fields
<1>7. RowsRight(z, a) /\ Does(z, d, a)
  BY <1>4, <1>5, <1>6 DEF RowsRight, Does
<1>8. Only(a, b, {"patterns"}) /\ Shape(b)
  BY <1>4, PatternAddedTo
<1> HIDE DEF b
<1>9. Does(z, a, b)
  BY <1>1, <1>7, <1>8, PatternsTouched DEF Patterns
<1>10. Only(b, e, {"patterns"}) /\ Shape(e)
  BY <1>8, PatternAddedTo
<1> HIDE DEF e
<1>11. Does(z, b, e)
  BY <1>1, <1>9, <1>10, PatternsTouched DEF Patterns, Does
<1>12. QED
  BY <1>2, <1>7, <1>9, <1>11, DoesTrans

\* 0036 adds the pattern of the in-process Google server.
LEMMA Does0036 ==
    ASSUME NEW s, NEW z, Comes(s, "0036", z), NEW d, RowsRight(s, d)
    PROVE  Does(z, d, Data0036(d))
<1> DEFINE e == AddPattern(d, GoogleRoles, "clyde_google")
<1>1. Agree(s, z) /\ Newest \notin z
  BY ComesIs, Earlier DEF Agree, Marks, Newest
<1>2. Only(d, e, {"patterns"}) /\ Shape(e)
  BY PatternAddedTo DEF RowsRight
<1> HIDE DEF e
<1>3. Does(z, d, e)
  BY <1>1, <1>2, PatternsTouched DEF Patterns, Agree
<1>4. QED
  BY <1>3 DEF Data0036, e

\* 0037 leaves every role one row for each in-process server, also where an administrator had
\* made the row it renames to.
LEMMA Does0037 ==
    ASSUME NEW s, NEW z, Comes(s, "0037", z), NEW d, RowsRight(s, d)
    PROVE  Does(z, d, Data0037(d))
<1> DEFINE l == Relabel(d, {"clyde_azure"}, "azure")
           m == Relabel(l, {"clyde_google", "google_gmail", "google_calendar"}, "google")
           n == Deduplicate(m, "azure")
           o == Deduplicate(n, "google")
           q == AddPattern(o, GoogleRoles, "azure")
           e == AddPattern(q, GoogleRoles, "google")
<1>1. \A r \in Marks \ {"0037"} : r \in s <=> r \in z
  BY ComesIs
<1>2. Data0037(d) = e
  BY DEF Data0037
<1>3. Only(d, e, {"patterns"})
  BY <1>2, OnlyPatterns DEF RowsRight, Shape
<1>4. Shape(d)
  BY DEF RowsRight
<1>5. Shape(l)
  BY <1>4, PatternOps
<1> HIDE DEF l
<1>6. Shape(m)
  BY <1>5, PatternOps
<1> HIDE DEF m
<1>7. Shape(n) /\ OneAtMost(n, "azure")
  BY <1>6, PatternOps, Deduplicated
<1> HIDE DEF n
<1>8. Shape(o) /\ OneAtMost(o, "google") /\ OneAtMost(o, "azure")
  BY <1>7, PatternOps, Deduplicated
<1> HIDE DEF o
<1>9. Shape(q) /\ OneAtMost(q, "google") /\ OneAtMost(q, "azure") /\ Has(q, GoogleRoles, "azure")
  BY <1>8, PatternOps, PatternAdded
<1> HIDE DEF q
<1>10. /\ Shape(e) /\ OneAtMost(e, "google") /\ OneAtMost(e, "azure")
       /\ Has(e, GoogleRoles, "azure") /\ Has(e, GoogleRoles, "google")
  BY <1>9, PatternOps, PatternAdded
<1> HIDE DEF e
<1>11. Patterns(z, e)
  <2>1. SUFFICES ASSUME NEW role \in GoogleRoles, NEW p \in {"azure", "google"}
                 PROVE  Cardinality({r \in e.patterns : r.role = role /\ r.pattern = p}) = 1
    BY DEF Patterns
  <2>2. PICK x \in e.patterns : x.role = role /\ x.pattern = p
    BY <1>10 DEF Has
  <2>3. {r \in e.patterns : r.role = role /\ r.pattern = p} = {x}
    BY <1>10, <2>2 DEF OneAtMost
  <2>4. QED
    BY <2>3, FS_Singleton
<1>12. Does(z, d, e)
  BY <1>1, <1>3, <1>10, <1>11, PatternsTouched
<1>13. QED
  BY <1>2, <1>12

\* The revisions that touch no rows of the catalogue.
LEMMA DoesNothing ==
    ASSUME NEW s, NEW z, NEW r, Comes(s, r, z), r \notin Marks \/ r = "0029",
           NEW d, RowsRight(s, d), NEW e, Only(d, e, {"tables", "cols", "enums", "blocks"})
    PROVE  Does(z, d, e)
<1>1. SameHand(d, e)
  BY HandUntouched
<1>2. CASE r \notin Marks
  <2>1. Agree(s, z)
    BY <1>2, ComesIs DEF Agree
  <2>2. RowsRight(z, e)
    BY <2>1, Untouched DEF RowsRight
  <2>3. QED
    BY <1>1, <2>2 DEF Does
<1>3. CASE r = "0029"
  <2>1. Agree(s, s)
    BY DEF Agree
  <2>2. RowsRight(s, e)
    BY <2>1, Untouched DEF RowsRight
  <2>3. /\ "0020" \in s <=> "0020" \in z
        /\ "0021" \in s <=> "0021" \in z
        /\ "0022devops" \in s <=> "0022devops" \in z
        /\ "0028" \in s <=> "0028" \in z
        /\ "0031" \in s <=> "0031" \in z
        /\ Newest \in s <=> Newest \in z
        /\ "0029" \in z
    BY <1>3, ComesIs DEF Newest
  <2>4. Made(s) = Made(z) /\ \A x : NameOf(s, x) = NameOf(z, x)
    BY <2>3 DEF Made, NameOf
  <2>5. Subagents(z, e)
    BY <2>2, <2>3, <2>4 DEF RowsRight, Subagents
  <2>6. References(z, e)
    BY <2>2, <2>3 DEF RowsRight, References
  <2>7. Agents(z, e) /\ Tasks(z, e) /\ Patterns(z, e)
    BY <2>2, <2>3, <2>4 DEF RowsRight, Agents, Tasks, Patterns
  <2>8. QED
    BY <1>1, <2>2, <2>5, <2>6, <2>7 DEF Does, RowsRight
<1>4. QED
  BY <1>2, <1>3

\* An upgrade that works leaves the rows right, and what was made by hand as it was.
LEMMA RowsUpRight ==
    ASSUME NEW s, NEW r \in Revs, NEW z, Comes(s, r, z), NEW d, RowsRight(s, d),
           (r = "0031" /\ Named(d, "repo-scanner") # {}) => Named(d, "code-auditor") = {}
    PROVE  Does(z, d, Upgraded(r, d))
<1> DEFINE e == SchemaUp(d, Revision[r])
           f == RowsUp(r, e)
<1>1. Only(d, e, {"tables", "cols", "enums", "blocks"})
  BY SchemaUpIs DEF RowsRight, Shape
<1>2. Upgraded(r, d) = f
  BY DEF Upgraded
<1> HIDE DEF e
<1>3. RowsRight(s, e)
  <2>1. Agree(s, s)
    BY DEF Agree
  <2>2. QED
    BY <1>1, <2>1, Untouched DEF RowsRight
<1>4. SameHand(d, e)
  BY <1>1, HandUntouched
<1>5. \A n : Named(e, n) = Named(d, n)
  BY <1>1 DEF Named, Only, Fields
<1>6. Does(z, e, f)
  <2>1. CASE r = "0018"
    BY <1>3, <2>1, Does0018 DEF RowsUp
  <2>2. CASE r = "0020"
    BY <1>3, <2>2, Does0020 DEF RowsUp
  <2>3. CASE r = "0021"
    BY <1>3, <2>3, Does0021 DEF RowsUp
  <2>4. CASE r = "0022devops"
    BY <1>3, <2>4, Does0022 DEF RowsUp
  <2>5. CASE r = "0026"
    <3>1. Agree(s, z)
      BY <2>5, ComesIs DEF Agree, Marks
    <3>2. f = SetEscalation(e, TRUE)
      BY <2>5 DEF RowsUp, Data0026
    <3> HIDE DEF f
    <3>3. QED
      BY <1>3, <3>1, <3>2, Escalation
  <2>6. CASE r = "0027"
    <3>1. Agree(s, z) /\ "0021" \in z
      BY <2>6, ComesIs, Earlier DEF Agree, Marks
    <3>2. "0021" \in s
      BY <2>6, <3>1, ComesIs
    <3>3. f = Data0027(e)
      BY <2>6 DEF RowsUp
    <3> HIDE DEF f
    <3>4. Does(s, e, f)
      BY <1>3, <3>2, <3>3, Does0027
    <3>5. Only(f, f, {})
      BY <3>4 DEF Only, Does, RowsRight, Shape
    <3>6. RowsRight(z, f)
      BY <3>1, <3>4, <3>5, Untouched DEF Does, RowsRight
    <3>7. QED
      BY <3>4, <3>6 DEF Does
  <2>7. CASE r = "0028"
    BY <1>3, <2>7, Does0028 DEF RowsUp
  <2>8. CASE r = "0030"
    BY <1>3, <2>8, Does0030 DEF RowsUp
  <2>9. CASE r = "0031"
    BY <1>3, <1>5, <2>9, Does0031 DEF RowsUp
  <2>10. CASE r = "0034"
    BY <1>3, <2>10, Does0034 DEF RowsUp
  <2>11. CASE r = "0036"
    BY <1>3, <2>11, Does0036 DEF RowsUp
  <2>12. CASE r = "0037"
    BY <1>3, <2>12, Does0037 DEF RowsUp
  <2>13. CASE r \notin {"0018", "0020", "0021", "0022devops", "0026", "0027", "0028", "0030",
                        "0031", "0034", "0036", "0037"}
    <3>1. r \notin Marks \/ r = "0029"
      BY <2>13 DEF Marks
    <3>2. Only(e, f, UpFields(r))
      BY <1>1, OnlyFields, RowsUpOnly
    <3>3. UpFields(r) \subseteq {"tables", "cols", "enums", "blocks"}
      BY <2>13 DEF UpFields
    <3>4. Only(e, f, {"tables", "cols", "enums", "blocks"})
      BY <3>2, <3>3, OnlyMore
    <3>5. QED
      BY <1>3, <3>1, <3>4, DoesNothing
  <2>14. QED
    BY <2>1, <2>2, <2>3, <2>4, <2>5, <2>6, <2>7, <2>8, <2>9, <2>10, <2>11, <2>12, <2>13
<1>7. QED
  BY <1>2, <1>4, <1>6, HandTrans DEF Does

-----------------------------------------------------------------------------
(* The way down.                                                           *)

\* z is s without its head r.
Goes(s, r, z) == Closed(s) /\ Closed(z) /\ r \in s /\ z = s \ {r}

\* What it says of two sets that one has a revision less.
LEMMA GoesIs ==
    ASSUME NEW s, NEW r, NEW z, Goes(s, r, z)
    PROVE  Closed(s) /\ Closed(z) /\ r \in s /\ r \notin z /\ \A q : q # r => (q \in s <=> q \in z)
BY DEF Goes

\* The downgrade of 0022devops deletes its subagent with all that refers to it.
LEMMA Undoes0022 ==
    ASSUME NEW s, NEW z, Goes(s, "0022devops", z), NEW d, RowsRight(s, d),
           d.inProcess \subseteq {"clyde_github"}
    PROVE  RowsRight(z, Undo0022Devops(d))
<1> DEFINE server == {"clyde_github"}
           ids == Ids(d, {"devops"})
           a == DeleteServers(d, server)
           e == DeleteSubagents(a, ids)
<1>1. /\ "0022devops" \in s /\ "0022devops" \notin z /\ "0020" \in z /\ "0020" \in s
      /\ "0021" \in s /\ "0021" \in z /\ "0028" \notin z /\ "0029" \notin z /\ "0029" \notin s
      /\ "0031" \notin s /\ "0031" \notin z /\ Newest \notin z
  <2>1. "0021" \in s /\ "0020" \in s
    BY GoesIs, Earlier
  <2>2. "0029" \notin z /\ "0028" \notin z /\ "0031" \notin z /\ "0037" \notin z
    BY GoesIs, Earlier
  <2>3. QED
    BY <2>1, <2>2, GoesIs DEF Newest
<1>2. Undo0022Devops(d) = e
  BY DEF Undo0022Devops
<1>3. ids = {"devops"}
  BY <1>1, IdsDevops DEF RowsRight
<1>4. DOMAIN d = Fields
  BY DEF RowsRight, Shape
<1> HIDE DEF server, ids
<1>5. /\ Only(d, a, {"servers", "inProcess", "defaults", "mounts"})
      /\ a.servers = d.servers \ server
      /\ a.inProcess = d.inProcess \ server
      /\ \A f : f \in a.defaults <=> f \in d.defaults /\ f[2] \notin server
  BY <1>4, DeleteOnly
<1> HIDE DEF a
<1>6. /\ Only(a, e, {"subagents", "grants", "defaults", "links", "mounts"})
      /\ DOMAIN e.subagents = DOMAIN a.subagents \ ids
      /\ \A x \in DOMAIN a.subagents \ ids : e.subagents[x] = a.subagents[x]
      /\ \A g : g \in e.grants <=> g \in a.grants /\ g[1] \notin ids
      /\ \A f : f \in e.defaults <=> f \in a.defaults /\ f[1] \notin ids
      /\ \A l : l \in e.links <=> l \in a.links /\ l[2] \notin ids
  BY <1>5, OnlyFields, DeleteOnly
<1> HIDE DEF e
<1>7. /\ DOMAIN e = Fields /\ e.patterns = d.patterns /\ e.tasks = d.tasks
      /\ a.subagents = d.subagents /\ a.grants = d.grants /\ a.links = d.links
      /\ e.servers = a.servers /\ e.inProcess = a.inProcess /\ e.agents = d.agents
      /\ e.tools = d.tools
  BY <1>5, <1>6 DEF Only, Fields
<1>8. Shape(e)
  BY <1>6, <1>7 DEF RowsRight, Shape
<1>9. /\ Made(s) = Made(z) \cup {"devops"} /\ "devops" \notin Made(z)
      /\ \A x : NameOf(z, x) = x /\ NameOf(s, x) = x
  BY <1>1 DEF Made, NameOf, FirstSubagents
<1>10. Subagents(z, e)
  <2>1. \A x \in Made(z) : x \in DOMAIN a.subagents \ ids
    BY <1>3, <1>7, <1>9 DEF RowsRight, Subagents
  <2>2. DOMAIN e.subagents \ {"admin"} = Made(z)
    BY <1>3, <1>6, <1>7, <1>9 DEF RowsRight, Subagents
  <2>3. \A x \in Made(z) : e.subagents[x].name = NameOf(z, x)
    BY <1>6, <1>7, <1>9, <2>1 DEF RowsRight, Subagents
  <2>4. QED
    BY <1>1, <1>3, <1>6, <1>7, <2>2, <2>3 DEF RowsRight, Subagents
<1>11. References(z, e)
  <2>1. e.grants \subseteq (DOMAIN e.subagents) \X e.tools
    BY <1>6, <1>7 DEF RowsRight, References
  <2>2. e.defaults \subseteq (DOMAIN e.subagents) \X e.servers
    BY <1>5, <1>6, <1>7 DEF RowsRight, References
  <2>3. e.links \subseteq e.agents \X (DOMAIN e.subagents)
    BY <1>6, <1>7 DEF RowsRight, References
  <2>4. e.inProcess \subseteq {"clyde_github", "in_house"}
    BY <1>5, <1>7
  <2>5. QED
    BY <1>1, <2>1, <2>2, <2>3, <2>4 DEF References
<1>12. Agents(z, e)
  <2>1. SUFFICES ASSUME NEW u \in e.agents, NEW x \in Made(z) PROVE <<u, x>> \in e.links
    BY <1>1 DEF Agents
  <2>2. <<u, x>> \in d.links
    BY <1>7, <1>9 DEF RowsRight, Agents
  <2>3. QED
    BY <1>3, <1>6, <1>7, <1>9, <2>2
<1>13. Tasks(z, e)
  BY <1>1, <1>7 DEF RowsRight, Tasks
<1>14. QED
  BY <1>1, <1>2, <1>8, <1>10, <1>11, <1>12, <1>13 DEF RowsRight, Patterns

\* The downgrade of 0028 leaves its tool, which nothing before 0028 forbids.
LEMMA Undoes0028 ==
    ASSUME NEW s, NEW z, Goes(s, "0028", z), NEW d, RowsRight(s, d)
    PROVE  RowsRight(z, d)
<1>1. /\ "0020" \in s <=> "0020" \in z
      /\ "0021" \in s <=> "0021" \in z
      /\ "0022devops" \in s <=> "0022devops" \in z
      /\ "0029" \in s <=> "0029" \in z
      /\ "0031" \in s <=> "0031" \in z
      /\ Newest \in s <=> Newest \in z
      /\ "0028" \notin z
  BY GoesIs DEF Newest
<1>2. Made(s) = Made(z) /\ \A x : NameOf(s, x) = NameOf(z, x)
  BY <1>1 DEF Made, NameOf
<1>3. Subagents(z, d)
  BY <1>1, <1>2 DEF RowsRight, Subagents
<1>4. References(z, d)
  BY <1>1 DEF RowsRight, References
<1>5. Agents(z, d) /\ Tasks(z, d) /\ Patterns(z, d)
  BY <1>1, <1>2 DEF RowsRight, Agents, Tasks, Patterns
<1>6. QED
  BY <1>3, <1>4, <1>5 DEF RowsRight

\* The downgrade of 0029 takes the new statuses from the tasks before it drops the values.
LEMMA Undoes0029 ==
    ASSUME NEW s, NEW z, Goes(s, "0029", z), NEW d, RowsRight(s, d)
    PROVE  RowsRight(z, Undo0029(d))
<1> DEFINE e == Undo0029(d)
<1>1. Only(d, e, {"tasks"})
  BY OnlySmall DEF RowsRight, Shape
<1>2. e.tasks = [u \in DOMAIN d.tasks |->
                   IF d.tasks[u].status \in NewStatuses THEN [d.tasks[u] EXCEPT !.status = "failed"]
                   ELSE d.tasks[u]]
  BY DEF Undo0029, RowsRight, Shape, Fields
<1> HIDE DEF e
<1>3. /\ DOMAIN e.tasks = DOMAIN d.tasks
      /\ \A u \in DOMAIN d.tasks : /\ DOMAIN e.tasks[u] = {"status", "agent"}
                                   /\ e.tasks[u].status \notin NewStatuses
                                   /\ e.tasks[u].agent = d.tasks[u].agent
  BY <1>2 DEF RowsRight, Shape, NewStatuses
<1>4. /\ "0020" \in s <=> "0020" \in z
      /\ "0021" \in s <=> "0021" \in z
      /\ "0022devops" \in s <=> "0022devops" \in z
      /\ "0028" \in s <=> "0028" \in z
      /\ "0031" \in s <=> "0031" \in z
      /\ Newest \in s <=> Newest \in z
  BY GoesIs DEF Newest
<1>5. Made(s) = Made(z) /\ \A x : NameOf(s, x) = NameOf(z, x)
  BY <1>4 DEF Made, NameOf
<1>6. Agree(s, s)
  BY DEF Agree
<1>7. Subagents(s, e) /\ References(s, e) /\ Agents(s, e) /\ Patterns(s, e)
  BY <1>1, <1>6, Untouched
<1>8. Subagents(z, e)
  BY <1>4, <1>5, <1>7 DEF Subagents
<1>9. References(z, e)
  BY <1>4, <1>7 DEF References
<1>10. Agents(z, e) /\ Patterns(z, e)
  BY <1>4, <1>5, <1>7 DEF Agents, Patterns
<1>11. Tasks(z, e)
  BY <1>1, <1>3, <1>4 DEF RowsRight, Tasks, Only, Fields
<1>12. Shape(e)
  BY <1>1, <1>3 DEF RowsRight, Shape, Only, Fields
<1>13. QED
  BY <1>8, <1>9, <1>10, <1>11, <1>12 DEF RowsRight, e

\* The downgrade of 0031 renames the scanner back.
LEMMA Undoes0031 ==
    ASSUME NEW s, NEW z, Goes(s, "0031", z), NEW d, RowsRight(s, d)
    PROVE  RowsRight(z, Undo0031(d))
<1> DEFINE e == RenameSubagent(d, "code-auditor", "repo-scanner")
<1>1. /\ "0031" \in s /\ "0031" \notin z /\ "0020" \in s /\ "0020" \in z
      /\ "0021" \in s /\ "0021" \in z /\ "0022devops" \in s /\ "0022devops" \in z
      /\ "0028" \in s /\ "0028" \in z /\ "0029" \in s /\ "0029" \in z
      /\ Newest \notin z
  <2>1. "0020" \in s /\ "0021" \in s /\ "0022devops" \in s /\ "0028" \in s /\ "0029" \in s
    BY GoesIs, Earlier
  <2>2. "0037" \notin z
    BY GoesIs, Earlier
  <2>3. QED
    BY <2>1, <2>2, GoesIs DEF Newest
<1>2. /\ Only(d, e, {"subagents", "patterns"}) /\ Shape(e)
      /\ DOMAIN e.subagents = DOMAIN d.subagents
      /\ \A x \in DOMAIN d.subagents :
            /\ e.subagents[x].name = IF d.subagents[x].name = "code-auditor" THEN "repo-scanner"
                                     ELSE d.subagents[x].name
            /\ e.subagents[x].text = d.subagents[x].text
  BY RenameIs DEF RowsRight
<1> HIDE DEF e
<1>3. /\ Made(s) = Made(z) /\ Made(s) \subseteq DOMAIN d.subagents /\ "code-auditor" \notin Made(s)
      /\ \A x : NameOf(z, x) = x /\ NameOf(s, x) = IF x = "repo-scanner" THEN "code-auditor" ELSE x
  BY <1>1 DEF Made, NameOf, RowsRight, Subagents, FirstSubagents
<1>4. Subagents(z, e)
  <2>1. DOMAIN e.subagents \ {"admin"} = Made(z)
    BY <1>2, <1>3 DEF RowsRight, Subagents
  <2>2. ASSUME NEW x \in Made(z) PROVE e.subagents[x].name = NameOf(z, x)
    <3>1. d.subagents[x].name = NameOf(s, x) /\ x \in DOMAIN d.subagents /\ x # "code-auditor"
      BY <1>3 DEF RowsRight, Subagents
    <3>2. QED
      BY <1>2, <1>3, <3>1
  <2>3. "admin" \in DOMAIN e.subagents =>
            e.subagents["admin"].text = "admin" /\ e.subagents["admin"].name = "custom"
    BY <1>1, <1>2 DEF RowsRight, Subagents
  <2>4. QED
    BY <1>1, <2>1, <2>2, <2>3 DEF Subagents
<1>5. /\ e.grants = d.grants /\ e.defaults = d.defaults /\ e.links = d.links /\ e.tools = d.tools
      /\ e.agents = d.agents /\ e.servers = d.servers /\ e.inProcess = d.inProcess
      /\ e.mounts = d.mounts /\ e.tasks = d.tasks
  BY <1>2 DEF Only, Fields
<1>6. References(z, e)
  BY <1>1, <1>2, <1>5 DEF RowsRight, References
<1>7. Agents(z, e)
  BY <1>1, <1>3, <1>5 DEF RowsRight, Agents
<1>8. Tasks(z, e)
  BY <1>1, <1>5 DEF RowsRight, Tasks
<1>9. QED
  BY <1>1, <1>2, <1>4, <1>6, <1>7, <1>8 DEF RowsRight, Patterns, Undo0031, e

\* Before the newest revision patterns may go.
LEMMA PatternsDropped ==
    ASSUME NEW s, NEW z, \A q \in Marks \ {"0037"} : q \in s <=> q \in z, Newest \notin z,
           NEW d, RowsRight(s, d), NEW ps
    PROVE  RowsRight(z, DropPatterns(d, ps))
<1> DEFINE e == DropPatterns(d, ps)
<1>1. Only(d, e, {"patterns"})
  BY PatternsOnly DEF RowsRight, Shape
<1>2. Shape(e)
  BY PatternOps DEF RowsRight
<1> HIDE DEF e
<1>3. Does(z, d, e)
  BY <1>1, <1>2, PatternsTouched DEF Patterns
<1>4. QED
  BY <1>3 DEF Does, e

\* The downgrade of 0034 deletes its servers with all that refers to them.
LEMMA Undoes0034 ==
    ASSUME NEW s, NEW z, Goes(s, "0034", z), NEW d, RowsRight(s, d)
    PROVE  RowsRight(z, Undo0034(d))
<1> DEFINE names == {"google_gmail", "google_calendar"}
           a == DropPatterns(d, names)
           e == DeleteServers(a, names)
<1>1. Agree(s, z) /\ Newest \notin z
  BY GoesIs, Earlier DEF Agree, Marks, Newest
<1>2. Undo0034(d) = e
  BY DEF Undo0034
<1>3. "clyde_github" \notin names
  OBVIOUS
<1> HIDE DEF names
<1>4. RowsRight(z, a)
  BY <1>1, PatternsDropped DEF Agree
<1> HIDE DEF a
<1>5. DOMAIN a = Fields
  BY <1>4 DEF RowsRight, Shape
<1>6. /\ Only(a, e, {"servers", "inProcess", "defaults", "mounts"})
      /\ e.servers = a.servers \ names
      /\ e.inProcess = a.inProcess \ names
      /\ \A f : f \in e.defaults <=> f \in a.defaults /\ f[2] \notin names
      /\ \A m : m \in e.mounts <=> m \in a.mounts /\ m[3] \notin names
  BY <1>5, DeleteOnly
<1> HIDE DEF e
<1>7. Agree(z, z)
  BY DEF Agree
<1>8. Shape(e) /\ Subagents(z, e) /\ Tasks(z, e) /\ Patterns(z, e)
  BY <1>4, <1>6, <1>7, Untouched
<1>9. References(z, e)
  <2>1. /\ e.grants = a.grants /\ e.subagents = a.subagents /\ e.tools = a.tools
        /\ e.links = a.links /\ e.agents = a.agents
    BY <1>6 DEF Only, Fields
  <2>2. e.defaults \subseteq (DOMAIN e.subagents) \X e.servers
    BY <1>4, <1>6, <2>1 DEF RowsRight, References
  <2>3. <<"devops", "clyde_github">> \in a.defaults => <<"devops", "clyde_github">> \in e.defaults
    BY <1>3, <1>6
  <2>4. QED
    BY <1>4, <1>6, <2>1, <2>2, <2>3 DEF RowsRight, References
<1>10. Agents(z, e)
  <2>1. e.agents = a.agents /\ e.links = a.links
    BY <1>6 DEF Only, Fields
  <2>2. \A u : <<u, "devops", "clyde_github">> \in a.mounts => <<u, "devops", "clyde_github">> \in e.mounts
    BY <1>3, <1>6
  <2>3. QED
    BY <1>4, <2>1, <2>2 DEF RowsRight, Agents
<1>11. QED
  BY <1>2, <1>8, <1>9, <1>10 DEF RowsRight

\* The revisions that make the tables of rows: nothing is left that refers to these.
LEMMA TablesGo ==
    ASSUME NEW s, NEW r \in {"0001", "0018", "0020"}, NEW z, Goes(s, r, z),
           NEW d, RowsRight(s, d)
    PROVE  RowsRight(z, SchemaDown(d, Revision[r]))
<1> DEFINE e == SchemaDown(d, Revision[r])
<1>1. /\ Only(d, e, {"tables", "cols", "enums", "blocks", "servers", "patterns", "subagents",
                     "defaults", "tasks"})
      /\ e.servers = IF r = "0018" THEN {} ELSE d.servers
      /\ e.patterns = IF r = "0018" THEN {} ELSE d.patterns
      /\ e.subagents = IF r = "0020" THEN <<>> ELSE d.subagents
      /\ e.defaults = IF r = "0020" THEN {} ELSE d.defaults
      /\ e.tasks = IF r = "0001" THEN <<>> ELSE d.tasks
  <2>1. DOMAIN d = Fields /\ r \in Revs
    BY DEF RowsRight, Shape, Revs
  <2>2. QED
    BY <2>1, SchemaDownIs
<1> HIDE DEF e
<1>2. /\ "0020" \notin z /\ "0021" \notin z /\ "0022devops" \notin z /\ "0028" \notin z
      /\ "0029" \notin z /\ "0031" \notin z /\ Newest \notin z /\ "0029" \notin s
      /\ "0021" \notin s
      /\ r # "0020" => "0020" \notin s
  <2>1. "0020" \notin z
    <3>1. CASE r = "0001"
      BY <3>1, GoesIs, Earlier
    <3>2. CASE r = "0018"
      BY <3>2, GoesIs, Earlier
    <3>3. CASE r = "0020"
      BY <3>3, GoesIs
    <3>4. QED
      BY <3>1, <3>2, <3>3
  <2>2. "0021" \notin z
    BY <2>1, GoesIs, Earlier
  <2>3. "0022devops" \notin z /\ "0028" \notin z /\ "0029" \notin z /\ "0031" \notin z /\ "0037" \notin z
    BY <2>2, GoesIs, Earlier
  <2>4. QED
    BY <2>1, <2>2, <2>3, GoesIs DEF Newest
<1>3. DOMAIN <<>> = {}
  OBVIOUS
<1>4. Made(z) = {}
  BY <1>2 DEF Made
<1>5. DOMAIN e.subagents = {}
  <2>1. CASE r = "0020"
    BY <1>1, <1>3, <2>1
  <2>2. CASE r # "0020"
    <3>1. "0020" \notin s /\ "0022devops" \notin s
      BY <1>2, <2>2, GoesIs, Earlier
    <3>2. DOMAIN d.subagents = {}
      BY <3>1 DEF RowsRight, Subagents, Made
    <3>3. QED
      BY <1>1, <2>2, <3>2
  <2>3. QED
    BY <2>1, <2>2
<1>6. /\ d.tools = {} /\ d.agents = {} /\ d.grants = {} /\ d.links = {}
      /\ d.defaults \subseteq (DOMAIN d.subagents) \X d.servers
      /\ d.inProcess \subseteq {"clyde_github", "in_house"}
  BY <1>2 DEF RowsRight, References
<1>7. e.defaults = {}
  BY <1>1, <1>5, <1>6
<1>8. /\ e.tools = {} /\ e.agents = {} /\ e.grants = {} /\ e.links = {} /\ e.inProcess = d.inProcess
  BY <1>1, <1>6 DEF Only, Fields
<1>9. Shape(e)
  <2>1. \A u \in DOMAIN e.tasks : DOMAIN e.tasks[u] = {"status", "agent"}
    BY <1>1, <1>3 DEF RowsRight, Shape
  <2>2. \A x \in e.patterns : DOMAIN x = {"role", "seed", "pattern"}
    BY <1>1 DEF RowsRight, Shape
  <2>3. QED
    BY <1>1, <1>5, <2>1, <2>2 DEF Shape, Only
<1>10. Subagents(z, e)
  BY <1>4, <1>5 DEF Subagents
<1>11. References(z, e)
  BY <1>2, <1>6, <1>7, <1>8 DEF References
<1>12. Tasks(z, e)
  <2>1. \A u \in DOMAIN e.tasks : e.tasks[u].status \notin NewStatuses
    BY <1>1, <1>2, <1>3 DEF RowsRight, Tasks
  <2>2. QED
    BY <1>2, <2>1 DEF Tasks
<1>13. QED
  BY <1>2, <1>8, <1>9, <1>10, <1>11, <1>12 DEF RowsRight, Agents, Patterns, e

\* A downgrade that works leaves rows that fit the revisions before.
LEMMA RowsDownRight ==
    ASSUME NEW s, NEW r \in Revs, r # "0021", NEW z, Goes(s, r, z), NEW d, RowsRight(s, d),
           DownWorks(r, d)
    PROVE  RowsRight(z, Downgraded(r, d))
<1> DEFINE e == RowsDown(r, d)
           f == SchemaDown(e, Revision[r])
<1>1. Downgraded(r, d) = f
  BY DEF Downgraded
<1>2. CASE r \in {"0001", "0018", "0020"}
  <2>1. e = d
    BY <1>2 DEF RowsDown
  <2>2. QED
    BY <1>1, <1>2, <2>1, TablesGo
<1>3. CASE r \notin {"0001", "0018", "0020"}
  <2>1. Only(d, e, DownFields(r))
    BY RowsDownOnly DEF RowsRight, Shape
  <2>2. r \notin Marks => Agree(s, z)
    BY GoesIs DEF Agree
  <2>3. RowsRight(z, e)
    <3>1. CASE r = "0022devops"
      <4>1. d.inProcess \subseteq {"clyde_github"}
        BY <3>1 DEF DownWorks
      <4>2. QED
        BY <3>1, <4>1, Undoes0022 DEF RowsDown
    <3>2. CASE r = "0026"
      <4>1. e = SetEscalation(d, FALSE)
        BY <3>2 DEF RowsDown, Undo0026
      <4>2. Does(z, d, SetEscalation(d, FALSE))
        BY <2>2, <3>2, Escalation DEF Marks
      <4>3. QED
        BY <4>1, <4>2 DEF Does
    <3>3. CASE r = "0027"
      BY <2>2, <3>3, Undoes0027 DEF RowsDown, Marks
    <3>4. CASE r = "0028"
      BY <3>4, Undoes0028 DEF RowsDown
    <3>5. CASE r = "0029"
      BY <3>5, Undoes0029 DEF RowsDown
    <3>6. CASE r = "0030"
      BY <2>2, <3>6, Ungranting DEF RowsDown, Undo0030, Marks
    <3>7. CASE r = "0031"
      BY <3>7, Undoes0031 DEF RowsDown
    <3>8. CASE r = "0034"
      BY <3>8, Undoes0034 DEF RowsDown
    <3>9. CASE r \in {"0036", "0037"}
      <4>1. /\ \A q \in Marks \ {"0037"} : q \in s <=> q \in z
            /\ Newest \notin z
        BY <3>9, GoesIs, Earlier DEF Marks, Newest
      <4>2. \E ps : e = DropPatterns(d, ps)
        BY <3>9 DEF RowsDown, Undo0036, Undo0037
      <4> HIDE DEF e
      <4>3. QED
        BY <4>1, <4>2, PatternsDropped
    <3>10. CASE r \notin {"0022devops", "0026", "0027", "0028", "0029", "0030", "0031", "0034",
                          "0036", "0037"}
      <4>1. Agree(s, z)
        BY <1>3, <2>2, <3>10 DEF Marks
      <4>2. DownFields(r) \subseteq {"tables", "cols", "enums", "blocks"}
        BY <3>10 DEF DownFields
      <4> HIDE DEF e
      <4>3. Only(d, e, {"tables", "cols", "enums", "blocks"})
        BY <2>1, <4>2, OnlyMore
      <4>4. QED
        BY <4>1, <4>3, Untouched DEF RowsRight
    <3>11. QED
      BY <3>1, <3>2, <3>3, <3>4, <3>5, <3>6, <3>7, <3>8, <3>9, <3>10
  <2> HIDE DEF e
  <2>4. Only(e, f, {"tables", "cols", "enums", "blocks"})
    <3>1. /\ Only(e, f, {"tables", "cols", "enums", "blocks", "servers", "patterns", "subagents",
                         "defaults", "tasks"})
          /\ f.servers = IF r = "0018" THEN {} ELSE e.servers
          /\ f.patterns = IF r = "0018" THEN {} ELSE e.patterns
          /\ f.subagents = IF r = "0020" THEN <<>> ELSE e.subagents
          /\ f.defaults = IF r = "0020" THEN {} ELSE e.defaults
          /\ f.tasks = IF r = "0001" THEN <<>> ELSE e.tasks
      BY <2>1, OnlyFields, SchemaDownIs
    <3> HIDE DEF f
    <3>2. QED
      BY <1>3, <3>1 DEF Only, Fields
  <2>5. Agree(z, z)
    BY DEF Agree
  <2> HIDE DEF f
  <2>6. RowsRight(z, f)
    BY <2>3, <2>4, <2>5, Untouched DEF RowsRight
  <2>7. QED
    BY <1>1, <2>6
<1>4. QED
  BY <1>2, <1>3

-----------------------------------------------------------------------------
(* Which steps fail.                                                       *)

\* An upgrade that is due fails only of an administrator's subagent named code-auditor.
LEMMA UpFails ==
    ASSUME NEW s, NEW d, Good(s, d), NEW r \in Revs \ s, Revision[r].parents \subseteq s,
           ~UpWorks(r, d)
    PROVE  /\ r = "0031" /\ "admin" \in DOMAIN d.subagents
           /\ d.subagents["admin"].name = "code-auditor"
<1>1. (r = "0031" /\ Named(d, "repo-scanner") # {}) /\ Named(d, "code-auditor") # {}
  BY SchemaAllows DEF Good, UpWorks
<1>2. PICK x : x \in Named(d, "code-auditor")
  BY <1>1
<1>3. \A y \in Made(s) : NameOf(s, y) # "code-auditor"
  BY <1>1 DEF Made, NameOf, FirstSubagents
<1>4. QED
  BY <1>1, <1>2, <1>3, NamedIs DEF Good, RowsRight

\* A downgrade finds the tables and columns that it drops.
LEMMA SchemaBack ==
    ASSUME NEW s, NEW d, Good(s, d), NEW r \in Heads(s), r # "0015", r # "0021"
    PROVE  LET v == Revision[r]
           IN  v.drop \cap d.tables = {} /\ v.create \subseteq d.tables /\ v.add \subseteq d.cols
<1> DEFINE v == Revision[r]
<1>1. Closed(s) /\ r \in s /\ r \in Revs /\ s \subseteq Revs /\ d.tables = TablesOf(s)
      /\ Closed(s \ {r}) /\ r \notin s \ {r}
  BY ClosedDown DEF Good, Closed, Heads, Schema
<1>2. v.drop \cap d.tables = {}
  <2>1. SUFFICES ASSUME NEW t \in v.drop, t \in d.tables PROVE FALSE
    OBVIOUS
  <2>2. r = "0016drop" /\ t = "prompt_blocks"
    BY <1>1, <2>1, Dropped
  <2>3. t \in DroppedFor(s)
    BY <1>1, <2>2, Gone
  <2>4. QED
    BY <1>1, <2>1, <2>3 DEF TablesOf
<1>3. v.create \subseteq d.tables
  <2>1. SUFFICES ASSUME NEW t \in v.create PROVE t \in d.tables
    OBVIOUS
  <2>2. t \in Given(s, "create")
    BY <1>1 DEF Given
  <2>3. t \notin DroppedFor(s)
    <3>1. t = "user_oauth_credentials" => r = "0002"
      BY <1>1, Created DEF EarlyTables
    <3>2. t = "prompt_blocks" => r = "0005"
      BY <1>1, Created DEF EarlyTables
    <3>3. r = "0002" => "0015" \notin s \ {r}
      BY <1>1, Earlier
    <3>4. r = "0005" => "0016drop" \notin s \ {r}
      BY <1>1, Earlier
    <3>5. QED
      BY <1>1, <3>1, <3>2, <3>3, <3>4, Gone
  <2>4. QED
    BY <1>1, <2>2, <2>3 DEF TablesOf
<1>4. v.add \subseteq d.cols
  <2>1. SUFFICES ASSUME NEW c \in v.add PROVE c \in d.cols
    OBVIOUS
  <2>2. c \in Given(s, "add")
    BY <1>1 DEF Given
  <2>3. /\ r = "0001" => "0016drop" \notin s \ {r}
        /\ r = "0005" => "0015" \notin s \ {r}
        /\ r = "0005" => "0016drop" \notin s \ {r}
        /\ r = "0011" => "0015" \notin s \ {r}
    BY <1>1, Earlier
  <2>4. c \notin Given(s, "del")
    BY <1>1, <2>1, <2>3, ColumnAdded, ColumnRemoved
  <2>5. c[1] \notin DroppedFor(s)
    BY <1>1, <2>1, <2>3, ColumnAdded, Gone
  <2>6. "0015" \in s => c[1] # "prompt_blocks"
    BY <1>1, <2>1, <2>3, ColumnAdded
  <2>7. c \in Counted(s, ColsOf(s))
    BY <2>2, <2>4, <2>5, <2>6 DEF ColsOf, Counted
  <2>8. QED
    BY <2>7 DEF Good, Schema, Counted
<1>5. QED
  BY <1>2, <1>3, <1>4

\* A downgrade fails of four revisions only, of two of them for what was written since.
LEMMA DownFails ==
    ASSUME NEW s, NEW d, Good(s, d), NEW r \in Heads(s), ~DownWorks(r, d)
    PROVE  \/ r \in {"0015", "0021"}
           \/ r = "0035" /\ d.longPreview
           \/ r = "0022devops" /\ "in_house" \in d.inProcess
<1>1. SUFFICES ASSUME r # "0015", r # "0021"
               PROVE  \/ r = "0035" /\ d.longPreview
                      \/ r = "0022devops" /\ "in_house" \in d.inProcess
  OBVIOUS
<1>2. LET v == Revision[r]
      IN  v.drop \cap d.tables = {} /\ v.create \subseteq d.tables /\ v.add \subseteq d.cols
  BY <1>1, SchemaBack
<1>3. r = "0031" => Named(d, "repo-scanner") = {}
  <2>1. SUFFICES ASSUME r = "0031", NEW x \in Named(d, "repo-scanner") PROVE FALSE
    OBVIOUS
  <2>2. "0031" \in s
    BY <2>1 DEF Heads
  <2>3. \/ x \in Made(s) /\ NameOf(s, x) = "repo-scanner"
        \/ "admin" \in DOMAIN d.subagents /\ d.subagents["admin"].name = "repo-scanner"
    BY <2>1, NamedIs DEF Good, RowsRight
  <2>4. "admin" \in DOMAIN d.subagents => d.subagents["admin"].name = "custom"
    BY <2>2 DEF Good, RowsRight, Subagents
  <2>5. QED
    BY <2>2, <2>3, <2>4 DEF NameOf
<1>4. \/ r = "0035" /\ d.longPreview
      \/ r = "0022devops" /\ ~(d.inProcess \subseteq {"clyde_github"})
  BY <1>1, <1>2, <1>3 DEF DownWorks
<1>5. d.inProcess \subseteq {"clyde_github", "in_house"}
  BY DEF Good, RowsRight, References
<1>6. QED
  BY <1>4, <1>5

\* 0021 is never undone: a table of the first design has the name of one of its own.
LEMMA Undone0021 ==
    ASSUME NEW s, NEW d, Good(s, d), NEW r \in Heads(s), DownWorks(r, d)
    PROVE  r # "0021"
BY AgentsStay DEF Good, Schema, DownWorks, Heads

-----------------------------------------------------------------------------
(* The writes between runs.                                                *)

\* A write leaves the database right and takes nothing away that a failure was due to.
Writes(s, d, e) ==
    /\ RowsRight(s, e)
    /\ Only(d, e, Fields \ {"tables", "cols", "enums", "blocks"})
    /\ \A x \in DOMAIN d.subagents : x \in DOMAIN e.subagents /\ e.subagents[x].name = d.subagents[x].name
    /\ d.longPreview => e.longPreview
    /\ "in_house" \in d.inProcess => "in_house" \in e.inProcess

\* The database with the first task of u.
WithTask(s, d, u) ==
    LET ours == "0021" \in s
        task == [status |-> "running", agent |-> IF ours THEN u ELSE None]
        with == [d EXCEPT !.tasks = Joined(@, [x \in {u} |-> task])]
        team == [with EXCEPT !.agents = @ \cup {u},
                             !.links = @ \cup ({u} \X (DOMAIN d.subagents))]
    IN  IF ours THEN CopyDefaults(team, DOMAIN d.subagents) ELSE with

\* A first task comes with the agent and the team that its release expects.
LEMMA CreateTaskRight ==
    ASSUME NEW s, NEW d, RowsRight(s, d), NEW u
    PROVE  Writes(s, d, WithTask(s, d, u))
<1> DEFINE ours == "0021" \in s
           task == [status |-> "running", agent |-> IF ours THEN u ELSE None]
           new == [x \in {u} |-> task]
           with == [d EXCEPT !.tasks = Joined(@, new)]
           team == [with EXCEPT !.agents = @ \cup {u},
                                !.links = @ \cup ({u} \X (DOMAIN d.subagents))]
           e == CopyDefaults(team, DOMAIN d.subagents)
<1>1. DOMAIN d = Fields
  BY DEF RowsRight, Shape
<1>2. Only(d, with, {"tasks"}) /\ with.tasks = Joined(d.tasks, new)
  BY <1>1 DEF Only, Fields
<1>3. /\ DOMAIN with.tasks = DOMAIN d.tasks \cup {u}
      /\ \A x \in DOMAIN d.tasks : with.tasks[x] = d.tasks[x]
      /\ u \notin DOMAIN d.tasks => with.tasks[u] = task
  <2>1. DOMAIN new = {u} /\ new[u] = task
    OBVIOUS
  <2> HIDE DEF new
  <2>2. /\ DOMAIN Joined(d.tasks, new) = (DOMAIN d.tasks) \cup (DOMAIN new)
        /\ \A x \in DOMAIN d.tasks : Joined(d.tasks, new)[x] = d.tasks[x]
        /\ \A x \in (DOMAIN new) \ (DOMAIN d.tasks) : Joined(d.tasks, new)[x] = new[x]
    BY JoinedIs
  <2> HIDE DEF with
  <2>3. QED
    BY <1>2, <2>1, <2>2
<1>4. DOMAIN task = {"status", "agent"} /\ task.status \notin NewStatuses /\ (ours => task.agent = u)
  BY DEF NewStatuses
<1> HIDE DEF new, with, task
<1>5. Agree(s, s)
  BY DEF Agree
<1>6. \A x \in DOMAIN with.tasks : DOMAIN with.tasks[x] = {"status", "agent"}
  BY <1>3, <1>4 DEF RowsRight, Shape
<1>7. "0029" \notin s => \A x \in DOMAIN with.tasks : with.tasks[x].status \notin NewStatuses
  BY <1>3, <1>4 DEF RowsRight, Tasks
<1>8. CASE ~ours
  <2>1. Shape(with)
    BY <1>2, <1>6 DEF RowsRight, Shape, Only, Fields
  <2>2. Subagents(s, with) /\ References(s, with) /\ Agents(s, with) /\ Patterns(s, with)
    BY <1>2, <1>5, Untouched
  <2>3. Tasks(s, with)
    BY <1>7, <1>8 DEF Tasks
  <2>4. Writes(s, d, with)
    BY <1>2, <2>1, <2>2, <2>3 DEF Writes, RowsRight, Only, Fields
  <2>5. QED
    BY <1>8, <2>4 DEF WithTask, with, task, new
<1>9. CASE ours
  <2>1. /\ Only(with, team, {"agents", "links"})
        /\ team.agents = with.agents \cup {u}
        /\ team.links = with.links \cup ({u} \X (DOMAIN d.subagents))
    BY <1>2 DEF Only, Fields
  <2> HIDE DEF team
  <2>2. /\ Only(team, e, {"mounts"})
        /\ \A m \in team.mounts : m \in e.mounts
        /\ \A l \in team.links, f \in team.defaults :
              l[2] \in DOMAIN d.subagents /\ f[1] = l[2] => <<l[1], l[2], f[2]>> \in e.mounts
    BY <2>1, OnlyFields, CopyOnly
  <2> HIDE DEF e
  <2>3. /\ Only(d, e, {"tasks", "agents", "links", "mounts"})
        /\ e.tasks = with.tasks /\ e.agents = d.agents \cup {u}
        /\ e.links = d.links \cup ({u} \X (DOMAIN d.subagents)) /\ e.links = team.links
        /\ team.defaults = d.defaults /\ team.mounts = d.mounts
        /\ e.subagents = d.subagents /\ e.grants = d.grants /\ e.defaults = d.defaults
        /\ e.tools = d.tools /\ e.servers = d.servers /\ e.inProcess = d.inProcess
        /\ e.longPreview = d.longPreview
    BY <1>2, <2>1, <2>2 DEF Only, Fields
  <2>4. Shape(e)
    BY <1>6, <2>3 DEF RowsRight, Shape, Only, Fields
  <2>5. Subagents(s, e) /\ Patterns(s, e)
    BY <1>5, <2>3, Untouched
  <2>6. References(s, e)
    BY <1>9, <2>3 DEF RowsRight, References
  <2>7. Agents(s, e)
    <3>1. SUFFICES ASSUME NEW a \in e.agents
                   PROVE  /\ {a} \X Made(s) \subseteq e.links
                          /\ "0022devops" \in s => <<a, "devops", "clyde_github">> \in e.mounts
      BY DEF Agents
    <3>2. CASE a \in d.agents
      BY <2>2, <2>3, <3>2 DEF RowsRight, Agents
    <3>3. CASE a \notin d.agents
      <4>1. a = u /\ Made(s) \subseteq DOMAIN d.subagents
        BY <2>3, <3>3 DEF RowsRight, Subagents
      <4>2. "0022devops" \in s => "devops" \in DOMAIN d.subagents /\ <<"devops", "clyde_github">> \in d.defaults
        BY <4>1 DEF Made, RowsRight, References
      <4>3. "0022devops" \in s => <<u, "devops">> \in team.links
        BY <2>3, <4>2
      <4>4. QED
        BY <2>2, <2>3, <4>1, <4>2, <4>3
    <3>4. QED
      BY <3>2, <3>3
  <2>8. Tasks(s, e)
    <3>1. ASSUME NEW x \in DOMAIN with.tasks PROVE with.tasks[x].agent = x /\ x \in d.agents \cup {u}
      <4>1. CASE x \in DOMAIN d.tasks
        BY <1>3, <1>9, <4>1 DEF RowsRight, Tasks
      <4>2. CASE x \notin DOMAIN d.tasks
        BY <1>3, <1>4, <1>9, <4>2
      <4>3. QED
        BY <4>1, <4>2
    <3>2. QED
      BY <1>7, <2>3, <3>1 DEF Tasks
  <2>9. Only(d, e, Fields \ {"tables", "cols", "enums", "blocks"})
    BY <2>3 DEF Only, Fields
  <2>10. Writes(s, d, e)
    BY <2>3, <2>4, <2>5, <2>6, <2>7, <2>8, <2>9 DEF Writes, RowsRight
  <2>11. QED
    BY <1>9, <2>10 DEF WithTask, e, team, with, task, new
<1>10. QED
  BY <1>8, <1>9

\* From 0029 on a task may have the new statuses.
LEMMA SetStatusRight ==
    ASSUME NEW s, "0029" \in s, NEW d, RowsRight(s, d), NEW u \in DOMAIN d.tasks, NEW status
    PROVE  Writes(s, d, [d EXCEPT !.tasks[u].status = status])
<1> DEFINE e == [d EXCEPT !.tasks[u].status = status]
<1>1. DOMAIN d = Fields
  BY DEF RowsRight, Shape
<1>2. Only(d, e, {"tasks"}) /\ e.tasks = [d.tasks EXCEPT ![u].status = status]
  BY <1>1 DEF Only, Fields
<1> HIDE DEF e
<1>3. /\ DOMAIN e.tasks = DOMAIN d.tasks
      /\ \A x \in DOMAIN d.tasks : /\ DOMAIN e.tasks[x] = {"status", "agent"}
                                   /\ e.tasks[x].agent = d.tasks[x].agent
  BY <1>2 DEF RowsRight, Shape
<1>4. Agree(s, s)
  BY DEF Agree
<1>5. Subagents(s, e) /\ References(s, e) /\ Agents(s, e) /\ Patterns(s, e)
  BY <1>2, <1>4, Untouched
<1>6. Shape(e)
  BY <1>2, <1>3 DEF RowsRight, Shape, Only, Fields
<1>7. Tasks(s, e)
  BY <1>2, <1>3 DEF RowsRight, Tasks, Only, Fields
<1>8. QED
  BY <1>2, <1>5, <1>6, <1>7 DEF Writes, RowsRight, Only, Fields, e

\* An administrator's subagent takes no name in use.
LEMMA AdminCreatesRight ==
    ASSUME NEW s, "0020" \in s, NEW d, RowsRight(s, d), "admin" \notin DOMAIN d.subagents,
           NEW name \in {"custom", "code-auditor"}, Named(d, name) = {}
    PROVE  Writes(s, d,
               [d EXCEPT !.subagents = Joined(@, [x \in {"admin"} |-> NewSubagent(name, "admin")]),
                         !.grants = @ \cup ({"admin"} \X (d.tools \cap {"core"}))])
<1> DEFINE new == [x \in {"admin"} |-> NewSubagent(name, "admin")]
           e == [d EXCEPT !.subagents = Joined(@, new),
                          !.grants = @ \cup ({"admin"} \X (d.tools \cap {"core"}))]
<1>1. DOMAIN d = Fields
  BY DEF RowsRight, Shape
<1>2. DOMAIN new = {"admin"} /\ new["admin"] = NewSubagent(name, "admin")
  OBVIOUS
<1> HIDE DEF new
<1>3. /\ Only(d, e, {"subagents", "grants"})
      /\ e.subagents = Joined(d.subagents, new)
      /\ e.grants = d.grants \cup ({"admin"} \X (d.tools \cap {"core"}))
  BY <1>1 DEF Only, Fields
<1> HIDE DEF e
<1>4. /\ DOMAIN Joined(d.subagents, new) = (DOMAIN d.subagents) \cup (DOMAIN new)
      /\ \A x \in DOMAIN d.subagents : Joined(d.subagents, new)[x] = d.subagents[x]
      /\ \A x \in (DOMAIN new) \ (DOMAIN d.subagents) : Joined(d.subagents, new)[x] = new[x]
  BY JoinedIs
<1>5. /\ DOMAIN e.subagents = DOMAIN d.subagents \cup {"admin"}
      /\ \A x \in DOMAIN d.subagents : e.subagents[x] = d.subagents[x]
      /\ e.subagents["admin"] = NewSubagent(name, "admin")
  BY <1>2, <1>3, <1>4
<1>6. "0031" \in s => name = "custom"
  <2>1. "0031" \in s => "repo-scanner" \in Named(d, "code-auditor")
    BY NamedIs DEF RowsRight, Made, NameOf, FirstSubagents
  <2>2. QED
    BY <2>1
<1>7. Subagents(s, e)
  <2>1. \A x \in Made(s) : x \in DOMAIN d.subagents
    BY DEF RowsRight, Subagents
  <2>2. QED
    BY <1>5, <1>6, <2>1, RowShapes DEF RowsRight, Subagents
<1>8. Shape(e)
  BY <1>3, <1>5, RowShapes DEF RowsRight, Shape, Only, Fields
<1>9. Agree(s, s)
  BY DEF Agree
<1>10. Agents(s, e) /\ Tasks(s, e) /\ Patterns(s, e)
  BY <1>3, <1>9, Untouched
<1>11. References(s, e)
  <2>1. /\ e.defaults = d.defaults /\ e.links = d.links /\ e.tools = d.tools /\ e.agents = d.agents
        /\ e.servers = d.servers /\ e.inProcess = d.inProcess
    BY <1>3 DEF Only, Fields
  <2>2. e.grants \subseteq (DOMAIN e.subagents) \X e.tools
    BY <1>3, <1>5, <2>1 DEF RowsRight, References
  <2>3. QED
    BY <1>5, <2>1, <2>2 DEF RowsRight, References
<1>12. QED
  BY <1>3, <1>5, <1>7, <1>8, <1>10, <1>11 DEF Writes, RowsRight, Only, Fields, e, new

\* An edited prompt keeps its name.
LEMMA AdminEditsRight ==
    ASSUME NEW s, NEW d, RowsRight(s, d), NEW x \in DOMAIN d.subagents
    PROVE  Writes(s, d, [d EXCEPT !.subagents[x] = NewSubagent(d.subagents[x].name, "admin")])
<1> DEFINE e == [d EXCEPT !.subagents[x] = NewSubagent(d.subagents[x].name, "admin")]
<1>1. DOMAIN d = Fields
  BY DEF RowsRight, Shape
<1>2. /\ Only(d, e, {"subagents"})
      /\ e.subagents = [d.subagents EXCEPT ![x] = NewSubagent(d.subagents[x].name, "admin")]
  BY <1>1 DEF Only, Fields
<1> HIDE DEF e
<1>3. /\ DOMAIN e.subagents = DOMAIN d.subagents
      /\ \A y \in DOMAIN d.subagents :
               /\ DOMAIN e.subagents[y] = {"name", "text", "escalates"}
               /\ e.subagents[y].name = d.subagents[y].name
               /\ y = "admin" => e.subagents[y].text = d.subagents[y].text
  BY <1>2, RowShapes DEF RowsRight, Shape, Subagents
<1>4. Agree(s, s)
  BY DEF Agree
<1>5. Subagents(s, e)
  BY <1>2, <1>3, <1>4, SubagentsRewritten
<1>6. Agents(s, e) /\ Tasks(s, e) /\ Patterns(s, e)
  BY <1>2, <1>4, Untouched
<1>7. References(s, e) /\ Shape(e)
  BY <1>2, <1>3 DEF RowsRight, References, Shape, Only, Fields
<1>8. QED
  BY <1>2, <1>3, <1>5, <1>6, <1>7 DEF Writes, RowsRight, Only, Fields, e

\* The other writes of administrators refer to nothing.
LEMMA OtherWritesRight ==
    ASSUME NEW s, NEW d, RowsRight(s, d)
    PROVE  /\ Writes(s, d, [d EXCEPT !.servers = @ \cup {"in_house"}, !.inProcess = @ \cup {"in_house"}])
           /\ "0037" \notin s => Writes(s, d, AddPattern(d, {"manager"}, "clyde_azure"))
           /\ Writes(s, d, [d EXCEPT !.longPreview = TRUE])
<1>1. DOMAIN d = Fields /\ Agree(s, s)
  BY DEF RowsRight, Shape, Agree
<1>2. Writes(s, d, [d EXCEPT !.servers = @ \cup {"in_house"}, !.inProcess = @ \cup {"in_house"}])
  <2> DEFINE e == [d EXCEPT !.servers = @ \cup {"in_house"}, !.inProcess = @ \cup {"in_house"}]
  <2>1. /\ Only(d, e, {"servers", "inProcess"}) /\ e.servers = d.servers \cup {"in_house"}
        /\ e.inProcess = d.inProcess \cup {"in_house"}
    BY <1>1 DEF Only, Fields
  <2> HIDE DEF e
  <2>2. Shape(e) /\ Subagents(s, e) /\ Agents(s, e) /\ Tasks(s, e) /\ Patterns(s, e)
    BY <1>1, <2>1, Untouched
  <2>3. References(s, e)
    BY <2>1 DEF RowsRight, References, Only, Fields
  <2>4. QED
    BY <2>1, <2>2, <2>3 DEF Writes, RowsRight, Only, Fields, e
<1>3. "0037" \notin s => Writes(s, d, AddPattern(d, {"manager"}, "clyde_azure"))
  <2> DEFINE roles == {"manager"}
             e == AddPattern(d, roles, "clyde_azure")
  <2> HIDE DEF roles
  <2>1. SUFFICES ASSUME "0037" \notin s PROVE Writes(s, d, e)
    BY DEF roles
  <2>2. Only(d, e, {"patterns"}) /\ Shape(e)
    BY PatternAddedTo DEF RowsRight
  <2> HIDE DEF e
  <2>3. Does(s, d, e)
    BY <2>1, <2>2, PatternsTouched DEF Patterns, Newest
  <2>4. QED
    BY <2>2, <2>3 DEF Writes, Does, Only, Fields
<1>4. Writes(s, d, [d EXCEPT !.longPreview = TRUE])
  <2> DEFINE e == [d EXCEPT !.longPreview = TRUE]
  <2>1. Only(d, e, {"longPreview"}) /\ e.longPreview
    BY <1>1 DEF Only, Fields
  <2> HIDE DEF e
  <2>2. RowsRight(s, e)
    BY <1>1, <2>1, Untouched DEF RowsRight
  <2>3. QED
    BY <2>1, <2>2 DEF Writes, Only, Fields, e
<1>5. QED
  BY <1>2, <1>3, <1>4

-----------------------------------------------------------------------------
(* Steps on a good database.                                               *)

\* An upgrade that is due and works leads from a good database to a good one.
LEMMA GoodUp ==
    ASSUME NEW s, NEW d, Good(s, d), NEW r \in Revs \ s, Revision[r].parents \subseteq s,
           UpWorks(r, d), NEW z, z = s \cup {r}
    PROVE  Good(z, Upgraded(r, d)) /\ SameHand(d, Upgraded(r, d))
<1>1. Closed(s) /\ Closed(z) /\ Comes(s, r, z)
  BY ClosedUp DEF Good, Comes
<1>2. Does(z, d, Upgraded(r, d))
  <2>1. (r = "0031" /\ Named(d, "repo-scanner") # {}) => Named(d, "code-auditor") = {}
    BY DEF UpWorks
  <2>2. QED
    BY <1>1, <2>1, RowsUpRight DEF Good
<1>3. Schema(z, Upgraded(r, d)) /\ Blocks(z, Upgraded(r, d))
  <2>1. {e[1] : e \in Revision[r].values} \subseteq Types(d)
    BY DEF UpWorks
  <2>2. Schema(s, d) /\ Blocks(s, d) /\ DOMAIN d = Fields
    BY DEF Good, RowsRight, Shape
  <2>3. QED
    BY <1>1, <2>1, <2>2, SchemaRightUp
<1>4. QED
  BY <1>1, <1>2, <1>3 DEF Good, Does

\* So does a downgrade that works.
LEMMA GoodDown ==
    ASSUME NEW s, NEW d, Good(s, d), NEW r \in Heads(s), DownWorks(r, d), NEW z, z = s \ {r}
    PROVE  Good(z, Downgraded(r, d))
<1>1. /\ Closed(s) /\ Closed(z) /\ r \in Revs /\ Goes(s, r, z) /\ r # "0021"
  BY ClosedDown, Undone0021 DEF Good, Closed, Heads, Goes
<1>2. RowsRight(z, Downgraded(r, d))
  BY <1>1, RowsDownRight DEF Good
<1>3. Schema(z, Downgraded(r, d)) /\ Blocks(z, Downgraded(r, d))
  <2>1. Schema(s, d) /\ Blocks(s, d) /\ DOMAIN d = Fields
    BY DEF Good, RowsRight, Shape
  <2>2. QED
    BY <1>1, <2>1, SchemaRightDown
<1>4. QED
  BY <1>1, <1>2, <1>3 DEF Good

\* So does an autocommit block by itself, with the revision not applied yet.
LEMMA GoodValues ==
    ASSUME NEW s, NEW d, Good(s, d), NEW r \in Revs, UpWorks(r, d)
    PROVE  Good(s, WithValues(d, Revision[r])) /\ SameHand(d, WithValues(d, Revision[r]))
<1> DEFINE new == Revision[r].values
           e == WithValues(d, Revision[r])
<1>1. {v[1] : v \in new} \subseteq Types(d)
  BY DEF UpWorks
<1> HIDE DEF new
<1>2. Only(d, e, {"enums"}) /\ e.enums = d.enums \cup new
  BY DEF WithValues, Good, RowsRight, Shape, Only, Fields, new
<1> HIDE DEF e
<1>3. Agree(s, s)
  BY DEF Agree
<1>4. RowsRight(s, e)
  BY <1>2, <1>3, Untouched DEF Good, RowsRight
<1>5. Types(e) = Types(d)
  BY <1>1, <1>2 DEF Types
<1>6. Schema(s, e) /\ Blocks(s, e)
  BY <1>2, <1>5 DEF Good, Schema, Blocks, Only, Fields
<1>7. SameHand(d, e)
  BY <1>2, HandUntouched
<1>8. QED
  BY <1>4, <1>6, <1>7 DEF Good, e

\* So does a write between runs.
LEMMA GoodWrites ==
    ASSUME NEW s, NEW d, Good(s, d), NEW e, Writes(s, d, e)
    PROVE  Good(s, e)
<1>1. e.tables = d.tables /\ e.cols = d.cols /\ e.enums = d.enums /\ e.blocks = d.blocks
  BY DEF Writes, Only, Fields
<1>2. Schema(s, e) /\ Blocks(s, e)
  BY <1>1 DEF Good, Schema, Blocks, Types
<1>3. QED
  BY <1>2 DEF Good, Writes

\* The empty database is good.
LEMMA GoodFirst == Good({}, Blank)
<1>1. Closed({})
  BY DEF Closed
<1>2. Schema({}, Blank) /\ Blocks({}, Blank)
  <2>1. Given({}, "create") = {} /\ Given({}, "add") = {} /\ Given({}, "types") = {}
        /\ Given({}, "values") = {}
    BY DEF Given
  <2>2. TablesOf({}) = {} /\ ColsOf({}) = {} /\ EnumsOf({}) = {}
    BY <2>1 DEF TablesOf, ColsOf, EnumsOf
  <2>3. Types(Blank) = {}
    BY DEF Types, Blank
  <2>4. BlocksOf({}) = {}
    BY DEF BlocksOf, KeysOf
  <2>5. QED
    BY <2>2, <2>3, <2>4 DEF Schema, Blocks, Blank
<1>3. DOMAIN <<>> = {}
  OBVIOUS
<1>4. Shape(Blank)
  BY <1>3 DEF Shape, Blank, Fields
<1>5. Subagents({}, Blank)
  BY <1>3 DEF Subagents, Blank, Made
<1>6. References({}, Blank) /\ Agents({}, Blank)
  BY DEF References, Agents, Blank
<1>7. Tasks({}, Blank) /\ Patterns({}, Blank)
  BY <1>3 DEF Tasks, Patterns, Blank
<1>8. QED
  BY <1>1, <1>2, <1>4, <1>5, <1>6, <1>7 DEF Good, RowsRight

-----------------------------------------------------------------------------
(* The invariant, action by action.                                        *)

\* The invariant holds at first.
LEMMA InitInv == Init => Inv
BY GoodFirst DEF Init, Inv, OnlyKnownFailures

\* A revision is due in a run, before it is applied and after its parents.
LEMMA DueIs ==
    ASSUME NEW r \in Revs, Due(r)
    PROVE  r \in Revs \ applied /\ Revision[r].parents \subseteq applied /\ run # "idle"
BY DEF Due, Revs

\* A run begins where the last one ended.
LEMMA DeployInv ==
    ASSUME Inv, NEW r \in Releases, Deploy(r)
    PROVE  Inv'
BY DEF Inv, Deploy, OnlyKnownFailures, NameTaken

\* An autocommit block commits what the run has done so far.
LEMMA AddValuesInv ==
    ASSUME Inv, NEW r \in Revs, AddValues(r)
    PROVE  Inv' /\ MadeByHand(db') = MadeByHand(db)
<1>1. db' = WithValues(db, Revision[r]) /\ disk' = [applied |-> applied, db |-> db']
      /\ applied' = applied /\ run' = run /\ failed' = failed /\ UpWorks(r, db)
      /\ run # "idle" /\ failed = <<>>
  BY DueIs DEF AddValues, Inv
<1>2. Good(applied, db') /\ SameHand(db, db')
  BY <1>1, GoodValues DEF Inv
<1>3. MadeByHand(db') = MadeByHand(db)
  BY <1>2, Hand
<1>4. QED
  BY <1>1, <1>2, <1>3 DEF Inv, OnlyKnownFailures

\* An upgrade changes the database of the run alone.
LEMMA UpgradeInv ==
    ASSUME Inv, NEW r \in Revs, Upgrade(r)
    PROVE  Inv' /\ MadeByHand(db') = MadeByHand(db)
<1>1. /\ db' = Upgraded(r, db) /\ disk' = disk /\ applied' = applied \cup {r} /\ run' = run
      /\ failed' = failed /\ UpWorks(r, db) /\ run # "idle"
      /\ r \in Revs \ applied /\ Revision[r].parents \subseteq applied
  BY DueIs DEF Upgrade
<1>2. Good(applied', db') /\ SameHand(db, db')
  BY <1>1, GoodUp DEF Inv
<1>3. MadeByHand(db') = MadeByHand(db)
  BY <1>2, Hand
<1>4. OnlyKnownFailures'
  BY <1>1 DEF Inv, OnlyKnownFailures, NameTaken
<1>5. QED
  BY <1>1, <1>2, <1>3, <1>4 DEF Inv

\* The name that an upgrade dies of was taken before the run began.
LEMMA FailInv ==
    ASSUME Inv, NEW r \in Revs, Fail(r)
    PROVE  Inv' /\ MadeByHand(db') = MadeByHand(db)
<1>1. /\ applied' = disk.applied /\ db' = disk.db /\ run' = "idle" /\ disk' = disk
      /\ failed' = <<"up", r>> /\ ~UpWorks(r, db)
      /\ r \in Revs \ applied /\ Revision[r].parents \subseteq applied
  BY DueIs DEF Fail, RollBack
<1>2. /\ r = "0031" /\ "admin" \in DOMAIN db.subagents
      /\ db.subagents["admin"].name = "code-auditor"
  BY <1>1, UpFails DEF Inv
<1>3. MadeByHand(db).subagents = MadeByHand(disk.db).subagents
  BY DEF Inv
<1>4. "admin" \in DOMAIN disk.db.subagents /\ disk.db.subagents["admin"].name = "code-auditor"
  <2>1. MadeByHand(db).subagents
          = {<<db.subagents[s].name, db.subagents[s].text>> : s \in (DOMAIN db.subagents) \cap {"admin"}}
    BY DEF MadeByHand
  <2>2. MadeByHand(disk.db).subagents
          = {<<disk.db.subagents[s].name, disk.db.subagents[s].text>>
             : s \in (DOMAIN disk.db.subagents) \cap {"admin"}}
    BY DEF MadeByHand
  <2>3. <<db.subagents["admin"].name, db.subagents["admin"].text>> \in MadeByHand(db).subagents
    BY <1>2, <2>1
  <2>4. PICK s \in (DOMAIN disk.db.subagents) \cap {"admin"} :
            <<db.subagents["admin"].name, db.subagents["admin"].text>>
              = <<disk.db.subagents[s].name, disk.db.subagents[s].text>>
    BY <1>3, <2>2, <2>3
  <2>5. QED
    BY <1>2, <2>4
<1>5. NameTaken'
  BY <1>1, <1>4 DEF NameTaken
<1>6. QED
  BY <1>1, <1>2, <1>5 DEF Inv, OnlyKnownFailures

\* The database of the run becomes the one on disk.
LEMMA CommitInv ==
    ASSUME Inv, Commit
    PROVE  Inv'
<1>1. run # "idle" /\ failed = <<>>
  BY DEF Commit, Inv, Good, Closed, Revs
<1>2. QED
  BY <1>1 DEF Inv, Commit, OnlyKnownFailures

\* A crash goes back to the last commit.
LEMMA CrashInv ==
    ASSUME Inv, Crash
    PROVE  Inv'
BY DEF Inv, Crash, RollBack, OnlyKnownFailures

\* A downgrade commits by itself, or leaves everything and a known cause.
LEMMA DowngradeInv ==
    ASSUME Inv, NEW r \in Revs, Downgrade(r)
    PROVE  Inv'
<1>1. run = "idle" /\ r \in Heads(applied) /\ applied = disk.applied /\ db = disk.db
      /\ run' = run
  BY DEF Inv, Downgrade
<1>2. CASE DownWorks(r, db)
  <2>1. /\ db' = Downgraded(r, db) /\ applied' = applied \ {r}
        /\ disk' = [applied |-> applied', db |-> db'] /\ failed' = <<>>
    BY <1>2 DEF Downgrade
  <2>2. Good(applied', db')
    BY <1>1, <1>2, <2>1, GoodDown DEF Inv
  <2>3. QED
    BY <1>1, <2>1, <2>2 DEF Inv, OnlyKnownFailures
<1>3. CASE ~DownWorks(r, db)
  <2>1. failed' = <<"down", r>> /\ applied' = applied /\ db' = db /\ disk' = disk
    BY <1>3 DEF Downgrade
  <2>2. \/ r \in {"0015", "0021"}
        \/ r = "0035" /\ db.longPreview
        \/ r = "0022devops" /\ "in_house" \in db.inProcess
    BY <1>1, <1>3, DownFails DEF Inv
  <2>3. QED
    BY <1>1, <2>1, <2>2 DEF Inv, OnlyKnownFailures
<1>4. QED
  BY <1>2, <1>3

\* A write that is right keeps the invariant, and the cause of a failure with it.
LEMMA WriteInv ==
    ASSUME Inv, NEW e, Write(e), Writes(applied, db, e)
    PROVE  Inv'
<1>1. /\ run = "idle" /\ db' = e /\ disk' = [applied |-> applied, db |-> e]
      /\ applied' = applied /\ run' = run /\ failed' = failed
      /\ applied = disk.applied /\ db = disk.db
  BY DEF Write, Inv
<1>2. Good(applied', db')
  BY <1>1, GoodWrites DEF Inv
<1>3. OnlyKnownFailures'
  <2>1. NameTaken => NameTaken'
    BY <1>1 DEF NameTaken, Writes
  <2>2. disk.db.longPreview => disk'.db.longPreview
    BY <1>1 DEF Writes
  <2>3. "in_house" \in disk.db.inProcess => "in_house" \in disk'.db.inProcess
    BY <1>1 DEF Writes
  <2>4. QED
    BY <1>1, <2>1, <2>2, <2>3 DEF Inv, OnlyKnownFailures
<1>4. QED
  BY <1>1, <1>2, <1>3 DEF Inv

\* Subagents have a table from 0020 on.
LEMMA SubagentsTable ==
    ASSUME NEW s, NEW d, Good(s, d), "subagents" \in d.tables
    PROVE  "0020" \in s
<1>1. PICK r \in s : "subagents" \in Revision[r].create
  BY DEF Good, Schema, TablesOf, Given
<1>2. r \in Revs
  BY DEF Good, Closed
<1>3. QED
  BY <1>1, <1>2, Created DEF EarlyTables

\* The writes of users and administrators, one by one.
LEMMA WritesInv ==
    ASSUME Inv
    PROVE  /\ \A u : CreateTask(u) => Inv'
           /\ \A u, status : SetStatus(u, status) => Inv'
           /\ \A name \in {"custom", "code-auditor"} : AdminCreates(name) => Inv'
           /\ \A x : AdminEdits(x) => Inv'
           /\ AdminAddsServer => Inv'
           /\ AdminAddsPattern => Inv'
           /\ StoreLongPreview => Inv'
<1>1. Good(applied, db) /\ RowsRight(applied, db)
  BY DEF Inv, Good
<1>2. ASSUME NEW u, CreateTask(u) PROVE Inv'
  <2>1. Write(WithTask(applied, db, u))
    BY <1>2 DEF CreateTask, WithTask
  <2>2. Writes(applied, db, WithTask(applied, db, u))
    BY <1>1, CreateTaskRight
  <2>3. QED
    BY <2>1, <2>2, WriteInv
<1>3. ASSUME NEW u, NEW status, SetStatus(u, status) PROVE Inv'
  <2> DEFINE e == [db EXCEPT !.tasks[u].status = status]
  <2>1. Write(e) /\ "0029" \in applied /\ u \in DOMAIN db.tasks
    BY <1>3 DEF SetStatus
  <2>2. Writes(applied, db, e)
    BY <1>1, <2>1, SetStatusRight
  <2> HIDE DEF e
  <2>3. QED
    BY <2>1, <2>2, WriteInv
<1>4. ASSUME NEW name \in {"custom", "code-auditor"}, AdminCreates(name) PROVE Inv'
  <2> DEFINE e == [db EXCEPT !.subagents = Joined(@, [x \in {"admin"} |-> NewSubagent(name, "admin")]),
                             !.grants = @ \cup ({"admin"} \X (db.tools \cap {"core"}))]
  <2>1. Write(e) /\ "subagents" \in db.tables /\ "admin" \notin DOMAIN db.subagents
        /\ Named(db, name) = {}
    BY <1>4 DEF AdminCreates
  <2>2. "0020" \in applied
    BY <1>1, <2>1, SubagentsTable
  <2>3. Writes(applied, db, e)
    BY <1>1, <2>1, <2>2, AdminCreatesRight
  <2> HIDE DEF e
  <2>4. QED
    BY <2>1, <2>3, WriteInv
<1>5. ASSUME NEW x, AdminEdits(x) PROVE Inv'
  <2> DEFINE e == [db EXCEPT !.subagents[x] = NewSubagent(db.subagents[x].name, "admin")]
  <2>1. Write(e) /\ x \in DOMAIN db.subagents
    BY <1>5 DEF AdminEdits
  <2>2. Writes(applied, db, e)
    BY <1>1, <2>1, AdminEditsRight
  <2> HIDE DEF e
  <2>3. QED
    BY <2>1, <2>2, WriteInv
<1>6. AdminAddsServer => Inv'
  <2> DEFINE e == [db EXCEPT !.servers = @ \cup {"in_house"}, !.inProcess = @ \cup {"in_house"}]
  <2>1. Writes(applied, db, e)
    BY <1>1, OtherWritesRight
  <2>2. AdminAddsServer => Write(e)
    BY DEF AdminAddsServer
  <2> HIDE DEF e
  <2>3. QED
    BY <2>1, <2>2, WriteInv
<1>7. AdminAddsPattern => Inv'
  <2> DEFINE e == AddPattern(db, {"manager"}, "clyde_azure")
  <2>1. AdminAddsPattern => Write(e) /\ "0037" \notin applied
    BY DEF AdminAddsPattern
  <2>2. "0037" \notin applied => Writes(applied, db, e)
    BY <1>1, OtherWritesRight
  <2> HIDE DEF e
  <2>3. QED
    BY <2>1, <2>2, WriteInv
<1>8. StoreLongPreview => Inv'
  <2> DEFINE e == [db EXCEPT !.longPreview = TRUE]
  <2>1. Writes(applied, db, e)
    BY <1>1, OtherWritesRight
  <2>2. StoreLongPreview => Write(e)
    BY DEF StoreLongPreview
  <2> HIDE DEF e
  <2>3. QED
    BY <2>1, <2>2, WriteInv
<1>9. QED
  BY <1>2, <1>3, <1>4, <1>5, <1>6, <1>7, <1>8

\* The invariant is inductive.
LEMMA StepInv == Inv /\ [Next]_vars => Inv'
<1> SUFFICES ASSUME Inv, [Next]_vars PROVE Inv'
  OBVIOUS
<1>1. ASSUME NEW r \in Releases, Deploy(r) PROVE Inv'
  BY <1>1, DeployInv
<1>2. CASE Step
  BY <1>2, AddValuesInv, UpgradeInv, FailInv DEF Step
<1>3. CASE Commit
  BY <1>3, CommitInv
<1>4. CASE Crash
  BY <1>4, CrashInv
<1>5. ASSUME NEW r \in Revs, Downgrade(r) PROVE Inv'
  BY <1>5, DowngradeInv
<1>6. ASSUME NEW u \in Users, CreateTask(u) \/ \E status \in NewStatuses : SetStatus(u, status)
      PROVE  Inv'
  BY <1>6, WritesInv
<1>7. CASE \E name \in {"custom", "code-auditor"} : AdminCreates(name)
  BY <1>7, WritesInv
<1>8. CASE \E s \in {"repo-scanner", "code-explorer"} : AdminEdits(s)
  BY <1>8, WritesInv
<1>9. CASE AdminAddsServer \/ AdminAddsPattern \/ StoreLongPreview
  BY <1>9, WritesInv
<1>10. CASE UNCHANGED vars
  BY <1>10 DEF Inv, OnlyKnownFailures, NameTaken, vars
<1>11. QED
  BY <1>1, <1>2, <1>3, <1>4, <1>5, <1>6, <1>7, <1>8, <1>9, <1>10 DEF Next

-----------------------------------------------------------------------------
(* The theorems.                                                           *)

\* The database of a run and the one that its last commit left both have the schema and the
\* rows that their revisions add up to, whatever upgrades, crashes, downgrades and writes
\* led there.
THEOREM Invariant == Spec => []Inv
<1>1. Init => Inv
  BY InitInv
<1>2. Inv /\ [Next]_vars => Inv'
  BY StepInv
<1>3. QED
  BY <1>1, <1>2, PTL DEF Spec

\* A database at the head has every table, column and value the hand-written models use.
THEOREM HeadSchema == Spec => []HeadMatchesModels
<1>1. Inv => HeadMatchesModels
  <2> SUFFICES ASSUME Inv, Newest \in disk.applied, NEW m \in Models
               PROVE  /\ m.tables \subseteq disk.db.tables
                      /\ m.cols \subseteq disk.db.cols
                      /\ m.enums \subseteq disk.db.enums
    BY DEF HeadMatchesModels
  <2>1. Closed(disk.applied) /\ Schema(disk.applied, disk.db)
    BY DEF Inv, Good
  <2>2. QED
    BY <2>1, ModelsMet
<1>2. QED
  BY <1>1, Invariant, PTL

\* The schema is a function of the set of revisions applied: a downgrade undoes its upgrade,
\* and the two branches may come in either order.
THEOREM Determined == Spec => []SchemaDetermined
<1>1. Inv => SchemaDetermined
  BY DEF Inv, Good, Schema, Blocks, SchemaDetermined
<1>2. QED
  BY <1>1, Invariant, PTL

\* The rows that the revisions write, copy and delete fit the release they belong to: no
\* dangling reference, every task with its owner's agent, every agent with its team, no
\* status from the future, one pattern for each role.
THEOREM Sound == Spec => []RowsSound
<1>1. Inv => RowsSound
  <2> SUFFICES ASSUME Inv PROVE RowsSound
    OBVIOUS
  <2>1. RowsRight(disk.applied, disk.db) /\ Closed(disk.applied)
    BY DEF Inv, Good
  <2>2. ReferencesHold
    BY <2>1 DEF RowsRight, References, ReferencesHold
  <2>3. TasksOwned
    BY <2>1 DEF RowsRight, Tasks, TasksOwned
  <2>4. AgentsComplete
    BY <2>1 DEF RowsRight, Agents, Subagents, AgentsComplete
  <2>5. StatusesKnown
    BY <2>1 DEF RowsRight, Tasks, StatusesKnown
  <2>6. OnePatternPerRole
    BY <2>1 DEF RowsRight, Patterns, OnePatternPerRole
  <2>7. QED
    BY <2>2, <2>3, <2>4, <2>5, <2>6 DEF RowsSound
<1>2. QED
  BY <1>1, Invariant, PTL

\* A run dies of the known causes only: an upgrade of the name code-auditor, whose owner was
\* there before the run began; a downgrade of the four revisions that cannot always be undone.
THEOREM KnownFailures == Spec => []OnlyKnownFailures
<1>1. Inv => OnlyKnownFailures
  BY DEF Inv
<1>2. QED
  BY <1>1, Invariant, PTL

\* No step of an upgrade, and no rollback of one, takes what users and administrators made.
THEOREM HandMade == Spec => HandMadeKept
<1>1. Inv /\ [Next]_vars => [Step => MadeByHand(db') = MadeByHand(db)]_vars
  <2> SUFFICES ASSUME Inv, Step PROVE MadeByHand(db') = MadeByHand(db)
    OBVIOUS
  <2>1. QED
    BY AddValuesInv, UpgradeInv, FailInv DEF Step
<1>2. QED
  BY <1>1, Invariant, PTL DEF Spec, HandMadeKept

=============================================================================
