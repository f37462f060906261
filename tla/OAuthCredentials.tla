-------------------------- MODULE OAuthCredentials --------------------------
(***************************************************************************)
(* The OAuth credentials of one user for one provider: connecting and      *)
(* revoking (credentials/oauth/service.py), resolving with a refresh just  *)
(* before expiry (credentials/resolver.py, credentials/oauth/refresher.py) *)
(* by an API call (credentials/oauth/token_provider.py) and by a starting  *)
(* chat session that mounts MCP servers (agents/base_agent.py).            *)
(*                                                                         *)
(* Every request is a database transaction: it reads committed rows, keeps *)
(* what it read first (the session's identity map), locks a row when it    *)
(* flushes an UPDATE of it, and shows its writes at its commit.            *)
(*                                                                         *)
(* The provider rotates refresh tokens: those of a credential are numbered *)
(* in the order of issue, with the access token issued beside them, and    *)
(* only the newest is accepted.                                            *)
(***************************************************************************)
EXTENDS Naturals, Functions

CONSTANTS
  Clients,  \* requests that may run at the same time
  MaxRows,  \* bound: credentials the user connects
  MaxGen    \* bound: refresh tokens the provider issues

ASSUME RowsAssumption == MaxRows \in Nat

VARIABLES
  made,     \* credentials connected; a greater number is a later created_at
  stored,   \* committed: per credential the number of its token
  flag,     \* committed: credentials with needs_reauth
  deleted,  \* committed: credentials with deleted_at
  newest,   \* at the provider: per credential the newest token
  at,       \* per client: the step it is at
  kind,     \* per client: its request
  snap,     \* per client: stored and flag as it read them
  todo,     \* per client: credentials still to resolve
  cur,      \* per client: the credential being resolved, or 0
  token,    \* per client: unflushed or uncommitted new token per credential
  marks,    \* per client: uncommitted needs_reauth
  drops,    \* per client: uncommitted deleted_at
  locks,    \* per client: rows it has updated
  mounted,  \* per client: the credential whose token it will use, or 0
  lost      \* history: credentials whose rotated token reached no row

dbVars  == <<made, stored, flag, deleted>>
writes  == <<token, marks, drops, locks>>
request == <<kind, snap, todo, cur, mounted>>
vars == <<dbVars, newest, at, request, writes, lost>>

Rows == 1..MaxRows
Kinds == {"api", "mcp", "revoke"}
Steps == {"idle", "next", "refresh", "flush", "drop", "commit"}

TypeOK ==
  /\ made \in 0..MaxRows
  /\ stored \in [Rows -> Nat]
  /\ {flag, deleted} \subseteq SUBSET (1..made) /\ lost \subseteq Rows
  /\ newest \in [Rows -> Nat]
  /\ at \in [Clients -> Steps]
  /\ kind \in [Clients -> Kinds]
  /\ snap \in [Clients -> [tok : [Rows -> Nat], flag : SUBSET Rows]]
  /\ {cur, mounted} \subseteq [Clients -> 0..made]
  /\ token \in [Clients -> [Rows -> Nat]]
  /\ {todo, marks, drops} \subseteq [Clients -> SUBSET (1..made)]
  /\ locks \in [Clients -> SUBSET Rows]
  /\ \A c \in Clients : at[c] = "idle" =>
       token[c] = [g \in Rows |-> 0] /\ marks[c] \cup drops[c] \cup locks[c] = {}
  /\ \A c \in Clients : at[c] \in {"refresh", "flush", "drop"} => cur[c] # 0

None0 == [g \in Rows |-> 0]
Unread == [tok |-> None0, flag |-> {}]

Init ==
  /\ made = 0 /\ stored = None0 /\ flag = {} /\ deleted = {}
  /\ newest = None0
  /\ at = [c \in Clients |-> "idle"] /\ kind = [c \in Clients |-> "api"]
  /\ snap = [c \in Clients |-> Unread]
  /\ todo = [c \in Clients |-> {}]
  /\ cur = [c \in Clients |-> 0] /\ mounted = [c \in Clients |-> 0]
  /\ token = [c \in Clients |-> None0]
  /\ marks = [c \in Clients |-> {}] /\ drops = [c \in Clients |-> {}]
  /\ locks = [c \in Clients |-> {}]
  /\ lost = {}

Active == (1..made) \ deleted

\* The most recent of some credentials, if there are any.
Latest(rows) == {g \in rows : \A h \in rows : h <= g}

\* The refresh tokens the provider has issued.
Issued == FoldFunction(+, 0, newest)

Goto(c, from, to) == at[c] = from /\ at' = [at EXCEPT ![c] = to]

\* The session is closed: nothing of it is left, its row locks neither.
Close(c) ==
  /\ at' = [at EXCEPT ![c] = "idle"]
  /\ kind' = [kind EXCEPT ![c] = "api"]
  /\ snap' = [snap EXCEPT ![c] = Unread]
  /\ todo' = [todo EXCEPT ![c] = {}]
  /\ cur' = [cur EXCEPT ![c] = 0]
  /\ mounted' = [mounted EXCEPT ![c] = 0]
  /\ token' = [token EXCEPT ![c] = None0]
  /\ marks' = [marks EXCEPT ![c] = {}]
  /\ drops' = [drops EXCEPT ![c] = {}]
  /\ locks' = [locks EXCEPT ![c] = {}]

\* Rows the session has changed, and those whose UPDATE is not sent yet.
Touched(c) == {g \in Rows : token[c][g] # 0} \cup marks[c] \cup drops[c]
Unsent(c)  == Touched(c) \ locks[c]

LockedByOther(c, g) == \E d \in Clients \ {c} : g \in locks[d]

\* A transaction undone takes its rotated tokens with it.
Orphans(c) == {g \in Rows : token[c][g] # 0}

-----------------------------------------------------------------------------
(* The user. *)

\* The OAuth callback always makes a new credential, beside the old ones.
Connect ==
  /\ made < MaxRows
  /\ made' = made + 1
  /\ stored' = [stored EXCEPT ![made'] = 1]
  /\ Issued < MaxGen
  /\ newest' = [newest EXCEPT ![made'] = 1]
  /\ UNCHANGED <<flag, deleted, at, request, writes, lost>>

-----------------------------------------------------------------------------
(* Resolving. *)

Read(c, rows) ==
  snap' = [snap EXCEPT ![c] = [tok  |-> [g \in Rows |-> IF g \in rows THEN stored[g] ELSE 0],
                               flag |-> flag \cap rows]]

\* An API call reads the most recent credential.
StartApi(c) ==
  /\ Goto(c, "idle", "next")
  /\ kind' = [kind EXCEPT ![c] = "api"]
  /\ \E g \in Latest(Active) :
       /\ Read(c, {g})
       /\ todo' = [todo EXCEPT ![c] = {g}]
  /\ UNCHANGED <<dbVars, newest, cur, mounted, writes, lost>>

\* A chat session lists them all and resolves the most recent first.
StartMcp(c) ==
  /\ Goto(c, "idle", "next")
  /\ Active # {}
  /\ Read(c, Active)
  /\ kind' = [kind EXCEPT ![c] = "mcp"]
  /\ todo' = [todo EXCEPT ![c] = Active]
  /\ UNCHANGED <<dbVars, newest, cur, mounted, writes, lost>>

\* A token may be within REFRESH_SKEW of its expiry or not; one of a flagged
\* credential is handed out as it is.
NeedsRefresh(c, g) == IF g \in snap[c].flag THEN {FALSE} ELSE BOOLEAN

\* resolve of the next credential: it must still be there; what was read of
\* it stays as it was read.
Resolve(c) ==
  /\ \E g \in Latest(todo[c]) \ deleted :
       /\ \E refresh \in NeedsRefresh(c, g) :
            Goto(c, "next", IF refresh THEN "refresh" ELSE "flush")
       /\ cur' = [cur EXCEPT ![c] = g]
       /\ todo' = [todo EXCEPT ![c] = @ \ {g}]
  /\ UNCHANGED <<dbVars, newest, kind, snap, mounted, writes, lost>>

\* A fault: a chat session tries the credential that is gone again.
MissingRetried(c) ==
  /\ at[c] = "next" /\ Latest(todo[c]) \cap deleted # {}
  /\ \/ kind[c] = "api" /\ Close(c)
     \/ kind[c] = "mcp" /\ UNCHANGED <<at, request, writes>>
  /\ UNCHANGED <<dbVars, newest, lost>>

\* It was deleted meanwhile: NotFoundError ends the API call; the chat
\* session logs it and goes on.
Missing(c) ==
  /\ at[c] = "next" /\ Latest(todo[c]) \cap deleted # {}
  /\ \/ kind[c] = "api" /\ Close(c)
     \/ /\ kind[c] = "mcp"
        /\ todo' = [todo EXCEPT ![c] = @ \ Latest(@)]
        /\ UNCHANGED <<at, kind, snap, cur, mounted, writes>>
  /\ UNCHANGED <<dbVars, newest, lost>>

Accepted(c) ==
  /\ at[c] = "refresh"
  /\ snap[c].tok[cur[c]] = newest[cur[c]]

Rotate(g) == Issued < MaxGen /\ newest' = [newest EXCEPT ![g] = @ + 1]

\* A fault: the refresh token of the answer is thrown away.
RefreshKeepsOld(c) ==
  /\ Accepted(c) /\ Rotate(cur[c])
  /\ Goto(c, "refresh", "flush")
  /\ token' = [token EXCEPT ![c][cur[c]] = snap[c].tok[cur[c]]]
  /\ UNCHANGED <<dbVars, request, marks, drops, locks, lost>>

\* The provider rotates the token; payload and metadata of the row change.
Refresh(c) ==
  /\ Accepted(c) /\ Rotate(cur[c])
  /\ Goto(c, "refresh", "flush")
  /\ token' = [token EXCEPT ![c][cur[c]] = newest'[cur[c]]]
  /\ UNCHANGED <<dbVars, request, marks, drops, locks, lost>>

\* ProviderRefreshError: needs_reauth is set in the session; the API call's
\* transaction is rolled back and the mark with it, a chat session goes on.
MarkNeedsReauth(c) ==
  \/ kind[c] = "api" /\ Close(c)
  \/ /\ kind[c] = "mcp" /\ Goto(c, "refresh", "next")
     /\ marks' = [marks EXCEPT ![c] = @ \cup {cur[c]}]
     /\ UNCHANGED <<request, token, drops, locks>>

\* Refused, as after a revocation, or the call failed before the provider saw it.
RefreshFails(c) ==
  /\ at[c] = "refresh"
  /\ MarkNeedsReauth(c)
  /\ UNCHANGED <<dbVars, newest, lost>>

\* The provider has rotated the token, and its answer is lost.
AnswerLost(c) ==
  /\ Accepted(c) /\ Rotate(cur[c])
  /\ MarkNeedsReauth(c)
  /\ lost' = lost \cup {cur[c]}
  /\ UNCHANGED dbVars

-----------------------------------------------------------------------------
(* The transaction. *)

\* A flush sends the UPDATE of a changed row, which waits for its lock.
Update(c) ==
  /\ at[c] \in {"flush", "commit"}
  /\ \E g \in Unsent(c) :
       /\ ~LockedByOther(c, g)
       /\ locks' = [locks EXCEPT ![c] = @ \cup {g}]
  /\ UNCHANGED <<dbVars, newest, at, request, token, marks, drops, lost>>

\* The audit event is written and the token handed out; of the credentials
\* of one provider the chat session keeps the one resolved last.
Resolved(c) ==
  /\ Unsent(c) = {}
  /\ Goto(c, "flush", "next")
  /\ mounted' = [mounted EXCEPT ![c] = cur[c]]
  /\ UNCHANGED <<dbVars, newest, kind, snap, todo, cur, writes, lost>>

Done(c) ==
  /\ todo[c] = {}
  /\ Goto(c, "next", "commit")
  /\ UNCHANGED <<dbVars, newest, request, writes, lost>>

\* What the rows hold once c has committed.
Written(c) ==
  /\ stored' = [g \in Rows |-> IF token[c][g] # 0 THEN token[c][g] ELSE stored[g]]
  /\ flag' = (flag \ Orphans(c)) \cup marks[c]
  /\ deleted' = deleted \cup drops[c]

\* Faults: the UPDATE names every column of the rows it changes; the session
\* is not closed.
CommitWholeRows(c) ==
  /\ at[c] = "commit" /\ Unsent(c) = {}
  /\ stored' = [g \in Rows |-> IF token[c][g] # 0 THEN token[c][g]
                               ELSE IF g \in Touched(c) THEN snap[c].tok[g] ELSE stored[g]]
  /\ flag' = (flag \ Orphans(c)) \cup marks[c]
  /\ deleted' = (deleted \ Touched(c)) \cup drops[c]
  /\ Close(c)
  /\ UNCHANGED <<made, newest, lost>>

CommitStaysOpen(c) ==
  /\ at[c] = "commit" /\ Unsent(c) = {}
  /\ Written(c)
  /\ Goto(c, "commit", "idle")
  /\ UNCHANGED <<made, newest, request, writes, lost>>

Commit(c) ==
  /\ at[c] = "commit" /\ Unsent(c) = {}
  /\ Written(c)
  /\ Close(c)
  /\ UNCHANGED <<made, newest, lost>>

\* The database, the process or the connection fails: rollback.
Rollback(c) ==
  /\ at[c] \in {"next", "flush", "commit"}
  /\ Close(c)
  /\ lost' = lost \cup Orphans(c)
  /\ UNCHANGED <<dbVars, newest>>

WaitsFor(c, d) ==
  /\ at[c] \in {"flush", "commit"} /\ c # d
  /\ Unsent(c) # {} /\ Unsent(c) \subseteq UNION {locks[e] : e \in Clients \ {c}}
  /\ Unsent(c) \cap locks[d] # {}

\* PostgreSQL ends a deadlock of two transactions by aborting one.
AbortDeadlock(c) ==
  /\ \E d \in Clients : WaitsFor(c, d) /\ WaitsFor(d, c)
  /\ Close(c)
  /\ lost' = lost \cup Orphans(c)
  /\ UNCHANGED <<dbVars, newest>>

-----------------------------------------------------------------------------
(* Revoking. *)

\* The row is read, and the provider revokes the access token or fails to,
\* which is only logged.
Revoke(c, g) ==
  /\ g \in Active
  /\ Goto(c, "idle", "drop")
  /\ kind' = [kind EXCEPT ![c] = "revoke"]
  /\ cur' = [cur EXCEPT ![c] = g]
  /\ UNCHANGED <<dbVars, newest, snap, todo, mounted, writes, lost>>

\* soft_delete looks the row up once more; when it is gone, NotFoundError.
SoftDelete(c) ==
  /\ at[c] = "drop"
  /\ \/ /\ cur[c] \notin deleted
        /\ Goto(c, "drop", "commit")
        /\ drops' = [drops EXCEPT ![c] = {cur[c]}]
        /\ UNCHANGED <<request, token, marks, locks>>
     \/ cur[c] \in deleted /\ Close(c)
  /\ UNCHANGED <<dbVars, newest, lost>>

-----------------------------------------------------------------------------

\* What ends a request once it has begun.
Progress(c) ==
  \/ Resolve(c) \/ Missing(c) \/ Refresh(c) \/ RefreshFails(c) \/ AnswerLost(c)
  \/ Update(c) \/ Resolved(c) \/ Done(c) \/ Commit(c) \/ AbortDeadlock(c)
  \/ SoftDelete(c)

Next ==
  \/ Connect
  \/ \E c \in Clients :
       \/ StartApi(c) \/ StartMcp(c) \/ Rollback(c) \/ Progress(c)
       \/ \E g \in Rows : Revoke(c, g)

Spec == Init /\ [][Next]_vars

\* The event loop resumes every request, the provider answers or the client
\* library gives up, and PostgreSQL ends deadlocks and hands row locks out in
\* the order they were asked for.
FairSpec == Spec /\ \A c \in Clients : WF_vars(Progress(c)) /\ SF_vars(Update(c))

-----------------------------------------------------------------------------
(* Properties. *)

\* A credential the user still has can be refreshed: its row holds the newest
\* token of the provider, or a running request is about to write it, or the
\* token was lost with a transaction or an answer.  However requests that read
\* the same token interleave, one that came second never keeps the row from
\* the token the first was given.
StoredIsNewest ==
  \A g \in Active : \/ stored[g] = newest[g] \/ g \in lost
                    \/ \E c \in Clients : token[c][g] = newest[g]

\* A row never goes back: no request restores an older token, and none that
\* read a credential before it was deleted brings it back.
NeverGoesBack ==
  [][/\ \A g \in Rows : stored'[g] >= stored[g]
     /\ deleted \subseteq deleted']_vars

\* Every request ends, also those that wait for each other's rows.
RequestsEnd == \A c \in Clients : at[c] # "idle" ~> at[c] = "idle"
=============================================================================
