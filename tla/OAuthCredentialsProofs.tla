----------------------- MODULE OAuthCredentialsProofs -----------------------
(***************************************************************************)
(* Rotating refresh tokens for any number of clients and credentials: the  *)
(* row of a credential never goes back to an older token, and it holds the *)
(* newest one unless a rollback or a lost answer took it.                  *)
(***************************************************************************)
EXTENDS OAuthCredentials, TLAPS

-----------------------------------------------------------------------------
(* Types. *)

Snapshots == [tok : [Rows -> Nat], flag : SUBSET Rows]

Clean(c) == token[c] = None0 /\ marks[c] \cup drops[c] \cup locks[c] = {}

\* What the type invariant says of the requests.
RequestTypes ==
  /\ at \in [Clients -> Steps] /\ kind \in [Clients -> Kinds]
  /\ snap \in [Clients -> Snapshots]
  /\ cur \in [Clients -> 0..made] /\ mounted \in [Clients -> 0..made]
  /\ token \in [Clients -> [Rows -> Nat]]
  /\ todo \in [Clients -> SUBSET (1..made)] /\ marks \in [Clients -> SUBSET (1..made)]
  /\ drops \in [Clients -> SUBSET (1..made)] /\ locks \in [Clients -> SUBSET Rows]
  /\ \A c \in Clients : /\ at[c] = "idle" => Clean(c)
                        /\ at[c] \in {"refresh", "flush", "drop"} => cur[c] # 0

LEMMA Closed ==
  ASSUME RequestTypes, NEW c \in Clients, Close(c), made \in Nat, made' = made
  PROVE  RequestTypes'
<1> USE RowsAssumption DEF RequestTypes, Close, Rows, Kinds, Steps
<1>1. None0 \in [Rows -> Nat] /\ Unread \in Snapshots
  BY DEF None0, Unread, Snapshots
<1>2. at' \in [Clients -> Steps] /\ kind' \in [Clients -> Kinds]
  OBVIOUS
<1>3. snap' \in [Clients -> Snapshots]
  BY <1>1
<1>4. token' \in [Clients -> [Rows -> Nat]]
  BY <1>1
<1>5. cur' \in [Clients -> 0..made'] /\ mounted' \in [Clients -> 0..made']
  <2>1. made \in Nat => 0 \in 0..made
    OBVIOUS
  <2> QED
    BY <2>1
<1>6. /\ todo' \in [Clients -> SUBSET (1..made')] /\ marks' \in [Clients -> SUBSET (1..made')]
      /\ drops' \in [Clients -> SUBSET (1..made')] /\ locks' \in [Clients -> SUBSET Rows]
  OBVIOUS
<1>7. ASSUME NEW d \in Clients
      PROVE  /\ at'[d] = "idle" => Clean(d)'
             /\ at'[d] \in {"refresh", "flush", "drop"} => cur'[d] # 0
  <2>1. CASE d = c
    BY <2>1 DEF Clean
  <2>2. CASE d # c
    BY <2>2 DEF Clean
  <2> QED
    BY <2>1, <2>2
<1> QED
  BY <1>2, <1>3, <1>4, <1>5, <1>6, <1>7

DatabaseTypes ==
  /\ made \in 0..MaxRows
  /\ stored \in [Rows -> Nat] /\ newest \in [Rows -> Nat]
  /\ flag \subseteq 1..made /\ deleted \subseteq 1..made /\ lost \subseteq Rows

LEMMA Types == TypeOK <=> DatabaseTypes /\ RequestTypes
BY DEF TypeOK, DatabaseTypes, RequestTypes, Snapshots, Clean, None0

LEMMA RowsKept ==
  ASSUME DatabaseTypes, RequestTypes, made' = made
  PROVE  /\ made \in Nat /\ made' \in 0..MaxRows /\ 1..made \subseteq Rows
         /\ \A c \in Clients : /\ Orphans(c) \subseteq Rows /\ marks[c] \subseteq 1..made
                               /\ drops[c] \subseteq 1..made /\ todo[c] \subseteq 1..made
                               /\ Latest(todo[c]) \subseteq todo[c]
BY RowsAssumption DEF DatabaseTypes, RequestTypes, Rows, Orphans, Latest

LEMMA ReadTypes ==
  ASSUME DatabaseTypes, RequestTypes, NEW c \in Clients, NEW rows \in SUBSET Rows, Read(c, rows)
  PROVE  snap' \in [Clients -> Snapshots]
<1> DEFINE seen == [tok  |-> [g \in Rows |-> IF g \in rows THEN stored[g] ELSE 0],
                    flag |-> flag \cap rows]
<1>1. \A g \in Rows : (IF g \in rows THEN stored[g] ELSE 0) \in Nat
  BY DEF DatabaseTypes
<1>2. seen \in Snapshots
  BY <1>1 DEF Snapshots
<1> HIDE DEF seen
<1>3. snap' = [snap EXCEPT ![c] = seen]
  BY DEF Read, seen
<1> QED
  BY <1>2, <1>3 DEF RequestTypes

LEMMA RotateTypes ==
  ASSUME DatabaseTypes, NEW g \in Rows, Rotate(g)
  PROVE  newest' = [newest EXCEPT ![g] = newest[g] + 1] /\ newest' \in [Rows -> Nat]
<1>1. newest' = [newest EXCEPT ![g] = newest[g] + 1] /\ newest[g] + 1 \in Nat
  BY DEF Rotate, DatabaseTypes
<1> QED
  BY <1>1 DEF DatabaseTypes

LEMMA TypeStep == TypeOK /\ [Next]_vars => TypeOK'
<1> SUFFICES ASSUME DatabaseTypes, RequestTypes, [Next]_vars
             PROVE  DatabaseTypes' /\ RequestTypes'
  BY Types DEF TypeOK, DatabaseTypes, RequestTypes, Snapshots, Clean, None0
<1> USE RowsAssumption DEF dbVars, writes, request, Goto, Kinds, Steps
<1>1. CASE Connect
  <2>1. made' \in 0..MaxRows /\ 0..made \subseteq 0..made' /\ 1..made \subseteq 1..made'
    BY <1>1 DEF Connect, DatabaseTypes
  <2>2. DatabaseTypes'
    BY <1>1, <2>1 DEF Connect, DatabaseTypes
  <2>3. RequestTypes'
    BY <1>1, <2>1 DEF Connect, RequestTypes, Clean
  <2> QED
    BY <2>2, <2>3
<1>2. ASSUME NEW c \in Clients, StartApi(c)
      PROVE  DatabaseTypes' /\ RequestTypes'
  <2>1. PICK g \in Active : Read(c, {g}) /\ todo' = [todo EXCEPT ![c] = {g}]
    BY <1>2 DEF StartApi, Latest
  <2>2. g \in 1..made /\ {g} \in SUBSET Rows
    BY <2>1 DEF Active, DatabaseTypes, Rows
  <2>3. snap' \in [Clients -> Snapshots]
    BY <2>1, <2>2, ReadTypes
  <2> QED
    BY <1>2, <2>1, <2>2, <2>3 DEF StartApi, DatabaseTypes, RequestTypes, Clean
<1>3. ASSUME NEW c \in Clients, StartMcp(c)
      PROVE  DatabaseTypes' /\ RequestTypes'
  <2>1. Active \subseteq 1..made /\ Active \in SUBSET Rows
    BY DEF Active, DatabaseTypes, Rows
  <2>2. snap' \in [Clients -> Snapshots]
    BY <1>3, <2>1, ReadTypes DEF StartMcp
  <2> QED
    BY <1>3, <2>1, <2>2 DEF StartMcp, DatabaseTypes, RequestTypes, Clean
<1>4. ASSUME NEW c \in Clients, Rollback(c) \/ AbortDeadlock(c)
      PROVE  DatabaseTypes' /\ RequestTypes'
  BY <1>4, Closed, RowsKept DEF Rollback, AbortDeadlock, DatabaseTypes
<1>5. ASSUME NEW c \in Clients, Resolve(c)
      PROVE  DatabaseTypes' /\ RequestTypes'
  <2>1. PICK g \in Latest(todo[c]) :
          /\ \E to \in {"refresh", "flush"} : at' = [at EXCEPT ![c] = to]
          /\ cur' = [cur EXCEPT ![c] = g] /\ todo' = [todo EXCEPT ![c] = @ \ {g}]
    BY <1>5 DEF Resolve
  <2>2. g \in 0..made /\ g # 0
    BY <1>5, <2>1, RowsKept DEF Resolve
  <2>3. DatabaseTypes'
    BY <1>5 DEF Resolve, DatabaseTypes
  <2>4. cur' \in [Clients -> 0..made] /\ todo' \in [Clients -> SUBSET (1..made)]
    BY <2>1, <2>2 DEF RequestTypes
  <2>5. at' \in [Clients -> Steps] /\ \A d \in Clients : at'[d] = "idle" => at[d] = "idle"
    BY <2>1 DEF RequestTypes
  <2>6. \A d \in Clients : at'[d] \in {"refresh", "flush", "drop"} => cur'[d] # 0
    BY <2>1, <2>2 DEF RequestTypes
  <2> QED
    BY <1>5, <2>3, <2>4, <2>5, <2>6 DEF Resolve, RequestTypes, Clean
<1>6. ASSUME NEW c \in Clients, Missing(c)
      PROVE  DatabaseTypes' /\ RequestTypes'
  <2>1. CASE Close(c)
    BY <1>6, <2>1, Closed, RowsKept DEF Missing, DatabaseTypes
  <2>2. CASE /\ todo' = [todo EXCEPT ![c] = @ \ Latest(@)]
             /\ UNCHANGED <<at, kind, snap, cur, mounted, writes>>
    BY <1>6, <2>2 DEF Missing, DatabaseTypes, RequestTypes, Clean
  <2> QED
    BY <1>6, <2>1, <2>2 DEF Missing
<1>7. ASSUME NEW c \in Clients, Refresh(c)
      PROVE  DatabaseTypes' /\ RequestTypes'
  <2>1. cur[c] \in 1..made /\ cur[c] \in Rows
    BY <1>7, RowsKept DEF Refresh, Accepted, RequestTypes
  <2>2. newest' \in [Rows -> Nat]
    BY <1>7, <2>1, RotateTypes DEF Refresh
  <2>3. token' \in [Clients -> [Rows -> Nat]]
    BY <1>7, <2>1, <2>2 DEF Refresh, RequestTypes
  <2> QED
    BY <1>7, <2>2, <2>3 DEF Refresh, Accepted, DatabaseTypes, RequestTypes, Clean
<1>8. ASSUME NEW c \in Clients, MarkNeedsReauth(c), at[c] = "refresh", made' = made
      PROVE  RequestTypes'
  <2>1. CASE Close(c)
    BY <1>8, <2>1, Closed, RowsKept
  <2>2. CASE kind[c] = "mcp" /\ ~Close(c)
    <3>1. at' = [at EXCEPT ![c] = "next"] /\ marks' = [marks EXCEPT ![c] = @ \cup {cur[c]}]
          /\ UNCHANGED <<request, token, drops, locks>>
      BY <1>8, <2>2 DEF MarkNeedsReauth
    <3> QED
      BY <1>8, <3>1 DEF RequestTypes, Clean
  <2> QED
    BY <1>8, <2>1, <2>2 DEF MarkNeedsReauth
<1>9. ASSUME NEW c \in Clients, RefreshFails(c)
      PROVE  DatabaseTypes' /\ RequestTypes'
  BY <1>8, <1>9 DEF RefreshFails, DatabaseTypes
<1>10. ASSUME NEW c \in Clients, AnswerLost(c)
       PROVE  DatabaseTypes' /\ RequestTypes'
  <2>1. cur[c] \in 1..made /\ cur[c] \in Rows /\ at[c] = "refresh" /\ made' = made
    BY <1>10, RowsKept DEF AnswerLost, Accepted, RequestTypes, DatabaseTypes
  <2>2. newest' \in [Rows -> Nat] /\ RequestTypes'
    BY <1>8, <1>10, <2>1, RotateTypes DEF AnswerLost
  <2> QED
    BY <1>10, <2>1, <2>2 DEF AnswerLost, DatabaseTypes
<1>11. ASSUME NEW c \in Clients, Update(c)
       PROVE  DatabaseTypes' /\ RequestTypes'
  <2>1. DatabaseTypes' /\ made' = made
    BY <1>11 DEF Update, DatabaseTypes
  <2>2. PICK g \in Unsent(c) : locks' = [locks EXCEPT ![c] = @ \cup {g}]
    BY <1>11 DEF Update
  <2>3. locks' \in [Clients -> SUBSET Rows]
    <3>1. Touched(c) \subseteq Rows
      BY <2>1, RowsKept DEF Touched
    <3> QED
      BY <2>2, <3>1 DEF Unsent, RequestTypes
  <2>4. \A d \in Clients : at[d] = "idle" => d # c
    BY <1>11 DEF Update
  <2> QED
    BY <1>11, <2>1, <2>2, <2>3, <2>4 DEF Update, RequestTypes, Clean
<1>12. ASSUME NEW c \in Clients, Resolved(c) \/ Done(c)
       PROVE  DatabaseTypes' /\ RequestTypes'
  BY <1>12 DEF Resolved, Done, DatabaseTypes, RequestTypes, Clean
<1>13. ASSUME NEW c \in Clients, Commit(c)
       PROVE  DatabaseTypes' /\ RequestTypes'
  <2>1. stored' \in [Rows -> Nat]
    BY <1>13 DEF Commit, Written, DatabaseTypes, RequestTypes
  <2> QED
    BY <1>13, <2>1, Closed, RowsKept DEF Commit, Written, DatabaseTypes
<1>14. ASSUME NEW c \in Clients, SoftDelete(c)
       PROVE  DatabaseTypes' /\ RequestTypes'
  <2>1. CASE Close(c)
    BY <1>14, <2>1, Closed, RowsKept DEF SoftDelete, DatabaseTypes
  <2>2. CASE ~Close(c)
    <3>1. cur[c] \in 1..made /\ at[c] = "drop"
      BY <1>14, <2>2 DEF SoftDelete, RequestTypes, DatabaseTypes
    <3>2. /\ at' = [at EXCEPT ![c] = "commit"] /\ drops' = [drops EXCEPT ![c] = {cur[c]}]
          /\ UNCHANGED <<dbVars, newest, request, token, marks, locks, lost>>
      BY <1>14, <2>2 DEF SoftDelete
    <3>3. drops' \in [Clients -> SUBSET (1..made)]
      BY <3>1, <3>2 DEF RequestTypes
    <3> QED
      BY <3>1, <3>2, <3>3 DEF DatabaseTypes, RequestTypes, Clean
  <2> QED
    BY <2>1, <2>2
<1>15. ASSUME NEW c \in Clients, NEW g \in Rows, Revoke(c, g)
       PROVE  DatabaseTypes' /\ RequestTypes'
  BY <1>15 DEF Revoke, Active, DatabaseTypes, RequestTypes, Clean
<1>16. CASE UNCHANGED vars
  BY <1>16 DEF vars, DatabaseTypes, RequestTypes, Clean
<1> QED
  BY <1>1, <1>2, <1>3, <1>4, <1>5, <1>6, <1>7, <1>9, <1>10, <1>11, <1>12, <1>13, <1>14, <1>15,
     <1>16 DEF Next, Progress

\* Every step leaves each variable in its type, for any number of clients.
THEOREM Typing == Spec => []TypeOK
<1>1. Init => TypeOK
  BY RowsAssumption DEF Init, TypeOK, None0, Unread, Rows, Kinds, Steps
<1> QED
  BY <1>1, TypeStep, PTL DEF Spec

-----------------------------------------------------------------------------
(* Rotation. *)

\* A request that a refusal, a missing row or its end closes, and which has
\* nothing to lose.
Unrefreshed(c) ==
  \/ at[c] \in {"idle", "drop"}
  \/ kind[c] = "api" /\ at[c] = "refresh"
  \/ kind[c] = "api" /\ at[c] = "next" /\ todo[c] # {}

\* An API call resolves one credential.
Plan(c) ==
  /\ kind[c] = "api" =>
       /\ \A g, h \in todo[c] : g = h
       /\ at[c] \in {"refresh", "flush"} => todo[c] = {}
  /\ Unrefreshed(c) => \A g \in Rows : token[c][g] = 0

PlanInv == \A c \in Clients : Plan(c)

\* Whoever refreshed first holds the newest token alone: what anyone else has
\* read is the row's token, older than it until its commit.
TokenInv ==
  /\ \A g \in Rows : /\ stored[g] <= newest[g]
                     /\ g > made => stored[g] = 0
  /\ \A c \in Clients, g \in Rows :
       /\ snap[c].tok[g] <= stored[g]
       /\ token[c][g] # 0 => g <= made /\ token[c][g] = newest[g] /\ stored[g] < newest[g]
       /\ \A d \in Clients : token[c][g] # 0 /\ token[d][g] # 0 => c = d

\* A step of one client leaves the plans of the others.
LEMMA OthersKeep ==
  ASSUME PlanInv, NEW c \in Clients, Plan(c)',
         \A d \in Clients \ {c} : /\ at'[d] = at[d] /\ kind'[d] = kind[d]
                                 /\ todo'[d] = todo[d] /\ token'[d] = token[d]
  PROVE  PlanInv'
<1>1. ASSUME NEW d \in Clients, d # c
      PROVE  Plan(d)'
  BY <1>1 DEF PlanInv, Plan, Unrefreshed
<1> QED
  BY <1>1 DEF PlanInv

LEMMA ClosedPlan ==
  ASSUME TypeOK, PlanInv, NEW c \in Clients, Close(c)
  PROVE  PlanInv'
<1>1. Plan(c)'
  BY DEF TypeOK, Plan, Close, None0
<1>2. \A d \in Clients \ {c} : /\ at'[d] = at[d] /\ kind'[d] = kind[d]
                               /\ todo'[d] = todo[d] /\ token'[d] = token[d]
  BY DEF TypeOK, Close
<1> QED
  BY <1>1, <1>2, OthersKeep

LEMMA PlanStep == TypeOK /\ PlanInv /\ [Next]_vars => PlanInv'
<1> SUFFICES ASSUME TypeOK, PlanInv, [Next]_vars
             PROVE  PlanInv'
  OBVIOUS
<1> USE DEF Goto, dbVars, writes, request
<1>1. CASE UNCHANGED <<at, kind, todo, token>>
  BY <1>1 DEF PlanInv, Plan, Unrefreshed
<1>2. ASSUME NEW c \in Clients, Plan(c)',
             \A d \in Clients \ {c} : /\ at'[d] = at[d] /\ kind'[d] = kind[d]
                                     /\ todo'[d] = todo[d] /\ token'[d] = token[d]
      PROVE  PlanInv'
  BY <1>2, OthersKeep
<1>3. ASSUME NEW c \in Clients, StartApi(c)
      PROVE  PlanInv'
  <2>1. PICK g \in Active : todo' = [todo EXCEPT ![c] = {g}]
    BY <1>3 DEF StartApi, Latest
  <2>2. at'[c] = "next" /\ todo'[c] = {g} /\ token'[c] = token[c] /\ at[c] = "idle"
    BY <1>3, <2>1 DEF StartApi, TypeOK
  <2>3. Plan(c)'
    BY <1>3, <2>2 DEF PlanInv, Plan, Unrefreshed
  <2> QED
    BY <1>2, <1>3, <2>1, <2>3 DEF StartApi, TypeOK
<1>4. ASSUME NEW c \in Clients, StartMcp(c)
      PROVE  PlanInv'
  <2>1. Plan(c)'
    BY <1>4 DEF StartMcp, Plan, Unrefreshed, TypeOK
  <2> QED
    BY <1>2, <1>4, <2>1 DEF StartMcp, TypeOK
<1>5. ASSUME NEW c \in Clients, Resolve(c)
      PROVE  PlanInv'
  <2>1. PICK g \in todo[c] :
          /\ \E to \in {"refresh", "flush"} : at' = [at EXCEPT ![c] = to]
          /\ todo' = [todo EXCEPT ![c] = @ \ {g}]
    BY <1>5 DEF Resolve, Latest
  <2>2. at[c] = "next" /\ UNCHANGED <<kind, token>>
    BY <1>5 DEF Resolve
  <2>3. at'[c] \in {"refresh", "flush"} /\ todo'[c] = todo[c] \ {g} /\ todo[c] # {}
    BY <1>5, <2>1 DEF TypeOK
  <2>4. Plan(c)'
    BY <1>5, <2>2, <2>3 DEF PlanInv, Plan, Unrefreshed
  <2> QED
    BY <1>2, <1>5, <2>1, <2>2, <2>4 DEF TypeOK
<1>6. ASSUME NEW c \in Clients, Missing(c), ~Close(c)
      PROVE  PlanInv'
  <2>1. /\ kind[c] = "mcp" /\ at[c] = "next" /\ UNCHANGED <<at, kind, token>>
        /\ todo' = [todo EXCEPT ![c] = @ \ Latest(@)]
    BY <1>6 DEF Missing
  <2>2. Plan(c)'
    BY <2>1 DEF Plan, Unrefreshed
  <2> QED
    BY <1>2, <1>6, <2>1, <2>2 DEF TypeOK
<1>7. ASSUME NEW c \in Clients, Refresh(c)
      PROVE  PlanInv'
  <2>1. /\ at[c] = "refresh" /\ at' = [at EXCEPT ![c] = "flush"] /\ UNCHANGED <<kind, todo>>
        /\ token' = [token EXCEPT ![c][cur[c]] = newest'[cur[c]]]
    BY <1>7 DEF Refresh, Accepted
  <2>2. at'[c] = "flush"
    BY <1>7, <2>1 DEF TypeOK
  <2>3. Plan(c)'
    BY <1>7, <2>1, <2>2 DEF PlanInv, Plan, Unrefreshed
  <2> QED
    BY <1>2, <1>7, <2>1, <2>3 DEF TypeOK
<1>8. ASSUME NEW c \in Clients, MarkNeedsReauth(c)
      PROVE  PlanInv'
  <2>1. CASE Close(c)
    BY <1>8, <2>1, ClosedPlan
  <2>2. CASE ~Close(c)
    <3>1. kind[c] = "mcp" /\ at' = [at EXCEPT ![c] = "next"] /\ UNCHANGED <<kind, todo, token>>
      BY <1>8, <2>2 DEF MarkNeedsReauth
    <3>2. at'[c] = "next"
      BY <1>8, <3>1 DEF TypeOK
    <3>3. Plan(c)'
      BY <3>1, <3>2 DEF Plan, Unrefreshed
    <3> QED
      BY <1>2, <1>8, <3>1, <3>3 DEF TypeOK
  <2> QED
    BY <2>1, <2>2
<1>9. ASSUME NEW c \in Clients, Resolved(c)
      PROVE  PlanInv'
  <2>1. at[c] = "flush" /\ at' = [at EXCEPT ![c] = "next"] /\ UNCHANGED <<kind, todo, token>>
    BY <1>9 DEF Resolved
  <2>2. at'[c] = "next"
    BY <1>9, <2>1 DEF TypeOK
  <2>3. Plan(c)'
    BY <1>9, <2>1, <2>2 DEF PlanInv, Plan, Unrefreshed
  <2> QED
    BY <1>2, <1>9, <2>1, <2>3 DEF TypeOK
<1>10. ASSUME NEW c \in Clients, at'[c] = "commit", UNCHANGED <<kind, todo, token>>
       PROVE  Plan(c)'
  BY <1>10 DEF PlanInv, Plan, Unrefreshed
<1>11. ASSUME NEW c \in Clients, Done(c)
       PROVE  PlanInv'
  <2>1. at' = [at EXCEPT ![c] = "commit"] /\ UNCHANGED <<kind, todo, token>>
    BY <1>11 DEF Done
  <2> QED
    BY <1>2, <1>10, <1>11, <2>1 DEF TypeOK
<1>12. ASSUME NEW c \in Clients, SoftDelete(c), ~Close(c)
       PROVE  PlanInv'
  <2>1. at' = [at EXCEPT ![c] = "commit"] /\ UNCHANGED <<kind, todo, token>>
    BY <1>12 DEF SoftDelete
  <2> QED
    BY <1>2, <1>10, <1>12, <2>1 DEF TypeOK
<1>13. ASSUME NEW c \in Clients, NEW g \in Rows, Revoke(c, g)
       PROVE  PlanInv'
  <2>1. /\ at[c] = "idle" /\ at' = [at EXCEPT ![c] = "drop"]
        /\ kind' = [kind EXCEPT ![c] = "revoke"]
        /\ UNCHANGED <<todo, token>>
    BY <1>13 DEF Revoke
  <2>2. at'[c] = "drop" /\ kind'[c] = "revoke"
    BY <1>13, <2>1 DEF TypeOK
  <2>3. Plan(c)'
    BY <1>13, <2>1, <2>2 DEF PlanInv, Plan, Unrefreshed
  <2> QED
    BY <1>2, <1>13, <2>1, <2>3 DEF TypeOK
<1>14. ASSUME NEW c \in Clients,
              \/ Rollback(c) \/ AbortDeadlock(c) \/ Commit(c)
              \/ RefreshFails(c) \/ AnswerLost(c) \/ Update(c)
       PROVE  Close(c) \/ MarkNeedsReauth(c) \/ UNCHANGED <<at, kind, todo, token>>
  BY <1>14 DEF Rollback, AbortDeadlock, Commit, RefreshFails, AnswerLost, Update
<1>15. Connect \/ UNCHANGED vars => UNCHANGED <<at, kind, todo, token>>
  BY DEF Connect, vars
<1> QED
  BY <1>1, <1>3, <1>4, <1>5, <1>6, <1>7, <1>8, <1>9, <1>11, <1>12, <1>13, <1>14, <1>15, ClosedPlan
  DEF Next, Progress

LEMMA ClosedTokens ==
  ASSUME TypeOK, TokenInv, NEW c \in Clients, Close(c), UNCHANGED <<made, stored, newest>>
  PROVE  TokenInv'
<1>1. \A d \in Clients, g \in Rows : /\ token'[d][g] \in {0, token[d][g]}
                                     /\ snap'[d].tok[g] \in {0, snap[d].tok[g]}
  BY DEF TypeOK, Close, Unread, None0
<1>2. \A g \in Rows : stored[g] \in Nat
  BY DEF TypeOK
<1> QED
  BY <1>1, <1>2 DEF TokenInv

\* Only who has read the token the row still has may refresh, and then nobody
\* holds an uncommitted one.
LEMMA AcceptedAlone ==
  ASSUME TypeOK, TokenInv, NEW c \in Clients, Accepted(c)
  PROVE  /\ cur[c] \in Rows /\ cur[c] <= made /\ stored[cur[c]] = newest[cur[c]]
         /\ \A d \in Clients : token[d][cur[c]] = 0
<1>1. cur[c] \in Rows /\ cur[c] <= made
  BY RowsAssumption DEF TypeOK, Accepted, Rows
<1>2. \A d \in Clients : /\ stored[cur[c]] \in Nat /\ newest[cur[c]] \in Nat
                        /\ token[d][cur[c]] \in Nat /\ snap[c].tok[cur[c]] \in Nat
  BY <1>1 DEF TypeOK
<1> QED
  BY <1>1, <1>2 DEF TokenInv, Accepted

LEMMA RotateOne ==
  ASSUME TypeOK, NEW r \in Rows, Rotate(r)
  PROVE  /\ newest'[r] = newest[r] + 1
         /\ \A g \in Rows : g # r => newest'[g] = newest[g]
BY DEF TypeOK, Rotate

LEMMA TokenStep == TypeOK /\ PlanInv /\ TokenInv /\ [Next]_vars => TokenInv'
<1> SUFFICES ASSUME TypeOK, PlanInv, TokenInv, [Next]_vars
             PROVE  TokenInv'
  OBVIOUS
<1> USE DEF Goto, dbVars, writes, request
<1>1. CASE Connect
  <2>1. made \in Nat /\ made' = made + 1 /\ made' \in Rows
    BY <1>1, RowsAssumption DEF Connect, TypeOK, Rows
  <2>2. /\ stored' = [stored EXCEPT ![made'] = 1] /\ newest' = [newest EXCEPT ![made'] = 1]
        /\ token' = token /\ snap' = snap
    BY <1>1 DEF Connect
  <2>3. \A g \in Rows : g \in Nat
    BY DEF Rows
  <2>4. stored[made'] = 0
    BY <2>1 DEF TokenInv
  <2>5. /\ stored'[made'] = 1 /\ newest'[made'] = 1
        /\ \A g \in Rows : g # made' => stored'[g] = stored[g] /\ newest'[g] = newest[g]
    BY <2>1, <2>2 DEF TypeOK
  <2>6. \A c \in Clients : token[c][made'] = 0 /\ snap[c].tok[made'] <= 1
    BY <2>1, <2>4 DEF TokenInv, TypeOK
  <2> QED
    BY <2>1, <2>2, <2>3, <2>5, <2>6 DEF TokenInv
<1>2. ASSUME NEW c \in Clients, StartApi(c) \/ StartMcp(c)
      PROVE  TokenInv'
  <2>1. PICK rows : Read(c, rows)
    BY <1>2 DEF StartApi, StartMcp
  <2>2. \A d \in Clients, g \in Rows : snap'[d].tok[g] \in {0, stored[g], snap[d].tok[g]}
    BY <2>1 DEF Read, TypeOK
  <2>3. \A g \in Rows : stored[g] \in Nat
    BY DEF TypeOK
  <2> QED
    BY <1>2, <2>2, <2>3 DEF StartApi, StartMcp, TokenInv
<1>3. ASSUME NEW c \in Clients, Rollback(c) \/ AbortDeadlock(c)
      PROVE  TokenInv'
  BY <1>3, ClosedTokens DEF Rollback, AbortDeadlock
<1>4. ASSUME NEW c \in Clients, Refresh(c)
      PROVE  TokenInv'
  <2> DEFINE r == cur[c]
  <2>1. /\ r \in Rows /\ r <= made /\ stored[r] = newest[r]
        /\ \A d \in Clients : token[d][r] = 0
    BY <1>4, AcceptedAlone DEF Refresh
  <2>2. newest'[r] = newest[r] + 1 /\ \A g \in Rows : g # r => newest'[g] = newest[g]
    BY <1>4, <2>1, RotateOne DEF Refresh
  <2>3. /\ token'[c][r] = newest'[r]
        /\ \A d \in Clients, g \in Rows : d # c \/ g # r => token'[d][g] = token[d][g]
    BY <1>4, <2>1 DEF Refresh, TypeOK
  <2>4. \A g \in Rows : stored[g] \in Nat /\ newest[g] \in Nat
    BY DEF TypeOK
  <2>5. UNCHANGED <<made, stored, snap>>
    BY <1>4 DEF Refresh
  <2> HIDE DEF r
  <2> QED
    BY <2>1, <2>2, <2>3, <2>4, <2>5 DEF TokenInv
<1>5. ASSUME NEW c \in Clients, RefreshFails(c)
      PROVE  TokenInv'
  <2>1. CASE Close(c)
    BY <1>5, <2>1, ClosedTokens DEF RefreshFails
  <2>2. CASE ~Close(c)
    BY <1>5, <2>2 DEF RefreshFails, MarkNeedsReauth, TokenInv
  <2> QED
    BY <2>1, <2>2
<1>6. ASSUME NEW c \in Clients, AnswerLost(c)
      PROVE  TokenInv'
  <2> DEFINE r == cur[c]
  <2>1. /\ r \in Rows /\ r <= made /\ stored[r] = newest[r]
        /\ \A d \in Clients : token[d][r] = 0
    BY <1>6, AcceptedAlone DEF AnswerLost
  <2>2. newest'[r] = newest[r] + 1 /\ \A g \in Rows : g # r => newest'[g] = newest[g]
    BY <1>6, <2>1, RotateOne DEF AnswerLost
  <2>3. \A d \in Clients, g \in Rows : /\ token'[d][g] \in {0, token[d][g]}
                                       /\ snap'[d].tok[g] \in {0, snap[d].tok[g]}
    <3>1. CASE Close(c)
      BY <3>1 DEF Close, Unread, None0, TypeOK
    <3>2. CASE ~Close(c)
      BY <1>6, <3>2 DEF AnswerLost, MarkNeedsReauth
    <3> QED
      BY <3>1, <3>2
  <2>4. \A g \in Rows : stored[g] \in Nat /\ newest[g] \in Nat
    BY DEF TypeOK
  <2>5. UNCHANGED <<made, stored>>
    BY <1>6 DEF AnswerLost
  <2> HIDE DEF r
  <2> QED
    BY <2>1, <2>2, <2>3, <2>4, <2>5 DEF TokenInv
<1>7. ASSUME NEW c \in Clients, Commit(c)
      PROVE  TokenInv'
  <2>1. \A g \in Rows : stored'[g] = IF token[c][g] # 0 THEN token[c][g] ELSE stored[g]
    BY <1>7 DEF Commit, Written
  <2>2. UNCHANGED <<made, newest>>
    BY <1>7 DEF Commit
  <2>3. \A d \in Clients, g \in Rows :
          /\ token'[d][g] = IF d = c THEN 0 ELSE token[d][g]
          /\ snap'[d].tok[g] \in {0, snap[d].tok[g]}
    BY <1>7 DEF Commit, Close, Unread, None0, TypeOK
  <2>4. \A g \in Rows : g \in Nat /\ made \in Nat /\ stored[g] \in Nat /\ newest[g] \in Nat
    BY DEF TypeOK, Rows
  <2>5. \A d \in Clients, g \in Rows : token[d][g] \in Nat /\ snap[d].tok[g] \in Nat
    BY DEF TypeOK
  <2> QED
    BY <2>1, <2>2, <2>3, <2>4, <2>5 DEF TokenInv
<1>8. ASSUME NEW c \in Clients, Resolve(c) \/ Update(c) \/ Resolved(c) \/ Done(c)
      PROVE  TokenInv'
  BY <1>8 DEF Resolve, Update, Resolved, Done, TokenInv
<1>9. ASSUME NEW c \in Clients, Missing(c)
      PROVE  TokenInv'
  <2>1. CASE Close(c)
    BY <1>9, <2>1, ClosedTokens DEF Missing
  <2>2. CASE ~Close(c)
    BY <1>9, <2>2 DEF Missing, TokenInv
  <2> QED
    BY <2>1, <2>2
<1>10. ASSUME NEW c \in Clients, SoftDelete(c)
       PROVE  TokenInv'
  <2>1. CASE Close(c)
    BY <1>10, <2>1, ClosedTokens DEF SoftDelete
  <2>2. CASE ~Close(c)
    BY <1>10, <2>2 DEF SoftDelete, TokenInv
  <2> QED
    BY <2>1, <2>2
<1>11. ASSUME NEW c \in Clients, NEW g \in Rows, Revoke(c, g)
       PROVE  TokenInv'
  BY <1>11 DEF Revoke, TokenInv
<1>12. CASE UNCHANGED vars
  BY <1>12 DEF vars, TokenInv
<1> QED
  BY <1>1, <1>2, <1>3, <1>4, <1>5, <1>6, <1>7, <1>8, <1>9, <1>10, <1>11, <1>12 DEF Next, Progress

LEMMA Initially == Init => TypeOK /\ PlanInv /\ TokenInv
BY RowsAssumption
DEF Init, TypeOK, PlanInv, Plan, Unrefreshed, TokenInv, None0, Unread, Rows, Kinds, Steps

LEMMA Rotation == Spec => [](TypeOK /\ PlanInv /\ TokenInv)
<1>1. TypeOK /\ PlanInv /\ TokenInv /\ [Next]_vars => (TypeOK /\ PlanInv /\ TokenInv)'
  BY TypeStep, PlanStep, TokenStep
<1> QED
  BY <1>1, Initially, PTL DEF Spec

-----------------------------------------------------------------------------
(* The row and the provider. *)

\* No request puts an older token back or undoes a deletion: what it commits
\* is newer than the row.
THEOREM Forward == Spec => NeverGoesBack
<1> DEFINE Ahead == /\ \A g \in Rows : stored'[g] >= stored[g]
                    /\ deleted \subseteq deleted'
<1>1. TypeOK /\ TokenInv /\ [Next]_vars =>
        [/\ \A g \in Rows : stored'[g] >= stored[g]
         /\ deleted \subseteq deleted']_vars
  <2> SUFFICES ASSUME TypeOK, TokenInv, Next
               PROVE  Ahead
    OBVIOUS
  <2>1. \A g \in Rows : stored[g] \in Nat /\ newest[g] \in Nat
    BY DEF TypeOK
  <2>2. CASE Connect
    <3>1. made \in Nat /\ made' = made + 1 /\ made' \in Rows
      BY <2>2, RowsAssumption DEF Connect, TypeOK, Rows
    <3>2. stored[made'] = 0
      BY <3>1 DEF TokenInv
    <3>3. \A g \in Rows : g # made' => stored'[g] = stored[g]
      BY <2>2, <3>1 DEF Connect, TypeOK
    <3>4. stored'[made'] = 1 /\ deleted' = deleted
      BY <2>2, <3>1 DEF Connect, TypeOK
    <3> QED
      BY <2>1, <3>2, <3>3, <3>4
  <2>3. ASSUME NEW c \in Clients, Commit(c)
        PROVE  Ahead
    <3>1. /\ \A g \in Rows : stored'[g] = IF token[c][g] # 0 THEN token[c][g] ELSE stored[g]
          /\ deleted \subseteq deleted'
      BY <2>3 DEF Commit, Written
    <3> QED
      BY <2>1, <3>1 DEF TokenInv
  <2>4. CASE UNCHANGED <<stored, deleted>>
    BY <2>1, <2>4
  <2>5. ASSUME NEW c \in Clients, Progress(c)
        PROVE  Commit(c) \/ UNCHANGED <<stored, deleted>>
    BY <2>5 DEF Progress, Resolve, Missing, Refresh, RefreshFails, AnswerLost, Update, Resolved,
                Done, AbortDeadlock, SoftDelete, dbVars
  <2>6. ASSUME NEW c \in Clients, StartApi(c) \/ StartMcp(c) \/ Rollback(c)
        PROVE  UNCHANGED <<stored, deleted>>
    BY <2>6 DEF StartApi, StartMcp, Rollback, dbVars
  <2>7. ASSUME NEW c \in Clients, NEW g \in Rows, Revoke(c, g)
        PROVE  UNCHANGED <<stored, deleted>>
    BY <2>7 DEF Revoke, dbVars
  <2> QED
    BY <2>2, <2>3, <2>4, <2>5, <2>6, <2>7 DEF Next
<1> QED
  BY <1>1, Rotation, PTL DEF Spec, NeverGoesBack

\* A request that closes with nothing of its own to lose, or says what it lost.
LEMMA ClosedNewest ==
  ASSUME TypeOK, StoredIsNewest, NEW c \in Clients, Close(c),
         UNCHANGED <<made, deleted, stored, newest>>, lost \subseteq lost',
         \A g \in Rows : token[c][g] = 0 \/ g \in lost'
  PROVE  StoredIsNewest'
<1>1. Active' = Active /\ Active \subseteq Rows
  BY RowsAssumption DEF Active, TypeOK, Rows
<1>2. \A d \in Clients, g \in Rows : d # c => token'[d][g] = token[d][g]
  BY DEF Close, TypeOK
<1>3. ASSUME NEW g \in Active
      PROVE  \/ stored[g] = newest[g] \/ g \in lost'
             \/ \E d \in Clients : token'[d][g] = newest[g]
  <2>1. CASE \E d \in Clients : token[d][g] = newest[g]
    <3>1. PICK d \in Clients : token[d][g] = newest[g]
      BY <2>1
    <3>2. CASE d # c
      BY <1>1, <1>2, <1>3, <3>1, <3>2
    <3>3. CASE d = c /\ token[c][g] = 0
      BY <3>1, <3>3, <1>1, <1>3 DEF Close, None0, TypeOK
    <3> QED
      BY <1>1, <1>3, <3>2, <3>3
  <2> QED
    BY <1>3, <2>1 DEF StoredIsNewest
<1> QED
  BY <1>1, <1>3 DEF StoredIsNewest

LEMMA NewestStep ==
  TypeOK /\ PlanInv /\ TokenInv /\ StoredIsNewest /\ [Next]_vars => StoredIsNewest'
<1> SUFFICES ASSUME TypeOK, PlanInv, TokenInv, StoredIsNewest, [Next]_vars
             PROVE  StoredIsNewest'
  OBVIOUS
<1> USE DEF Goto, dbVars, writes, request
<1>1. Active \subseteq Rows /\ Active \subseteq 1..made
  BY RowsAssumption DEF Active, TypeOK, Rows
<1>2. CASE Connect
  <2>1. made \in Nat /\ made' = made + 1 /\ made' \in Rows
    BY <1>2, RowsAssumption DEF Connect, TypeOK, Rows
  <2>2. /\ stored'[made'] = 1 /\ newest'[made'] = 1
        /\ \A g \in Rows : g # made' => stored'[g] = stored[g] /\ newest'[g] = newest[g]
        /\ UNCHANGED <<token, lost, deleted>>
    BY <1>2, <2>1 DEF Connect, TypeOK
  <2>3. \A g \in Active' : g = made' \/ (g \in Active /\ g # made')
    <3>1. 1..made' = (1..made) \cup {made'} /\ made' \notin 1..made
      BY <2>1
    <3>2. Active' = (1..made') \ deleted
      BY <2>2 DEF Active
    <3> QED
      BY <3>1, <3>2 DEF Active
  <2> QED
    BY <1>1, <2>2, <2>3 DEF StoredIsNewest
<1>3. ASSUME NEW c \in Clients, Rollback(c) \/ AbortDeadlock(c)
      PROVE  StoredIsNewest'
  <2>1. \A g \in Rows : token[c][g] = 0 \/ g \in lost'
    BY <1>3 DEF Rollback, AbortDeadlock, Orphans
  <2> QED
    BY <1>3, <2>1, ClosedNewest DEF Rollback, AbortDeadlock
<1>4. ASSUME NEW c \in Clients, Close(c), Unrefreshed(c),
             UNCHANGED <<made, deleted, stored, newest, lost>>
      PROVE  StoredIsNewest'
  BY <1>4, ClosedNewest DEF PlanInv, Plan
<1>5. ASSUME NEW c \in Clients, Refresh(c) \/ AnswerLost(c)
      PROVE  StoredIsNewest'
  <2> DEFINE r == cur[c]
  <2>1. /\ r \in Rows /\ stored[r] = newest[r] /\ Rotate(r)
        /\ \A d \in Clients : token[d][r] = 0
    BY <1>5, AcceptedAlone DEF Refresh, AnswerLost
  <2>2. \A g \in Rows : g # r => newest'[g] = newest[g]
    BY <2>1, RotateOne
  <2>3. UNCHANGED <<made, stored, deleted>> /\ Active' = Active /\ lost \subseteq lost'
    BY <1>5 DEF Refresh, AnswerLost, Active
  <2>4. r \in lost' \/ \E d \in Clients : token'[d][r] = newest'[r]
    BY <1>5, <2>1 DEF Refresh, AnswerLost, TypeOK
  <2>5. ASSUME NEW g \in Active, g # r
        PROVE  \/ stored[g] = newest[g] \/ g \in lost
               \/ \E d \in Clients : token'[d][g] = newest[g]
    <3>1. ASSUME NEW d \in Clients, token[d][g] # 0
          PROVE  token'[d][g] = token[d][g]
      <4>1. CASE Close(c)
        <5>1. at[c] = "refresh" /\ at'[c] = "idle"
          BY <1>5, <4>1 DEF Refresh, AnswerLost, Accepted, Close, TypeOK
        <5>2. kind[c] = "api"
          BY <1>5, <5>1 DEF Refresh, AnswerLost, MarkNeedsReauth, TypeOK
        <5>3. token[c][g] = 0
          BY <1>1, <1>5, <5>1, <5>2 DEF PlanInv, Plan, Unrefreshed
        <5> QED
          BY <3>1, <4>1, <5>3 DEF Close, TypeOK
      <4>2. CASE ~Close(c)
        <5>1. CASE token' = token
          BY <5>1
        <5>2. CASE token' = [token EXCEPT ![c][r] = newest'[r]]
          BY <1>1, <2>5, <5>2 DEF TypeOK
        <5> QED
          BY <1>5, <4>2, <5>1, <5>2 DEF Refresh, AnswerLost, MarkNeedsReauth
      <4> QED
        BY <4>1, <4>2
    <3>2. \A d \in Clients : token[d][g] = 0 => newest[g] # token[d][g] \/ stored[g] = newest[g]
      BY <1>1, <2>5 DEF TypeOK, TokenInv
    <3> QED
      BY <1>1, <2>5, <3>1, <3>2 DEF StoredIsNewest
  <2> HIDE DEF r
  <2> QED
    BY <1>1, <2>1, <2>2, <2>3, <2>4, <2>5 DEF StoredIsNewest
<1>6. ASSUME NEW c \in Clients, Commit(c)
      PROVE  StoredIsNewest'
  <2>1. /\ \A g \in Rows : stored'[g] = IF token[c][g] # 0 THEN token[c][g] ELSE stored[g]
        /\ UNCHANGED <<made, newest, lost>> /\ deleted \subseteq deleted'
    BY <1>6 DEF Commit, Written
  <2>2. Active' \subseteq Active
    BY <2>1 DEF Active
  <2>3. \A d \in Clients, g \in Rows : d # c => token'[d][g] = token[d][g]
    BY <1>6 DEF Commit, Close, TypeOK
  <2>4. \A g \in Rows : token[c][g] # 0 => stored'[g] = newest'[g]
    BY <2>1 DEF TokenInv
  <2>5. \A g \in Rows : token[c][g] = 0 => token[c][g] # newest[g] \/ stored'[g] = newest'[g]
    BY <2>1 DEF TokenInv, TypeOK
  <2> QED
    BY <1>1, <2>1, <2>2, <2>3, <2>4, <2>5 DEF StoredIsNewest
<1>7. ASSUME NEW c \in Clients, Missing(c)
      PROVE  StoredIsNewest'
  <2>1. CASE Close(c)
    <3>1. kind[c] = "api" \/ UNCHANGED <<at, token>>
      BY <1>7 DEF Missing
    <3>2. CASE kind[c] = "api"
      BY <1>4, <1>7, <2>1, <3>2 DEF Missing, Unrefreshed, Latest
    <3>3. CASE UNCHANGED <<at, token>>
      BY <1>7, <3>3 DEF Missing, StoredIsNewest, Active
    <3> QED
      BY <3>1, <3>2, <3>3
  <2>2. CASE ~Close(c)
    BY <1>7, <2>2 DEF Missing, StoredIsNewest, Active
  <2> QED
    BY <2>1, <2>2
<1>8. ASSUME NEW c \in Clients, RefreshFails(c)
      PROVE  StoredIsNewest'
  <2>1. CASE kind[c] = "api"
    <3>1. Close(c) /\ at[c] = "refresh" /\ UNCHANGED <<made, deleted, stored, newest, lost>>
      BY <1>8, <2>1 DEF RefreshFails, MarkNeedsReauth
    <3> QED
      BY <1>4, <1>8, <2>1, <3>1 DEF Unrefreshed
  <2>2. CASE kind[c] # "api"
    BY <1>8, <2>2 DEF RefreshFails, MarkNeedsReauth, StoredIsNewest, Active
  <2> QED
    BY <2>1, <2>2
<1>9. ASSUME NEW c \in Clients, SoftDelete(c)
      PROVE  StoredIsNewest'
  <2>1. CASE Close(c) /\ at[c] = "drop"
    BY <1>4, <1>9, <2>1 DEF SoftDelete, Unrefreshed
  <2>2. CASE ~Close(c)
    BY <1>9, <2>2 DEF SoftDelete, StoredIsNewest, Active
  <2> QED
    BY <1>9, <2>1, <2>2 DEF SoftDelete
<1>10. CASE UNCHANGED <<made, deleted, stored, newest, token, lost>>
  BY <1>10 DEF StoredIsNewest, Active
<1>11. ASSUME NEW c \in Clients,
              \/ StartApi(c) \/ StartMcp(c) \/ Resolve(c)
              \/ Update(c) \/ Resolved(c) \/ Done(c)
       PROVE  UNCHANGED <<made, deleted, stored, newest, token, lost>>
  BY <1>11 DEF StartApi, StartMcp, Resolve, Update, Resolved, Done
<1>12. ASSUME NEW c \in Clients, NEW g \in Rows, Revoke(c, g)
       PROVE  UNCHANGED <<made, deleted, stored, newest, token, lost>>
  BY <1>12 DEF Revoke
<1>13. CASE UNCHANGED vars
  BY <1>10, <1>13 DEF vars
<1> QED
  BY <1>2, <1>3, <1>5, <1>6, <1>7, <1>8, <1>9, <1>10, <1>11, <1>12, <1>13 DEF Next, Progress

\* Of a credential the user still has the row holds the newest token, or the
\* request that refreshed it is about to write it, or the token is lost.
THEOREM Newest == Spec => []StoredIsNewest
<1>1. Init => StoredIsNewest
  BY DEF Init, StoredIsNewest, Active
<1> QED
  BY <1>1, NewestStep, Rotation, PTL DEF Spec
=============================================================================
