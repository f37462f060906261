------------------------------ MODULE Approval ------------------------------
(***************************************************************************)
(* What human approval of tool calls promises, whatever carries the        *)
(* answer: a call is asked about at most once, answered at most once, and  *)
(* what the agent is told is that answer.  PermissionGate implements this  *)
(* with a database row, a Redis key and a wake channel.                    *)
(***************************************************************************)
CONSTANTS
  Calls,         \* tool calls
  PreApproved    \* those that need no answer

VARIABLES
  answer,        \* per call: "none", "pending", "approved" or "denied"
  outcome,       \* per call: "none", "allow", "deny" or "void" (abandoned)
  lost           \* calls whose answer was lost with the process handling it

promise == <<answer, outcome, lost>>

Init ==
  /\ answer  = [a \in Calls |-> "none"]
  /\ outcome = [a \in Calls |-> "none"]
  /\ lost    = {}

Conclude(a, o) ==
  /\ outcome[a] = "none"
  /\ outcome' = [outcome EXCEPT ![a] = o]
  /\ UNCHANGED <<answer, lost>>

Pass(a)    == a \in PreApproved /\ answer[a] = "none" /\ Conclude(a, "allow")
Refuse(a)  == answer[a] = "none" /\ Conclude(a, "deny")
Return(a)  ==
  /\ answer[a] \in {"approved", "denied"}
  /\ Conclude(a, IF answer[a] = "approved" THEN "allow" ELSE "deny")
Abandon(a) == answer[a] # "none" /\ Conclude(a, "void")

Ask(a) ==
  /\ answer[a] = "none"
  /\ outcome[a] = "none"
  /\ answer' = [answer EXCEPT ![a] = "pending"]
  /\ UNCHANGED <<outcome, lost>>

\* An answer may also come after the call was abandoned.
Answer(a, d) ==
  /\ answer[a] = "pending"
  /\ answer' = [answer EXCEPT ![a] = d]
  /\ UNCHANGED <<outcome, lost>>

Lose(a) ==
  /\ answer[a] \in {"approved", "denied"}
  /\ lost' = lost \cup {a}
  /\ UNCHANGED <<answer, outcome>>

Next ==
  \E a \in Calls :
    \/ Pass(a) \/ Refuse(a) \/ Ask(a) \/ Return(a) \/ Abandon(a) \/ Lose(a)
    \/ \E d \in {"approved", "denied"} : Answer(a, d)

Spec == Init /\ [][Next]_promise

\* An answer that is not lost reaches the agent.
FairSpec == Spec /\ \A a \in Calls : WF_promise(a \notin lost /\ Return(a))
=============================================================================
