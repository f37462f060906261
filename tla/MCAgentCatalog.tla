---------------------------- MODULE MCAgentCatalog ----------------------------
EXTENDS AgentCatalog

\* A user with no agent, with one, with two, or with one left after the default was deleted.
MCStarts == {<<>>,
             ("a1" :> [name |-> TheName, dflt |-> TRUE]),
             ("a1" :> [name |-> TheName, dflt |-> FALSE]) @@ ("a2" :> [name |-> "other", dflt |-> TRUE]),
             ("a1" :> [name |-> TheName, dflt |-> FALSE])}
=============================================================================
