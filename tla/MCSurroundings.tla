----------------------------- MODULE MCSurroundings -----------------------------
(* TLC instance of the parts around the pipeline in which several actors meet:
   routing, migrations, paged ledger reads, the reviewer's page and the client
   agent. They share nothing, so one run explores their disjoint union: part
   names the one that moves. *)
EXTENDS SessionRouting, Migrations, EvidenceLedger, ReviewConsole, ClientAgent

CONSTANTS a, b, c

VARIABLE part

vars == << part, routingVars, migrationVars, ledgerVars, reviewVars, agentVars >>

\* Nodes of three replicas in turn, and a key at and between all of them.
MCNodeHash ==
    [node \in Replicas \X (1 .. 2) |->
        CASE node[1] = a -> 4 * node[2] - 3
          [] node[1] = b -> 3 * node[2]
          [] node[1] = c -> 2 * node[2]]

MCKeyHash == [session \in Keys |-> session]

MCFleets == { << b, a >>, << a, b, c >>, << b, c >> }

\* Two older images, a newer one, one out of order and one with a duplicate.
MCMigrationLists == { << 1 >>, << 1, 2 >>, << 1, 2, 3 >>, << 2, 1 >>, << 1, 1 >> }

Init ==
    /\ part \in { "routing", "migrations", "ledger", "page", "agent" }
    /\ RoutingInit /\ MigrationsInit /\ LedgerInit /\ ReviewInit /\ AgentInit
    \* The parts that do not move start in one way only.
    /\ part # "routing" => \A router \in Routers : fleet[router] = << b, a >>
    /\ part # "ledger" => encryptionKey = CHOOSE key \in EncryptionKeys : TRUE

Next ==
    \/ /\ part = "routing" /\ RoutingNext
       /\ UNCHANGED << part, migrationVars, ledgerVars, reviewVars, agentVars >>
    \/ /\ part = "migrations" /\ MigrationsNext
       /\ UNCHANGED << part, routingVars, ledgerVars, reviewVars, agentVars >>
    \/ /\ part = "ledger" /\ LedgerNext
       /\ UNCHANGED << part, routingVars, migrationVars, reviewVars, agentVars >>
    \/ /\ part = "page" /\ ReviewNext
       /\ UNCHANGED << part, routingVars, migrationVars, ledgerVars, agentVars >>
    \/ /\ part = "agent" /\ AgentNext
       /\ UNCHANGED << part, routingVars, migrationVars, ledgerVars, reviewVars >>

Spec == Init /\ [][Next]_vars /\ MigrationFairness /\ ReviewFairness
=============================================================================
