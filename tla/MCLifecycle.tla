------------------------------ MODULE MCLifecycle ------------------------------
(* TLC instance of LifecycleStateManager: one session (sessions share nothing
   in the manager) and posteriors on both sides of every bar of the ladder. *)
EXTENDS LifecycleStateManager

P(probability, bundles, events) ==
    [probability |-> probability, bundles |-> bundles, events |-> events]

\* On both sides of the bars: 49 is below every tier, each of the others enters
\* a tier of its own and falls short of the one above, and climbing out of the
\* third tier waits for a dwell longer than MaxLag.
MCPosteriors == { P(49, 1, 1), P(55, 1, 1), P(70, 2, 3), P(85, 2, 5), P(95, 2, 8) }
=============================================================================
