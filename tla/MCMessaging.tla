---------------------------- MODULE MCMessaging ----------------------------
(* Instances of Messaging for TLC.                                         *)
EXTENDS Messaging, TLC

CONSTANTS b, i

Scenario(batch, typed, x, n) ==
  [lines |-> (b :> batch) @@ (i :> typed), limit |-> ("x" :> x) @@ ("b" :> n)]

\* The batch client alone, with queues that are too short for its queries or
\* its answers; then with somebody at the terminal who stops the server, or
\* whose query's notification it takes for one of its own.
MCScenarios ==
  {Scenario(<<Query, Query>>, <<>>, 1, 2),
   Scenario(<<Query, Query, ServerExit>>, <<>>, 1, 2),
   Scenario(<<Query, Query, ServerExit>>, <<>>, 2, 1),
   Scenario(<<Query>>, <<ServerExit>>, 2, 1),
   Scenario(<<Query, ServerExit>>, <<Query>>, 2, 1)}
=============================================================================
