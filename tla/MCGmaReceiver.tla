---------------------------- MODULE MCGmaReceiver ----------------------------
(* Instances of GmaReceiver for TLC. *)
EXTENDS GmaReceiver

MCPropagation == [c \in Cids |-> 20]

MCScenario(burst, pauses, kinds, queues) ==
  [burst |-> burst, pauses |-> pauses, kinds |-> kinds, queues |-> queues]

\* In steer mode an interval ends because it is long enough or because enough
\* packets were received.  A queue of 3 ms makes no difference that counts.
MCScenarios == {MCScenario(1, {100, 1001}, {"probe", "queue"}, {0, 10}),
                MCScenario(1, {1001}, {"probe", "queue"}, {0, 3}),
                MCScenario(1, {100, 1001}, {"ack", "loss"}, {0}),
                MCScenario(1, {1001}, {"probe", "link", "queue"}, {0, 10}),
                MCScenario(4, {1001}, {"probe", "queue"}, {0, 10}),
                MCScenario(4, {1001}, {"probe", "link"}, {0}),
                MCScenario(4, {1001}, {"loss", "late"}, {0})}

=============================================================================
