------------------------- MODULE MCMessageTopology -------------------------
(* Instances of MessageTopology for TLC. *)
EXTENDS MessageTopology, TLC

CONSTANTS x1, x2, x3, x4, q1, q2, q3, q4

NamesSymmetry == Permutations(ExchangeNames) \cup Permutations(QueueNames)

=============================================================================
