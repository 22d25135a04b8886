--------------------------- MODULE MCRelayMetrics ---------------------------
(* Instances of RelayMetrics for TLC. *)
EXTENDS RelayMetrics, TLC

CONSTANTS r1, r2

MetricsSymmetry == Permutations(Relays)

=============================================================================
