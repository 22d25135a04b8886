------------------------- MODULE MCFreightPlatform -------------------------
(* Instances of FreightPlatform for TLC. *)
EXTENDS FreightPlatform

CONSTANTS c1, r1, r2

\* Every message can be recorded, or refused for good.
BodyOf == [m \in Messages |-> "valid"]

NoHeader == [m \in Messages |-> 1]

=============================================================================
