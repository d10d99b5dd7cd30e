-------------------------------- MODULE MCSlotd --------------------------------
(* Three connections of two clients, the first two of the same client. *)
EXTENDS Slotd, TLC

CONSTANTS c1, c2, c3, site1, site2

MCConnections == {c1, c2, c3}
Symmetry      == Permutations({c1, c2})
MCClients     == {site1, site2}
MCClientOf    == [c \in MCConnections |-> IF c = c3 THEN site2 ELSE site1]
===============================================================================
