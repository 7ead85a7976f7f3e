---------------------------- MODULE MCEventInbox ----------------------------
(* Two events. The second is delivered with one payload that hashes to the partition of the  *)
(* first and with another that hashes to a partition of its own, so the order within a       *)
(* partition, two workers saving the same file and an id that comes back with another        *)
(* payload are all within reach. (Liveness is checked in MCInbound, with one partition.)     *)
EXTENDS EventInbox

CONSTANTS a, b, d1, d2, p1, p2

MCIds == {a, b}
MCDigests == {d1, d2}
MCParts == {p1, p2}
MCDeliveries == {<<a, d1>>, <<b, d1>>, <<b, d2>>}
MCPartOf == [x \in MCIds \X MCDigests |-> IF x[2] = d2 THEN p2 ELSE p1]
=============================================================================
