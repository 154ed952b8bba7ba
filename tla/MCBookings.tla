----------------------------- MODULE MCBookings -----------------------------
(* A small instance: one listing, its agent's slots at times 1 and 2, one or *)
(* two seeded bookings of any status.                                        *)
EXTENDS Bookings, TLC

CONSTANTS r1, r2, r3, c1, c2, a1, a2, p1, s1, s2, s3, b1, b2

(* Slots s1 and s2 are the first agent's, s3 another agent's at s2's time. *)
AgentOf == [s \in Slots |-> IF s = s3 THEN a2 ELSE a1]
OneAgent == [s \in Slots |-> a1]
OneProperty == [s \in Slots |-> p1]
TwoTimes == [s \in Slots |-> IF s = s1 THEN 1 ELSE 2]
AlwaysActive == {[active |-> TRUE, agent |-> a1]}
(* An editor may hand the listing over, or take it off the market. *)
HandedOver == {[active |-> TRUE, agent |-> a1], [active |-> TRUE, agent |-> a2],
               [active |-> FALSE, agent |-> a1]}
OneOrTwo == {1, 2}

(* Slots differ in their times, everything else is interchangeable. *)
Alike == Permutations(Requests) \cup Permutations(Clients) \cup Permutations(Seeded)
=============================================================================
