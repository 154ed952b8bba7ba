---------------------------- MODULE MCBookingRoles ----------------------------
(* Four requests at once, each held to one operation so that the instance    *)
(* stays small: two that cancel and two that create reach the double         *)
(* booking, two that reschedule and two that cancel the crossed row locks.   *)
EXTENDS Bookings, TLC

CONSTANTS r1, r2, r3, r4, c1, c2, a1, p1, s1, s2, b1, b2, Role

OneAgent == [s \in Slots |-> a1]
OneProperty == [s \in Slots |-> p1]
TwoTimes == [s \in Slots |-> IF s = s1 THEN 1 ELSE 2]
AlwaysActive == {[active |-> TRUE, agent |-> a1]}
OneOrTwo == {1, 2}

TwoMovesTwoCancels == [r \in Requests |-> IF r \in {r1, r2} THEN "reschedule" ELSE "cancel"]
TwoCreatesTwoCancels == [r \in Requests |-> IF r \in {r1, r2} THEN "create" ELSE "cancel"]

SameRole == Permutations({r1, r2}) \cup Permutations({r3, r4})

AllConfirmed == Init /\ \A b \in Seeded : bookings[b].status = "confirmed"
InRole == \A r \in Requests : call[r] # None => call[r].op = Role[r]

RoleSpec == AllConfirmed /\ [][Next /\ InRole']_vars

(* Both bookings are moved onto each other's slot while both are cancelled. *)
Crossing ==
  /\ InRole
  /\ \A r \in Requests : call[r] # None =>
       call[r].booking = IF r \in {r1, r3} THEN b1 ELSE b2

(* Two requests make whatever calls they like. *)
Pair == \A r \in {r3, r4} : call[r] = None

(* Crossing requests, which may deadlock, or a pair of any calls, which may  *)
(* also fail; fairness is that of FairSpec.                                  *)
CrossingOrPairNext ==
  \/ /\ \E r \in Requests : Submit(r) \/ Proceed(r) \/ DeadlockVictim(r)
     /\ Crossing'
  \/ Next /\ Pair'

(* The second booking may have ended already, so that its slot is contested. *)
FirstConfirmed == Init /\ bookings[b1].status = "confirmed"

CrossingOrPairSpec ==
  /\ FirstConfirmed /\ [][CrossingOrPairNext]_vars
  /\ \A r \in Requests : WF_vars(Proceed(r)) /\ WF_vars(DeadlockVictim(r))
=============================================================================
