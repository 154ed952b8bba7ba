---------------------------- MODULE ViewingLedger ----------------------------
(****************************************************************************)
(* What the booking core promises, with every operation atomic: a slot is   *)
(* either free or occupied by exactly one viewing, a viewing moves from one *)
(* slot to another in one step, and a cancelled viewing never comes back.   *)
(*                                                                          *)
(* Bookings.tla is the concurrent program; under SerialSpec it implements   *)
(* this specification through the mapping at the end of that module.        *)
(****************************************************************************)
CONSTANTS
  Slots,      \* availability slots, the rows of availability_slots
  Viewings,   \* booking identifiers
  None        \* "no slot"

VARIABLES
  free,       \* slots an agent still offers
  occupies,   \* the slot each live viewing occupies, None when it has none
  ended       \* viewings that were cancelled

ledgerVars == <<free, occupies, ended>>

LedgerTypeOK ==
  /\ free \subseteq Slots
  /\ occupies \in [Viewings -> Slots \cup {None}]
  /\ ended \subseteq Viewings

Taken == {occupies[v] : v \in Viewings} \ {None}

LedgerInit ==
  /\ occupies \in [Viewings -> Slots \cup {None}]
  /\ \A v, w \in Viewings : v # w /\ occupies[v] # None => occupies[v] # occupies[w]
  /\ ended \in SUBSET {v \in Viewings : occupies[v] = None}
  /\ free = Slots \ Taken

(* create_booking: take a free slot for a viewing that never existed. *)
Book(v, s) ==
  /\ v \notin ended
  /\ occupies[v] = None
  /\ s \in free
  /\ free' = free \ {s}
  /\ occupies' = [occupies EXCEPT ![v] = s]
  /\ UNCHANGED ended

(* reschedule_booking: take the new slot and give back the old one. *)
Move(v, s) ==
  /\ occupies[v] # None
  /\ s \in free
  /\ free' = (free \ {s}) \cup {occupies[v]}
  /\ occupies' = [occupies EXCEPT ![v] = s]
  /\ UNCHANGED ended

(* cancel_booking: give the slot back, for good. *)
Cancel(v) ==
  /\ occupies[v] # None
  /\ free' = free \cup {occupies[v]}
  /\ occupies' = [occupies EXCEPT ![v] = None]
  /\ ended' = ended \cup {v}

LedgerNext ==
  \E v \in Viewings :
    \/ Cancel(v)
    \/ \E s \in Slots : Book(v, s) \/ Move(v, s)

LedgerSpec == LedgerInit /\ [][LedgerNext]_ledgerVars
=============================================================================
