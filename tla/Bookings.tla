------------------------------ MODULE Bookings ------------------------------
(****************************************************************************)
(* The booking core: backend/app/booking/slots.py together with the two     *)
(* surfaces that call it, api/bookings.py (cancel, reschedule) and the chat *)
(* tools schedule_viewing and reschedule_viewing.                           *)
(*                                                                          *)
(* Every request runs in a thread and a database session of its own; the    *)
(* bookings one chat turn makes share the turn's, one after the other. A    *)
(* statement of the program that reads or writes the database is one step,  *)
(* so what a request read may be stale when it writes. The database is      *)
(* Postgres at READ COMMITTED: an UPDATE locks its row until the            *)
(* transaction ends, and its WHERE is evaluated on the committed row.       *)
(* Writes become visible at commit, so the tables below hold committed      *)
(* rows only and a transaction in progress is its phase and its row locks.  *)
(****************************************************************************)
EXTENDS Naturals, FiniteSets

CONSTANTS
  Requests,      \* requests, each served at most once
  Clients, Agents, Properties,
  Slots,         \* rows of availability_slots, which nothing inserts or deletes
  SlotAgent, SlotProperty, SlotTime,   \* the constant columns of a slot
  Times,         \* slot times a caller may ask for
  Seeded,        \* bookings present at start-up
  Listings,      \* states an editor may put a listing in
  MaxNow,        \* bound on the clock
  None           \* SQL NULL, and "not yet"

Bookable == [active : BOOLEAN, agent : Agents \cup {None}]

ASSUME Distinct == /\ None \notin Slots \cup Requests \cup Seeded \cup Agents
                   /\ Requests \cap Seeded = {}
ASSUME SlotColumns == /\ SlotAgent \in [Slots -> Agents]
                      /\ SlotProperty \in [Slots -> Properties]
                      /\ SlotTime \in [Slots -> Times]
ASSUME Ranges == /\ Times \subseteq Nat
                 /\ MaxNow \in Nat
                 /\ Listings \subseteq Bookable

VARIABLES
  slotStatus,    \* availability_slots.status, committed
  slotLock,      \* the transaction that holds the row lock of a slot
  bookings,      \* the bookings table, committed; None where there is no row
  listing,       \* the columns of properties that booking reads
  now,           \* the clock
  call,          \* the call each request makes, with its clock reading
  phase,         \* how far each request has come
  seen,          \* the booking row a request loaded, and never re-reads
  target,        \* the slot a request wants to claim
  agentId,       \* the agent a create read off the listing
  reply,         \* what the caller was told
  wrote,         \* requests whose transaction committed
  event          \* the notification a request published

db == <<slotStatus, slotLock, bookings>>
vars == <<slotStatus, slotLock, bookings, listing, now, call, phase, seen,
          target, agentId, reply, wrote, event>>

BookingIds == Seeded \cup Requests   \* a new booking is named after its request
Status == {"confirmed", "cancelled", "completed"}
Holding == {"confirmed", "completed"}   \* statuses whose slot stays booked

Row == [status : Status, slot : Slots, property : Properties, agent : Agents,
        client : Clients, time : Times, count : Nat]

CreateCall == [op : {"create"}, booking : Requests, property : Properties,
               client : Clients, time : Times, reference : Nat]
RescheduleCall == [op : {"reschedule"}, booking : BookingIds, time : Times,
                   reference : Nat]
CancelCall == [op : {"cancel"}, booking : BookingIds]

Phases == {"idle", "received", "foundOpen", "foundTaken", "ready", "claimed",
           "released", "committed", "announced", "done"}
Running == Phases \ {"idle", "done"}
Uncommitted == Running \ {"committed", "announced"}

Replies == {"none", "ok", "existing", "already_cancelled", "error",
            "slot_time_in_past", "property_not_bookable", "slot_unavailable",
            "booking_slot_conflict", "booking_not_reschedulable",
            "slot_unchanged", "booking_not_cancellable"}

Event == [kind : {"created", "cancelled"}, booking : BookingIds, time : Times,
          status : Status]
         \cup
         [kind : {"rescheduled"}, booking : BookingIds, time : Times,
          status : Status, previous : Times, count : Nat]

ASSUME NoneIsNoRecord ==
  None \notin Row \cup CreateCall \cup RescheduleCall \cup CancelCall \cup Event

TypeOK ==
  /\ slotStatus \in [Slots -> {"open", "booked"}]
  /\ slotLock \in [Slots -> Requests \cup {None}]
  /\ bookings \in [BookingIds -> Row \cup {None}]
  /\ listing \in [Properties -> Bookable]
  /\ now \in Nat
  /\ call \in [Requests -> CreateCall \cup RescheduleCall \cup CancelCall \cup {None}]
  /\ phase \in [Requests -> Phases]
  /\ seen \in [Requests -> Row \cup {None}]
  /\ target \in [Requests -> Slots \cup {None}]
  /\ agentId \in [Requests -> Agents \cup {None}]
  /\ reply \in [Requests -> Replies]
  /\ wrote \subseteq Requests
  /\ event \in [Requests -> Event \cup {None}]

(* A booking holds a slot while it is confirmed, and after it took place. *)
Holds(b, s) == /\ bookings[b] # None
               /\ bookings[b].status \in Holding
               /\ bookings[b].slot = s

-----------------------------------------------------------------------------
(* Start-up: the seeded rows. A slot is booked exactly when a booking holds *)
(* it, and no two bookings hold the same one.                               *)

SeedRow(slot, status, client) ==
  [status |-> status, slot |-> slot, property |-> SlotProperty[slot],
   agent |-> SlotAgent[slot], client |-> client, time |-> SlotTime[slot],
   count |-> 0]

Init ==
  /\ \E at \in [Seeded -> Slots], st \in [Seeded -> Status], who \in [Seeded -> Clients] :
       /\ \A b, c \in Seeded : b # c /\ {st[b], st[c]} \subseteq Holding => at[b] # at[c]
       /\ bookings = [b \in BookingIds |->
                        IF b \in Seeded THEN SeedRow(at[b], st[b], who[b]) ELSE None]
       /\ slotStatus = [s \in Slots |->
                          IF \E b \in Seeded : st[b] \in Holding /\ at[b] = s
                          THEN "booked" ELSE "open"]
  /\ slotLock = [s \in Slots |-> None]
  /\ listing \in [Properties -> Listings]
  /\ now = 0
  /\ call = [r \in Requests |-> None]
  /\ phase = [r \in Requests |-> "idle"]
  /\ seen = [r \in Requests |-> None]
  /\ target = [r \in Requests |-> None]
  /\ agentId = [r \in Requests |-> None]
  /\ reply = [r \in Requests |-> "none"]
  /\ wrote = {}
  /\ event = [r \in Requests |-> None]

-----------------------------------------------------------------------------
(* Shared steps.                                                            *)

Enter(r, p) == phase' = [phase EXCEPT ![r] = p]

(* The handler returns or raises; rollback ends whatever transaction is open. *)
Answer(r, code) ==
  /\ Enter(r, "done")
  /\ reply' = [reply EXCEPT ![r] = code]

Refuse(r, code) ==
  /\ Answer(r, code)
  /\ UNCHANGED <<db, listing, now, call, seen, target, agentId, wrote, event>>

(* What a finished transaction leaves locked: only the rows of others. *)
Unlocked(r) == [s \in Slots |-> IF slotLock[s] = r THEN None ELSE slotLock[s]]

CanBook(l) == l.active /\ l.agent # None

(* Mutant: the agent is left out of the WHERE. *)
MatchingSlotsOfAnyAgent(agent, property, time) ==
  {s \in Slots : SlotProperty[s] = property /\ SlotTime[s] = time}

(* _find_slot: some slot of that agent, property and time. *)
MatchingSlots(agent, property, time) ==
  {s \in Slots : /\ SlotAgent[s] = agent
                 /\ SlotProperty[s] = property
                 /\ SlotTime[s] = time}

Slot(r) == target[r]
Booking(r) == call[r].booking
IsCall(r, op) == call[r] # None /\ call[r].op = op

-----------------------------------------------------------------------------
(* create_booking, called by the ScheduleViewing tool.                      *)

SubmitCreate(r) ==
  /\ phase[r] = "idle"
  /\ \E p \in Properties, c \in Clients, t \in Times :
       call' = [call EXCEPT ![r] = [op |-> "create", booking |-> r, property |-> p,
                                    client |-> c, time |-> t, reference |-> now]]
  /\ Enter(r, "received")
  /\ UNCHANGED <<db, listing, now, seen, target, agentId, reply, wrote, event>>

(* The past check, _load_bookable_property, and _find_slot finding nothing. *)
CreateRefused(r) ==
  /\ IsCall(r, "create") /\ phase[r] = "received"
  /\ LET c == call[r]
         l == listing[c.property]
     IN \/ /\ c.time <= c.reference
           /\ Refuse(r, "slot_time_in_past")
        \/ /\ c.time > c.reference
           /\ ~CanBook(l)
           /\ Refuse(r, "property_not_bookable")
        \/ /\ c.time > c.reference
           /\ CanBook(l)
           /\ MatchingSlots(l.agent, c.property, c.time) = {}
           /\ Refuse(r, "slot_unavailable")

CreateFindSlot(r) ==
  /\ IsCall(r, "create") /\ phase[r] = "received"
  /\ call[r].time > call[r].reference
  /\ CanBook(listing[call[r].property])
  /\ \E s \in MatchingSlots(listing[call[r].property].agent, call[r].property, call[r].time) :
       /\ target' = [target EXCEPT ![r] = s]
       /\ Enter(r, IF slotStatus[s] = "open" THEN "foundOpen" ELSE "foundTaken")
  /\ agentId' = [agentId EXCEPT ![r] = listing[call[r].property].agent]
  /\ UNCHANGED <<db, listing, now, call, seen, reply, wrote, event>>

(* _find_own_confirmed_booking. *)
OwnConfirmed(r) ==
  {b \in BookingIds : /\ bookings[b] # None
                      /\ bookings[b].slot = Slot(r)
                      /\ bookings[b].client = call[r].client
                      /\ bookings[b].status = "confirmed"}

(* The caller's own booking is found, and the tool announces it once more. *)
CreateDeduplicated(r) ==
  /\ phase[r] \in {"foundOpen", "foundTaken"}
  /\ \E b \in OwnConfirmed(r) :
       event' = [event EXCEPT ![r] = [kind |-> "created", booking |-> b,
                                      time |-> bookings[b].time,
                                      status |-> bookings[b].status]]
  /\ Enter(r, "announced")
  /\ UNCHANGED <<db, listing, now, call, seen, target, agentId, reply, wrote>>

(* _assert_claimable, on the status _find_slot read one statement earlier. *)
CreateAssertClaimable(r) ==
  /\ phase[r] \in {"foundOpen", "foundTaken"}
  /\ OwnConfirmed(r) = {}
  /\ \/ /\ phase[r] = "foundTaken"
        /\ Refuse(r, "booking_slot_conflict")
     \/ /\ phase[r] = "foundOpen"
        /\ Enter(r, "ready")
        /\ UNCHANGED <<db, listing, now, call, seen, target, agentId, reply, wrote, event>>

(* INSERT INTO bookings and COMMIT. *)
CommitCreate(r) ==
  /\ IsCall(r, "create") /\ phase[r] = "claimed"
  /\ bookings' = [bookings EXCEPT ![r] =
       [status |-> "confirmed", slot |-> Slot(r), property |-> call[r].property,
        agent |-> agentId[r], client |-> call[r].client,
        time |-> call[r].time, count |-> 0]]
  /\ slotStatus' = [slotStatus EXCEPT ![Slot(r)] = "booked"]
  /\ slotLock' = Unlocked(r)
  /\ wrote' = wrote \cup {r}
  /\ Enter(r, "committed")
  /\ UNCHANGED <<listing, now, call, seen, target, agentId, reply, event>>

-----------------------------------------------------------------------------
(* reschedule_booking, called by the RescheduleViewing tool and by          *)
(* POST /bookings/{id}/reschedule.                                          *)

(* _resolve_booking loads the row; every later check uses this copy. *)
SubmitReschedule(r) ==
  /\ phase[r] = "idle"
  /\ \E b \in BookingIds, t \in Times :
       /\ bookings[b] # None
       /\ call' = [call EXCEPT ![r] = [op |-> "reschedule", booking |-> b,
                                       time |-> t, reference |-> now]]
       /\ seen' = [seen EXCEPT ![r] = bookings[b]]
  /\ Enter(r, "received")
  /\ UNCHANGED <<db, listing, now, target, agentId, reply, wrote, event>>

(* Mutant: the status of the loaded booking is not checked. *)
InputRefusalOfAnyStatus(c, row) ==
  IF c.time <= c.reference THEN "slot_time_in_past"
  ELSE IF row.time <= c.reference THEN "booking_not_reschedulable"
  ELSE IF c.time = row.time THEN "slot_unchanged"
  ELSE "none"

(* The checks on input and on the loaded row, in the order they are made. *)
InputRefusal(c, row) ==
  IF c.time <= c.reference THEN "slot_time_in_past"
  ELSE IF row.status # "confirmed" \/ row.time <= c.reference
       THEN "booking_not_reschedulable"
  ELSE IF c.time = row.time THEN "slot_unchanged"
  ELSE "none"

RescheduleRefused(r) ==
  /\ IsCall(r, "reschedule") /\ phase[r] = "received"
  /\ LET row == seen[r]
         matching == MatchingSlots(row.agent, row.property, call[r].time)
     IN \/ /\ InputRefusal(call[r], row) # "none"
           /\ Refuse(r, InputRefusal(call[r], row))
        \/ /\ InputRefusal(call[r], row) = "none"
           /\ ~CanBook(listing[row.property])
           /\ Refuse(r, "property_not_bookable")
        \/ /\ InputRefusal(call[r], row) = "none"
           /\ CanBook(listing[row.property])
           /\ \/ matching = {} /\ Refuse(r, "slot_unavailable")
              \/ /\ \E s \in matching : slotStatus[s] # "open"
                 /\ Refuse(r, "booking_slot_conflict")

(* resolve_slot finds an open slot of the booking's own agent. *)
RescheduleResolveSlot(r) ==
  /\ IsCall(r, "reschedule") /\ phase[r] = "received"
  /\ InputRefusal(call[r], seen[r]) = "none"
  /\ CanBook(listing[seen[r].property])
  /\ \E s \in MatchingSlots(seen[r].agent, seen[r].property, call[r].time) :
       /\ slotStatus[s] = "open"
       /\ target' = [target EXCEPT ![r] = s]
  /\ Enter(r, "ready")
  /\ UNCHANGED <<db, listing, now, call, seen, agentId, reply, wrote, event>>

(* Mutants: every column of the loaded row is written back; the count starts *)
(* over as for a cancelled and re-created booking; the count goes down.      *)
MovedRowWhole(r) ==
  [seen[r] EXCEPT !.slot = Slot(r), !.time = call[r].time, !.count = seen[r].count + 1]
MovedRowRecounted(r) ==
  [bookings[Booking(r)] EXCEPT !.slot = Slot(r), !.time = call[r].time, !.count = 0]
MovedRowCountedDown(r) ==
  [bookings[Booking(r)] EXCEPT !.slot = Slot(r), !.time = call[r].time,
                               !.count = seen[r].count - 1]

(* The status column is not dirty, so it is not written; the count is the one *)
(* loaded, plus one.                                                          *)
MovedRow(r) ==
  [bookings[Booking(r)] EXCEPT !.slot = Slot(r), !.time = call[r].time,
                               !.count = seen[r].count + 1]

(* UPDATE bookings SET slot, time, count and COMMIT. *)
CommitReschedule(r) ==
  /\ IsCall(r, "reschedule") /\ phase[r] = "released"
  /\ bookings' = [bookings EXCEPT ![Booking(r)] = MovedRow(r)]
  /\ slotStatus' = [slotStatus EXCEPT ![Slot(r)] = "booked", ![seen[r].slot] = "open"]
  /\ slotLock' = Unlocked(r)
  /\ wrote' = wrote \cup {r}
  /\ Enter(r, "committed")
  /\ UNCHANGED <<listing, now, call, seen, target, agentId, reply, event>>

-----------------------------------------------------------------------------
(* cancel_booking, called by POST /bookings/{id}/cancel.                    *)

SubmitCancel(r) ==
  /\ phase[r] = "idle"
  /\ \E b \in BookingIds :
       /\ bookings[b] # None
       /\ call' = [call EXCEPT ![r] = [op |-> "cancel", booking |-> b]]
       /\ seen' = [seen EXCEPT ![r] = bookings[b]]
  /\ Enter(r, "received")
  /\ UNCHANGED <<db, listing, now, target, agentId, reply, wrote, event>>

(* A cancelled booking is returned as it is, without a second notification. *)
CancelRefused(r) ==
  /\ IsCall(r, "cancel") /\ phase[r] = "received"
  /\ \/ seen[r].status = "cancelled" /\ Refuse(r, "already_cancelled")
     \/ seen[r].status = "completed" /\ Refuse(r, "booking_not_cancellable")

(* UPDATE bookings SET status and COMMIT. *)
CommitCancel(r) ==
  /\ IsCall(r, "cancel") /\ phase[r] = "released"
  /\ bookings' = [bookings EXCEPT ![Booking(r)] = [@ EXCEPT !.status = "cancelled"]]
  /\ slotStatus' = [slotStatus EXCEPT ![seen[r].slot] = "open"]
  /\ slotLock' = Unlocked(r)
  /\ wrote' = wrote \cup {r}
  /\ Enter(r, "committed")
  /\ UNCHANGED <<listing, now, call, seen, target, agentId, reply, event>>

-----------------------------------------------------------------------------
(* The statements the operations share.                                     *)

(* Mutant: the UPDATE of _claim_slot has no status condition. *)
AlwaysClaimable(s) == TRUE

Claimable(s) == slotStatus[s] = "open"

(* Mutant: the claim is committed by itself, before the booking is written. *)
ClaimSlotAutocommit(r) ==
  /\ phase[r] = "ready"
  /\ Claimable(Slot(r)) /\ slotLock[Slot(r)] = None
  /\ slotStatus' = [slotStatus EXCEPT ![Slot(r)] = "booked"]
  /\ Enter(r, "claimed")
  /\ UNCHANGED <<slotLock, bookings, listing, now, call, seen, target, agentId, reply, wrote, event>>

(* UPDATE availability_slots SET status='booked' WHERE id AND status='open'. *)
(* Blocks while another transaction holds an open row.                       *)
ClaimSlot(r) ==
  /\ phase[r] = "ready"
  /\ Claimable(Slot(r))
  /\ slotLock[Slot(r)] = None
  /\ slotLock' = [slotLock EXCEPT ![Slot(r)] = r]
  /\ Enter(r, "claimed")
  /\ UNCHANGED <<slotStatus, bookings, listing, now, call, seen, target, agentId, reply, wrote, event>>

(* Mutant: the UPDATE is tried again until it matches. *)
ClaimRetried(r) ==
  /\ phase[r] = "ready"
  /\ ~Claimable(Slot(r))
  /\ UNCHANGED vars

(* The same UPDATE matching no row: rollback and a conflict. *)
ClaimLost(r) ==
  /\ phase[r] = "ready"
  /\ ~Claimable(Slot(r))
  /\ Refuse(r, "booking_slot_conflict")

(* Mutant: a booking is cancelled whatever its status. *)
AboutToReleaseAny(r) ==
  \/ IsCall(r, "reschedule") /\ phase[r] = "claimed"
  \/ IsCall(r, "cancel") /\ phase[r] = "received"

(* Whether the next statement of r is the release of the slot it loaded. *)
AboutToRelease(r) ==
  \/ IsCall(r, "reschedule") /\ phase[r] = "claimed"
  \/ IsCall(r, "cancel") /\ phase[r] = "received" /\ seen[r].status = "confirmed"

(* UPDATE availability_slots SET status='open' WHERE id: no other condition. *)
ReleaseSlot(r) ==
  /\ AboutToRelease(r)
  /\ slotLock[seen[r].slot] \in {None, r}
  /\ slotLock' = [slotLock EXCEPT ![seen[r].slot] = r]
  /\ Enter(r, "released")
  /\ UNCHANGED <<slotStatus, bookings, listing, now, call, seen, target, agentId, reply, wrote, event>>

(* Mutant: the previous time is read off the moved row. *)
AnnouncementOfMovedRow(r) ==
  LET row == bookings[Booking(r)]
  IN [kind |-> IF call[r].op = "reschedule" THEN "rescheduled" ELSE "cancelled",
      booking |-> Booking(r), time |-> row.time, status |-> row.status,
      previous |-> row.time, count |-> row.count]

(* What each handler announces, built from the row refreshed after COMMIT. *)
Announcement(r) ==
  LET row == bookings[Booking(r)]
  IN IF call[r].op = "reschedule"
     THEN [kind |-> "rescheduled", booking |-> Booking(r), time |-> row.time,
           status |-> row.status, previous |-> seen[r].time, count |-> row.count]
     ELSE [kind |-> IF call[r].op = "create" THEN "created" ELSE "cancelled",
           booking |-> Booking(r), time |-> row.time, status |-> row.status]

(* Mutant: the notification is sent from inside the transaction. *)
DurableOrNot(r) == phase[r] \in {"released", "committed"}

(* The operation has committed. *)
Durable(r) == phase[r] = "committed"

(* db.refresh reads the row, and the handler publishes what it read. *)
RefreshAndPublish(r) ==
  /\ Durable(r)
  /\ event' = [event EXCEPT ![r] = Announcement(r)]
  /\ Enter(r, "announced")
  /\ UNCHANGED <<db, listing, now, call, seen, target, agentId, reply, wrote>>

(* The names the answer shows are read after the publication, and it is sent. *)
Respond(r) ==
  /\ phase[r] = "announced"
  /\ Answer(r, IF r \in wrote THEN "ok" ELSE "existing")
  /\ UNCHANGED <<db, listing, now, call, seen, target, agentId, wrote, event>>

(* A statement raises, the connection drops or the process dies before COMMIT: *)
(* the transaction rolls back and the caller sees a failure.                   *)
Fault(r) ==
  /\ phase[r] \in Uncommitted
  /\ slotLock' = Unlocked(r)
  /\ Answer(r, "error")
  /\ UNCHANGED <<slotStatus, bookings, listing, now, call, seen, target, agentId, wrote, event>>

(* The same later: the refresh fails and nothing is announced, or the names  *)
(* cannot be read or the answer is lost and the announcement is out already. *)
(* The caller sees a failure of what was done.                               *)
FaultAfterCommit(r) ==
  /\ phase[r] \in {"committed", "announced"}
  /\ Refuse(r, "error")

-----------------------------------------------------------------------------
(* The rest of the world.                                                   *)

(* PUT or DELETE of a listing: deactivated, published again, or reassigned. *)
EditListing(p) ==
  /\ \E l \in Listings \ {listing[p]} : listing' = [listing EXCEPT ![p] = l]
  /\ UNCHANGED <<db, now, call, phase, seen, target, agentId, reply, wrote, event>>

Tick ==
  /\ now < MaxNow
  /\ now' = now + 1
  /\ UNCHANGED <<db, listing, call, phase, seen, target, agentId, reply, wrote, event>>

-----------------------------------------------------------------------------
Submit(r) == SubmitCreate(r) \/ SubmitReschedule(r) \/ SubmitCancel(r)

Proceed(r) ==
  \/ CreateRefused(r) \/ CreateFindSlot(r) \/ CreateDeduplicated(r)
  \/ CreateAssertClaimable(r) \/ CommitCreate(r)
  \/ RescheduleRefused(r) \/ RescheduleResolveSlot(r) \/ CommitReschedule(r)
  \/ CancelRefused(r) \/ CommitCancel(r)
  \/ ClaimSlot(r) \/ ClaimLost(r) \/ ReleaseSlot(r) \/ RefreshAndPublish(r)
  \/ Respond(r)

Next ==
  \/ \E r \in Requests : Submit(r) \/ Proceed(r) \/ Fault(r) \/ FaultAfterCommit(r)
  \/ \E p \in Properties : EditListing(p)
  \/ Tick

Spec == Init /\ [][Next]_vars

-----------------------------------------------------------------------------
(* Row-lock waits. A request waits for the transaction that holds the row   *)
(* its next statement updates; Postgres breaks a cycle of such waits by     *)
(* aborting a member of it.                                                 *)

WaitsFor(r) ==
  IF phase[r] = "ready" /\ Claimable(Slot(r))
  THEN {slotLock[Slot(r)]} \ {None}
  ELSE IF AboutToRelease(r) THEN {slotLock[seen[r].slot]} \ {None, r}
  ELSE {}

Deadlocked(r) ==
  \E S \in SUBSET Requests :
    /\ r \in S
    /\ \A q \in S : WaitsFor(q) \cap S # {}

DeadlockVictim(r) == Deadlocked(r) /\ Fault(r)

(* Threads keep running and Postgres answers or breaks a deadlock; nothing  *)
(* makes a caller submit, an editor edit, or a fault happen.                *)
FairSpec ==
  Spec /\ \A r \in Requests : WF_vars(Proceed(r)) /\ WF_vars(DeadlockVictim(r))

-----------------------------------------------------------------------------
(* The callers slots.py was written for: nobody cancels or reschedules a    *)
(* booking while another request is cancelling or rescheduling that same    *)
(* booking. Creates still race with one another and with everything else.   *)

Writing(r) == /\ phase[r] \in Running \ {"announced"}
              /\ call[r].op \in {"reschedule", "cancel"}

OneWriterPerBooking ==
  \A r, q \in Requests :
    r # q /\ Writing(r) /\ Writing(q) => Booking(r) # Booking(q)

SerialNext == Next /\ OneWriterPerBooking'
SerialSpec == Init /\ [][SerialNext]_vars

-----------------------------------------------------------------------------
(* Properties of every behaviour.                                           *)

(* The slot, property, agent and time columns of a booking always agree,    *)
(* however many requests move it at once, and an edit of the listing's      *)
(* agent does not reach bookings made before it.                            *)
ColumnsAgree ==
  \A b \in BookingIds : bookings[b] # None =>
    LET row == bookings[b]
    IN /\ row.time = SlotTime[row.slot]
       /\ row.agent = SlotAgent[row.slot]
       /\ row.property = SlotProperty[row.slot]

Claiming(r, s) == /\ phase[r] \in {"claimed", "released"}
                  /\ call[r].op # "cancel"
                  /\ Slot(r) = s

(* The conditional UPDATE of _claim_slot is the check: of all transactions   *)
(* in progress at most one has claimed a slot, and it is still open to the   *)
(* others, so a claim is never committed over somebody else's.               *)
ClaimsExclusive ==
  \A r, q \in Requests, s \in Slots :
    Claiming(r, s) => /\ slotStatus[s] = "open"
                      /\ Claiming(q, s) => r = q

(* A cancelled or completed booking never becomes confirmed again, not even *)
(* by a reschedule that loaded it before it was cancelled.                  *)
StatusIsTerminal ==
  [][\A b \in BookingIds :
       bookings[b] # None /\ bookings[b].status # "confirmed"
         => bookings'[b] # None /\ bookings'[b].status = bookings[b].status]_vars

(* A slot becomes booked only together with the booking row that points at  *)
(* it: a fault between the claim and the insert or move orphans no claim.   *)
BookedWithItsBooking ==
  [][\A s \in Slots :
       slotStatus[s] = "open" /\ slotStatus'[s] = "booked"
         => \E r \in wrote' \ wrote : bookings'[Booking(r)].slot = s]_vars

(* Answers that say why nothing was done; an "error" says nothing either way. *)
Refusals == Replies \ {"none", "ok", "existing", "error"}

(* Notifications go out after COMMIT, and answers after notifications: a    *)
(* cancellation or a move is announced only by a request whose write is     *)
(* durable, one that was refused wrote and announced nothing, and one that  *)
(* is told of success has written and announced it. An "error" promises     *)
(* nothing: what failed may have been done, and may have been announced.    *)
AnnouncedAfterCommit ==
  \A r \in Requests :
    /\ event[r] # None => /\ bookings[event[r].booking] # None
                          /\ event[r].kind # "created" => r \in wrote
    /\ reply[r] \in Refusals => r \notin wrote /\ event[r] = None
    /\ reply[r] = "ok" => r \in wrote /\ event[r] # None
    /\ reply[r] = "existing" => event[r] # None

(* Every request is answered. *)
Answered ==
  \A r \in Requests : phase[r] \in Running ~> phase[r] = "done"

-----------------------------------------------------------------------------
(* Properties of serial behaviours; concurrent writers break each of them.  *)

(* Two bookings never hold the same slot. *)
NoDoubleBooking ==
  \A b, c \in BookingIds, s \in Slots : Holds(b, s) /\ Holds(c, s) => b = c

(* A slot is booked exactly when a booking holds it: the slot of a booking  *)
(* is never on offer, and no slot is withheld for nobody.                   *)
SlotsMatchBookings ==
  \A s \in Slots : slotStatus[s] = "booked" <=> \E b \in BookingIds : Holds(b, s)

(* rescheduled_count is the number of moves that were committed. *)
MovesCounted ==
  \A b \in BookingIds : bookings[b] # None =>
    bookings[b].count =
      Cardinality({r \in wrote : call[r].op = "reschedule" /\ Booking(r) = b})

EventsOf(kind, b) ==
  {r \in Requests : event[r] # None /\ event[r].kind = kind /\ event[r].booking = b}

(* A booking's cancellation is announced once. *)
CancelNotifiedOnce ==
  \A b \in BookingIds : Cardinality(EventsOf("cancelled", b)) <= 1

(* A move is announced as what it was: of a confirmed booking, from one     *)
(* time to another, under a count no other announced move of it carries.    *)
MovesAnnouncedTruly ==
  \A b \in BookingIds : \A r, q \in EventsOf("rescheduled", b) :
    /\ event[r].status = "confirmed"
    /\ event[r].previous # event[r].time
    /\ r # q => event[r].count # event[q].count

(* No two requests ever wait for each other's row locks. *)
NoDeadlock == \A r \in Requests : ~Deadlocked(r)

-----------------------------------------------------------------------------
(* Promises the code's comments and tests make, which concurrent or failing *)
(* requests break.                                                          *)

(* A client who holds a booking of the slot is never told, on asking for it *)
(* again, that the slot is taken.                                           *)
NoConflictWithOwnBooking ==
  [][\A r \in Requests :
       IsCall(r, "create") /\ reply[r] = "none" /\ reply'[r] = "booking_slot_conflict"
         => OwnConfirmed(r) = {}]_vars

(* A create that reported failure booked nothing. *)
FailureBooksNothing ==
  \A r \in Requests : IsCall(r, "create") /\ reply[r] = "error" => bookings[r] = None

-----------------------------------------------------------------------------
(* The serial program implements the ledger.                                *)

Occupied(b) ==
  IF bookings[b] # None /\ bookings[b].status \in Holding THEN bookings[b].slot ELSE None

Ledger == INSTANCE ViewingLedger WITH
  Viewings <- BookingIds,
  free <- {s \in Slots : slotStatus[s] = "open"},
  occupies <- [b \in BookingIds |-> Occupied(b)],
  ended <- {b \in BookingIds : bookings[b] # None /\ bookings[b].status = "cancelled"}

ImplementsLedger == Ledger!LedgerSpec
=============================================================================
