-------------------------- MODULE BookingInvariants --------------------------
(****************************************************************************)
(* The inductive invariants of Bookings: what a request's own state says    *)
(* about the tables at each phase. They carry the proofs in BookingProofs   *)
(* and SerialProofs and are model-checked before they are proved.           *)
(****************************************************************************)
EXTENDS Bookings

(* The phases at which a request has chosen the slot it wants. *)
Wanting(r) == /\ phase[r] \in {"foundOpen", "foundTaken", "ready", "claimed", "released"}
              /\ call[r].op # "cancel"

(* Which operation can be at which phase, and what it has loaded by then. *)
PhaseOK(r) ==
  /\ phase[r] # "idle" => call[r] # None
  /\ phase[r] \in {"foundOpen", "foundTaken"} => call[r].op = "create"
  /\ phase[r] \in {"ready", "claimed"} => call[r].op # "cancel"
  /\ phase[r] = "released" => call[r].op # "create"
  /\ IsCall(r, "create") => Booking(r) = r
  /\ phase[r] = "committed" => bookings[Booking(r)] # None
  /\ bookings[r] # None => phase[r] \in {"committed", "announced", "done"}

(* The booking a request loaded is still there, the columns no operation     *)
(* writes are as it saw them, and it was confirmed if it is to be written.   *)
SeenOK(r) ==
  call[r] # None /\ call[r].op # "create" =>
    /\ seen[r] \in Row
    /\ bookings[Booking(r)] # None
    /\ bookings[Booking(r)].agent = seen[r].agent
    /\ bookings[Booking(r)].property = seen[r].property
    /\ SlotTime[seen[r].slot] = seen[r].time
    /\ bookings[Booking(r)].status = "completed" => seen[r].status = "completed"
    /\ phase[r] \in {"ready", "claimed", "released"} => seen[r].status = "confirmed"

(* The slot a request wants is the one its call, or its booking, asks for. *)
TargetOK(r) ==
  Wanting(r) =>
    /\ target[r] \in Slots
    /\ SlotTime[target[r]] = call[r].time
    /\ call[r].op = "create" => /\ SlotProperty[target[r]] = call[r].property
                                /\ SlotAgent[target[r]] = agentId[r]
    /\ call[r].op = "reschedule" =>
         /\ SlotProperty[target[r]] = seen[r].property
         /\ SlotAgent[target[r]] = seen[r].agent
         /\ call[r].time # seen[r].time

LocalOK == \A r \in Requests : PhaseOK(r) /\ SeenOK(r) /\ TargetOK(r)

(* A row lock belongs to a transaction that claimed or released the slot,   *)
(* every such transaction has its locks, and a claimed slot is still open.  *)
LockedBy(s, r) ==
  /\ phase[r] \in {"claimed", "released"}
  /\ \/ call[r].op # "cancel" /\ s = target[r]
     \/ phase[r] = "released" /\ s = seen[r].slot

LocksOK ==
  /\ \A r \in Requests :
       /\ phase[r] \in {"claimed", "released"} /\ call[r].op # "cancel" =>
            slotLock[target[r]] = r /\ slotStatus[target[r]] = "open"
       /\ phase[r] = "released" => slotLock[seen[r].slot] = r
  /\ \A s \in Slots : slotLock[s] # None => LockedBy(s, slotLock[s])

(* A request is marked as having written from its commit on, announces        *)
(* before it answers, and answers when it is done.                            *)
OutcomeOK(r) ==
  /\ phase[r] = "committed" => r \in wrote
  /\ r \in wrote => phase[r] \in {"committed", "announced", "done"}
  /\ phase[r] # "done" => reply[r] = "none"
  /\ phase[r] \notin {"announced", "done"} => event[r] = None
  /\ phase[r] = "announced" => event[r] # None

OutcomesOK == \A r \in Requests : OutcomeOK(r)

(* What every behaviour of Spec maintains. *)
TypeInv == TypeOK /\ LocalOK
ColumnInv == TypeInv /\ ColumnsAgree
LockInv == ColumnInv /\ LocksOK
OutcomeInv == LockInv /\ OutcomesOK /\ AnnouncedAfterCommit

(* Between its read and its commit a serial writer's copy is the row itself. *)
SeenIsCurrent ==
  \A r \in Requests :
    phase[r] \in Uncommitted /\ call[r].op # "create" =>
      bookings[Booking(r)] = seen[r]

(* What every behaviour of SerialSpec maintains. *)
SerialInv ==
  /\ LockInv
  /\ OneWriterPerBooking
  /\ SeenIsCurrent
  /\ NoDoubleBooking /\ SlotsMatchBookings

(* Of a booking one cancellation was ever committed.                        *)
CancelsOnce ==
  \A r \in wrote : IsCall(r, "cancel") =>
    /\ bookings[Booking(r)].status = "cancelled"
    /\ \A q \in wrote : IsCall(q, "cancel") /\ Booking(q) = Booking(r) => q = r

(* An announcement is of the request's own booking and of its own operation, *)
(* and counts no further than the booking does.                             *)
EventOK(r) ==
  event[r] # None =>
    /\ event[r].kind = "cancelled" =>
         r \in wrote /\ IsCall(r, "cancel") /\ event[r].booking = Booking(r)
    /\ event[r].kind = "rescheduled" =>
         /\ r \in wrote /\ IsCall(r, "reschedule") /\ event[r].booking = Booking(r)
         /\ event[r].status = "confirmed" /\ event[r].previous # event[r].time
         /\ event[r].count <= bookings[Booking(r)].count

(* A move that is still to be announced is the booking's latest.            *)
MovedLast(r) ==
  phase[r] = "committed" /\ IsCall(r, "reschedule") =>
    /\ bookings[Booking(r)].status = "confirmed"
    /\ bookings[Booking(r)].time # seen[r].time
    /\ \A q \in EventsOf("rescheduled", Booking(r)) :
         event[q].count < bookings[Booking(r)].count

(* What SerialSpec maintains of counts and announcements.                   *)
MoveInv ==
  /\ IsFiniteSet(wrote) /\ MovesCounted /\ CancelsOnce
  /\ \A r \in Requests : EventOK(r) /\ MovedLast(r)
  /\ MovesAnnouncedTruly
=============================================================================
