---------------------------- MODULE SerialProofs ----------------------------
(****************************************************************************)
(* What the booking core guarantees when no two requests cancel or          *)
(* reschedule one booking at once: the bookings and the slots agree at      *)
(* every moment, and the program implements the atomic ledger.              *)
(****************************************************************************)
EXTENDS BookingProofs, FiniteSetTheorems

(* The three ways the tables change, each as a change of one booking and at *)
(* most two slots.                                                          *)
LEMMA CreateEffect ==
  ASSUME SerialInv, NEW r \in Requests, CommitCreate(r)
  PROVE  /\ r \in BookingIds /\ Slot(r) \in Slots
         /\ bookings[r] = None
         /\ slotStatus[Slot(r)] = "open"
         /\ slotStatus' = [slotStatus EXCEPT ![Slot(r)] = "booked"]
         /\ bookings'[r] # None
         /\ bookings'[r].slot = Slot(r)
         /\ bookings'[r].status = "confirmed"
         /\ \A b \in BookingIds \ {r} : bookings'[b] = bookings[b]
<1>1. ColumnInv /\ LocksOK /\ TypeInv /\ TypeOK
  BY DEF SerialInv, LockInv, ColumnInv, TypeInv
<1>2. bookings[r] = None
  BY <1>1 DEF CommitCreate, TypeInv, LocalOK, PhaseOK
<1>3. slotStatus[Slot(r)] = "open"
  BY <1>1 DEF CommitCreate, LocksOK, IsCall, Slot
<1> QED BY <1>1, <1>2, <1>3, CreateTypes, NoneIsNoRecord DEF CommitCreate, TypeOK

LEMMA RescheduleEffect ==
  ASSUME SerialInv, NEW r \in Requests, CommitReschedule(r)
  PROVE  /\ Booking(r) \in BookingIds /\ Slot(r) \in Slots
         /\ bookings[Booking(r)] # None
         /\ bookings[Booking(r)].status = "confirmed"
         /\ bookings[Booking(r)].slot \in Slots \ {Slot(r)}
         /\ slotStatus[Slot(r)] = "open"
         /\ slotStatus' = [slotStatus EXCEPT ![Slot(r)] = "booked",
                                             ![bookings[Booking(r)].slot] = "open"]
         /\ bookings'[Booking(r)] # None
         /\ bookings'[Booking(r)].slot = Slot(r)
         /\ bookings'[Booking(r)].status = "confirmed"
         /\ \A b \in BookingIds \ {Booking(r)} : bookings'[b] = bookings[b]
<1>1. ColumnInv /\ LocksOK /\ TypeInv /\ TypeOK /\ SeenIsCurrent
  BY DEF SerialInv, LockInv, ColumnInv, TypeInv
<1>2. IsCall(r, "reschedule") /\ phase[r] = "released" /\ phase[r] \in Uncommitted
  BY DEF CommitReschedule, Running, Uncommitted, Phases
<1>3. bookings[Booking(r)] = seen[r] /\ seen[r].status = "confirmed" /\ seen[r] \in Row
  BY <1>1, <1>2 DEF SeenIsCurrent, TypeInv, LocalOK, SeenOK, IsCall
<1>4. slotStatus[Slot(r)] = "open" /\ slotLock[Slot(r)] = r
  BY <1>1, <1>2 DEF LocksOK, IsCall, Slot
<1>5. seen[r].slot # Slot(r) /\ seen[r].slot \in Slots
  BY <1>1, <1>2, <1>3 DEF TypeInv, LocalOK, SeenOK, TargetOK, Wanting, IsCall, Slot, Row
<1> QED BY <1>1, <1>2, <1>3, <1>4, <1>5, RescheduleTypes, NoneIsNoRecord
        DEF CommitReschedule, TypeOK

LEMMA CancelEffect ==
  ASSUME SerialInv, NEW r \in Requests, CommitCancel(r)
  PROVE  /\ Booking(r) \in BookingIds
         /\ bookings[Booking(r)] # None
         /\ bookings[Booking(r)].status = "confirmed"
         /\ bookings[Booking(r)].slot \in Slots
         /\ slotStatus' = [slotStatus EXCEPT ![bookings[Booking(r)].slot] = "open"]
         /\ bookings'[Booking(r)] # None
         /\ bookings'[Booking(r)].status = "cancelled"
         /\ \A b \in BookingIds \ {Booking(r)} : bookings'[b] = bookings[b]
<1>1. ColumnInv /\ LocksOK /\ TypeInv /\ TypeOK /\ SeenIsCurrent
  BY DEF SerialInv, LockInv, ColumnInv, TypeInv
<1>2. IsCall(r, "cancel") /\ phase[r] = "released" /\ phase[r] \in Uncommitted
  BY DEF CommitCancel, Running, Uncommitted, Phases
<1>3. bookings[Booking(r)] = seen[r] /\ seen[r].status = "confirmed" /\ seen[r] \in Row
  BY <1>1, <1>2 DEF SeenIsCurrent, TypeInv, LocalOK, SeenOK, IsCall
<1>4. Booking(r) \in BookingIds
  BY <1>1, <1>2, CallTypes DEF IsCall
<1>5. [bookings[Booking(r)] EXCEPT !.status = "cancelled"] \in Row
      /\ [bookings[Booking(r)] EXCEPT !.status = "cancelled"].status = "cancelled"
  BY <1>3 DEF Row, Status
<1>6. bookings' = [bookings EXCEPT ![Booking(r)] =
                     [bookings[Booking(r)] EXCEPT !.status = "cancelled"]]
  BY DEF CommitCancel
<1> QED BY <1>1, <1>2, <1>3, <1>4, <1>5, <1>6, NoneIsNoRecord
        DEF CommitCancel, TypeOK, Row

-----------------------------------------------------------------------------
LEMMA InitSerialInv == Init => SerialInv
<1> SUFFICES ASSUME Init PROVE SerialInv
  OBVIOUS
<1>1. LockInv
  BY InitColumnInv DEF Init, LockInv, LocksOK
<1>2. OneWriterPerBooking /\ SeenIsCurrent
  BY DEF Init, OneWriterPerBooking, Writing, Running, Uncommitted, SeenIsCurrent
<1>3. PICK at \in [Seeded -> Slots], st \in [Seeded -> Status], who \in [Seeded -> Clients] :
        /\ \A b, c \in Seeded : b # c /\ {st[b], st[c]} \subseteq Holding => at[b] # at[c]
        /\ bookings = [b \in BookingIds |->
                         IF b \in Seeded THEN SeedRow(at[b], st[b], who[b]) ELSE None]
        /\ slotStatus = [s \in Slots |->
                           IF \E b \in Seeded : st[b] \in Holding /\ at[b] = s
                           THEN "booked" ELSE "open"]
  BY DEF Init
<1>4. \A b \in BookingIds, s \in Slots :
        Holds(b, s) <=> b \in Seeded /\ st[b] \in Holding /\ at[b] = s
  <2> SUFFICES ASSUME NEW b \in BookingIds, NEW s \in Slots
               PROVE  Holds(b, s) <=> b \in Seeded /\ st[b] \in Holding /\ at[b] = s
    OBVIOUS
  <2>1. CASE b \in Seeded
    <3>1. bookings[b] = SeedRow(at[b], st[b], who[b]) /\ bookings[b] \in Row \cup {None}
      BY <1>1, <1>3, <2>1 DEF LockInv, ColumnInv, TypeInv, TypeOK
    <3>2. bookings[b] # None
      BY <1>3, <2>1, <3>1, NoneIsNoRecord, SlotColumns DEF SeedRow, Row
    <3> QED BY <2>1, <3>1, <3>2 DEF Holds, SeedRow
  <2>2. CASE b \notin Seeded
    BY <1>3, <2>2 DEF Holds
  <2> QED BY <2>1, <2>2
<1>5. NoDoubleBooking
  BY <1>3, <1>4 DEF NoDoubleBooking
<1>6. SlotsMatchBookings
  BY <1>3, <1>4 DEF SlotsMatchBookings, BookingIds
<1> QED BY <1>1, <1>2, <1>5, <1>6 DEF SerialInv

-----------------------------------------------------------------------------
(* A serial writer's copy stays current: its own commit is its last read,   *)
(* another writer works on another booking, a create on no booking at all.  *)
LEMMA StepSeenIsCurrent ==
  ASSUME SerialInv, Next PROVE SeenIsCurrent'
<1>0. /\ ColumnInv /\ TypeInv /\ TypeOK /\ LocalOK /\ SeenIsCurrent /\ OneWriterPerBooking
  BY DEF SerialInv, LockInv, ColumnInv, TypeInv
<1>1. ASSUME UNCHANGED <<bookings, call, phase, seen>> PROVE SeenIsCurrent'
  BY <1>0, <1>1 DEF SeenIsCurrent, Booking
<1>2. ASSUME NEW r \in Requests, Submit(r) \/ Proceed(r) \/ Fault(r) \/ FaultAfterCommit(r),
             NEW q \in Requests,
             phase'[q] \in Uncommitted, call'[q].op # "create"
      PROVE  bookings'[Booking(q)'] = seen'[q]
  <2>1. CASE q # r
    <3>1. /\ phase'[q] = phase[q] /\ call'[q] = call[q] /\ seen'[q] = seen[q]
      BY <1>0, <1>2, <2>1, Frame
    <3>2. /\ bookings[Booking(q)] = seen[q] /\ Booking(q) \in BookingIds
          /\ bookings[Booking(q)] # None /\ Writing(q)
      BY <1>0, <1>2, <3>1, CallTypes
      DEF SeenIsCurrent, LocalOK, PhaseOK, SeenOK, Writing, Running, Uncommitted, TypeOK
    <3>3. CASE Commits(r)
      <4>1. Booking(q) # Booking(r)
        <5>1. CASE CommitCreate(r)
          BY <1>0, <3>2, <5>1, CreateEffect DEF CommitCreate, LocalOK, PhaseOK
        <5>2. CASE CommitReschedule(r) \/ CommitCancel(r)
          <6>1. Writing(r)
            BY <5>2 DEF CommitReschedule, CommitCancel, IsCall, Writing, Running, Uncommitted, Phases
          <6> QED BY <1>0, <2>1, <3>2, <6>1 DEF OneWriterPerBooking
        <5> QED BY <3>3, <5>1, <5>2 DEF Commits
      <4> QED BY <1>0, <3>1, <3>2, <3>3, <4>1, RowsPersist DEF Booking
    <3>4. CASE ~Commits(r)
      BY <1>2, <3>1, <3>2, <3>4, OnlyCommitsWrite DEF Booking
    <3> QED BY <3>3, <3>4
  <2>2. CASE q = r
    <3>1. CASE SubmitReschedule(r) \/ SubmitCancel(r)
      BY <1>0, <2>2, <3>1 DEF SubmitReschedule, SubmitCancel, Booking, TypeOK, db
    <3>2. CASE Commits(r)
      BY <1>0, <1>2, <2>2, <3>2
      DEF Commits, CommitCreate, CommitReschedule, CommitCancel, Enter, Running, Uncommitted, Phases, TypeOK
    <3>3. CASE SubmitCreate(r)
      BY <1>0, <1>2, <2>2, <3>3 DEF SubmitCreate, TypeOK
    <3>4. CASE ~Submit(r) /\ ~Commits(r)
      <4>1. call' = call /\ seen' = seen /\ bookings' = bookings
            /\ (phase'[r] \in Uncommitted => phase[r] \in Uncommitted)
        BY <1>0, <1>2, <3>4 DEF Fault, FaultAfterCommit,
           Proceed, CreateRefused, CreateFindSlot, CreateDeduplicated, CreateAssertClaimable,
           RescheduleRefused, RescheduleResolveSlot, CancelRefused, ClaimSlot, ClaimLost,
           ReleaseSlot, AboutToRelease, RefreshAndPublish, Respond, Durable, Commits, Refuse, Answer,
           Enter, db, TypeOK, Running, Uncommitted, Phases
      <4> QED BY <1>0, <1>2, <2>2, <4>1 DEF SeenIsCurrent, Booking
    <3> QED BY <1>2, <3>1, <3>2, <3>3, <3>4 DEF Submit
  <2> QED BY <2>1, <2>2
<1>3. ASSUME NEW r \in Requests, Submit(r) \/ Proceed(r) \/ Fault(r) \/ FaultAfterCommit(r)
      PROVE  SeenIsCurrent'
  BY <1>2, <1>3 DEF SeenIsCurrent
<1>4. ASSUME NEW p \in Properties, EditListing(p) PROVE SeenIsCurrent'
  BY <1>1, <1>4 DEF EditListing, db
<1>5. CASE Tick
  BY <1>1, <1>5 DEF Tick, db
<1> QED BY <1>3, <1>4, <1>5 DEF Next

LEMMA CommitKeepsLedger ==
  ASSUME SerialInv, NEW r \in Requests, Commits(r)
  PROVE  NoDoubleBooking' /\ SlotsMatchBookings'
<1>0. NoDoubleBooking /\ SlotsMatchBookings /\ slotStatus \in [Slots -> {"open", "booked"}]
  BY DEF SerialInv, LockInv, ColumnInv, TypeInv, TypeOK
<1>1. CASE CommitCreate(r)
  <2>1. \A b \in BookingIds, s \in Slots :
          Holds(b, s)' <=> IF b = r THEN s = Slot(r) ELSE Holds(b, s)
    BY <1>1, CreateEffect DEF Holds, Holding
  <2>2. \A b \in BookingIds : ~Holds(b, Slot(r))
    BY <1>0, <1>1, CreateEffect DEF SlotsMatchBookings
  <2>3. NoDoubleBooking'
    BY <1>0, <1>1, <2>1, <2>2, CreateEffect DEF NoDoubleBooking
  <2>4. SlotsMatchBookings'
    <3> SUFFICES ASSUME NEW s \in Slots
                 PROVE  slotStatus'[s] = "booked" <=> \E b \in BookingIds : Holds(b, s)'
      BY DEF SlotsMatchBookings
    <3>1. CASE s = Slot(r)
      <4>1. r \in BookingIds /\ Holds(r, s)' /\ slotStatus'[s] = "booked"
        BY <1>0, <1>1, <2>1, <3>1, CreateEffect
      <4> QED BY <4>1
    <3>2. CASE s # Slot(r)
      <4>1. slotStatus'[s] = slotStatus[s] /\ ~Holds(r, s) /\ ~Holds(r, s)'
        BY <1>0, <1>1, <2>1, <3>2, CreateEffect DEF Holds
      <4>2. slotStatus[s] = "booked" <=> \E b \in BookingIds : Holds(b, s)
        BY <1>0 DEF SlotsMatchBookings
      <4>3. \A b \in BookingIds : Holds(b, s)' <=> Holds(b, s)
        BY <2>1, <4>1
      <4> QED BY <4>1, <4>2, <4>3
    <3> QED BY <3>1, <3>2
  <2> QED BY <2>3, <2>4
<1>2. CASE CommitReschedule(r)
  <2> DEFINE old == bookings[Booking(r)].slot
  <2>1. \A b \in BookingIds, s \in Slots :
          Holds(b, s)' <=> IF b = Booking(r) THEN s = Slot(r) ELSE Holds(b, s)
    BY <1>2, RescheduleEffect DEF Holds, Holding
  <2>2. /\ \A b \in BookingIds : ~Holds(b, Slot(r))
        /\ \A b \in BookingIds : Holds(b, old) => b = Booking(r)
        /\ \A s \in Slots : Holds(Booking(r), s) => s = old
    <3>1. Holds(Booking(r), old)
      BY <1>2, RescheduleEffect DEF Holds, Holding
    <3> QED BY <1>0, <1>2, <3>1, RescheduleEffect DEF SlotsMatchBookings, NoDoubleBooking, Holds
  <2>3. NoDoubleBooking'
    BY <1>0, <1>2, <2>1, <2>2, RescheduleEffect DEF NoDoubleBooking
  <2>4. SlotsMatchBookings'
    BY <1>0, <1>2, <2>1, <2>2, RescheduleEffect DEF SlotsMatchBookings
  <2> QED BY <2>3, <2>4
<1>3. CASE CommitCancel(r)
  <2> DEFINE old == bookings[Booking(r)].slot
  <2>1. \A b \in BookingIds, s \in Slots :
          Holds(b, s)' <=> b # Booking(r) /\ Holds(b, s)
    BY <1>3, CancelEffect DEF Holds, Holding
  <2>2. /\ \A b \in BookingIds : Holds(b, old) => b = Booking(r)
        /\ \A s \in Slots : Holds(Booking(r), s) => s = old
    <3>1. Holds(Booking(r), old)
      BY <1>3, CancelEffect DEF Holds, Holding
    <3> QED BY <1>0, <1>3, <3>1, CancelEffect DEF NoDoubleBooking, Holds
  <2>3. NoDoubleBooking'
    BY <1>0, <1>3, <2>1 DEF NoDoubleBooking
  <2>4. SlotsMatchBookings'
    BY <1>0, <1>3, <2>1, <2>2, CancelEffect DEF SlotsMatchBookings
  <2> QED BY <2>3, <2>4
<1> QED BY <1>1, <1>2, <1>3 DEF Commits

LEMMA StepSerialInv == SerialInv /\ [SerialNext]_vars => SerialInv'
<1> SUFFICES ASSUME SerialInv, [SerialNext]_vars PROVE SerialInv'
  OBVIOUS
<1>0. /\ LockInv /\ ColumnInv /\ LocksOK
      /\ OneWriterPerBooking /\ SeenIsCurrent /\ NoDoubleBooking /\ SlotsMatchBookings
  BY DEF SerialInv, LockInv
<1>1. [Next]_vars
  BY DEF SerialNext
<1>2. LockInv'
  BY <1>0, <1>1, StepColumnInv, StepLocksOK DEF LockInv
<1>3. OneWriterPerBooking'
  BY <1>0 DEF SerialNext, vars, OneWriterPerBooking, Writing, Booking
<1>4. SeenIsCurrent'
  <2>1. CASE UNCHANGED vars
    BY <1>0, <2>1 DEF vars, SeenIsCurrent, Booking
  <2> QED BY <1>1, <2>1, StepSeenIsCurrent
<1>5. NoDoubleBooking' /\ SlotsMatchBookings'
  <2>1. ASSUME UNCHANGED <<bookings, slotStatus>> PROVE NoDoubleBooking' /\ SlotsMatchBookings'
    BY <1>0, <2>1 DEF NoDoubleBooking, SlotsMatchBookings, Holds
  <2>2. ASSUME NEW r \in Requests, Submit(r) \/ Proceed(r) \/ Fault(r) \/ FaultAfterCommit(r)
        PROVE  NoDoubleBooking' /\ SlotsMatchBookings'
    BY <2>1, <2>2, OnlyCommitsWrite, CommitKeepsLedger
  <2>3. ASSUME ~\E r \in Requests : Submit(r) \/ Proceed(r) \/ Fault(r) \/ FaultAfterCommit(r)
        PROVE  UNCHANGED <<bookings, slotStatus>>
    BY <1>1, <2>3 DEF Next, EditListing, Tick, db, vars
  <2> QED BY <2>1, <2>2, <2>3
<1> QED BY <1>2, <1>3, <1>4, <1>5 DEF SerialInv

LEMMA SerialInvariance == SerialSpec => []SerialInv
  BY InitSerialInv, StepSerialInv, PTL DEF SerialSpec

(* No two bookings hold one slot, for any number of callers, slots and      *)
(* bookings, as long as each booking has one writer at a time: creates may  *)
(* race with one another and with every cancel and reschedule.              *)
THEOREM SerialNoDoubleBooking == SerialSpec => []NoDoubleBooking
<1>1. SerialInv => NoDoubleBooking
  BY DEF SerialInv
<1> QED BY <1>1, SerialInvariance, PTL

(* A request that is about to give back its slot never waits for it: the    *)
(* slot is held by its booking, so nobody claims it, and nobody else writes *)
(* that booking, so nobody releases it.                                     *)
LEMMA ReleaseNeverWaits ==
  ASSUME SerialInv, NEW p \in Requests, AboutToRelease(p)
  PROVE  slotLock[seen[p].slot] \in {None, p}
<1>0. /\ TypeOK /\ LocalOK /\ LocksOK /\ OneWriterPerBooking /\ SeenIsCurrent
      /\ NoDoubleBooking /\ SlotsMatchBookings
  BY DEF SerialInv, LockInv, ColumnInv, TypeInv
<1> DEFINE s == seen[p].slot
           u == slotLock[s]
<1> SUFFICES ASSUME u # None, u # p PROVE FALSE
  OBVIOUS
<1>1. /\ Writing(p) /\ Booking(p) \in BookingIds /\ s \in Slots
      /\ bookings[Booking(p)] = seen[p] /\ Holds(Booking(p), s)
  <2>1. phase[p] \in Uncommitted /\ call[p] # None /\ call[p].op \in {"reschedule", "cancel"}
    BY DEF AboutToRelease, IsCall, Running, Uncommitted, Phases
  <2>2. bookings[Booking(p)] = seen[p] /\ seen[p] \in Row /\ bookings[Booking(p)] # None
    BY <1>0, <2>1 DEF SeenIsCurrent, LocalOK, SeenOK
  <2>3. seen[p].status = "confirmed"
    BY <1>0, <2>1 DEF AboutToRelease, IsCall, LocalOK, SeenOK
  <2> QED BY <1>0, <2>1, <2>2, <2>3, CallTypes DEF Writing, Running, Uncommitted, Holds, Holding, Row
<1>2. u \in Requests /\ LockedBy(s, u) /\ slotStatus[s] = "booked"
  BY <1>0, <1>1 DEF LocksOK, TypeOK, SlotsMatchBookings
<1>3. phase[u] = "released" /\ s = seen[u].slot /\ call[u] # None /\ call[u].op # "create"
  BY <1>0, <1>2 DEF LockedBy, LocksOK, LocalOK, PhaseOK
<1>4. /\ Writing(u) /\ Booking(u) \in BookingIds
      /\ bookings[Booking(u)] = seen[u] /\ bookings[Booking(u)] # None
      /\ seen[u].status = "confirmed"
  BY <1>0, <1>2, <1>3, CallTypes DEF Writing, Running, Uncommitted, Phases, SeenIsCurrent,
      LocalOK, SeenOK
<1>5. Holds(Booking(u), s)
  BY <1>3, <1>4 DEF Holds, Holding
<1> QED BY <1>0, <1>1, <1>2, <1>4, <1>5 DEF NoDoubleBooking, OneWriterPerBooking

(* No cycle of requests waits for one another's row locks: a claim waits    *)
(* only for a request inside its transaction, and those never wait.         *)
THEOREM SerialNoDeadlock == SerialSpec => []NoDeadlock
<1>1. SerialInv => NoDeadlock
  <2> SUFFICES ASSUME SerialInv, NEW r \in Requests, NEW S \in SUBSET Requests, r \in S,
                      \A q \in S : WaitsFor(q) \cap S # {}
               PROVE  FALSE
    BY DEF NoDeadlock, Deadlocked
  <2>0. TypeOK /\ LocalOK /\ LocksOK
    BY DEF SerialInv, LockInv, ColumnInv, TypeInv
  <2>1. ASSUME NEW q \in S PROVE phase[q] = "ready"
    <3>1. q \in Requests /\ \E p : p \in WaitsFor(q)
      OBVIOUS
    <3>2. AboutToRelease(q) => slotLock[seen[q].slot] \in {None, q}
      BY <3>1, ReleaseNeverWaits
    <3> QED BY <3>1, <3>2 DEF WaitsFor
  <2>2. PICK p \in S : p \in WaitsFor(r)
    OBVIOUS
  <2>3. p = slotLock[Slot(r)] /\ p # None /\ Slot(r) \in Slots
    <3>1. phase[r] = "ready" /\ ~AboutToRelease(r)
      BY <2>1 DEF AboutToRelease
    <3>2. Slot(r) \in Slots
      BY <2>0, <3>1 DEF LocalOK, PhaseOK, TargetOK, Wanting, Slot
    <3> QED BY <2>2, <3>1, <3>2 DEF WaitsFor
  <2>4. phase[p] \in {"claimed", "released"}
    BY <2>0, <2>3 DEF LocksOK, LockedBy
  <2> QED BY <2>1, <2>4
<1> QED BY <1>1, SerialInvariance, PTL

(* A slot is booked exactly when a booking holds it: no booking's slot is   *)
(* on offer and no slot is lost, whichever statement of whichever request   *)
(* fails.                                                                   *)
THEOREM SerialSlotsMatchBookings == SerialSpec => []SlotsMatchBookings
<1>1. SerialInv => SlotsMatchBookings
  BY DEF SerialInv
<1> QED BY <1>1, SerialInvariance, PTL

-----------------------------------------------------------------------------
(* The program implements the ledger.                                       *)

FreeSlots == {s \in Slots : slotStatus[s] = "open"}
CancelledBookings == {b \in BookingIds : bookings[b] # None /\ bookings[b].status = "cancelled"}
OccupiedSlots == [b \in BookingIds |-> Occupied(b)]

LEMMA OccupiedIsHeld ==
  ASSUME LockInv, NEW b \in BookingIds
  PROVE  /\ Occupied(b) \in Slots \cup {None}
         /\ \A s \in Slots : Occupied(b) = s <=> Holds(b, s)
  BY Distinct DEF LockInv, ColumnInv, TypeInv, TypeOK, Occupied, Holds, Row

LEMMA InitLedger == Init => Ledger!LedgerInit
<1> SUFFICES ASSUME Init PROVE Ledger!LedgerInit
  OBVIOUS
<1>0. SerialInv /\ LockInv /\ NoDoubleBooking /\ SlotsMatchBookings
      /\ slotStatus \in [Slots -> {"open", "booked"}]
  BY InitSerialInv DEF SerialInv, LockInv, ColumnInv, TypeInv, TypeOK
<1>1. OccupiedSlots \in [BookingIds -> Slots \cup {None}]
  BY <1>0, OccupiedIsHeld DEF OccupiedSlots
<1>2. \A v, w \in BookingIds :
        v # w /\ OccupiedSlots[v] # None => OccupiedSlots[v] # OccupiedSlots[w]
  BY <1>0, OccupiedIsHeld DEF OccupiedSlots, NoDoubleBooking
<1>3. CancelledBookings \in SUBSET {v \in BookingIds : OccupiedSlots[v] = None}
  BY DEF CancelledBookings, OccupiedSlots, Occupied, Holding
<1>4. FreeSlots = Slots \ ({OccupiedSlots[v] : v \in BookingIds} \ {None})
  BY <1>0, OccupiedIsHeld, Distinct DEF FreeSlots, OccupiedSlots, SlotsMatchBookings
<1> QED BY <1>1, <1>2, <1>3, <1>4
        DEF Ledger!LedgerInit, Ledger!Taken, FreeSlots, CancelledBookings, OccupiedSlots

LEMMA StepLedger ==
  SerialInv /\ [SerialNext]_vars => [Ledger!LedgerNext]_(Ledger!ledgerVars)
<1> SUFFICES ASSUME SerialInv, [SerialNext]_vars
             PROVE  [Ledger!LedgerNext]_(Ledger!ledgerVars)
  OBVIOUS
<1>0. LockInv /\ slotStatus \in [Slots -> {"open", "booked"}] /\ SlotsMatchBookings
  BY DEF SerialInv, LockInv, ColumnInv, TypeInv, TypeOK
<1>1. ASSUME UNCHANGED <<bookings, slotStatus>> PROVE UNCHANGED Ledger!ledgerVars
  BY <1>1 DEF Ledger!ledgerVars, Occupied
<1>2. ASSUME NEW r \in Requests, CommitCreate(r)
      PROVE  Ledger!LedgerNext
  <2>1. r \notin CancelledBookings /\ OccupiedSlots[r] = None /\ Slot(r) \in FreeSlots
    BY <1>2, CreateEffect DEF CancelledBookings, OccupiedSlots, Occupied, FreeSlots
  <2>2. FreeSlots' = FreeSlots \ {Slot(r)}
    BY <1>0, <1>2, CreateEffect DEF FreeSlots
  <2>3. OccupiedSlots' = [OccupiedSlots EXCEPT ![r] = Slot(r)]
    BY <1>2, CreateEffect DEF OccupiedSlots, Occupied, Holding
  <2>4. CancelledBookings' = CancelledBookings
    BY <1>2, CreateEffect DEF CancelledBookings
  <2> QED BY <1>2, <2>1, <2>2, <2>3, <2>4, CreateEffect
          DEF Ledger!LedgerNext, Ledger!Book, FreeSlots, CancelledBookings, OccupiedSlots
<1>3. ASSUME NEW r \in Requests, CommitReschedule(r)
      PROVE  Ledger!LedgerNext
  <2> DEFINE b == Booking(r)
  <2>1. OccupiedSlots[b] = bookings[b].slot /\ OccupiedSlots[b] # None /\ Slot(r) \in FreeSlots
    BY <1>3, RescheduleEffect, Distinct DEF OccupiedSlots, Occupied, Holding, FreeSlots
  <2>2. FreeSlots' = (FreeSlots \ {Slot(r)}) \cup {OccupiedSlots[b]}
    BY <1>0, <1>3, <2>1, RescheduleEffect DEF FreeSlots
  <2>3. OccupiedSlots' = [OccupiedSlots EXCEPT ![b] = Slot(r)]
    BY <1>3, RescheduleEffect DEF OccupiedSlots, Occupied, Holding
  <2>4. CancelledBookings' = CancelledBookings
    BY <1>3, RescheduleEffect DEF CancelledBookings
  <2> QED BY <1>3, <2>1, <2>2, <2>3, <2>4, RescheduleEffect
          DEF Ledger!LedgerNext, Ledger!Move, FreeSlots, CancelledBookings, OccupiedSlots
<1>4. ASSUME NEW r \in Requests, CommitCancel(r)
      PROVE  Ledger!LedgerNext
  <2> DEFINE b == Booking(r)
  <2>1. OccupiedSlots[b] = bookings[b].slot /\ OccupiedSlots[b] # None
    BY <1>4, CancelEffect, Distinct DEF OccupiedSlots, Occupied, Holding
  <2>2. FreeSlots' = FreeSlots \cup {OccupiedSlots[b]}
    BY <1>0, <1>4, <2>1, CancelEffect DEF FreeSlots
  <2>3. OccupiedSlots' = [OccupiedSlots EXCEPT ![b] = None]
    BY <1>4, CancelEffect DEF OccupiedSlots, Occupied, Holding
  <2>4. CancelledBookings' = CancelledBookings \cup {b}
    BY <1>4, CancelEffect DEF CancelledBookings
  <2> QED BY <1>4, <2>1, <2>2, <2>3, <2>4, CancelEffect
          DEF Ledger!LedgerNext, Ledger!Cancel, FreeSlots, CancelledBookings, OccupiedSlots
<1>5. ASSUME NEW r \in Requests, Submit(r) \/ Proceed(r) \/ Fault(r) \/ FaultAfterCommit(r)
      PROVE  Ledger!LedgerNext \/ UNCHANGED Ledger!ledgerVars
  <2>1. CASE ~Commits(r)
    BY <1>1, <1>5, <2>1, OnlyCommitsWrite
  <2>2. CASE Commits(r)
    BY <1>2, <1>3, <1>4, <2>2 DEF Commits
  <2> QED BY <2>1, <2>2
<1>6. ASSUME ~\E r \in Requests : Submit(r) \/ Proceed(r) \/ Fault(r) \/ FaultAfterCommit(r)
      PROVE  UNCHANGED <<bookings, slotStatus>>
  BY <1>6 DEF SerialNext, Next, EditListing, Tick, db, vars
<1> QED BY <1>1, <1>5, <1>6

(* Seen from outside, with one writer per booking at a time, every request  *)
(* is one atomic Book, Move or Cancel of the ledger or changes nothing,     *)
(* whatever it read before, whatever ran meanwhile and wherever it failed.  *)
THEOREM SerialImplementsLedger == SerialSpec => ImplementsLedger
<1>1. SerialSpec => Ledger!LedgerInit /\ [][Ledger!LedgerNext]_(Ledger!ledgerVars)
  BY InitLedger, StepLedger, SerialInvariance, PTL DEF SerialSpec
<1> QED BY <1>1 DEF ImplementsLedger, Ledger!LedgerSpec

-----------------------------------------------------------------------------
(* How often a booking was moved, and what was announced of it.             *)

MovesOf(b) == {r \in wrote : call[r].op = "reschedule" /\ Booking(r) = b}

(* What SerialSpec and Spec maintain together, as the proofs below use it.  *)
Settled == SerialInv /\ OutcomeInv

LEMMA SettledFacts ==
  ASSUME Settled
  PROVE  /\ TypeInv /\ TypeOK /\ LocalOK /\ OutcomesOK /\ SeenIsCurrent /\ OneWriterPerBooking
         /\ \A q \in wrote : /\ q \in Requests /\ call[q] # None
                             /\ phase[q] \in {"committed", "announced", "done"}
         /\ \A q \in Requests : event[q] # None => phase[q] \in {"announced", "done"}
         /\ \A b \in BookingIds : bookings[b] # None => bookings[b].count \in Nat
<1>1. /\ TypeInv /\ TypeOK /\ LocalOK /\ OutcomesOK /\ SeenIsCurrent /\ OneWriterPerBooking
  BY DEF Settled, SerialInv, OutcomeInv, LockInv, ColumnInv, TypeInv
<1>2. \A q \in wrote : /\ q \in Requests /\ call[q] # None
                     /\ phase[q] \in {"committed", "announced", "done"}
  BY <1>1 DEF OutcomesOK, OutcomeOK, LocalOK, PhaseOK, TypeOK
<1>3. \A q \in Requests : event[q] # None => phase[q] \in {"announced", "done"}
  BY <1>1 DEF OutcomesOK, OutcomeOK
<1>4. \A b \in BookingIds : bookings[b] # None => bookings[b].count \in Nat
  BY <1>1 DEF TypeOK, Row
<1> QED BY <1>1, <1>2, <1>3, <1>4

(* The booking of a move or a cancellation is not one being created.        *)
LEMMA OwnBooking ==
  ASSUME Settled, NEW q \in Requests, IsCall(q, "reschedule") \/ IsCall(q, "cancel")
  PROVE  Booking(q) \in BookingIds /\ bookings[Booking(q)] # None
  BY SettledFacts, CallTypes DEF LocalOK, SeenOK, IsCall

(* A step that writes and announces nothing.                                *)
LEMMA NothingMoves ==
  ASSUME Settled, MoveInv, UNCHANGED <<bookings, wrote, event>>,
         \A q \in Requests :
           /\ phase[q] # "idle" => call'[q] = call[q]
           /\ phase'[q] = "committed" => phase[q] = "committed" /\ seen'[q] = seen[q]
  PROVE  MoveInv'
<1>1. \A q \in wrote : q \in Requests /\ call'[q] = call[q]
  BY SettledFacts
<1>2. \A q \in Requests : event[q] # None => call'[q] = call[q]
  BY SettledFacts
<1>3. MovesCounted'
  <2>1. ASSUME NEW b \in BookingIds PROVE MovesOf(b)' = MovesOf(b)
    BY <1>1 DEF MovesOf, Booking
  <2> QED BY <2>1 DEF MoveInv, MovesCounted, MovesOf
<1>4. CancelsOnce'
  BY <1>1 DEF MoveInv, CancelsOnce, IsCall, Booking
<1>5. \A k, b : EventsOf(k, b)' = EventsOf(k, b)
  BY DEF EventsOf
<1>6. MovesAnnouncedTruly'
  BY <1>5 DEF MoveInv, MovesAnnouncedTruly
<1>7. ASSUME NEW q \in Requests PROVE EventOK(q)' /\ MovedLast(q)'
  <2>1. EventOK(q)'
    BY <1>1, <1>2 DEF MoveInv, EventOK, IsCall, Booking
  <2>2. MovedLast(q)'
    BY <1>5 DEF MoveInv, MovedLast, IsCall, Booking
  <2> QED BY <2>1, <2>2
<1> QED BY <1>3, <1>4, <1>6, <1>7 DEF MoveInv

(* What the three commits have in common: a booking is written by a request  *)
(* that has not written, and by no other that is at work on it.             *)
LEMMA CommitFacts ==
  ASSUME Settled, NEW r \in Requests, Commits(r)
  PROVE  /\ r \notin wrote /\ wrote' = wrote \cup {r} /\ UNCHANGED <<call, seen, event>>
         /\ phase' = [phase EXCEPT ![r] = "committed"]
         /\ Booking(r) \in BookingIds
         /\ \A b \in BookingIds \ {Booking(r)} : bookings'[b] = bookings[b]
         /\ \A q \in Requests \ {r} :
              /\ phase'[q] = phase[q]
              /\ phase[q] = "committed" /\ IsCall(q, "reschedule") => Booking(q) # Booking(r)
<1>1. /\ phase[r] \in {"claimed", "released"} /\ wrote' = wrote \cup {r}
      /\ UNCHANGED <<call, seen, event>> /\ phase' = [phase EXCEPT ![r] = "committed"]
  BY DEF Commits, CommitCreate, CommitReschedule, CommitCancel, Enter
<1>2. r \notin wrote
  BY <1>1, SettledFacts
<1>3. SerialInv /\ TypeOK /\ OneWriterPerBooking
  BY SettledFacts DEF Settled
<1>4. Booking(r) \in BookingIds /\ \A b \in BookingIds \ {Booking(r)} : bookings'[b] = bookings[b]
  <2>1. CASE CommitCreate(r)
    <3>1. Booking(r) = r
      BY <2>1, SettledFacts DEF CommitCreate, LocalOK, PhaseOK
    <3> QED BY <1>3, <2>1, <3>1, CreateEffect
  <2>2. CASE CommitReschedule(r)
    BY <1>3, <2>2, RescheduleEffect
  <2>3. CASE CommitCancel(r)
    BY <1>3, <2>3, CancelEffect
  <2> QED BY <2>1, <2>2, <2>3 DEF Commits
<1>5. ASSUME NEW q \in Requests \ {r}, phase[q] = "committed", IsCall(q, "reschedule")
      PROVE  Booking(q) # Booking(r)
  <2>1. CASE CommitCreate(r)
    BY <1>3, <1>5, <2>1, OwnBooking, CreateEffect, SettledFacts
    DEF CommitCreate, LocalOK, PhaseOK
  <2>2. CASE CommitReschedule(r) \/ CommitCancel(r)
    <3>1. Writing(r) /\ Writing(q)
      BY <1>5, <2>2 DEF CommitReschedule, CommitCancel, IsCall, Writing, Running, Uncommitted, Phases
    <3> QED BY <1>3, <1>5, <3>1 DEF OneWriterPerBooking
  <2> QED BY <2>1, <2>2 DEF Commits
<1>6. \A q \in Requests \ {r} : phase'[q] = phase[q]
  BY <1>1, <1>3 DEF TypeOK
<1> QED BY <1>1, <1>2, <1>4, <1>5, <1>6

(* Whatever a commit writes, what was announced before stays true, and a    *)
(* move of another booking that is still to be announced stays its latest.  *)
LEMMA CommitKeepsOthers ==
  ASSUME Settled, MoveInv, NEW r \in Requests, Commits(r),
         bookings'[Booking(r)].count \in Nat,
         bookings[Booking(r)] # None => bookings[Booking(r)].count <= bookings'[Booking(r)].count
  PROVE  /\ IsFiniteSet(wrote') /\ MovesAnnouncedTruly'
         /\ \A k, b : EventsOf(k, b)' = EventsOf(k, b)
         /\ \A q \in Requests : EventOK(q)'
         /\ \A q \in Requests \ {r} : MovedLast(q)'
         /\ \A b \in BookingIds : b # Booking(r) \/ ~IsCall(r, "reschedule") =>
              MovesOf(b)' = MovesOf(b)
<1>1. /\ r \notin wrote /\ wrote' = wrote \cup {r} /\ UNCHANGED <<call, seen, event>>
      /\ \A b \in BookingIds \ {Booking(r)} : bookings'[b] = bookings[b]
      /\ \A q \in Requests \ {r} :
           /\ phase'[q] = phase[q]
           /\ phase[q] = "committed" /\ IsCall(q, "reschedule") => Booking(q) # Booking(r)
      /\ call[r] # None /\ event[r] = None
  <2>1. phase[r] \in {"claimed", "released"} /\ call[r] # None
    BY DEF Commits, CommitCreate, CommitReschedule, CommitCancel, IsCall
  <2> QED BY <2>1, CommitFacts, SettledFacts
<1>2. IsFiniteSet(wrote')
  BY <1>1, FS_AddElement DEF MoveInv
<1>3. \A k, b : EventsOf(k, b)' = EventsOf(k, b)
  BY <1>1 DEF EventsOf
<1>4. MovesAnnouncedTruly'
  BY <1>1, <1>3 DEF MoveInv, MovesAnnouncedTruly
<1>5. ASSUME NEW q \in Requests PROVE EventOK(q)'
  <2>1. CASE event[q] # None /\ event[q].kind = "rescheduled"
    <3>1. /\ q \in wrote /\ IsCall(q, "reschedule") /\ event[q].booking = Booking(q)
          /\ event[q].status = "confirmed" /\ event[q].previous # event[q].time
          /\ event[q].count <= bookings[Booking(q)].count
      BY <2>1 DEF MoveInv, EventOK
    <3>2. Booking(q) \in BookingIds /\ bookings[Booking(q)] # None
          /\ bookings[Booking(q)].count \in Nat
      BY <3>1, OwnBooking, SettledFacts
    <3>3. event[q].count \in Nat
      <4>1. event[q] \in Event
        BY <2>1, SettledFacts DEF TypeOK
      <4> QED BY <2>1, <4>1 DEF Event
    <3>4. event[q].count <= bookings'[Booking(q)].count
      BY <1>1, <3>1, <3>2, <3>3
    <3> QED BY <1>1, <2>1, <3>1, <3>4 DEF EventOK, IsCall, Booking
  <2>2. CASE ~(event[q] # None /\ event[q].kind = "rescheduled")
    BY <1>1, <2>2 DEF MoveInv, EventOK, IsCall, Booking
  <2> QED BY <2>1, <2>2
<1>6. ASSUME NEW q \in Requests \ {r} PROVE MovedLast(q)'
  <2> SUFFICES ASSUME phase[q] = "committed", IsCall(q, "reschedule") PROVE MovedLast(q)'
    BY <1>1 DEF MovedLast, IsCall
  <2>1. Booking(q) \in BookingIds \ {Booking(r)} /\ Booking(q)' = Booking(q)
    BY <1>1, OwnBooking DEF Booking
  <2>2. bookings'[Booking(q)] = bookings[Booking(q)]
    BY <1>1, <2>1
  <2>3. MovedLast(q)
    BY DEF MoveInv
  <2> QED BY <1>1, <1>3, <2>1, <2>2, <2>3 DEF MovedLast, IsCall
<1>7. ASSUME NEW b \in BookingIds, b # Booking(r) \/ ~IsCall(r, "reschedule")
      PROVE  MovesOf(b)' = MovesOf(b)
  BY <1>1, <1>7 DEF MovesOf, IsCall, Booking
<1> QED BY <1>2, <1>3, <1>4, <1>5, <1>6, <1>7

(* A booking that was just made was never moved.                            *)
LEMMA CreateMoves ==
  ASSUME Settled, MoveInv, NEW r \in Requests, CommitCreate(r)
  PROVE  MoveInv'
<1>1. Commits(r) /\ SerialInv /\ IsCall(r, "create") /\ Booking(r) = r /\ r \in BookingIds
      /\ bookings[r] = None /\ phase[r] = "claimed" /\ TypeInv
  BY SettledFacts, CreateEffect DEF Commits, CommitCreate, Settled, LocalOK, PhaseOK
<1>2. bookings'[r].count = 0
  BY <1>1, SettledFacts DEF CommitCreate, TypeOK
<1>3. /\ r \notin wrote /\ wrote' = wrote \cup {r} /\ UNCHANGED <<call, seen, event>>
      /\ phase' = [phase EXCEPT ![r] = "committed"]
      /\ \A b \in BookingIds \ {Booking(r)} : bookings'[b] = bookings[b]
  BY <1>1, CommitFacts
<1>4. /\ IsFiniteSet(wrote') /\ MovesAnnouncedTruly'
      /\ \A q \in Requests : EventOK(q)'
      /\ \A q \in Requests \ {r} : MovedLast(q)'
      /\ \A b \in BookingIds : MovesOf(b)' = MovesOf(b)
  BY <1>1, <1>2, CommitKeepsOthers DEF IsCall
<1>5. MovedLast(r)'
  BY <1>1, <1>3 DEF MovedLast, IsCall
<1>6. \A q \in wrote : IsCall(q, "reschedule") \/ IsCall(q, "cancel") => Booking(q) \in BookingIds \ {r}
  BY <1>1, SettledFacts, OwnBooking
<1>7. MovesCounted'
  <2>1. ASSUME NEW b \in BookingIds, bookings'[b] # None
        PROVE  bookings'[b].count = Cardinality(MovesOf(b)')
    <3>1. CASE b = r
      <4>1. MovesOf(b) = {}
        BY <1>6, <3>1, SettledFacts DEF MovesOf, IsCall
      <4> QED BY <1>2, <1>4, <3>1, <4>1, FS_EmptySet
    <3>2. CASE b # r
      BY <1>1, <1>3, <1>4, <2>1, <3>2 DEF MoveInv, MovesCounted, MovesOf
    <3> QED BY <3>1, <3>2
  <2> QED BY <2>1 DEF MovesCounted, MovesOf
<1>8. CancelsOnce'
  <2> SUFFICES ASSUME NEW q \in wrote', IsCall(q, "cancel")'
               PROVE  /\ (bookings[Booking(q)].status = "cancelled")'
                      /\ \A p \in wrote' : (IsCall(p, "cancel") /\ Booking(p) = Booking(q))' => p = q
    BY DEF CancelsOnce
  <2>1. q \in wrote /\ IsCall(q, "cancel") /\ Booking(q)' = Booking(q)
    BY <1>1, <1>3 DEF IsCall, Booking
  <2>2. bookings'[Booking(q)] = bookings[Booking(q)]
    BY <1>1, <1>3, <1>6, <2>1
  <2> QED BY <1>1, <1>3, <2>1, <2>2 DEF MoveInv, CancelsOnce, IsCall, Booking
<1>9. \A q \in Requests : MovedLast(q)'
  BY <1>4, <1>5
<1> QED BY <1>4, <1>7, <1>8, <1>9 DEF MoveInv

(* A committing move is the one more that the booking now counts.           *)
LEMMA RescheduleMoves ==
  ASSUME Settled, MoveInv, NEW r \in Requests, CommitReschedule(r)
  PROVE  MoveInv'
<1> DEFINE b == Booking(r)
<1>1. /\ Commits(r) /\ SerialInv /\ TypeInv /\ IsCall(r, "reschedule") /\ phase[r] = "released"
      /\ b \in BookingIds /\ bookings[b] # None /\ bookings[b] = seen[r]
      /\ bookings[b].status = "confirmed" /\ bookings[b].count \in Nat
  <2>1. SerialInv /\ IsCall(r, "reschedule") /\ phase[r] = "released"
    BY DEF CommitReschedule, Settled
  <2>2. bookings[b] = seen[r]
    BY <2>1, SettledFacts DEF SeenIsCurrent, IsCall, Running, Uncommitted, Phases
  <2> QED BY <2>1, <2>2, SettledFacts, RescheduleEffect DEF Commits
<1>2. bookings'[b] = MovedRow(r) /\ MovedRow(r).count = bookings[b].count + 1
      /\ MovedRow(r).status = "confirmed" /\ MovedRow(r).time = call[r].time
  <2>1. bookings'[b] = MovedRow(r)
    BY <1>1, SettledFacts DEF CommitReschedule, TypeOK
  <2>2. MovedRow(r).count = bookings[b].count + 1
    BY <1>1, RescheduleTypes DEF MovedRow, Row
  <2> QED BY <1>1, <2>1, <2>2, RescheduleTypes
<1>3. /\ r \notin wrote /\ wrote' = wrote \cup {r} /\ UNCHANGED <<call, seen, event>>
      /\ phase' = [phase EXCEPT ![r] = "committed"]
      /\ \A c \in BookingIds \ {b} : bookings'[c] = bookings[c]
  BY <1>1, CommitFacts
<1>4. bookings'[b].count \in Nat /\ bookings[b].count < bookings'[b].count
  BY <1>1, <1>2
<1>5. /\ IsFiniteSet(wrote') /\ MovesAnnouncedTruly'
      /\ \A k, c : EventsOf(k, c)' = EventsOf(k, c)
      /\ \A q \in Requests : EventOK(q)'
      /\ \A q \in Requests \ {r} : MovedLast(q)'
      /\ \A c \in BookingIds \ {b} : MovesOf(c)' = MovesOf(c)
  BY <1>1, <1>4, CommitKeepsOthers
<1>6. MovedLast(r)'
  <2>1. (bookings[b].time)' # seen'[r].time /\ (bookings[b].status)' = "confirmed"
    BY <1>1, <1>2, <1>3, SettledFacts DEF LocalOK, TargetOK, Wanting, IsCall, Booking
  <2>2. ASSUME NEW q \in EventsOf("rescheduled", b)
        PROVE  event[q].count < bookings'[b].count
    <3>1. q \in Requests /\ event[q] # None /\ event[q].kind = "rescheduled" /\ event[q].booking = b
      BY <2>2 DEF EventsOf
    <3>2. event[q].count <= bookings[b].count
      BY <3>1 DEF MoveInv, EventOK
    <3>3. event[q].count \in Nat
      <4>1. event[q] \in Event
        BY <3>1, SettledFacts DEF TypeOK
      <4> QED BY <3>1, <4>1 DEF Event
    <3> QED BY <1>1, <1>4, <3>2, <3>3
  <2>3. b' = b
    BY <1>3 DEF Booking
  <2> QED BY <1>3, <1>5, <2>1, <2>2, <2>3 DEF MovedLast
<1>7. MovesCounted'
  <2>1. ASSUME NEW c \in BookingIds, bookings'[c] # None
        PROVE  bookings'[c].count = Cardinality(MovesOf(c)')
    <3>1. CASE c = b
      <4>1. MovesOf(c)' = MovesOf(c) \cup {r}
        BY <1>1, <1>3, <3>1 DEF MovesOf, IsCall, Booking
      <4>2. IsFiniteSet(MovesOf(c)) /\ r \notin MovesOf(c)
        <5>1. MovesOf(c) \subseteq wrote
          BY DEF MovesOf
        <5> QED BY <1>3, <5>1, FS_Subset DEF MoveInv, MovesOf
      <4>3. Cardinality(MovesOf(c) \cup {r}) = Cardinality(MovesOf(c)) + 1
        BY <4>2, FS_AddElement
      <4>4. bookings[c].count = Cardinality(MovesOf(c))
        BY <1>1, <3>1 DEF MoveInv, MovesCounted, MovesOf
      <4> QED BY <1>2, <3>1, <4>1, <4>3, <4>4
    <3>2. CASE c # b
      BY <1>3, <1>5, <2>1, <3>2 DEF MoveInv, MovesCounted, MovesOf
    <3> QED BY <3>1, <3>2
  <2> QED BY <2>1 DEF MovesCounted, MovesOf
<1>8. CancelsOnce'
  <2> SUFFICES ASSUME NEW q \in wrote', IsCall(q, "cancel")'
               PROVE  /\ (bookings[Booking(q)].status = "cancelled")'
                      /\ \A p \in wrote' : (IsCall(p, "cancel") /\ Booking(p) = Booking(q))' => p = q
    BY DEF CancelsOnce
  <2>1. q \in wrote /\ IsCall(q, "cancel") /\ Booking(q)' = Booking(q)
    BY <1>1, <1>3 DEF IsCall, Booking
  <2>2. bookings[Booking(q)].status = "cancelled" /\ Booking(q) \in BookingIds
    BY <2>1, SettledFacts, OwnBooking DEF MoveInv, CancelsOnce
  <2>3. bookings'[Booking(q)] = bookings[Booking(q)]
    BY <1>1, <1>3, <2>2
  <2> QED BY <1>1, <1>3, <2>1, <2>2, <2>3 DEF MoveInv, CancelsOnce, IsCall, Booking
<1>9. \A q \in Requests : MovedLast(q)'
  BY <1>5, <1>6
<1> QED BY <1>5, <1>7, <1>8, <1>9 DEF MoveInv

(* A booking is cancelled once: the second cancellation would have read it  *)
(* as cancelled.                                                            *)
LEMMA CancelMoves ==
  ASSUME Settled, MoveInv, NEW r \in Requests, CommitCancel(r)
  PROVE  MoveInv'
<1> DEFINE b == Booking(r)
<1>1. /\ Commits(r) /\ SerialInv /\ IsCall(r, "cancel") /\ ~IsCall(r, "reschedule")
      /\ b \in BookingIds /\ bookings[b] # None
      /\ bookings[b].status = "confirmed" /\ bookings[b].count \in Nat /\ bookings[b] \in Row
  <2>1. SerialInv /\ IsCall(r, "cancel") /\ ~IsCall(r, "reschedule")
    BY DEF CommitCancel, Settled, IsCall
  <2> QED BY <2>1, SettledFacts, CancelEffect DEF Commits, TypeOK
<1>2. bookings'[b].count = bookings[b].count /\ bookings'[b].status = "cancelled"
      /\ bookings'[b] # None
  <2>1. bookings' = [bookings EXCEPT ![b] = [bookings[b] EXCEPT !.status = "cancelled"]]
    BY DEF CommitCancel
  <2>2. bookings'[b] = [bookings[b] EXCEPT !.status = "cancelled"]
    BY <1>1, <2>1, SettledFacts DEF TypeOK
  <2>3. [bookings[b] EXCEPT !.status = "cancelled"].count = bookings[b].count
    BY <1>1 DEF Row
  <2> QED BY <1>1, <2>2, <2>3, CancelEffect
<1>3. /\ r \notin wrote /\ wrote' = wrote \cup {r} /\ UNCHANGED <<call, seen, event>>
      /\ phase' = [phase EXCEPT ![r] = "committed"]
      /\ \A c \in BookingIds \ {b} : bookings'[c] = bookings[c]
  BY <1>1, CommitFacts
<1>4. /\ IsFiniteSet(wrote') /\ MovesAnnouncedTruly'
      /\ \A q \in Requests : EventOK(q)'
      /\ \A q \in Requests \ {r} : MovedLast(q)'
      /\ \A c \in BookingIds : MovesOf(c)' = MovesOf(c)
  BY <1>1, <1>2, CommitKeepsOthers
<1>5. \A q \in Requests : MovedLast(q)'
  BY <1>1, <1>3, <1>4 DEF MovedLast, IsCall
<1>6. MovesCounted'
  <2>1. ASSUME NEW c \in BookingIds, bookings'[c] # None
        PROVE  bookings'[c].count = Cardinality(MovesOf(c)')
    <3>1. bookings[c] # None /\ bookings'[c].count = bookings[c].count
      BY <1>1, <1>2, <1>3, <2>1
    <3> QED BY <1>4, <3>1 DEF MoveInv, MovesCounted, MovesOf
  <2> QED BY <2>1 DEF MovesCounted, MovesOf
<1>7. CancelsOnce'
  <2>1. \A q \in wrote : IsCall(q, "cancel") => Booking(q) # b /\ Booking(q) \in BookingIds
    BY <1>1, SettledFacts, OwnBooking DEF MoveInv, CancelsOnce
  <2>2. \A q \in wrote : IsCall(q, "cancel") => bookings'[Booking(q)] = bookings[Booking(q)]
    BY <1>3, <2>1
  <2>3. \A q \in wrote' : IsCall(q, "cancel") => bookings'[Booking(q)].status = "cancelled"
    BY <1>2, <1>3, <2>2 DEF MoveInv, CancelsOnce
  <2>4. \A p, q \in wrote' : IsCall(p, "cancel") /\ IsCall(q, "cancel") /\ Booking(p) = Booking(q)
          => p = q
    BY <1>3, <2>1 DEF MoveInv, CancelsOnce
  <2> QED BY <1>3, <2>3, <2>4 DEF CancelsOnce, IsCall, Booking
<1> QED BY <1>4, <1>5, <1>6, <1>7 DEF MoveInv

(* An announcement that claims no move says nothing of any other.           *)
LEMMA PlainEvent ==
  ASSUME Settled, MoveInv, NEW r \in Requests, UNCHANGED <<bookings, wrote, call, seen>>,
         \A q \in Requests \ {r} : event'[q] = event[q] /\ phase'[q] = phase[q],
         phase'[r] = "announced", event'[r] # None,
         event'[r].kind # "rescheduled",
         event'[r].kind = "cancelled" =>
           r \in wrote /\ IsCall(r, "cancel") /\ event'[r].booking = Booking(r),
         event[r] = None
  PROVE  MoveInv'
<1>1. MovesCounted'
  BY DEF MoveInv, MovesCounted, Booking
<1>2. CancelsOnce'
  BY DEF MoveInv, CancelsOnce, IsCall, Booking
<1>3. \A b : EventsOf("rescheduled", b)' = EventsOf("rescheduled", b)
  BY DEF EventsOf
<1>4. \A b : \A q \in EventsOf("rescheduled", b) : q # r /\ event'[q] = event[q]
  BY DEF EventsOf
<1>5. MovesAnnouncedTruly'
  BY <1>3, <1>4 DEF MoveInv, MovesAnnouncedTruly
<1>6. ASSUME NEW q \in Requests PROVE EventOK(q)' /\ MovedLast(q)'
  <2>1. CASE q = r
    BY <2>1 DEF EventOK, MovedLast, IsCall, Booking
  <2>2. CASE q # r
    <3>1. EventOK(q) /\ MovedLast(q) /\ event'[q] = event[q] /\ phase'[q] = phase[q]
      BY <2>2 DEF MoveInv
    <3>2. EventOK(q)'
      BY <3>1 DEF EventOK, IsCall, Booking
    <3>3. Booking(q)' = Booking(q)
      BY DEF Booking
    <3> QED BY <1>3, <1>4, <3>1, <3>2, <3>3 DEF MovedLast, IsCall
  <2> QED BY <2>1, <2>2
<1> QED BY <1>1, <1>2, <1>5, <1>6 DEF MoveInv

LEMMA DeduplicationMoves ==
  ASSUME Settled, MoveInv, NEW r \in Requests, CreateDeduplicated(r)
  PROVE  MoveInv'
<1>1. PICK b \in OwnConfirmed(r) :
        event' = [event EXCEPT ![r] = [kind |-> "created", booking |-> b,
                                       time |-> bookings[b].time,
                                       status |-> bookings[b].status]]
  BY DEF CreateDeduplicated
<1>2. /\ event[r] = None /\ TypeOK
      /\ phase' = [phase EXCEPT ![r] = "announced"]
      /\ UNCHANGED <<bookings, wrote, call, seen>>
  BY SettledFacts DEF CreateDeduplicated, Enter, db
<1>3. event'[r].kind = "created" /\ event'[r] # None
  <2>1. b \in BookingIds /\ bookings[b] \in Row
    BY <1>2 DEF OwnConfirmed, TypeOK
  <2>2. event'[r] = [kind |-> "created", booking |-> b, time |-> bookings[b].time,
                     status |-> bookings[b].status]
    BY <1>1, <1>2 DEF TypeOK
  <2>3. event'[r] \in Event
    BY <2>1, <2>2 DEF Event, Row
  <2> QED BY <2>2, <2>3, NoneIsNoRecord
<1>4. \A q \in Requests \ {r} : event'[q] = event[q] /\ phase'[q] = phase[q]
  BY <1>1, <1>2 DEF TypeOK
<1>5. phase'[r] = "announced"
  BY <1>2 DEF TypeOK
<1> QED BY <1>2, <1>3, <1>4, <1>5, PlainEvent

(* The latest move of a booking is announced under a count that no earlier  *)
(* announcement reached.                                                    *)
LEMMA PublishMoves ==
  ASSUME Settled, MoveInv, NEW r \in Requests, RefreshAndPublish(r)
  PROVE  MoveInv'
<1>1. /\ phase[r] = "committed" /\ r \in wrote /\ event[r] = None /\ TypeInv
      /\ call[r] # None /\ call[r].op \in {"create", "reschedule", "cancel"}
      /\ event' = [event EXCEPT ![r] = Announcement(r)]
      /\ phase' = [phase EXCEPT ![r] = "announced"]
      /\ UNCHANGED <<bookings, wrote, call, seen>>
  <2>1. phase[r] = "committed" /\ event' = [event EXCEPT ![r] = Announcement(r)]
        /\ phase' = [phase EXCEPT ![r] = "announced"] /\ UNCHANGED <<bookings, wrote, call, seen>>
    BY DEF RefreshAndPublish, Durable, Enter, db
  <2>2. r \in wrote /\ event[r] = None /\ TypeInv /\ call[r] # None
    BY <2>1, SettledFacts DEF OutcomesOK, OutcomeOK
  <2> QED BY <2>1, <2>2, SettledFacts, CallTypes
<1>2. /\ phase'[r] = "announced" /\ event'[r] = Announcement(r) /\ event'[r] # None
      /\ \A q \in Requests \ {r} : event'[q] = event[q] /\ phase'[q] = phase[q]
  BY <1>1, SettledFacts, AnnouncementTypes DEF TypeOK
<1>3. CASE call[r].op # "reschedule"
  <2>1. event'[r].kind # "rescheduled" /\ event'[r].booking = Booking(r)
        /\ (event'[r].kind = "cancelled" => call[r].op = "cancel")
    BY <1>1, <1>2, <1>3 DEF Announcement
  <2> QED BY <1>1, <1>2, <2>1, PlainEvent DEF IsCall
<1>4. CASE call[r].op = "reschedule"
  <2> DEFINE b == Booking(r)
             row == bookings[b]
  <2>1. b \in BookingIds /\ row # None /\ row.count \in Nat
    BY <1>1, <1>4, OwnBooking, SettledFacts DEF IsCall
  <2>2. /\ event'[r].kind = "rescheduled" /\ event'[r].booking = b
        /\ event'[r].time = row.time /\ event'[r].status = row.status
        /\ event'[r].previous = seen[r].time /\ event'[r].count = row.count
    BY <1>2, <1>4 DEF Announcement
  <2>3. /\ row.status = "confirmed" /\ row.time # seen[r].time
        /\ \A q \in EventsOf("rescheduled", b) : event[q].count < row.count
    BY <1>1, <1>4 DEF MoveInv, MovedLast, IsCall
  <2>4. \A q \in Requests \ {r} :
          phase[q] = "committed" /\ IsCall(q, "reschedule") => Booking(q) # b
    <3>1. \A q \in Requests :
            phase[q] = "committed" /\ IsCall(q, "reschedule") => Writing(q)
      BY DEF Writing, Running, Uncommitted, Phases, IsCall
    <3> QED BY <1>1, <1>4, <3>1, SettledFacts DEF OneWriterPerBooking, IsCall
  <2>5. \A c : \A q \in EventsOf("rescheduled", c)' :
          \/ q \in EventsOf("rescheduled", c) /\ q # r /\ event'[q] = event[q]
          \/ q = r /\ c = b
    BY <1>1, <1>2, <2>2 DEF EventsOf
  <2>6. MovesCounted'
    BY <1>1 DEF MoveInv, MovesCounted, Booking
  <2>7. CancelsOnce'
    BY <1>1 DEF MoveInv, CancelsOnce, IsCall, Booking
  <2>8. MovesAnnouncedTruly'
    <3> SUFFICES ASSUME NEW c \in BookingIds,
                        NEW p \in EventsOf("rescheduled", c)',
                        NEW q \in EventsOf("rescheduled", c)'
                 PROVE  /\ event'[p].status = "confirmed"
                        /\ event'[p].previous # event'[p].time
                        /\ p # q => event'[p].count # event'[q].count
      BY DEF MovesAnnouncedTruly
    <3>1. \A x \in EventsOf("rescheduled", b) : event[x].count # row.count
      <4>1. ASSUME NEW x \in EventsOf("rescheduled", b) PROVE event[x].count \in Nat
        <5>1. x \in Requests /\ event[x] # None /\ event[x].kind = "rescheduled"
          BY <4>1 DEF EventsOf
        <5>2. event[x] \in Event
          BY <5>1, SettledFacts DEF TypeOK
        <5> QED BY <5>1, <5>2 DEF Event
      <4> QED BY <2>1, <2>3, <4>1
    <3>2. CASE p # r /\ q # r
      BY <2>5, <3>2 DEF MoveInv, MovesAnnouncedTruly
    <3>3. CASE p = r /\ q # r
      BY <2>2, <2>3, <2>5, <3>1, <3>3
    <3>4. CASE p # r /\ q = r
      <4>1. c = b /\ p \in EventsOf("rescheduled", b) /\ event'[p] = event[p]
        BY <2>5, <3>4
      <4> QED BY <2>1, <2>2, <2>3, <3>1, <3>4, <4>1 DEF MoveInv, MovesAnnouncedTruly
    <3>5. CASE p = r /\ q = r
      BY <2>2, <2>3, <3>5
    <3> QED BY <3>2, <3>3, <3>4, <3>5
  <2>9. ASSUME NEW q \in Requests PROVE EventOK(q)' /\ MovedLast(q)'
    <3>1. CASE q = r
      <4>1. MovedLast(r)'
        BY <1>2 DEF MovedLast
      <4>2. EventOK(r)'
        BY <1>1, <1>4, <2>1, <2>2, <2>3 DEF EventOK, IsCall, Booking
      <4> QED BY <3>1, <4>1, <4>2
    <3>2. CASE q # r
      <4>1. EventOK(q) /\ MovedLast(q) /\ event'[q] = event[q] /\ phase'[q] = phase[q]
            /\ Booking(q)' = Booking(q) /\ (IsCall(q, "reschedule")' <=> IsCall(q, "reschedule"))
        BY <1>1, <1>2, <3>2 DEF MoveInv, IsCall, Booking
      <4>2. EventOK(q)'
        BY <1>1, <4>1 DEF EventOK, IsCall, Booking
      <4>3. MovedLast(q)'
        <5> SUFFICES ASSUME phase[q] = "committed", IsCall(q, "reschedule") PROVE MovedLast(q)'
          BY <4>1 DEF MovedLast
        <5>1. Booking(q) # b
          BY <2>4, <3>2
        <5>2. \A x \in EventsOf("rescheduled", Booking(q))' :
                x \in EventsOf("rescheduled", Booking(q)) /\ event'[x] = event[x]
          BY <2>5, <4>1, <5>1
        <5> QED BY <1>1, <4>1, <5>2 DEF MovedLast
      <4> QED BY <4>2, <4>3
    <3> QED BY <3>1, <3>2
  <2>10. IsFiniteSet(wrote')
    BY <1>1 DEF MoveInv
  <2> QED BY <2>6, <2>7, <2>8, <2>9, <2>10 DEF MoveInv
<1> QED BY <1>3, <1>4

LEMMA InitMoveInv == Init => MoveInv
<1> SUFFICES ASSUME Init PROVE MoveInv
  OBVIOUS
<1>1. wrote = {} /\ event = [r \in Requests |-> None] /\ phase = [r \in Requests |-> "idle"]
  BY DEF Init
<1>2. IsFiniteSet(wrote)
  BY <1>1, FS_EmptySet
<1>3. \A b : MovesOf(b) = {} /\ \A k : EventsOf(k, b) = {}
  BY <1>1 DEF MovesOf, EventsOf
<1>4. ASSUME NEW b \in BookingIds, bookings[b] # None PROVE bookings[b].count = 0
  <2>1. PICK at \in [Seeded -> Slots], st \in [Seeded -> Status], who \in [Seeded -> Clients] :
          bookings = [c \in BookingIds |->
                        IF c \in Seeded THEN SeedRow(at[c], st[c], who[c]) ELSE None]
    BY DEF Init
  <2> QED BY <1>4, <2>1 DEF SeedRow
<1>5. MovesCounted
  <2>1. Cardinality({}) = 0
    BY FS_EmptySet
  <2> QED BY <1>3, <1>4, <2>1 DEF MovesCounted, MovesOf
<1>6. CancelsOnce /\ MovesAnnouncedTruly
  BY <1>1, <1>3 DEF CancelsOnce, MovesAnnouncedTruly
<1>7. \A r \in Requests : EventOK(r) /\ MovedLast(r)
  BY <1>1 DEF EventOK, MovedLast
<1> QED BY <1>2, <1>5, <1>6, <1>7 DEF MoveInv

LEMMA StepMoveInv == Settled /\ MoveInv /\ [SerialNext]_vars => MoveInv'
<1> SUFFICES ASSUME Settled, MoveInv, [SerialNext]_vars PROVE MoveInv'
  OBVIOUS
<1>0. TypeInv /\ TypeOK
  BY SettledFacts
<1>1. ASSUME UNCHANGED <<bookings, wrote, event, call, phase, seen>> PROVE MoveInv'
  BY <1>1, NothingMoves
<1>2. ASSUME NEW r \in Requests, Submit(r) \/ Proceed(r) \/ Fault(r) \/ FaultAfterCommit(r)
      PROVE  MoveInv'
  <2>1. CASE Commits(r)
    BY <2>1, CreateMoves, RescheduleMoves, CancelMoves DEF Commits
  <2>2. CASE CreateDeduplicated(r)
    BY <2>2, DeduplicationMoves
  <2>3. CASE RefreshAndPublish(r)
    BY <2>3, PublishMoves
  <2>4. CASE ~Commits(r) /\ ~CreateDeduplicated(r) /\ ~RefreshAndPublish(r)
    <3>1. bookings' = bookings /\ wrote' = wrote
      BY <1>2, <2>4, OnlyCommitsWrite
    <3>2. /\ event' = event
          /\ phase[r] # "idle" => call'[r] = call[r]
          /\ phase'[r] # "committed"
      <4>1. CASE Submit(r)
        BY <1>0, <4>1 DEF Submit, SubmitCreate, SubmitReschedule, SubmitCancel, Enter, TypeOK
      <4>2. CASE Fault(r) \/ FaultAfterCommit(r) \/ ClaimLost(r) \/ CreateRefused(r)
                 \/ RescheduleRefused(r) \/ CancelRefused(r)
        BY <1>0, <4>2 DEF Fault, FaultAfterCommit, ClaimLost, CreateRefused,
           RescheduleRefused, CancelRefused, Refuse, Answer, Enter, TypeOK
      <4>3. CASE CreateFindSlot(r) \/ CreateAssertClaimable(r)
        BY <1>0, <4>3 DEF CreateFindSlot, CreateAssertClaimable, Refuse, Answer, Enter, TypeOK
      <4>4. CASE RescheduleResolveSlot(r) \/ ClaimSlot(r) \/ ReleaseSlot(r) \/ Respond(r)
        BY <1>0, <4>4 DEF RescheduleResolveSlot, ClaimSlot, ReleaseSlot, Respond, Answer, Enter,
                          TypeOK
      <4> QED BY <1>2, <2>4, <4>1, <4>2, <4>3, <4>4 DEF Proceed, Commits
    <3>3. \A q \in Requests \ {r} : phase'[q] = phase[q] /\ call'[q] = call[q] /\ seen'[q] = seen[q]
      BY <1>0, <1>2, Frame
    <3> QED BY <3>1, <3>2, <3>3, NothingMoves
  <2> QED BY <2>1, <2>2, <2>3, <2>4
<1>3. ASSUME NEW p \in Properties, EditListing(p) PROVE MoveInv'
  BY <1>1, <1>3 DEF EditListing, db
<1>4. CASE Tick
  BY <1>1, <1>4 DEF Tick, db
<1>5. CASE UNCHANGED vars
  BY <1>1, <1>5 DEF vars
<1> QED BY <1>2, <1>3, <1>4, <1>5 DEF SerialNext, Next

LEMMA MoveInvariance == SerialSpec => [](Settled /\ MoveInv)
<1>1. [SerialNext]_vars => [Next]_vars
  BY DEF SerialNext
<1>2. SerialSpec => []OutcomeInv
  BY <1>1, OutcomeInvariance, PTL DEF SerialSpec, Spec
<1>3. SerialInv /\ OutcomeInv <=> Settled
  BY DEF Settled
<1> QED BY <1>2, <1>3, SerialInvariance, InitMoveInv, StepMoveInv, PTL DEF SerialSpec

(* The count of a booking is the number of moves that were committed, also  *)
(* of those whose caller was told of a failure.                             *)
THEOREM SerialMovesCounted == SerialSpec => []MovesCounted
<1>1. MoveInv => MovesCounted
  BY DEF MoveInv
<1> QED BY <1>1, MoveInvariance, PTL

(* However many requests cancel a booking, one after the other, at most one *)
(* announces it.                                                            *)
THEOREM SerialCancelNotifiedOnce == SerialSpec => []CancelNotifiedOnce
<1>1. MoveInv => CancelNotifiedOnce
  <2> SUFFICES ASSUME MoveInv, NEW b \in BookingIds
               PROVE  Cardinality(EventsOf("cancelled", b)) <= 1
    BY DEF CancelNotifiedOnce
  <2>1. \A p, q \in EventsOf("cancelled", b) : p = q
    BY DEF MoveInv, CancelsOnce, EventOK, EventsOf
  <2>2. CASE EventsOf("cancelled", b) = {}
    <3>1. Cardinality({}) = 0
      BY FS_EmptySet
    <3> QED BY <2>2, <3>1
  <2>3. ASSUME NEW p \in EventsOf("cancelled", b) PROVE Cardinality(EventsOf("cancelled", b)) <= 1
    <3>1. EventsOf("cancelled", b) = {p}
      BY <2>1
    <3>2. Cardinality({p}) = 1
      BY FS_Singleton
    <3> QED BY <3>1, <3>2
  <2> QED BY <2>2, <2>3
<1> QED BY <1>1, MoveInvariance, PTL

(* Every announced move is of a confirmed booking to another time, and no   *)
(* two announcements of moves of one booking carry the same count.          *)
THEOREM SerialMovesAnnouncedTruly == SerialSpec => []MovesAnnouncedTruly
<1>1. MoveInv => MovesAnnouncedTruly
  BY DEF MoveInv
<1> QED BY <1>1, MoveInvariance, PTL
=============================================================================
