---------------------------- MODULE BookingProofs ----------------------------
(****************************************************************************)
(* What every behaviour of the booking core maintains, however its requests *)
(* interleave and whatever faults happen.                                   *)
(****************************************************************************)
EXTENDS BookingInvariants, TLAPS

-----------------------------------------------------------------------------
(* Facts about the calls and the rows a request works with.                 *)

LEMMA CallTypes ==
  ASSUME TypeOK, NEW r \in Requests
  PROVE  /\ IsCall(r, "create") => call[r] \in CreateCall
         /\ IsCall(r, "reschedule") => call[r] \in RescheduleCall
         /\ IsCall(r, "cancel") => call[r] \in CancelCall
         /\ call[r] # None => call[r].op \in {"create", "reschedule", "cancel"}
         /\ call[r] # None => Booking(r) \in BookingIds
  BY DEF TypeOK, IsCall, CreateCall, RescheduleCall, CancelCall, Booking, BookingIds

(* A committing reschedule works on rows and slots that exist. *)
LEMMA RescheduleTypes ==
  ASSUME TypeInv, NEW r \in Requests, IsCall(r, "reschedule"), phase[r] = "released"
  PROVE  /\ Booking(r) \in BookingIds
         /\ bookings[Booking(r)] \in Row
         /\ seen[r] \in Row
         /\ Slot(r) \in Slots
         /\ MovedRow(r) \in Row
         /\ MovedRow(r).status = bookings[Booking(r)].status
         /\ MovedRow(r).agent = bookings[Booking(r)].agent
         /\ MovedRow(r).property = bookings[Booking(r)].property
         /\ MovedRow(r).client = bookings[Booking(r)].client
         /\ MovedRow(r).slot = Slot(r)
         /\ MovedRow(r).time = call[r].time
<1>1. call[r] \in RescheduleCall /\ Booking(r) \in BookingIds
  BY CallTypes DEF TypeInv, IsCall
<1>2. seen[r] \in Row /\ bookings[Booking(r)] \in Row
  BY <1>1 DEF TypeInv, LocalOK, SeenOK, TypeOK, IsCall
<1>3. Slot(r) \in Slots
  BY <1>1 DEF TypeInv, LocalOK, TargetOK, Wanting, Slot, IsCall
<1>4. seen[r].count + 1 \in Nat
  BY <1>2 DEF Row
<1> QED BY <1>1, <1>2, <1>3, <1>4 DEF MovedRow, Row, RescheduleCall

(* A committing create inserts a row of the table's type. *)
LEMMA CreateTypes ==
  ASSUME TypeInv, NEW r \in Requests, IsCall(r, "create"), phase[r] = "claimed"
  PROVE  /\ r \in BookingIds
         /\ call[r] \in CreateCall
         /\ Slot(r) \in Slots
         /\ [status |-> "confirmed", slot |-> Slot(r), property |-> call[r].property,
             agent |-> agentId[r], client |-> call[r].client,
             time |-> call[r].time, count |-> 0] \in Row
<1>1. call[r] \in CreateCall /\ r \in BookingIds
  BY CallTypes DEF TypeInv, BookingIds
<1>2. Slot(r) \in Slots /\ agentId[r] = SlotAgent[Slot(r)]
  BY DEF TypeInv, LocalOK, TargetOK, Wanting, Slot, IsCall
<1> QED BY <1>1, <1>2, SlotColumns DEF Row, CreateCall, Status

(* What is published after a commit describes a booking that is there. *)
LEMMA AnnouncementTypes ==
  ASSUME TypeInv, NEW r \in Requests, RefreshAndPublish(r)
  PROVE  Announcement(r) \in Event /\ Announcement(r) # None
<1>1. bookings[Booking(r)] \in Row /\ Booking(r) \in BookingIds
  BY CallTypes, NoneIsNoRecord
  DEF RefreshAndPublish, Durable, TypeInv, LocalOK, PhaseOK, TypeOK
<1>2. call[r].op = "reschedule" => seen[r] \in Row
  BY DEF RefreshAndPublish, Durable, TypeInv, LocalOK, PhaseOK, SeenOK
<1>3. Announcement(r) \in Event
  BY <1>1, <1>2 DEF Announcement, Event, Row
<1> QED BY <1>3, NoneIsNoRecord

-----------------------------------------------------------------------------
(* Type correctness.                                                        *)

LEMMA InitTypeInv == Init => TypeInv
<1> SUFFICES ASSUME Init PROVE TypeInv
  OBVIOUS
<1>1. TypeOK
  BY SlotColumns, Ranges, Distinct
  DEF Init, TypeOK, Status, Holding, Row, SeedRow, BookingIds, Phases, Replies, Bookable
<1>2. LocalOK
  BY Distinct DEF Init, LocalOK, PhaseOK, SeenOK, TargetOK, Wanting, IsCall, BookingIds
<1> QED BY <1>1, <1>2 DEF TypeInv

LEMMA RefuseTypeOK ==
  ASSUME TypeOK, NEW r \in Requests, NEW code \in Replies, Refuse(r, code)
  PROVE  TypeOK'
  BY DEF TypeOK, Refuse, Answer, Enter, db, Phases

LEMMA StepTypeOK == TypeInv /\ [Next]_vars => TypeOK'
<1> SUFFICES ASSUME TypeInv, [Next]_vars PROVE TypeOK'
  OBVIOUS
<1> USE DEF TypeInv
<1>1. ASSUME NEW r \in Requests, Submit(r) PROVE TypeOK'
  <2>1. CASE SubmitCreate(r)
    BY <2>1 DEF SubmitCreate, TypeOK, Enter, db, CreateCall, Phases
  <2>2. CASE SubmitReschedule(r)
    BY <2>2 DEF SubmitReschedule, TypeOK, Enter, db, RescheduleCall, Phases
  <2>3. CASE SubmitCancel(r)
    BY <2>3 DEF SubmitCancel, TypeOK, Enter, db, CancelCall, Phases
  <2> QED BY <1>1, <2>1, <2>2, <2>3 DEF Submit
<1>2. ASSUME NEW r \in Requests, Proceed(r) PROVE TypeOK'
  <2>1. CASE CreateRefused(r)
    BY <2>1, RefuseTypeOK DEF CreateRefused, Replies
  <2>2. CASE CreateFindSlot(r)
    <3>1. listing[call[r].property].agent \in Agents \cup {None}
      BY <2>2, CallTypes DEF CreateFindSlot, TypeOK, Bookable, CreateCall
    <3> QED BY <2>2, <3>1 DEF CreateFindSlot, MatchingSlots, TypeOK, Enter, db, Phases
  <2>3. CASE CreateDeduplicated(r)
    <3>1. PICK b \in OwnConfirmed(r) :
            event' = [event EXCEPT ![r] = [kind |-> "created", booking |-> b,
                                           time |-> bookings[b].time,
                                           status |-> bookings[b].status]]
      BY <2>3 DEF CreateDeduplicated
    <3>2. bookings[b] \in Row /\ b \in BookingIds
      BY <3>1 DEF OwnConfirmed, TypeOK
    <3>3. event' \in [Requests -> Event \cup {None}]
      BY <3>1, <3>2 DEF Event, Row, TypeOK
    <3> QED BY <2>3, <3>3 DEF CreateDeduplicated, TypeOK, Enter, db, Phases
  <2>4. CASE CreateAssertClaimable(r)
    BY <2>4, RefuseTypeOK DEF CreateAssertClaimable, Replies, TypeOK, Enter, db, Phases
  <2>5. CASE CommitCreate(r)
    BY <2>5, CreateTypes DEF CommitCreate, TypeOK, Enter, Unlocked, Phases
  <2>6. CASE RescheduleRefused(r)
    <3>1. InputRefusal(call[r], seen[r]) \in Replies
      BY DEF InputRefusal, Replies
    <3> QED BY <2>6, <3>1, RefuseTypeOK DEF RescheduleRefused, Replies
  <2>7. CASE RescheduleResolveSlot(r)
    BY <2>7 DEF RescheduleResolveSlot, MatchingSlots, TypeOK, Enter, db, Phases
  <2>8. CASE CommitReschedule(r)
    BY <2>8, RescheduleTypes DEF CommitReschedule, TypeOK, Enter, Unlocked, Phases
  <2>9. CASE CancelRefused(r)
    BY <2>9, RefuseTypeOK DEF CancelRefused, Replies
  <2>10. CASE CommitCancel(r)
    <3>1. Booking(r) \in BookingIds /\ bookings[Booking(r)] \in Row
      BY <2>10, CallTypes DEF CommitCancel, LocalOK, SeenOK, TypeOK, IsCall
    <3>2. [bookings[Booking(r)] EXCEPT !.status = "cancelled"] \in Row
      BY <3>1 DEF Row, Status
    <3> QED BY <2>10, <3>1, <3>2 DEF CommitCancel, TypeOK, Enter, Unlocked, Phases
  <2>11. CASE ClaimSlot(r)
    BY <2>11 DEF ClaimSlot, TypeOK, Enter, Phases
  <2>12. CASE ClaimLost(r)
    BY <2>12, RefuseTypeOK DEF ClaimLost, Replies
  <2>13. CASE ReleaseSlot(r)
    BY <2>13 DEF ReleaseSlot, TypeOK, Enter, Phases
  <2>14. CASE RefreshAndPublish(r)
    BY <2>14, AnnouncementTypes
    DEF RefreshAndPublish, TypeOK, Enter, db, Phases
  <2>15. CASE Respond(r)
    BY <2>15 DEF Respond, TypeOK, Answer, Enter, db, Phases, Replies
  <2> QED BY <1>2, <2>1, <2>2, <2>3, <2>4, <2>5, <2>6, <2>7, <2>8, <2>9, <2>10,
             <2>11, <2>12, <2>13, <2>14, <2>15 DEF Proceed
<1>3. ASSUME NEW r \in Requests, Fault(r) PROVE TypeOK'
  BY <1>3 DEF Fault, TypeOK, Answer, Enter, Unlocked, Phases, Replies
<1>4. ASSUME NEW r \in Requests, FaultAfterCommit(r) PROVE TypeOK'
  BY <1>4, RefuseTypeOK DEF FaultAfterCommit, Replies
<1>5. ASSUME NEW p \in Properties, EditListing(p) PROVE TypeOK'
  BY <1>5, Ranges DEF EditListing, TypeOK, db
<1>6. CASE Tick
  BY <1>6 DEF Tick, TypeOK, db
<1>7. CASE UNCHANGED vars
  BY <1>7 DEF vars, TypeOK
<1> QED BY <1>1, <1>2, <1>3, <1>4, <1>5, <1>6, <1>7 DEF Next

-----------------------------------------------------------------------------
(* What one request does leaves the others where they were.                 *)

LEMMA Frame ==
  ASSUME TypeInv, NEW r \in Requests, NEW q \in Requests, q # r,
         \/ Submit(r) \/ Proceed(r) \/ Fault(r) \/ FaultAfterCommit(r)
  PROVE  /\ phase'[q] = phase[q]
         /\ call'[q] = call[q]
         /\ seen'[q] = seen[q]
         /\ target'[q] = target[q]
         /\ agentId'[q] = agentId[q]
<1> USE DEF TypeInv, TypeOK, Enter, Answer, Refuse
<1>1. CASE Submit(r)
  BY <1>1 DEF Submit, SubmitCreate, SubmitReschedule, SubmitCancel
<1>2. CASE Fault(r) \/ FaultAfterCommit(r)
  BY <1>2 DEF Fault, FaultAfterCommit
<1>3. CASE Proceed(r)
  <2>1. CASE CreateRefused(r) \/ CreateFindSlot(r) \/ CreateDeduplicated(r)
             \/ CreateAssertClaimable(r) \/ CommitCreate(r)
    BY <2>1 DEF CreateRefused, CreateFindSlot, CreateDeduplicated,
                CreateAssertClaimable, CommitCreate
  <2>2. CASE RescheduleRefused(r) \/ RescheduleResolveSlot(r) \/ CommitReschedule(r)
    BY <2>2 DEF RescheduleRefused, RescheduleResolveSlot, CommitReschedule
  <2>3. CASE CancelRefused(r) \/ CommitCancel(r)
    BY <2>3 DEF CancelRefused, CommitCancel
  <2>4. CASE ClaimSlot(r) \/ ClaimLost(r) \/ ReleaseSlot(r) \/ RefreshAndPublish(r)
             \/ Respond(r)
    BY <2>4 DEF ClaimSlot, ClaimLost, ReleaseSlot, RefreshAndPublish, Respond
  <2> QED BY <1>3, <2>1, <2>2, <2>3, <2>4 DEF Proceed
<1> QED BY <1>1, <1>2, <1>3

(* Bookings are written by three actions only. *)
Commits(r) == CommitCreate(r) \/ CommitReschedule(r) \/ CommitCancel(r)

LEMMA OnlyCommitsWrite ==
  ASSUME NEW r \in Requests,
         \/ Submit(r) \/ Proceed(r) \/ Fault(r) \/ FaultAfterCommit(r),
         ~Commits(r)
  PROVE  bookings' = bookings /\ slotStatus' = slotStatus /\ wrote' = wrote
  BY DEF Submit, SubmitCreate, SubmitReschedule, SubmitCancel, Fault, FaultAfterCommit,
         Proceed, CreateRefused, CreateFindSlot, CreateDeduplicated, CreateAssertClaimable,
         RescheduleRefused, RescheduleResolveSlot, CancelRefused, ClaimSlot, ClaimLost,
         ReleaseSlot, RefreshAndPublish, Respond, Commits, Refuse, Answer, Enter, db

(* A committed row stays, and keeps the columns no operation writes. A row   *)
(* is inserted under its request's name only.                                *)
LEMMA RowsPersist ==
  ASSUME TypeInv, NEW r \in Requests, Commits(r), NEW b \in BookingIds
  PROVE  /\ bookings[b] # None =>
              /\ bookings'[b] # None
              /\ bookings'[b].agent = bookings[b].agent
              /\ bookings'[b].property = bookings[b].property
              /\ bookings[b].status # "confirmed" => bookings'[b].status = bookings[b].status
              /\ bookings'[b].status = "completed" => bookings[b].status = "completed"
         /\ bookings'[b] # None /\ bookings[b] = None => b = r
         /\ b # Booking(r) => bookings'[b] = bookings[b]
<1>1. CASE CommitCreate(r)
  <2>1. bookings[r] = None /\ Booking(r) = r
    BY <1>1 DEF CommitCreate, TypeInv, LocalOK, PhaseOK
  <2> QED BY <1>1, <2>1 DEF CommitCreate, TypeInv, TypeOK
<1>2. CASE CommitReschedule(r)
  <2>1. MovedRow(r) # None /\ bookings[Booking(r)] # None
    BY <1>2, RescheduleTypes, NoneIsNoRecord DEF CommitReschedule
  <2> QED BY <1>2, <2>1, RescheduleTypes DEF CommitReschedule, TypeInv, TypeOK
<1>3. CASE CommitCancel(r)
  <2>1. /\ Booking(r) \in BookingIds
        /\ bookings[Booking(r)] \in Row
    BY <1>3, CallTypes DEF CommitCancel, TypeInv, LocalOK, SeenOK, TypeOK, IsCall
  <2>2. LET row == [bookings[Booking(r)] EXCEPT !.status = "cancelled"]
        IN row # None /\ row.agent = bookings[Booking(r)].agent
                      /\ row.property = bookings[Booking(r)].property
                      /\ row.status = "cancelled"
    BY <2>1, NoneIsNoRecord DEF Row, Status
  <2>3. bookings' = [bookings EXCEPT ![Booking(r)] =
                       [bookings[Booking(r)] EXCEPT !.status = "cancelled"]]
    BY <1>3 DEF CommitCancel
  <2>4. bookings[Booking(r)] # None
    BY <2>1, NoneIsNoRecord
  <2>5. bookings[Booking(r)].status \in {"confirmed", "cancelled"}
    BY <1>3, <2>1 DEF CommitCancel, TypeInv, LocalOK, SeenOK, IsCall, Row, Status
  <2> QED BY <2>1, <2>2, <2>3, <2>4, <2>5 DEF TypeInv, TypeOK
<1> QED BY <1>1, <1>2, <1>3 DEF Commits

-----------------------------------------------------------------------------
(* The state of one request, through its own steps and those of others.     *)

LEMMA FrameLocalOK ==
  ASSUME TypeInv, NEW r \in Requests, NEW q \in Requests, q # r,
         \/ Submit(r) \/ Proceed(r) \/ Fault(r) \/ FaultAfterCommit(r)
  PROVE  (PhaseOK(q) /\ SeenOK(q) /\ TargetOK(q))'
<1>1. /\ phase'[q] = phase[q] /\ call'[q] = call[q]
      /\ seen'[q] = seen[q] /\ target'[q] = target[q] /\ agentId'[q] = agentId[q]
  BY Frame
<1>2. PhaseOK(q) /\ SeenOK(q) /\ TargetOK(q)
  BY DEF TypeInv, LocalOK
<1>3. q \in BookingIds /\ (call[q] # None => Booking(q) \in BookingIds)
  BY CallTypes DEF TypeInv, BookingIds
<1>4. ASSUME NEW b \in BookingIds
      PROVE  /\ bookings[b] # None =>
                  /\ bookings'[b] # None
                  /\ bookings'[b].agent = bookings[b].agent
                  /\ bookings'[b].property = bookings[b].property
                  /\ bookings'[b].status = "completed" => bookings[b].status = "completed"
             /\ bookings'[b] # None /\ bookings[b] = None => b = r
  <2>1. CASE Commits(r)
    BY <2>1, RowsPersist
  <2>2. CASE ~Commits(r)
    BY <2>2, OnlyCommitsWrite
  <2> QED BY <2>1, <2>2
<1>5. PhaseOK(q)'
  BY <1>1, <1>2, <1>3, <1>4 DEF PhaseOK, IsCall, Booking
<1>6. SeenOK(q)'
  BY <1>1, <1>2, <1>3, <1>4 DEF SeenOK, PhaseOK, Booking
<1>7. TargetOK(q)'
  BY <1>1, <1>2 DEF TargetOK, Wanting
<1> QED BY <1>5, <1>6, <1>7

LEMMA OwnLocalOK ==
  ASSUME TypeInv, TypeOK', ColumnsAgree, NEW r \in Requests,
         \/ Submit(r) \/ Proceed(r) \/ Fault(r) \/ FaultAfterCommit(r)
  PROVE  (PhaseOK(r) /\ SeenOK(r) /\ TargetOK(r))'
<1> USE DEF Enter, db
<1>0. /\ TypeOK
      /\ PhaseOK(r) /\ SeenOK(r) /\ TargetOK(r)
      /\ r \in BookingIds
  BY DEF TypeInv, LocalOK, BookingIds
<1>1. CASE SubmitCreate(r)
  <2>1. call'[r] \in CreateCall /\ call'[r].op = "create" /\ call'[r].booking = r
    BY <1>0, <1>1 DEF SubmitCreate, TypeOK, CreateCall
  <2> QED BY <1>0, <1>1, <2>1, NoneIsNoRecord
          DEF SubmitCreate, PhaseOK, SeenOK, TargetOK, Wanting, IsCall, Booking, TypeOK
<1>2. CASE SubmitReschedule(r)
  BY <1>0, <1>2, NoneIsNoRecord
  DEF SubmitReschedule, PhaseOK, SeenOK, TargetOK, Wanting, IsCall, Booking, TypeOK,
      RescheduleCall, ColumnsAgree, Row
<1>3. CASE SubmitCancel(r)
  BY <1>0, <1>3, NoneIsNoRecord
  DEF SubmitCancel, PhaseOK, SeenOK, TargetOK, Wanting, IsCall, Booking, TypeOK,
      CancelCall, ColumnsAgree, Row
<1>4. ASSUME NEW code, Refuse(r, code), call[r] # None PROVE (PhaseOK(r) /\ SeenOK(r) /\ TargetOK(r))'
  BY <1>0, <1>4 DEF Refuse, Answer, PhaseOK, SeenOK, TargetOK, Wanting, IsCall, Booking, TypeOK
<1>5. CASE CreateRefused(r)
  BY <1>0, <1>4, <1>5 DEF CreateRefused, IsCall
<1>6. CASE CreateFindSlot(r)
  BY <1>0, <1>6 DEF CreateFindSlot, MatchingSlots, PhaseOK, SeenOK, TargetOK, Wanting,
                    IsCall, Booking, TypeOK
<1>7. CASE CreateDeduplicated(r)
  BY <1>0, <1>7 DEF CreateDeduplicated, PhaseOK, SeenOK, TargetOK, Wanting,
                    IsCall, Booking, TypeOK
<1>8. CASE CreateAssertClaimable(r)
  <2>1. CASE Refuse(r, "booking_slot_conflict")
    BY <1>0, <1>4, <1>8, <2>1 DEF CreateAssertClaimable, PhaseOK
  <2>2. CASE ~Refuse(r, "booking_slot_conflict")
    BY <1>0, <1>8, <2>2 DEF CreateAssertClaimable, PhaseOK, SeenOK, TargetOK, Wanting,
                            IsCall, Booking, TypeOK
  <2> QED BY <2>1, <2>2
<1>9. CASE RescheduleRefused(r)
  BY <1>0, <1>4, <1>9 DEF RescheduleRefused, IsCall
<1>10. CASE RescheduleResolveSlot(r)
  <2>1. call[r].time # seen[r].time /\ seen[r].status = "confirmed"
    BY <1>10 DEF RescheduleResolveSlot, InputRefusal
  <2> QED BY <1>0, <1>10, <2>1 DEF RescheduleResolveSlot, MatchingSlots, PhaseOK, SeenOK,
              TargetOK, Wanting, IsCall, Booking, TypeOK
<1>11. CASE CancelRefused(r)
  BY <1>0, <1>4, <1>11 DEF CancelRefused, IsCall
<1>12. CASE ClaimSlot(r)
  BY <1>0, <1>12 DEF ClaimSlot, PhaseOK, SeenOK, TargetOK, Wanting, IsCall, Booking, TypeOK
<1>13. CASE ClaimLost(r)
  BY <1>0, <1>4, <1>13 DEF ClaimLost, PhaseOK
<1>14. CASE ReleaseSlot(r)
  BY <1>0, <1>14 DEF ReleaseSlot, AboutToRelease, PhaseOK, SeenOK, TargetOK, Wanting,
                     IsCall, Booking, TypeOK
<1>15. CASE RefreshAndPublish(r)
  BY <1>0, <1>15 DEF RefreshAndPublish, Durable, PhaseOK, SeenOK, TargetOK, Wanting,
                     IsCall, Booking, TypeOK
<1>16. CASE Fault(r)
  BY <1>0, <1>16 DEF Fault, Running, Uncommitted, Answer, PhaseOK, SeenOK, TargetOK, Wanting,
                     IsCall, Booking, TypeOK
<1>17. CASE FaultAfterCommit(r)
  BY <1>0, <1>4, <1>17 DEF FaultAfterCommit, PhaseOK
<1>19. CASE Respond(r)
  BY <1>0, <1>19 DEF Respond, Answer, PhaseOK, SeenOK, TargetOK, Wanting, IsCall, Booking, TypeOK
<1>18. CASE Commits(r)
  <2>1. /\ phase'[r] = "committed" /\ call'[r] = call[r] /\ seen'[r] = seen[r]
        /\ call[r] # None /\ (IsCall(r, "create") \/ IsCall(r, "reschedule") \/ IsCall(r, "cancel"))
    BY <1>0, <1>18 DEF Commits, CommitCreate, CommitReschedule, CommitCancel, TypeOK, IsCall
  <2>2. Booking(r) \in BookingIds
    BY <2>1, <1>0, CallTypes
  <2>3. bookings'[Booking(r)] # None
    <3>1. CASE CommitCreate(r)
      BY <1>0, <3>1, CreateTypes, NoneIsNoRecord DEF CommitCreate, PhaseOK, TypeOK
    <3>2. CASE ~CommitCreate(r)
      BY <1>0, <1>18, <3>2, <2>2, RowsPersist
      DEF Commits, CommitReschedule, CommitCancel, SeenOK, IsCall
    <3> QED BY <3>1, <3>2
  <2>4. PhaseOK(r)'
    BY <2>1, <2>3, <1>0 DEF PhaseOK, IsCall, Booking
  <2>5. SeenOK(r)'
    BY <1>0, <1>18, <2>1, <2>2, RowsPersist DEF SeenOK, Booking, IsCall
  <2>6. TargetOK(r)'
    BY <2>1 DEF TargetOK, Wanting
  <2> QED BY <2>4, <2>5, <2>6
<1> QED BY <1>1, <1>2, <1>3, <1>5, <1>6, <1>7, <1>8, <1>9, <1>10, <1>11, <1>12, <1>13,
           <1>14, <1>15, <1>16, <1>17, <1>18, <1>19 DEF Submit, Proceed, Commits

LEMMA StepLocalOK == ColumnInv /\ [Next]_vars => LocalOK'
<1> SUFFICES ASSUME ColumnInv, [Next]_vars PROVE LocalOK'
  OBVIOUS
<1>0. TypeInv /\ ColumnsAgree /\ TypeOK'
  BY StepTypeOK DEF ColumnInv
<1>1. ASSUME NEW r \in Requests, Submit(r) \/ Proceed(r) \/ Fault(r) \/ FaultAfterCommit(r),
             NEW q \in Requests
      PROVE  (PhaseOK(q) /\ SeenOK(q) /\ TargetOK(q))'
  BY <1>0, <1>1, FrameLocalOK, OwnLocalOK
<1>2. ASSUME UNCHANGED <<bookings, call, phase, seen, target, agentId>> PROVE LocalOK'
  BY <1>0, <1>2 DEF TypeInv, LocalOK, PhaseOK, SeenOK, TargetOK, Wanting, IsCall, Booking
<1>3. ASSUME NEW p \in Properties, EditListing(p) PROVE LocalOK'
  BY <1>2, <1>3 DEF EditListing, db
<1>4. CASE Tick
  BY <1>2, <1>4 DEF Tick, db
<1>5. CASE UNCHANGED vars
  BY <1>2, <1>5 DEF vars
<1> QED BY <1>1, <1>3, <1>4, <1>5 DEF Next, LocalOK

-----------------------------------------------------------------------------
(* The columns of a booking agree with its slot.                            *)

LEMMA StepColumnsAgree == ColumnInv /\ [Next]_vars => ColumnsAgree'
<1> SUFFICES ASSUME ColumnInv, [Next]_vars PROVE ColumnsAgree'
  OBVIOUS
<1>0. TypeInv /\ ColumnsAgree /\ TypeOK /\ LocalOK
  BY DEF ColumnInv, TypeInv
<1>1. ASSUME UNCHANGED bookings PROVE ColumnsAgree'
  BY <1>0, <1>1 DEF ColumnsAgree
<1>2. ASSUME NEW r \in Requests, Submit(r) \/ Proceed(r) \/ Fault(r) \/ FaultAfterCommit(r)
      PROVE  ColumnsAgree'
  <2>1. CASE ~Commits(r)
    BY <1>1, <1>2, <2>1, OnlyCommitsWrite
  <2>2. CASE Commits(r)
    <3> SUFFICES ASSUME NEW b \in BookingIds, b = Booking(r), bookings'[b] # None
                 PROVE  /\ bookings'[b].time = SlotTime[bookings'[b].slot]
                        /\ bookings'[b].agent = SlotAgent[bookings'[b].slot]
                        /\ bookings'[b].property = SlotProperty[bookings'[b].slot]
      BY <1>0, <2>2, RowsPersist DEF ColumnsAgree
    <3>1. CASE CommitCreate(r)
      BY <1>0, <3>1, CreateTypes
      DEF CommitCreate, LocalOK, PhaseOK, TargetOK, Wanting, IsCall, Slot, TypeOK
    <3>2. CASE CommitReschedule(r)
      BY <1>0, <3>2, RescheduleTypes
      DEF CommitReschedule, LocalOK, SeenOK, TargetOK, Wanting, IsCall, Slot, TypeOK
    <3>3. CASE CommitCancel(r)
      <4>1. bookings[b] \in Row
        BY <1>0, <3>3, CallTypes DEF CommitCancel, LocalOK, SeenOK, IsCall, TypeOK
      <4>2. bookings'[b] = [bookings[b] EXCEPT !.status = "cancelled"]
        BY <1>0, <3>3 DEF CommitCancel, TypeOK
      <4>3. bookings'[b].slot = bookings[b].slot /\ bookings'[b].time = bookings[b].time
            /\ bookings'[b].agent = bookings[b].agent /\ bookings'[b].property = bookings[b].property
        BY <4>1, <4>2 DEF Row
      <4> QED BY <1>0, <4>1, <4>3, NoneIsNoRecord DEF ColumnsAgree
    <3> QED BY <2>2, <3>1, <3>2, <3>3 DEF Commits
  <2> QED BY <2>1, <2>2
<1>3. ASSUME NEW p \in Properties, EditListing(p) PROVE ColumnsAgree'
  BY <1>1, <1>3 DEF EditListing, db
<1>4. CASE Tick
  BY <1>1, <1>4 DEF Tick, db
<1>5. CASE UNCHANGED vars
  BY <1>1, <1>5 DEF vars
<1> QED BY <1>2, <1>3, <1>4, <1>5 DEF Next

LEMMA InitColumnInv == Init => ColumnInv
<1> SUFFICES ASSUME Init PROVE ColumnInv
  OBVIOUS
<1>1. ColumnsAgree
  BY Distinct, NoneIsNoRecord, SlotColumns DEF Init, ColumnsAgree, SeedRow, BookingIds
<1> QED BY <1>1, InitTypeInv DEF ColumnInv

LEMMA StepColumnInv == ColumnInv /\ [Next]_vars => ColumnInv'
  BY StepTypeOK, StepLocalOK, StepColumnsAgree DEF ColumnInv, TypeInv

LEMMA ColumnInvariance == Spec => []ColumnInv
  BY InitColumnInv, StepColumnInv, PTL DEF Spec

(* Every variable keeps its type: no interleaving of requests, edits and    *)
(* faults writes a value a column or a request's state cannot hold.         *)
THEOREM TypeCorrect == Spec => []TypeOK
<1>1. ColumnInv => TypeOK
  BY DEF ColumnInv, TypeInv
<1> QED BY <1>1, ColumnInvariance, PTL

(* slot_time, agent_id and property_id of every booking are those of the    *)
(* slot it points at, for any number of requests moving it at once.         *)
THEOREM ColumnsAlwaysAgree == Spec => []ColumnsAgree
<1>1. ColumnInv => ColumnsAgree
  BY DEF ColumnInv
<1> QED BY <1>1, ColumnInvariance, PTL

-----------------------------------------------------------------------------
(* Row locks.                                                               *)

(* A commit writes the status of slots its transaction has locked, only.    *)
LEMMA CommitsWriteLockedSlots ==
  ASSUME TypeInv, LocksOK, NEW r \in Requests, Commits(r), NEW s \in Slots
  PROVE  /\ slotLock[s] # r => slotStatus'[s] = slotStatus[s]
         /\ slotLock' = Unlocked(r)
         /\ phase[r] \in {"claimed", "released"}
<1>1. CASE CommitCreate(r)
  BY <1>1, CreateTypes DEF CommitCreate, LocksOK, TypeInv, TypeOK, IsCall, Slot
<1>2. CASE CommitReschedule(r)
  BY <1>2, RescheduleTypes DEF CommitReschedule, LocksOK, TypeInv, TypeOK, IsCall, Slot
<1>3. CASE CommitCancel(r)
  BY <1>3 DEF CommitCancel, LocksOK, TypeInv, TypeOK, IsCall
<1> QED BY <1>1, <1>2, <1>3 DEF Commits

(* What a request's own locks look like, the first half of LocksOK. *)
HasLocks(r) ==
  /\ phase[r] \in {"claimed", "released"} /\ call[r].op # "cancel" =>
       slotLock[target[r]] = r /\ slotStatus[target[r]] = "open"
  /\ phase[r] = "released" => slotLock[seen[r].slot] = r

LEMMA FrameHasLocks ==
  ASSUME ColumnInv, LocksOK, NEW r \in Requests, NEW q \in Requests, q # r,
         \/ Submit(r) \/ Proceed(r) \/ Fault(r) \/ FaultAfterCommit(r)
  PROVE  HasLocks(q)'
<1>0. /\ TypeInv /\ TypeOK /\ PhaseOK(q) /\ SeenOK(q) /\ TargetOK(q) /\ HasLocks(q)
  BY DEF ColumnInv, TypeInv, LocalOK, LocksOK, HasLocks
<1>1. /\ phase'[q] = phase[q] /\ call'[q] = call[q]
      /\ seen'[q] = seen[q] /\ target'[q] = target[q]
  BY <1>0, Frame
<1>2. /\ phase[q] \in {"claimed", "released"} /\ call[q].op # "cancel" => target[q] \in Slots
      /\ phase[q] = "released" => seen[q].slot \in Slots
  BY <1>0 DEF TargetOK, Wanting, PhaseOK, SeenOK, Row
<1>3. \A s \in Slots : slotLock[s] = q => slotLock'[s] = q /\ slotStatus'[s] = slotStatus[s]
  <2>1. CASE Commits(r)
    BY <1>0, <2>1, CommitsWriteLockedSlots, Distinct DEF Unlocked
  <2>2. CASE ClaimSlot(r)
    BY <1>0, <2>2, Distinct DEF ClaimSlot, TypeOK
  <2>3. CASE ReleaseSlot(r)
    BY <1>0, <2>3, Distinct DEF ReleaseSlot, TypeOK
  <2>4. CASE Fault(r)
    BY <1>0, <2>4, Distinct DEF Fault, Unlocked, TypeOK
  <2>5. CASE ~Commits(r) /\ ~ClaimSlot(r) /\ ~ReleaseSlot(r) /\ ~Fault(r)
    <3>1. slotLock' = slotLock
      BY <2>5 DEF Submit, SubmitCreate, SubmitReschedule, SubmitCancel, FaultAfterCommit,
         Proceed, CreateRefused, CreateFindSlot, CreateDeduplicated, CreateAssertClaimable,
         RescheduleRefused, RescheduleResolveSlot, CancelRefused, ClaimLost,
         RefreshAndPublish, Respond, Commits, Refuse, Answer, Enter, db
    <3> QED BY <2>5, <3>1, OnlyCommitsWrite
  <2> QED BY <2>1, <2>2, <2>3, <2>4, <2>5
<1> QED BY <1>0, <1>1, <1>2, <1>3 DEF HasLocks

(* Outside a transaction nothing is locked, so nothing is claimed. *)
LEMMA NoLocksOutside ==
  ASSUME LocksOK, TypeOK, NEW r \in Requests, phase[r] \notin {"claimed", "released"},
         NEW s \in Slots
  PROVE  slotLock[s] # r
  BY Distinct DEF LocksOK, LockedBy, TypeOK

LEMMA StepLocksOK == ColumnInv /\ LocksOK /\ [Next]_vars => LocksOK'
<1> SUFFICES ASSUME ColumnInv, LocksOK, [Next]_vars PROVE LocksOK'
  OBVIOUS
<1>0. TypeInv /\ TypeOK
  BY DEF ColumnInv, TypeInv
<1>1. ASSUME UNCHANGED <<slotStatus, slotLock, call, phase, seen, target>> PROVE LocksOK'
  BY <1>1 DEF LocksOK, LockedBy
<1>2. ASSUME NEW r \in Requests, Submit(r) \/ Proceed(r) \/ Fault(r) \/ FaultAfterCommit(r)
      PROVE  LocksOK'
  <2>0. PhaseOK(r) /\ SeenOK(r) /\ TargetOK(r) /\ HasLocks(r)
    BY <1>0 DEF TypeInv, LocalOK, LocksOK, HasLocks
  <2>1. HasLocks(r)' /\ \A s \in Slots :
          /\ slotLock'[s] = r => LockedBy(s, r)'
          /\ slotLock'[s] # None => slotLock'[s] = slotLock[s] \/ slotLock'[s] = r
    <3>1. CASE Commits(r) \/ Fault(r)
      <4>1. slotLock' = Unlocked(r) /\ phase'[r] \notin {"claimed", "released"}
        BY <1>0, <3>1 DEF Commits, CommitCreate, CommitReschedule, CommitCancel, Fault, Answer,
                          Enter, TypeOK
      <4> QED BY <4>1, Distinct DEF Unlocked, HasLocks
    <3>2. CASE ClaimSlot(r)
      BY <1>0, <2>0, <3>2, Distinct
      DEF ClaimSlot, Claimable, Enter, Slot, TypeOK, HasLocks, LockedBy, LocksOK,
          PhaseOK, TargetOK, Wanting
    <3>3. CASE ReleaseSlot(r)
      <4>1. seen[r].slot \in Slots
        BY <2>0, <3>3 DEF ReleaseSlot, AboutToRelease, SeenOK, IsCall, Row
      <4> QED BY <1>0, <2>0, <3>3, <4>1, Distinct
          DEF ReleaseSlot, AboutToRelease, IsCall, Enter, TypeOK, HasLocks, LockedBy, LocksOK,
              PhaseOK, TargetOK, Wanting
    <3>4. CASE ~Commits(r) /\ ~Fault(r) /\ ~ClaimSlot(r) /\ ~ReleaseSlot(r)
      <4>1. slotLock' = slotLock /\ phase'[r] \notin {"claimed", "released"}
            /\ phase[r] \notin {"claimed", "released"}
        BY <1>0, <1>2, <3>4 DEF Submit, SubmitCreate, SubmitReschedule, SubmitCancel, FaultAfterCommit,
           Proceed, CreateRefused, CreateFindSlot, CreateDeduplicated, CreateAssertClaimable,
           RescheduleRefused, RescheduleResolveSlot, CancelRefused, ClaimLost,
           RefreshAndPublish, Respond, Durable, Commits, Refuse, Answer, Enter, db, TypeOK
      <4> QED BY <1>0, <4>1, NoLocksOutside DEF HasLocks
    <3> QED BY <3>1, <3>2, <3>3, <3>4
  <2>2. \A q \in Requests : HasLocks(q)'
    BY <1>2, <2>1, FrameHasLocks
  <2>3. ASSUME NEW s \in Slots, slotLock'[s] # None
        PROVE  LockedBy(s, slotLock[s])'
    <3>1. CASE slotLock'[s] = r
      BY <2>1, <3>1
    <3>2. CASE slotLock'[s] # r
      <4>1. slotLock'[s] = slotLock[s] /\ slotLock[s] \in Requests /\ slotLock[s] # r
        BY <1>0, <2>1, <2>3, <3>2 DEF TypeOK
      <4>2. LockedBy(s, slotLock[s])
        BY <2>3, <4>1 DEF LocksOK
      <4> QED BY <1>0, <1>2, <4>1, <4>2, Frame DEF LockedBy
    <3> QED BY <3>1, <3>2
  <2> QED BY <2>2, <2>3 DEF LocksOK, HasLocks
<1>3. ASSUME NEW p \in Properties, EditListing(p) PROVE LocksOK'
  BY <1>1, <1>3 DEF EditListing, db
<1>4. CASE Tick
  BY <1>1, <1>4 DEF Tick, db
<1>5. CASE UNCHANGED vars
  BY <1>1, <1>5 DEF vars
<1> QED BY <1>2, <1>3, <1>4, <1>5 DEF Next

LEMMA InitLockInv == Init => LockInv
  BY InitColumnInv DEF Init, LockInv, LocksOK

LEMMA LockInvariance == Spec => []LockInv
<1>1. Init => LockInv
  BY InitLockInv
<1>2. LockInv /\ [Next]_vars => LockInv'
  BY StepColumnInv, StepLocksOK DEF LockInv
<1> QED BY <1>1, <1>2, PTL DEF Spec

(* A cancelled or completed booking keeps its status for ever, also when a  *)
(* reschedule that loaded it before its cancellation commits after it.      *)
THEOREM StatusStaysTerminal == Spec => StatusIsTerminal
<1>1. ASSUME ColumnInv, [Next]_vars, NEW b \in BookingIds,
             bookings[b] # None, bookings[b].status # "confirmed"
      PROVE  bookings'[b] # None /\ bookings'[b].status = bookings[b].status
  <2>1. ASSUME NEW r \in Requests, Submit(r) \/ Proceed(r) \/ Fault(r) \/ FaultAfterCommit(r)
        PROVE  bookings'[b] # None /\ bookings'[b].status = bookings[b].status
    <3>1. CASE Commits(r)
      BY <1>1, <3>1, RowsPersist DEF ColumnInv
    <3>2. CASE ~Commits(r)
      BY <1>1, <2>1, <3>2, OnlyCommitsWrite
    <3> QED BY <3>1, <3>2
  <2>2. ASSUME UNCHANGED bookings
        PROVE  bookings'[b] # None /\ bookings'[b].status = bookings[b].status
    BY <1>1, <2>2
  <2> QED BY <1>1, <2>1, <2>2 DEF Next, EditListing, Tick, vars, db
<1>2. ColumnInv /\ [Next]_vars
        => [\A b \in BookingIds :
             bookings[b] # None /\ bookings[b].status # "confirmed"
               => bookings'[b] # None /\ bookings'[b].status = bookings[b].status]_vars
  BY <1>1
<1> QED BY <1>2, ColumnInvariance, PTL DEF Spec, StatusIsTerminal

(* No two transactions in progress have claimed one slot, and a claimed     *)
(* slot is still open in the committed table: the conditional UPDATE of     *)
(* _claim_slot closes the window between read and write.                    *)
THEOREM ClaimsAreExclusive == Spec => []ClaimsExclusive
<1>1. LockInv => ClaimsExclusive
  BY DEF LockInv, LocksOK, ClaimsExclusive, Claiming, Slot
<1> QED BY <1>1, LockInvariance, PTL

-----------------------------------------------------------------------------
(* What a request reports.                                                  *)

(* The part of AnnouncedAfterCommit that concerns one request. *)
Announced(r) ==
  /\ event[r] # None => /\ bookings[event[r].booking] # None
                        /\ event[r].kind # "created" => r \in wrote
  /\ reply[r] \in Refusals => r \notin wrote /\ event[r] = None
  /\ reply[r] = "ok" => r \in wrote /\ event[r] # None
  /\ reply[r] = "existing" => event[r] # None

LEMMA FrameOutcome ==
  ASSUME OutcomeInv, NEW r \in Requests, NEW q \in Requests, q # r,
         \/ Submit(r) \/ Proceed(r) \/ Fault(r) \/ FaultAfterCommit(r)
  PROVE  OutcomeOK(q)' /\ Announced(q)'
<1>0. TypeInv /\ TypeOK /\ OutcomeOK(q) /\ Announced(q)
  BY DEF OutcomeInv, LockInv, ColumnInv, TypeInv, OutcomesOK, AnnouncedAfterCommit, Announced
<1>1. phase'[q] = phase[q]
  BY <1>0, Frame
<1>2. reply'[q] = reply[q] /\ event'[q] = event[q] /\ (q \in wrote' <=> q \in wrote)
  BY <1>0 DEF Submit, SubmitCreate, SubmitReschedule, SubmitCancel, Fault, FaultAfterCommit,
         Proceed, CreateRefused, CreateFindSlot, CreateDeduplicated, CreateAssertClaimable,
         CommitCreate, RescheduleRefused, RescheduleResolveSlot, CommitReschedule,
         CancelRefused, CommitCancel, ClaimSlot, ClaimLost, ReleaseSlot, RefreshAndPublish,
         Respond, Refuse, Answer, Enter, TypeOK
<1>3. event[q] # None => event[q].booking \in BookingIds
  BY <1>0 DEF TypeOK, Event
<1>4. \A b \in BookingIds : bookings[b] # None => bookings'[b] # None
  BY <1>0, RowsPersist, OnlyCommitsWrite
<1> QED BY <1>0, <1>1, <1>2, <1>3, <1>4 DEF OutcomeOK, Announced

LEMMA OwnOutcome ==
  ASSUME OutcomeInv, TypeOK', NEW r \in Requests,
         \/ Submit(r) \/ Proceed(r) \/ Fault(r) \/ FaultAfterCommit(r)
  PROVE  OutcomeOK(r)' /\ Announced(r)'
<1> USE DEF Enter, Answer, db
<1>0. /\ TypeInv /\ TypeOK /\ OutcomeOK(r) /\ Announced(r) /\ PhaseOK(r)
  BY DEF OutcomeInv, LockInv, ColumnInv, TypeInv, LocalOK, OutcomesOK, AnnouncedAfterCommit,
         Announced
<1>1. ASSUME NEW code \in Refusals \cup {"error"}, Refuse(r, code),
             code = "error" \/ (r \notin wrote /\ event[r] = None)
      PROVE  OutcomeOK(r)' /\ Announced(r)'
  BY <1>0, <1>1 DEF Refuse, OutcomeOK, Announced, TypeOK, Refusals
<1>2. CASE Submit(r)
  BY <1>0, <1>2 DEF Submit, SubmitCreate, SubmitReschedule, SubmitCancel, OutcomeOK,
                    Announced, TypeOK, Refusals
<1>3. CASE CreateRefused(r) \/ RescheduleRefused(r) \/ CancelRefused(r)
  <2>1. InputRefusal(call[r], seen[r]) \in Refusals \cup {"none"}
    BY DEF InputRefusal, Refusals, Replies
  <2>2. r \notin wrote /\ event[r] = None
    BY <1>0, <1>3 DEF CreateRefused, RescheduleRefused, CancelRefused, OutcomeOK
  <2>3. PICK code \in Refusals : Refuse(r, code)
    BY <1>3, <2>1 DEF CreateRefused, RescheduleRefused, CancelRefused, Refusals, Replies
  <2> QED BY <1>1, <2>2, <2>3
<1>4. CASE ClaimLost(r) \/ FaultAfterCommit(r)
  BY <1>0, <1>1, <1>4 DEF ClaimLost, FaultAfterCommit, OutcomeOK, Refusals, Replies
<1>5. CASE CreateAssertClaimable(r)
  <2>1. CASE Refuse(r, "booking_slot_conflict")
    BY <1>0, <1>1, <1>5, <2>1 DEF CreateAssertClaimable, OutcomeOK, Refusals, Replies
  <2>2. CASE ~Refuse(r, "booking_slot_conflict")
    BY <1>0, <1>5, <2>2 DEF CreateAssertClaimable, OutcomeOK, Announced, TypeOK, Refusals
  <2> QED BY <2>1, <2>2
<1>6. CASE CreateFindSlot(r) \/ RescheduleResolveSlot(r) \/ ClaimSlot(r) \/ ReleaseSlot(r)
  BY <1>0, <1>6 DEF CreateFindSlot, RescheduleResolveSlot, ClaimSlot, ReleaseSlot,
                    AboutToRelease, OutcomeOK, Announced, TypeOK, Refusals
<1>7. CASE Commits(r)
  BY <1>0, <1>7 DEF Commits, CommitCreate, CommitReschedule, CommitCancel, OutcomeOK,
                    Announced, TypeOK, Refusals
<1>8. CASE Fault(r)
  BY <1>0, <1>8 DEF Fault, Running, Uncommitted, OutcomeOK, Announced, TypeOK, Refusals
<1>9. CASE CreateDeduplicated(r)
  <2>1. PICK b \in OwnConfirmed(r) :
          event' = [event EXCEPT ![r] = [kind |-> "created", booking |-> b,
                                         time |-> bookings[b].time,
                                         status |-> bookings[b].status]]
    BY <1>9 DEF CreateDeduplicated
  <2>2. /\ event'[r].kind = "created" /\ event'[r].booking = b /\ bookings[b] # None
    BY <1>0, <2>1 DEF OwnConfirmed, TypeOK
  <2>3. event'[r] # None
    <3>1. bookings[b] \in Row /\ b \in BookingIds
      BY <1>0, <2>1 DEF OwnConfirmed, TypeOK
    <3>2. event'[r] \in Event
      BY <1>0, <2>1, <3>1 DEF Event, Row, TypeOK
    <3> QED BY <3>2, NoneIsNoRecord
  <2> QED BY <1>0, <1>9, <2>2, <2>3 DEF CreateDeduplicated, OutcomeOK, Announced, TypeOK, Refusals
<1>10. CASE RefreshAndPublish(r)
  <2>1. event'[r] = Announcement(r) /\ Announcement(r).booking = Booking(r)
    BY <1>0, <1>10 DEF RefreshAndPublish, Announcement, TypeOK
  <2>2. Booking(r) \in BookingIds /\ bookings[Booking(r)] # None /\ r \in wrote
    BY <1>0, <1>10, CallTypes DEF RefreshAndPublish, Durable, PhaseOK, OutcomeOK
  <2>3. event'[r] # None
    BY <1>0, <1>10, <2>1, AnnouncementTypes
  <2> QED BY <1>0, <1>10, <2>1, <2>2, <2>3
          DEF RefreshAndPublish, Durable, OutcomeOK, Announced, TypeOK, Refusals
<1>11. CASE Respond(r)
  BY <1>0, <1>11 DEF Respond, OutcomeOK, Announced, TypeOK, Refusals
<1> QED BY <1>2, <1>3, <1>4, <1>5, <1>6, <1>7, <1>8, <1>9, <1>10, <1>11 DEF Proceed, Commits

LEMMA StepOutcomes ==
  OutcomeInv /\ [Next]_vars => (OutcomesOK /\ AnnouncedAfterCommit)'
<1> SUFFICES ASSUME OutcomeInv, [Next]_vars PROVE (OutcomesOK /\ AnnouncedAfterCommit)'
  OBVIOUS
<1>0. OutcomesOK /\ AnnouncedAfterCommit /\ TypeOK'
  BY StepTypeOK DEF OutcomeInv, LockInv, ColumnInv
<1>1. ASSUME UNCHANGED <<bookings, phase, reply, wrote, event>>
      PROVE  (OutcomesOK /\ AnnouncedAfterCommit)'
  BY <1>0, <1>1 DEF OutcomesOK, OutcomeOK, AnnouncedAfterCommit
<1>2. ASSUME NEW r \in Requests, Submit(r) \/ Proceed(r) \/ Fault(r) \/ FaultAfterCommit(r)
      PROVE  (OutcomesOK /\ AnnouncedAfterCommit)'
  <2>1. \A q \in Requests : OutcomeOK(q)' /\ Announced(q)'
    BY <1>0, <1>2, FrameOutcome, OwnOutcome
  <2> QED BY <2>1 DEF OutcomesOK, AnnouncedAfterCommit, Announced
<1>3. ASSUME NEW p \in Properties, EditListing(p)
      PROVE  (OutcomesOK /\ AnnouncedAfterCommit)'
  BY <1>1, <1>3 DEF EditListing, db
<1>4. CASE Tick
  BY <1>1, <1>4 DEF Tick, db
<1>5. CASE UNCHANGED vars
  BY <1>1, <1>5 DEF vars
<1> QED BY <1>2, <1>3, <1>4, <1>5 DEF Next

LEMMA OutcomeInvariance == Spec => []OutcomeInv
<1>1. Init => OutcomeInv
  <2>1. Init => OutcomesOK /\ AnnouncedAfterCommit
    BY DEF Init, OutcomesOK, OutcomeOK, AnnouncedAfterCommit, Refusals
  <2>2. Init => LockInv
    BY InitLockInv
  <2> QED BY <2>1, <2>2 DEF OutcomeInv
<1>2. OutcomeInv /\ [Next]_vars => OutcomeInv'
  BY StepColumnInv, StepLocksOK, StepOutcomes DEF OutcomeInv, LockInv
<1> QED BY <1>1, <1>2, PTL DEF Spec

(* A cancellation or a move is announced by a request whose write is        *)
(* durable, a refused request wrote and announced nothing, and one that is  *)
(* told of success has written and announced it, wherever the requests      *)
(* around it are and whatever fails. Nothing is claimed of a failure: the   *)
(* row is refreshed, and the names for the answer are read, after COMMIT.   *)
THEOREM AnnouncementsFollowCommits == Spec => []AnnouncedAfterCommit
<1>1. OutcomeInv => AnnouncedAfterCommit
  BY DEF OutcomeInv
<1> QED BY <1>1, OutcomeInvariance, PTL

(* A slot becomes booked in the same commit as a booking row that points at *)
(* it: no fault between the claim and the write leaves a slot withheld.     *)
THEOREM ClaimsCommitWithBookings == Spec => BookedWithItsBooking
<1>1. ASSUME OutcomeInv, [Next]_vars, NEW s \in Slots,
             slotStatus[s] = "open", slotStatus'[s] = "booked"
      PROVE  \E r \in wrote' \ wrote : bookings'[Booking(r)].slot = s
  <2>0. TypeInv /\ TypeOK /\ LocksOK
    BY <1>1 DEF OutcomeInv, LockInv, ColumnInv, TypeInv
  <2>1. PICK r \in Requests : Commits(r)
    BY <1>1, OnlyCommitsWrite DEF Next, EditListing, Tick, vars, db
  <2>2. phase[r] \in {"claimed", "released"} /\ r \in wrote' \ wrote
    BY <1>1, <2>0, <2>1, CommitsWriteLockedSlots
    DEF OutcomeInv, OutcomesOK, OutcomeOK, Commits, CommitCreate, CommitReschedule, CommitCancel
  <2>3. CASE CommitCreate(r)
    BY <1>1, <2>0, <2>2, <2>3, CreateTypes
    DEF CommitCreate, TypeInv, LocalOK, PhaseOK, TypeOK
  <2>4. CASE CommitReschedule(r)
    BY <1>1, <2>0, <2>2, <2>4, RescheduleTypes DEF CommitReschedule, TypeOK
  <2>5. CASE CommitCancel(r)
    BY <1>1, <2>0, <2>5 DEF CommitCancel, TypeOK
  <2> QED BY <2>1, <2>3, <2>4, <2>5 DEF Commits
<1>2. OutcomeInv /\ [Next]_vars
        => [\A s \in Slots :
             slotStatus[s] = "open" /\ slotStatus'[s] = "booked"
               => \E r \in wrote' \ wrote : bookings'[Booking(r)].slot = s]_vars
  BY <1>1
<1> QED BY <1>2, OutcomeInvariance, PTL DEF Spec, BookedWithItsBooking
=============================================================================
