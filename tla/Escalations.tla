------------------------------ MODULE Escalations ------------------------------
(* The EscalateToHuman tool: at most Limit rows an hour for a conversation,  *)
(* counted in the table; an assignment that may fail; an insert that is      *)
(* tried twice; an event for the row that was read back.                     *)
EXTENDS ChatTurns

CONSTANTS Agents,
          Acting,   \* the agents that are active and hold a role that can act
          Limit,    \* MAX_ESCALATIONS_PER_CONVERSATION
          Window,   \* RATE_LIMIT_WINDOW
          MaxNow    \* bound on the clock

ASSUME EscalationAssumption ==
  /\ Acting \subseteq Agents /\ None \notin Agents
  /\ Limit \in Nat \ {0} /\ Window \in Nat \ {0} /\ MaxNow \in Nat

VARIABLES rows,        \* committed escalations
          assignment,  \* what the lookup of a running call concluded
          attempt,     \* which of the two inserts a running call is at
          published,   \* ids of the rows an event went out for
          now

escVars == <<rows, assignment, attempt, published, now>>

Assignment == [agent : Agents \cup {None}, status : {"queued", "queued_unassigned"}]
Unassigned == [agent |-> None, status |-> "queued_unassigned"]

(* The rows of a call are told apart by the attempt that inserted them.      *)
RowIds == Turns \X (0..MaxToolCalls) \X {1, 2}

Escalation ==
  [id : RowIds, conv : ConvIds, at : 0..MaxNow,
   agent : Agents \cup {None}, status : {"queued", "queued_unassigned"}]

EscInit ==
  /\ rows = {}
  /\ assignment = [t \in Turns |-> Unassigned]
  /\ attempt = [t \in Turns |-> 1]
  /\ published = {}
  /\ now = 0

Tick ==
  /\ now < MaxNow
  /\ now' = now + 1
  /\ UNCHANGED <<turnVars, rows, assignment, attempt, published>>

(* Mutant: only the escalations of this turn are counted.                    *)
RecentOfTurn(t) == {r \in rows : r.id[1] = t /\ r.at + Window >= now}

(* The escalations of the conversation in the last hour.                     *)
Recent(t) == {r \in rows : r.conv = conv[t] /\ r.at + Window >= now}

(* The locals of a call that is over.                                        *)
Forget(t) ==
  /\ assignment' = [assignment EXCEPT ![t] = Unassigned]
  /\ attempt' = [attempt EXCEPT ![t] = 1]

(* Over the limit the latest reference is given again and nothing is logged. *)
EscalateLimited(t) ==
  /\ MayCall(t) /\ t \notin aborted
  /\ Cardinality(Recent(t)) >= Limit
  /\ CountCall(t)
  /\ UNCHANGED <<atRest, phase, reply, sink, aborted, escVars>>

EscalateCounted(t) ==
  /\ MayCall(t) /\ t \notin aborted
  /\ Cardinality(Recent(t)) < Limit
  /\ Enter(t, "assigning")
  /\ UNCHANGED <<atRest, reply, calls, sink, aborted, escVars>>

(* What is concluded from the agent of the listing, None when no listing was *)
(* given, the caller may not see it, or nobody handles it.                   *)
AssignTo(listed) ==
  IF listed \in Acting THEN [agent |-> listed, status |-> "queued"] ELSE Unassigned

Conclude(t, a) ==
  /\ phase[t] = "assigning"
  /\ Enter(t, "logging")
  /\ assignment' = [assignment EXCEPT ![t] = a]
  /\ attempt' = [attempt EXCEPT ![t] = 1]
  /\ UNCHANGED <<atRest, reply, calls, sink, rows, published, now>>

EscalateAssign(t) ==
  /\ \E listed \in Agents \cup {None} : Conclude(t, AssignTo(listed))
  /\ UNCHANGED aborted

(* A lookup that raises concludes nothing; if it was SQL that failed, the    *)
(* transaction is left aborted.                                              *)
EscalateAssignBreaks(t) ==
  /\ Conclude(t, Unassigned)
  /\ aborted' \in {aborted, aborted \cup {t}}

NewRow(t) ==
  [id |-> <<t, calls[t], attempt[t]>>, conv |-> conv[t], at |-> now,
   agent |-> assignment[t].agent, status |-> assignment[t].status]

EscalateInsert(t) ==
  /\ phase[t] = "logging" /\ t \notin aborted
  /\ rows' = rows \cup {NewRow(t)}
  /\ Enter(t, "logged")
  /\ UNCHANGED <<atRest, reply, calls, sink, aborted, assignment, attempt, published, now>>

(* Mutant: as if the rollback undid whatever the attempt did.                *)
EscalateRetryForever(t) ==
  /\ phase[t] \in {"logging", "logged"}
  /\ aborted' = aborted \ {t}
  /\ Enter(t, "logging")
  /\ UNCHANGED <<atRest, reply, calls, sink, escVars>>

(* Mutant: the event goes out whether or not the row was written.            *)
AnnouncedAnyway(t) == {<<t, calls[t], attempt[t]>>}

(* What a call that failed its attempt has announced.                        *)
AnnouncedOnFailure(t) == {}

(* The row is read back, announced and its reference given to the user.      *)
EscalateRefreshed(t) ==
  /\ phase[t] = "logged"
  /\ published' = published \cup {<<t, calls[t], attempt[t]>>}
  /\ Enter(t, "running")
  /\ CountCall(t)
  /\ Forget(t)
  /\ UNCHANGED <<atRest, reply, sink, aborted, rows, now>>

(* The attempt raises, before its commit or in the refresh after it:         *)
(* rollback, and the insert is tried again.                                  *)
EscalateRetry(t) ==
  /\ phase[t] \in {"logging", "logged"} /\ attempt[t] = 1
  /\ attempt' = [attempt EXCEPT ![t] = 2]
  /\ aborted' = aborted \ {t}
  /\ Enter(t, "logging")
  /\ UNCHANGED <<atRest, reply, calls, sink, rows, assignment, published, now>>

(* The second attempt raises too: the user is given the support address.     *)
EscalateDegrades(t) ==
  /\ phase[t] \in {"logging", "logged"} /\ attempt[t] = 2
  /\ published' = published \cup AnnouncedOnFailure(t)
  /\ aborted' = aborted \ {t}
  /\ Enter(t, "running")
  /\ CountCall(t)
  /\ Forget(t)
  /\ UNCHANGED <<atRest, reply, sink, rows, now>>

Escalate(t) ==
  \/ EscalateLimited(t) \/ EscalateCounted(t)
  \/ EscalateAssign(t) \/ EscalateAssignBreaks(t)
  \/ EscalateInsert(t) \/ EscalateRefreshed(t)
  \/ EscalateRetry(t) \/ EscalateDegrades(t)

-----------------------------------------------------------------------------
(* Properties.                                                               *)

EscTypeOK ==
  /\ rows \subseteq Escalation
  /\ assignment \in [Turns -> Assignment]
  /\ attempt \in [Turns -> {1, 2}]
  /\ published \subseteq RowIds
  /\ now \in 0..MaxNow

(* A conversation whose turns come one after the other logs at most one      *)
(* escalation over the limit in any hour: the last call allowed may insert   *)
(* twice, when its first commit took effect and only the refresh failed.     *)
WithinLimit ==
  \A c \in ConvIds \ contested, x \in 0..MaxNow :
    Cardinality({r \in rows : r.conv = c /\ r.at \in x..(x + Window)}) <= Limit + 1

(* An event goes out only for a row that is committed, and for one row of a  *)
(* call at most: of a double insert, the one the user has the reference of.  *)
AnnouncedOnce ==
  /\ published \subseteq {r.id : r \in rows}
  /\ \A i, j \in published : i[1] = j[1] /\ i[2] = j[2] => i = j
=============================================================================
