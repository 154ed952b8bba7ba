----------------------------- MODULE Conversations -----------------------------
(* Chat turns, their escalations, and the check that runs after a turn has   *)
(* been answered: is what the assistant said supported by what its searches  *)
(* of the FAQ returned? Checks share a gate and have sessions of their own.  *)
EXTENDS Escalations

CONSTANTS MaxConcurrent, \* faithfulness_max_concurrent
          MaxClaims      \* faithfulness_max_claims

ASSUME CheckAssumption ==
  /\ MaxConcurrent \in Nat \ {0} /\ MaxClaims \in Nat
  /\ None \notin Nat \X Nat

VARIABLES stage,    \* where the background check of a turn is
          claims,   \* how many claims the reply was split into
          outcome,  \* what the check concluded
          permits   \* what is left of the gate

checkVars == <<stage, claims, outcome, permits>>
vars == <<turnVars, escVars, checkVars>>

Stages == {"none", "queued", "splitting", "judging", "judged", "recorded", "lost"}
Unsettled == {"queued", "splitting", "judging", "judged"}
Verdicts == {"supported", "unsupported", "not_applicable"}

(* A reply from the judge: judgments in any order, of any claims.            *)
Judgment == [index : 0..MaxClaims, verdict : Verdicts]
Batches == UNION {[1..n -> Judgment] : n \in 0..MaxClaims}

(* What a check keeps: how many claims have each verdict, None when they     *)
(* were never counted, and a score, supported of checkable.                  *)
Counts == [Verdicts -> 0..MaxClaims]
Statuses == {"scored", "no_context", "no_checkable_claims", "failed"}
Outcomes == [status : Statuses, counts : Counts \cup {None},
             score : {None} \cup (0..MaxClaims) \X (1..MaxClaims)]

Without(status) == [status |-> status, counts |-> None, score |-> None]
Failed == Without("failed")
NoCounts == [v \in Verdicts |-> 0]

CheckInit ==
  /\ stage = [t \in Turns |-> "none"]
  /\ claims = [t \in Turns |-> 0]
  /\ outcome = [t \in Turns |-> Failed]
  /\ permits = MaxConcurrent

Init == ChatInit /\ EscInit /\ CheckInit

-----------------------------------------------------------------------------
(* The end of the turn.                                                      *)

(* A turn that consulted the FAQ gets a check.                               *)
NeedsCheck(t) == sink[t] # "unused"

(* The turn is answered. The check is queued unless the judge cannot be      *)
(* built or the entries cannot be read back.                                 *)
Respond(t) ==
  /\ phase[t] = "stored"
  /\ Reply(t, "ok")
  /\ \/ NeedsCheck(t) /\ stage' = [stage EXCEPT ![t] = "queued"]
     \/ UNCHANGED stage
  /\ UNCHANGED <<atRest, calls, sink, escVars, claims, outcome, permits>>

-----------------------------------------------------------------------------
(* The check.                                                                *)

Background == <<turnVars, escVars>>

EnterGate(t) ==
  /\ stage[t] = "queued" /\ permits > 0
  /\ permits' = permits - 1
  /\ stage' = [stage EXCEPT ![t] = "splitting"]
  /\ UNCHANGED <<Background, claims, outcome>>

(* Mutant: a check that failed keeps its place in the gate.                  *)
PermitsUnlessFailed(o) == IF o.status = "failed" THEN permits ELSE permits + 1

(* The gate is left however the evaluation ended.                            *)
PermitsAfter(o) == permits + 1

Conclusion(t, o) ==
  /\ outcome' = [outcome EXCEPT ![t] = o]
  /\ stage' = [stage EXCEPT ![t] = "judged"]
  /\ permits' = PermitsAfter(o)
  /\ UNCHANGED <<Background, claims>>

(* Whether the union of the entries found has any that can be read back: one *)
(* may have left the index since.                                            *)
HasContext(t) == {FALSE} \cup {b \in {TRUE} : sink[t] = "hits"}

NoContext(t) ==
  /\ stage[t] = "splitting"
  /\ FALSE \in HasContext(t)
  /\ Conclusion(t, Without("no_context"))

(* The reply is split into claims. Too many are taken for a reply that was   *)
(* misread, and none at all leaves nothing to check.                         *)
Split(t) ==
  /\ stage[t] = "splitting"
  /\ TRUE \in HasContext(t)
  /\ \E n \in 1..MaxClaims :
       /\ claims' = [claims EXCEPT ![t] = n]
       /\ stage' = [stage EXCEPT ![t] = "judging"]
       /\ UNCHANGED <<Background, outcome, permits>>

NothingToCheck(t) ==
  /\ stage[t] = "splitting"
  /\ TRUE \in HasContext(t)
  /\ Conclusion(t, [status |-> "no_checkable_claims", counts |-> NoCounts, score |-> None])

(* The model fails, too many claims come back, or the batch is malformed.    *)
CheckFails(t) ==
  /\ stage[t] \in {"splitting", "judging"}
  /\ Conclusion(t, Failed)

(* Mutant: verdicts are only counted, so one claim may be judged twice.      *)
SameLength(n, batch) == Len(batch) = n

(* One judgment for each claim, and no other.                                *)
Aligned(n, batch) ==
  /\ Len(batch) = n
  /\ {batch[i].index : i \in 1..n} = 0..(n - 1)

(* By index; of several with one index the last.                             *)
InClaimOrder(n, batch) ==
  LET Of(k) == {i \in DOMAIN batch : batch[i].index = k}
  IN  [k \in {j \in 1..n : Of(j - 1) # {}} |->
         batch[CHOOSE i \in Of(k - 1) : \A j \in Of(k - 1) : j <= i].verdict]

CountsOf(verdicts) == [v \in Verdicts |-> Cardinality({k \in DOMAIN verdicts : verdicts[k] = v})]

AllClaims(counts) == counts["supported"] + counts["unsupported"] + counts["not_applicable"]

(* Claims the FAQ has no say in are left out of the score.                   *)
Checkable(counts) == counts["supported"] + counts["unsupported"]

Concluded(counts) ==
  [status |-> IF Checkable(counts) = 0 THEN "no_checkable_claims" ELSE "scored",
   counts |-> counts,
   score  |-> IF Checkable(counts) = 0 THEN None ELSE <<counts["supported"], Checkable(counts)>>]

Judge(t) ==
  /\ stage[t] = "judging"
  /\ \E batch \in Batches :
       /\ Aligned(claims[t], batch)
       /\ Conclusion(t, Concluded(CountsOf(InClaimOrder(claims[t], batch))))

Persist(t) ==
  /\ stage[t] = "judged"
  /\ stage' = [stage EXCEPT ![t] = "recorded"]
  /\ UNCHANGED <<Background, claims, outcome, permits>>

(* Mutant: a check that dies gives back a place even if it held none.        *)
PermitsAfterAnyLoss(t) == permits + 1

PermitsAfterLoss(t) ==
  permits + Cardinality({u \in {t} : stage[u] \in {"splitting", "judging"}})

(* The row cannot be written, or the process dies; one that restarts has a   *)
(* new gate.                                                                 *)
CheckLost(t) ==
  /\ stage[t] \in Unsettled
  /\ stage' = [stage EXCEPT ![t] = "lost"]
  /\ permits' = PermitsAfterLoss(t)
  /\ claims' = [claims EXCEPT ![t] = 0]
  /\ outcome' = [outcome EXCEPT ![t] = Failed]
  /\ UNCHANGED Background

Check(t) ==
  \/ EnterGate(t) \/ NoContext(t) \/ Split(t) \/ NothingToCheck(t)
  \/ CheckFails(t) \/ Judge(t) \/ Persist(t)

-----------------------------------------------------------------------------

BeginTurn(t) == StartConversation(t) \/ ResumeConversation(t) \/ ConversationNotFound(t)

AgentStep(t) ==
  SearchFaq(t) \/ CallTool(t) \/ ToolBreaks(t) \/ AgentFails(t) \/ StoreTurn(t)

(* Everything a turn may do once it has begun.                               *)
Proceed(t) ==
  \/ AgentStep(t) /\ UNCHANGED <<escVars, checkVars>>
  \/ Escalate(t) /\ UNCHANGED checkVars
  \/ Respond(t)
  \/ TurnBreaks(t) /\ Forget(t) /\ UNCHANGED <<rows, published, now, checkVars>>

Next ==
  \/ \E t \in Turns : BeginTurn(t) /\ UNCHANGED <<escVars, checkVars>>
  \/ \E t \in Turns : Proceed(t)
  \/ \E t \in Turns : Check(t)
  \/ \E t \in Turns : CheckLost(t)
  \/ Tick /\ UNCHANGED checkVars

Spec == Init /\ [][Next]_vars

(* The event loop keeps running, and every call of a model returns or        *)
(* raises. Nobody need send a message, and the process need not die.         *)
FairSpec == Spec /\ \A t \in Turns : WF_vars(Proceed(t)) /\ WF_vars(Check(t))

-----------------------------------------------------------------------------
(* Properties.                                                               *)

(* The type of every variable.                                               *)
TypeOK ==
  /\ ChatTypeOK
  /\ EscTypeOK
  /\ stage \in [Turns -> Stages]
  /\ claims \in [Turns -> 0..MaxClaims]
  /\ outcome \in [Turns -> Outcomes]
  /\ permits \in 0..MaxConcurrent

(* A number is never made up: a recorded check is of a stored answer and has *)
(* a score exactly when it is scored, the verdicts counted are one for each  *)
(* claim of the reply, and the score is over those the FAQ could have        *)
(* decided; where the turn found nothing, none of them could be.             *)
ScoresAreWhole ==
  \A t \in Turns : stage[t] = "recorded" =>
    LET o == outcome[t] IN
    /\ t \in transcript
    /\ o.counts # None => sink[t] = "hits"
    /\ o.score # None <=> o.status = "scored"
    /\ o.counts # None => AllClaims(o.counts) = claims[t]
    /\ o.status = "scored" =>
         o.score = <<o.counts["supported"], claims[t] - o.counts["not_applicable"]>>

(* Every turn that began is answered.                                        *)
TurnsAnswered == \A t \in Turns : phase[t] \in InProgress \cup {"stored"} ~> phase[t] = "done"

(* Every check that was queued is settled, whatever becomes of the checks it *)
(* waits for at the gate.                                                    *)
ChecksSettle == \A t \in Turns : stage[t] = "queued" ~> stage[t] \in {"recorded", "lost"}
=============================================================================
