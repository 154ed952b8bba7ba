------------------------ MODULE ConversationInvariants -------------------------
(* The inductive invariants of Conversations: what a turn, a call of the     *)
(* escalation tool and a background check know at each of their phases. They *)
(* carry the proofs in ConversationProofs and are model-checked before.      *)
EXTENDS Conversations

Calling == {"assigning", "logging", "logged"}

(* A turn belongs to a conversation that was started, is stored before it is *)
(* answered, and is checked after that.                                      *)
TurnOK(t) ==
  /\ phase[t] = "idle" => conv[t] = None
  /\ phase[t] \in InProgress \cup {"stored"} => conv[t] \in ConvIds
  /\ conv[t] \in Turns => conv[conv[t]] = conv[t]
  /\ conv[t] = None => loaded[t] = <<>>
  /\ phase[t] # "done" => reply[t] = "none"
  /\ t \in transcript => phase[t] \in {"stored", "done"} /\ reply[t] \in {"none", "ok", "error"}
  /\ phase[t] = "stored" => t \in transcript
  /\ phase[t] \in Calling => calls[t] < MaxToolCalls
  /\ stage[t] # "none" => phase[t] = "done" /\ t \in transcript

(* The checks that are inside the gate.                                      *)
Holders == {t \in Turns : stage[t] \in {"splitting", "judging"}}

GateOK == IsFiniteSet(Holders) /\ permits = MaxConcurrent - Cardinality(Holders)

TurnInv == TypeOK /\ GateOK /\ \A t \in Turns : TurnOK(t)

(* No turn is twice in what is remembered of a conversation.                 *)
Once(h) == Cardinality(Members(h)) = Len(Readable(h))

HistoryInv ==
  /\ HistoryIsTranscribed
  /\ \A t \in Turns : Once(loaded[t])

(* Where turns come one after the other, the open one works from all there   *)
(* is.                                                                       *)
AloneOK ==
  \A c \in ConvIds \ contested :
    /\ \A t, u \in OpenTurns(c) : t = u
    /\ \A t \in OpenTurns(c) : Members(loaded[t]) = Members(history[c])

StepInv == AloneOK /\ InStep

(* The call at work has not been announced; once it has committed, its row   *)
(* is there.                                                                 *)
CallOK(t) ==
  /\ \A i \in published : i[1] = t => i[2] < calls[t]
  /\ phase[t] = "logged" => \E r \in rows : r.id = <<t, calls[t], attempt[t]>>

AnnounceInv == AnnouncedOnce /\ \A t \in Turns : CallOK(t)

(* How many rows a call has found, or left, in the hour before.              *)
LimitOK(t) ==
  conv[t] \notin contested =>
    /\ phase[t] = "assigning" => Cardinality(Recent(t)) < Limit
    /\ phase[t] = "logging" /\ attempt[t] = 1 => Cardinality(Recent(t)) < Limit
    /\ phase[t] = "logging" /\ attempt[t] = 2 => Cardinality(Recent(t)) <= Limit
    /\ phase[t] = "logged" /\ attempt[t] = 1 => Cardinality(Recent(t)) <= Limit

LimitInv ==
  /\ IsFiniteSet(rows) /\ \A r \in rows : r.at <= now
  /\ \A t \in Turns : LimitOK(t)
  /\ WithinLimit

(* What a check may conclude, from the claims it has split the reply into.   *)
Whole(t, o) ==
  /\ o.counts # None => sink[t] = "hits" /\ AllClaims(o.counts) = claims[t]
  /\ o.score # None <=> o.status = "scored"
  /\ o.status = "scored" =>
       o.score = <<o.counts["supported"], claims[t] - o.counts["not_applicable"]>>

CheckOK(t) ==
  /\ stage[t] \in {"queued", "splitting"} => claims[t] = 0
  /\ stage[t] = "none" => claims[t] = 0
  /\ stage[t] = "judging" => claims[t] > 0 /\ sink[t] = "hits"
  /\ stage[t] \in {"judged", "recorded"} => Whole(t, outcome[t])
=============================================================================
