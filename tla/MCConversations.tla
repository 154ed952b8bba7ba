---------------------------- MODULE MCConversations ----------------------------
(* An instance small enough for TLC. A behaviour has one of two plans, drawn *)
(* at its start: the turns search the FAQ and are checked, or they call the  *)
(* other tools in one conversation, escalate and are not. The two meet only  *)
(* in the transaction of the turn, which either may leave aborted.           *)
EXTENDS Conversations

VARIABLE plan

mcVars == <<vars, plan>>

(* Turns are alike: the one that begins first may as well be this one.       *)
InOrder ==
  LET first == CHOOSE t \in Turns : TRUE
  IN  phase[first] = "idle" => \A t \in Turns : phase[t] = "idle"

InPlan ==
  /\ InOrder
  /\ CASE plan = "check"    -> /\ \A t \in Turns : phase[t] \notin {"assigning", "logging", "logged"}
                               /\ \A t \in Turns : conv[t] \in Convs \cup {t, None}
                               /\ now = 0 /\ aborted = {} /\ \A c \in Convs : history[c] # <<>>
       [] plan = "escalate" -> /\ \A t \in Turns : sink[t] = "unused" /\ conv[t] \in Convs \cup {None}
                               /\ \A t \in Turns : calls[t] <= 1
                               /\ Cardinality(rows) <= Limit + 2
                               /\ \A c \in Convs : history[c] # Unreadable

MCInit == Init /\ plan \in {"check", "escalate"} /\ InPlan

(* The clock moves while a call is about to look at it; its moves at other   *)
(* moments can be put off until then.                                        *)
TickMatters ==
  now' # now => /\ \E t \in Turns : phase[t] \in {"running", "logging"}
                /\ \A t \in Turns : phase[t] \notin {"assigning", "logged"}

MCNext == Next /\ UNCHANGED plan /\ InPlan' /\ TickMatters

(* The fairness of FairSpec, of the steps that are in the plan.              *)
MCSpec ==
  /\ MCInit /\ [][MCNext]_mcVars
  /\ \A t \in Turns :
       /\ WF_mcVars(Proceed(t) /\ UNCHANGED plan /\ InPlan')
       /\ WF_mcVars(Check(t) /\ UNCHANGED plan)
=============================================================================
