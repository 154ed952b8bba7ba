-------------------------- MODULE ConversationProofs ---------------------------
(* What every behaviour of the chat maintains, for any number of turns,      *)
(* conversations, agents and checks: types and the gate, what is remembered  *)
(* of a conversation, what an escalation has announced and how many there    *)
(* are, and what a score is made of.                                         *)
EXTENDS ConversationInvariants, FiniteSetTheorems, TLAPS

-----------------------------------------------------------------------------
(* Histories.                                                                *)

(* What is read of a history, and who is in it.                              *)
LEMMA ReadHistory ==
  ASSUME NEW h \in Seq(Turns) \cup {Unreadable}
  PROVE  /\ Readable(h) \in Seq(Turns) /\ Readable(Readable(h)) = Readable(h)
         /\ Members(Readable(h)) = Members(h)
         /\ h \in Seq(Turns) => Readable(h) = h
         /\ Members(h) \subseteq Turns
<1>1. Unreadable \notin Seq(Turns)
  BY ChatAssumption DEF ChatAssumption
<1>2. /\ Readable(h) \in Seq(Turns) /\ Readable(Readable(h)) = Readable(h)
      /\ h \in Seq(Turns) => Readable(h) = h
  BY <1>1 DEF Readable
<1>3. Members(Readable(h)) = Members(h)
  BY <1>2 DEF Members
<1>4. Members(h) \subseteq Turns
  BY <1>2 DEF Members
<1> QED BY <1>2, <1>3, <1>4

LEMMA NobodyYet == Members(<<>>) = {} /\ Once(<<>>)
<1>1. Readable(<<>>) = <<>>
  BY DEF Readable
<1>2. Members(<<>>) = {}
  BY <1>1 DEF Members
<1> QED BY <1>1, <1>2, FS_EmptySet DEF Once

LEMMA FiniteHistory ==
  ASSUME NEW h \in Seq(Turns)
  PROVE  IsFiniteSet(Members(h))
<1>1. h \in [1..Len(h) -> Members(h)] /\ \A t \in Members(h) : \E i \in 1..Len(h) : h[i] = t
  BY ReadHistory DEF Members
<1>2. h \in Surjection(1..Len(h), Members(h))
  BY <1>1 DEF Surjection
<1>3. IsFiniteSet(1..Len(h))
  BY FS_Interval
<1> QED BY <1>2, <1>3, FS_Surjection

(* A turn that is not in a history yet is added to it.                       *)
LEMMA AddedToHistory ==
  ASSUME NEW h \in Seq(Turns), NEW t \in Turns
  PROVE  /\ Append(h, t) \in Seq(Turns)
         /\ Members(Append(h, t)) = Members(h) \cup {t}
         /\ Once(h) /\ t \notin Members(h) => Once(Append(h, t))
<1> DEFINE k == Append(h, t)
<1>1. k \in Seq(Turns) /\ Len(k) = Len(h) + 1 /\ k[Len(h) + 1] = t
      /\ \A i \in 1..Len(h) : k[i] = h[i]
  OBVIOUS
<1>2. Readable(h) = h /\ Readable(k) = k
  BY <1>1, ReadHistory
<1>3. DOMAIN h = 1..Len(h) /\ DOMAIN k = 1..(Len(h) + 1)
  BY <1>1
<1>4. Members(k) = Members(h) \cup {t}
  <2>1. ASSUME NEW u \in Members(k) PROVE u \in Members(h) \cup {t}
    BY <1>1, <1>2, <1>3, <2>1 DEF Members
  <2>2. ASSUME NEW u \in Members(h) PROVE u \in Members(k)
    BY <1>1, <1>2, <1>3, <2>2 DEF Members
  <2>3. t \in Members(k)
    BY <1>1, <1>2, <1>3 DEF Members
  <2> QED BY <2>1, <2>2, <2>3
<1>5. Once(h) /\ t \notin Members(h) => Once(k)
  BY <1>1, <1>2, <1>4, FiniteHistory, FS_AddElement DEF Once
<1> QED BY <1>1, <1>4, <1>5

-----------------------------------------------------------------------------
(* Verdicts.                                                                 *)

(* A reply of the judge that is aligned has one verdict for each claim.      *)
LEMMA OneVerdictEach ==
  ASSUME NEW n \in 0..MaxClaims, NEW batch \in Batches, Aligned(n, batch)
  PROVE  InClaimOrder(n, batch) \in [1..n -> Verdicts]
<1> DEFINE Of(k) == {i \in DOMAIN batch : batch[i].index = k}
           f == [i \in 1..n |-> batch[i].index]
           Last(k) == CHOOSE i \in Of(k - 1) : \A j \in Of(k - 1) : j <= i
<1>1. PICK m \in 0..MaxClaims : batch \in [1..m -> Judgment]
  BY DEF Batches
<1>2. m = n /\ DOMAIN batch = 1..n
  <2>1. Len(batch) = m
    BY <1>1
  <2> QED BY <1>1, <2>1 DEF Aligned
<1>3. f \in Surjection(1..n, 0..(n - 1))
  <2>1. \A i \in 1..n : batch[i].index \in 0..(n - 1)
    BY DEF Aligned
  <2>2. \A k \in 0..(n - 1) : \E i \in 1..n : batch[i].index = k
    BY DEF Aligned
  <2> QED BY <2>1, <2>2 DEF Surjection
<1>4. f \in Injection(1..n, 0..(n - 1))
  <2>1. IsFiniteSet(1..n) /\ Cardinality(1..n) = n /\ Cardinality(0..(n - 1)) = n
    BY FS_Interval, CheckAssumption DEF CheckAssumption
  <2> HIDE DEF f
  <2> QED BY <1>3, <2>1, FS_SurjSameCardinalityImpliesInj
<1>5. \A k \in 1..n : \E i \in 1..n : Of(k - 1) = {i}
  <2> TAKE k \in 1..n
  <2> DEFINE j == k - 1
  <2>1. j \in 0..(n - 1)
    OBVIOUS
  <2> HIDE DEF j
  <2>2. PICK i \in 1..n : batch[i].index = j
    BY <2>1 DEF Aligned
  <2>3. \A l \in 1..n : batch[l].index = j => l = i
    <3>1. \A a, b \in DOMAIN f : f[a] = f[b] => a = b
      BY <1>4 DEF Injection, IsInjective
    <3> QED BY <2>2, <3>1
  <2> QED BY <1>2, <2>2, <2>3 DEF j
<1>6. \A k \in 1..n : Last(k) \in 1..n
  <2> TAKE k \in 1..n
  <2>1. PICK i \in 1..n : Of(k - 1) = {i}
    BY <1>5
  <2>2. \E l \in Of(k - 1) : \A j \in Of(k - 1) : j <= l
    BY <2>1
  <2>3. Last(k) \in Of(k - 1)
    BY <2>2
  <2> QED BY <2>1, <2>3
<1>7. \A i \in 1..n : batch[i].verdict \in Verdicts
  BY <1>1, <1>2 DEF Judgment
<1>8. {j \in 1..n : Of(j - 1) # {}} = 1..n
  BY <1>5
<1> QED BY <1>6, <1>7, <1>8 DEF InClaimOrder

LEMMA CountedApart ==
  ASSUME NEW S, NEW T, IsFiniteSet(S), IsFiniteSet(T), S \cap T = {}
  PROVE  IsFiniteSet(S \cup T) /\ Cardinality(S \cup T) = Cardinality(S) + Cardinality(T)
<1>1. Cardinality(S \cap T) = 0
  BY FS_EmptySet
<1>2. Cardinality(S) \in Nat /\ Cardinality(T) \in Nat
  BY FS_CardinalityType
<1>3. /\ IsFiniteSet(S \cup T)
      /\ Cardinality(S \cup T) = Cardinality(S) + Cardinality(T) - Cardinality(S \cap T)
  BY FS_Union
<1> QED BY <1>1, <1>2, <1>3

(* Every claim is counted, and once.                                         *)
LEMMA EveryClaimCounts ==
  ASSUME NEW n \in Nat, NEW verdicts \in [1..n -> Verdicts]
  PROVE  /\ CountsOf(verdicts) \in [Verdicts -> 0..n]
         /\ AllClaims(CountsOf(verdicts)) = n
<1> DEFINE With(v) == {k \in DOMAIN verdicts : verdicts[k] = v}
           sup == With("supported")
           uns == With("unsupported")
           not == With("not_applicable")
<1>1. IsFiniteSet(1..n) /\ Cardinality(1..n) = n
  BY FS_Interval
<1>2. \A v \in Verdicts : IsFiniteSet(With(v)) /\ Cardinality(With(v)) \in 0..n
  <2> TAKE v \in Verdicts
  <2>1. With(v) \in SUBSET (1..n)
    OBVIOUS
  <2> HIDE DEF With
  <2> QED BY <1>1, <2>1, FS_Subset, FS_CardinalityType
<1>3. \A v \in Verdicts : CountsOf(verdicts)[v] = Cardinality(With(v))
  BY DEF CountsOf
<1>4. CountsOf(verdicts) \in [Verdicts -> 0..n]
  BY <1>2 DEF CountsOf
<1>5. Cardinality(sup \cup uns) = Cardinality(sup) + Cardinality(uns) /\ IsFiniteSet(sup \cup uns)
  <2>1. sup \cap uns = {} /\ IsFiniteSet(sup) /\ IsFiniteSet(uns)
    BY <1>2 DEF Verdicts
  <2> HIDE DEF sup, uns
  <2> QED BY <2>1, CountedApart
<1>6. Cardinality((sup \cup uns) \cup not) = Cardinality(sup \cup uns) + Cardinality(not)
  <2>1. (sup \cup uns) \cap not = {} /\ IsFiniteSet(not)
    BY <1>2 DEF Verdicts
  <2> HIDE DEF sup, uns, not
  <2> QED BY <1>5, <2>1, CountedApart
<1>7. (sup \cup uns) \cup not = 1..n
  BY DEF Verdicts
<1> QED BY <1>1, <1>3, <1>4, <1>5, <1>6, <1>7 DEF AllClaims, Verdicts
-----------------------------------------------------------------------------
(* Type correctness, the gate, and the order of a turn's phases.             *)

LEMMA InitTurnInv == Init => TurnInv
<1> SUFFICES ASSUME Init PROVE TurnInv
  OBVIOUS
<1> USE DEF Init, ChatInit, EscInit, CheckInit
<1>1. PICK old \in [Convs -> {<<>>, Unreadable}] :
        history = [c \in ConvIds |-> IF c \in Convs THEN old[c] ELSE <<>>]
  OBVIOUS
<1>2. history \in [ConvIds -> Seq(Turns) \cup {Unreadable}]
  <2>1. <<>> \in Seq(Turns)
    OBVIOUS
  <2>2. \A c \in Convs : old[c] \in {<<>>, Unreadable}
    OBVIOUS
  <2> QED BY <1>1, <2>1, <2>2
<1>3. ChatTypeOK
  BY <1>2, ChatAssumption DEF ChatTypeOK, ChatAssumption, Phases, ChatReplies, Sinks
<1>4. EscTypeOK
  BY EscalationAssumption DEF EscTypeOK, EscalationAssumption, Unassigned, Assignment
<1>5. TypeOK
  BY <1>3, <1>4, CheckAssumption
  DEF TypeOK, CheckAssumption, Stages, Outcomes, Statuses, Failed, Without
<1>6. GateOK
  <2>1. Holders = {}
    BY DEF Holders
  <2> QED BY <2>1, FS_EmptySet, CheckAssumption DEF GateOK, CheckAssumption
<1>7. ASSUME NEW t \in Turns PROVE TurnOK(t)
  BY <1>7, ChatAssumption DEF TurnOK, ChatAssumption, InProgress, Calling, ConvIds
<1> QED BY <1>5, <1>6, <1>7 DEF TurnInv

(* A step that leaves the checks alone leaves the gate as it was.            *)
LEMMA GateKept ==
  ASSUME GateOK, UNCHANGED <<stage, permits>>
  PROVE  GateOK'
<1>1. Holders' = Holders
  BY DEF Holders
<1> QED BY <1>1 DEF GateOK

LEMMA BeginTurnInv ==
  ASSUME TurnInv, NEW t \in Turns, BeginTurn(t), UNCHANGED <<escVars, checkVars>>
  PROVE  TurnInv'
<1> USE DEF escVars, checkVars
<1>1. GateOK'
  BY GateKept DEF TurnInv
<1>2. ASSUME NEW c \in ConvIds, NEW h \in Seq(Turns) \cup {Unreadable}, Begin(t, c, h),
             c \in Turns => c = t \/ conv[c] = c
      PROVE  TypeOK' /\ \A u \in Turns : TurnOK(u)'
  <2>1. TypeOK'
    BY <1>2, ReadHistory DEF TurnInv, TypeOK, ChatTypeOK, EscTypeOK, Begin, Enter, Phases
  <2>2. /\ phase[t] = "idle" /\ conv[t] = None /\ reply[t] = "none" /\ t \notin transcript
        /\ stage[t] = "none" /\ None \notin ConvIds
    BY <1>2, ChatAssumption DEF TurnInv, TypeOK, ChatTypeOK, TurnOK, Begin, ChatAssumption
  <2>3. /\ conv' = [conv EXCEPT ![t] = c] /\ phase' = [phase EXCEPT ![t] = "running"]
        /\ loaded' = [loaded EXCEPT ![t] = Readable(h)]
        /\ UNCHANGED <<transcript, reply, calls, stage>>
    BY <1>2 DEF Begin, Enter
  <2>4. conv \in [Turns -> ConvIds \cup {None}] /\ phase \in [Turns -> Phases]
        /\ loaded \in [Turns -> Seq(Turns)]
    BY DEF TurnInv, TypeOK, ChatTypeOK
  <2>5. TurnOK(t)'
    BY <1>2, <2>2, <2>3, <2>4 DEF TurnOK, InProgress, Calling
  <2>6. ASSUME NEW u \in Turns, u # t PROVE TurnOK(u)'
    <3>1. conv'[u] = conv[u] /\ phase'[u] = phase[u] /\ loaded'[u] = loaded[u]
      BY <2>3, <2>4, <2>6
    <3>2. TurnOK(u)
      BY DEF TurnInv
    <3>3. conv[u] \in Turns => conv[u] # t /\ conv'[conv[u]] = conv[conv[u]]
      BY <2>2, <2>3, <2>4, <3>2 DEF TurnOK, ConvIds
    <3> QED BY <2>3, <3>1, <3>2, <3>3 DEF TurnOK
  <2> QED BY <2>1, <2>5, <2>6
<1>3. CASE StartConversation(t)
  <2>1. t \in ConvIds /\ <<>> \in Seq(Turns)
    BY DEF ConvIds
  <2> QED BY <1>1, <1>2, <1>3, <2>1 DEF StartConversation, TurnInv
<1>4. CASE ResumeConversation(t)
  <2>1. PICK c \in Convs \cup {u \in Turns : conv[u] = u} : Begin(t, c, history[c])
    BY <1>4 DEF ResumeConversation
  <2>2. /\ c \in ConvIds /\ history[c] \in Seq(Turns) \cup {Unreadable}
        /\ c \in Turns => conv[c] = c
    BY <2>1, ChatAssumption DEF ConvIds, TurnInv, TypeOK, ChatTypeOK, ChatAssumption
  <2> QED BY <1>1, <1>2, <2>1, <2>2 DEF TurnInv
<1>5. CASE ConversationNotFound(t)
  <2>1. TypeOK'
    BY <1>5 DEF ConversationNotFound, Refuse, Reply, Enter, atRest, TurnInv, TypeOK,
            ChatTypeOK, EscTypeOK, Phases, ChatReplies
  <2>2. ASSUME NEW u \in Turns PROVE TurnOK(u)'
    BY <1>5 DEF ConversationNotFound, Refuse, Reply, Enter, atRest, TurnInv, TypeOK,
            ChatTypeOK, TurnOK, InProgress, Calling
  <2> QED BY <1>1, <2>1, <2>2 DEF TurnInv
<1> QED BY <1>3, <1>4, <1>5 DEF BeginTurn

(* A turn that is at work is not stored, and not checked, before it says so. *)
LEMMA AgentTurnInv ==
  ASSUME TurnInv, NEW t \in Turns, AgentStep(t), UNCHANGED <<escVars, checkVars>>
  PROVE  TurnInv'
<1> USE DEF escVars, checkVars
<1>1. GateOK'
  BY GateKept DEF TurnInv
<1>2. /\ phase[t] = "running" /\ conv[t] \in ConvIds /\ t \notin transcript
      /\ reply[t] = "none" /\ stage[t] = "none" /\ conv[t] # None
  BY ChatAssumption
  DEF AgentStep, SearchFaq, CallTool, ToolBreaks, MayCall, AgentFails, StoreTurn, TurnInv,
      TurnOK, InProgress, ChatAssumption
<1>3. CASE SearchFaq(t) \/ CallTool(t) \/ ToolBreaks(t)
  <2>1. calls'[t] \in 0..MaxToolCalls /\ calls' = [calls EXCEPT ![t] = calls[t] + 1]
    BY <1>3, ChatAssumption
    DEF SearchFaq, CallTool, ToolBreaks, MayCall, CountCall, TurnInv, TypeOK, ChatTypeOK, ChatAssumption
  <2>2. sink' \in [Turns -> Sinks] /\ aborted' \subseteq Turns
    BY <1>3 DEF SearchFaq, CallTool, ToolBreaks, SinkAfter, Sinks, TurnInv, TypeOK, ChatTypeOK
  <2>3. UNCHANGED <<history, transcript, conv, loaded, contested, phase, reply>>
    BY <1>3 DEF SearchFaq, CallTool, ToolBreaks, atRest
  <2>4. TypeOK'
    BY <2>1, <2>2, <2>3 DEF TurnInv, TypeOK, ChatTypeOK, EscTypeOK
  <2>5. ASSUME NEW u \in Turns PROVE TurnOK(u)'
    BY <1>2, <2>1, <2>3 DEF TurnInv, TypeOK, ChatTypeOK, TurnOK, Calling
  <2> QED BY <1>1, <2>4, <2>5 DEF TurnInv
<1>4. CASE AgentFails(t)
  <2>1. TypeOK'
    BY <1>4 DEF AgentFails, Refuse, Reply, Enter, atRest, TurnInv, TypeOK,
            ChatTypeOK, EscTypeOK, Phases, ChatReplies
  <2>2. ASSUME NEW u \in Turns PROVE TurnOK(u)'
    BY <1>2, <1>4 DEF AgentFails, Refuse, Reply, Enter, atRest, TurnInv, TypeOK,
            ChatTypeOK, TurnOK, InProgress, Calling
  <2> QED BY <1>1, <2>1, <2>2 DEF TurnInv
<1>5. CASE StoreTurn(t)
  <2>1. Append(loaded[t], t) \in Seq(Turns)
    BY AddedToHistory DEF TurnInv, TypeOK, ChatTypeOK
  <2>2. TypeOK'
    BY <1>5, <2>1 DEF StoreTurn, Enter, TurnInv, TypeOK, ChatTypeOK, EscTypeOK, Phases
  <2>3. ASSUME NEW u \in Turns PROVE TurnOK(u)'
    BY <1>2, <1>5 DEF StoreTurn, Enter, TurnInv, TypeOK, ChatTypeOK, TurnOK, InProgress, Calling
  <2> QED BY <1>1, <2>2, <2>3 DEF TurnInv
<1> QED BY <1>3, <1>4, <1>5 DEF AgentStep

(* The locals of a call that is over.                                        *)
LEMMA Forgotten ==
  ASSUME EscTypeOK, NEW t \in Turns, Forget(t)
  PROVE  assignment' \in [Turns -> Assignment] /\ attempt' \in [Turns -> {1, 2}]
  BY DEF Forget, EscTypeOK, Unassigned, Assignment
LEMMA EscalateTurnInv ==
  ASSUME TurnInv, NEW t \in Turns, Escalate(t), UNCHANGED checkVars
  PROVE  TurnInv'
<1> USE DEF checkVars
<1>1. GateOK'
  BY GateKept DEF TurnInv
<1>2. /\ phase[t] \in {"running"} \cup Calling /\ conv[t] \in ConvIds /\ t \notin transcript
      /\ reply[t] = "none" /\ stage[t] = "none" /\ conv[t] # None /\ calls[t] < MaxToolCalls
      /\ calls[t] \in 0..MaxToolCalls
  BY ChatAssumption
  DEF Escalate, EscalateLimited, EscalateCounted, EscalateAssign, EscalateAssignBreaks, Conclude,
      EscalateInsert, EscalateRefreshed, EscalateRetry, EscalateDegrades, MayCall, Calling,
      TurnInv, TypeOK, ChatTypeOK, TurnOK, InProgress, ChatAssumption
<1>3. UNCHANGED <<history, transcript, conv, loaded, contested, reply, sink, now>>
  BY DEF Escalate, EscalateLimited, EscalateCounted, EscalateAssign, EscalateAssignBreaks, Conclude,
      EscalateInsert, EscalateRefreshed, EscalateRetry, EscalateDegrades, atRest, escVars
<1>4. \E p \in {"running"} \cup Calling : phase' = [phase EXCEPT ![t] = p]
  <2>1. phase' = phase => phase' = [phase EXCEPT ![t] = phase[t]]
    BY DEF TurnInv, TypeOK, ChatTypeOK
  <2> QED BY <1>2, <2>1
      DEF Escalate, EscalateLimited, EscalateCounted, EscalateAssign, EscalateAssignBreaks, Conclude,
      EscalateInsert, EscalateRefreshed, EscalateRetry, EscalateDegrades, Enter, Calling
<1>5. \/ calls' = calls
      \/ calls' = [calls EXCEPT ![t] = calls[t] + 1] /\ phase'[t] = "running"
  BY <1>2, <1>4
  DEF Escalate, EscalateLimited, EscalateCounted, EscalateAssign, EscalateAssignBreaks, Conclude,
      EscalateInsert, EscalateRefreshed, EscalateRetry, EscalateDegrades, CountCall, MayCall,
      Enter, TurnInv, TypeOK, ChatTypeOK
<1>6. PICK p \in {"running"} \cup Calling : phase' = [phase EXCEPT ![t] = p]
  BY <1>4
<1>7. ChatTypeOK'
  <2>1. phase' \in [Turns -> Phases]
    BY <1>6 DEF TurnInv, TypeOK, ChatTypeOK, Phases, Calling
  <2>2. calls' \in [Turns -> 0..MaxToolCalls]
    <3>1. calls[t] + 1 \in 0..MaxToolCalls
      BY <1>2, ChatAssumption DEF ChatAssumption
    <3>2. calls \in [Turns -> 0..MaxToolCalls]
      BY DEF TurnInv, TypeOK, ChatTypeOK
    <3> QED BY <1>5, <3>1, <3>2
  <2>3. aborted' \subseteq Turns
    BY DEF Escalate, EscalateLimited, EscalateCounted, EscalateAssign, EscalateAssignBreaks,
      EscalateInsert, EscalateRefreshed, EscalateRetry, EscalateDegrades, TurnInv, TypeOK, ChatTypeOK
  <2> QED BY <1>3, <2>1, <2>2, <2>3 DEF TurnInv, TypeOK, ChatTypeOK
<1>8. EscTypeOK'
  <2> USE DEF EscTypeOK
  <2>1. EscTypeOK
    BY DEF TurnInv, TypeOK
  <2>2. CASE EscalateLimited(t) \/ EscalateCounted(t)
    BY <2>1, <2>2 DEF EscalateLimited, EscalateCounted, escVars
  <2>3. CASE EscalateAssign(t) \/ EscalateAssignBreaks(t)
    <3>1. PICK a \in Assignment : Conclude(t, a)
      BY <2>3, EscalationAssumption
      DEF EscalateAssign, EscalateAssignBreaks, AssignTo, Assignment, Unassigned, EscalationAssumption
    <3> QED BY <2>1, <3>1 DEF Conclude
  <2>4. CASE EscalateInsert(t)
    <3>1. NewRow(t) \in Escalation
      BY <1>2, <2>1 DEF NewRow, Escalation, RowIds, Assignment
    <3> QED BY <2>1, <2>4, <3>1 DEF EscalateInsert
  <2>5. CASE EscalateRefreshed(t)
    <3>1. <<t, calls[t], attempt[t]>> \in RowIds
      BY <1>2, <2>1 DEF RowIds
    <3> QED BY <2>1, <2>5, <3>1, Forgotten DEF EscalateRefreshed
  <2>6. CASE EscalateRetry(t)
    BY <2>1, <2>6 DEF EscalateRetry
  <2>7. CASE EscalateDegrades(t)
    BY <2>1, <2>7, Forgotten DEF EscalateDegrades, AnnouncedOnFailure
  <2> QED BY <2>2, <2>3, <2>4, <2>5, <2>6, <2>7 DEF Escalate
<1>9. TypeOK'
  BY <1>7, <1>8 DEF TurnInv, TypeOK
<1>10. ASSUME NEW u \in Turns PROVE TurnOK(u)'
  BY <1>2, <1>3, <1>5, <1>6 DEF TurnInv, TypeOK, ChatTypeOK, TurnOK, InProgress, Calling
<1> QED BY <1>1, <1>9, <1>10 DEF TurnInv

(* The end of a turn: answered, or broken off wherever it was.               *)
LEMMA AnswerTurnInv ==
  ASSUME TurnInv, NEW t \in Turns,
         \/ Respond(t)
         \/ TurnBreaks(t) /\ Forget(t) /\ UNCHANGED <<rows, published, now, checkVars>>
  PROVE  TurnInv'
<1> USE DEF checkVars
<1>1. CASE Respond(t)
  <2>1. /\ phase[t] = "stored" /\ t \in transcript /\ stage[t] = "none"
        /\ stage' \in {stage, [stage EXCEPT ![t] = "queued"]}
        /\ UNCHANGED <<atRest, calls, sink, escVars, claims, outcome, permits>>
        /\ Reply(t, "ok")
    BY <1>1 DEF Respond, TurnInv, TurnOK
  <2>2. TypeOK'
    BY <2>1 DEF Reply, Enter, atRest, escVars, TurnInv, TypeOK, ChatTypeOK, EscTypeOK,
            Phases, ChatReplies, Stages
  <2>3. Holders' = Holders
    BY <2>1 DEF Holders, TurnInv, TypeOK
  <2>4. GateOK'
    BY <2>1, <2>3 DEF GateOK, TurnInv
  <2>5. ASSUME NEW u \in Turns PROVE TurnOK(u)'
    BY <2>1 DEF Reply, Enter, atRest, TurnInv, TypeOK, ChatTypeOK, TurnOK, InProgress, Calling
  <2> QED BY <2>2, <2>4, <2>5 DEF TurnInv
<1>2. CASE TurnBreaks(t) /\ Forget(t) /\ UNCHANGED <<rows, published, now, checkVars>>
  <2>1. phase[t] \in InProgress \cup {"stored"} /\ conv[t] \in ConvIds /\ stage[t] = "none"
    BY <1>2 DEF TurnBreaks, TurnInv, TurnOK, InProgress
  <2>2. TypeOK'
    BY <1>2, Forgotten
    DEF TurnBreaks, Refuse, Reply, Enter, atRest, TurnInv, TypeOK, ChatTypeOK, EscTypeOK,
        Phases, ChatReplies
  <2>3. GateOK'
    BY <1>2, GateKept DEF TurnInv
  <2>4. ASSUME NEW u \in Turns PROVE TurnOK(u)'
    BY <1>2, <2>1 DEF TurnBreaks, Refuse, Reply, Enter, atRest, TurnInv, TypeOK, ChatTypeOK,
            TurnOK, InProgress, Calling
  <2> QED BY <2>2, <2>3, <2>4 DEF TurnInv
<1> QED BY <1>1, <1>2
(* A place in the gate is taken by one check, and given back by one that     *)
(* holds it.                                                                 *)
LEMMA GateEntered ==
  ASSUME TypeOK, GateOK, NEW t \in Turns, stage[t] = "queued", permits > 0,
         permits' = permits - 1, stage' = [stage EXCEPT ![t] = "splitting"]
  PROVE  GateOK' /\ permits' \in 0..MaxConcurrent
<1>1. Holders' = Holders \cup {t} /\ t \notin Holders
  BY DEF Holders, TypeOK
<1>2. IsFiniteSet(Holders') /\ Cardinality(Holders') = Cardinality(Holders) + 1
  BY <1>1, FS_AddElement DEF GateOK
<1>3. permits \in 0..MaxConcurrent /\ MaxConcurrent \in Nat /\ Cardinality(Holders) \in Nat
  BY FS_CardinalityType, CheckAssumption DEF TypeOK, GateOK, CheckAssumption
<1> QED BY <1>2, <1>3 DEF GateOK

LEMMA GateLeft ==
  ASSUME TypeOK, GateOK, NEW t \in Turns, NEW s \in Stages,
         stage[t] \in {"splitting", "judging"}, s \notin {"splitting", "judging"},
         permits' = permits + 1, stage' = [stage EXCEPT ![t] = s]
  PROVE  GateOK' /\ permits' \in 0..MaxConcurrent
<1>1. Holders' = Holders \ {t} /\ t \in Holders
  BY DEF Holders, TypeOK
<1>2. IsFiniteSet(Holders') /\ Cardinality(Holders') = Cardinality(Holders) - 1
  BY <1>1, FS_RemoveElement DEF GateOK
<1>3. /\ permits \in 0..MaxConcurrent /\ MaxConcurrent \in Nat
      /\ Cardinality(Holders) \in Nat /\ Cardinality(Holders') \in Nat
  BY <1>2, FS_CardinalityType, CheckAssumption DEF TypeOK, GateOK, CheckAssumption
<1> QED BY <1>2, <1>3 DEF GateOK

LEMMA GatePassedBy ==
  ASSUME TypeOK, GateOK, NEW t \in Turns, NEW s \in Stages,
         stage[t] \in {"splitting", "judging"} <=> s \in {"splitting", "judging"},
         permits' = permits, stage' = [stage EXCEPT ![t] = s]
  PROVE  GateOK' /\ permits' \in 0..MaxConcurrent
<1>1. Holders' = Holders
  BY DEF Holders, TypeOK
<1> QED BY <1>1 DEF GateOK, TypeOK

(* What a check concludes is an outcome, and it leaves the gate.             *)
LEMMA Concludes ==
  ASSUME TypeOK, GateOK, NEW t \in Turns, NEW o \in Outcomes,
         stage[t] \in {"splitting", "judging"}, Conclusion(t, o)
  PROVE  TypeOK' /\ GateOK' /\ stage' = [stage EXCEPT ![t] = "judged"]
<1>1. GateOK' /\ permits' \in 0..MaxConcurrent
  <2>1. permits' = permits + 1 /\ stage' = [stage EXCEPT ![t] = "judged"] /\ "judged" \in Stages
    BY DEF Conclusion, PermitsAfter, Stages
  <2> QED BY <2>1, GateLeft
<1> QED BY <1>1 DEF Conclusion, Background, turnVars, escVars, TypeOK, ChatTypeOK, EscTypeOK, Stages

LEMMA ConcludedOutcome ==
  ASSUME NEW n \in 0..MaxClaims, NEW counts \in [Verdicts -> 0..n], AllClaims(counts) = n
  PROVE  Concluded(counts) \in Outcomes
<1>1. n \in Nat /\ n <= MaxClaims /\ MaxClaims \in Nat
  BY CheckAssumption DEF CheckAssumption
<1>2. counts \in Counts
  BY <1>1 DEF Counts
<1>3. /\ counts["supported"] \in 0..n /\ counts["unsupported"] \in 0..n
      /\ counts["not_applicable"] \in 0..n
  BY DEF Verdicts
<1>4. counts["supported"] \in 0..MaxClaims /\ Checkable(counts) \in 0..MaxClaims
  BY <1>1, <1>3 DEF AllClaims, Checkable
<1> QED BY <1>2, <1>4 DEF Concluded, Outcomes, Statuses

LEMMA CheckTypes ==
  ASSUME TurnInv, NEW t \in Turns, Check(t)
  PROVE  /\ TypeOK' /\ GateOK' /\ UNCHANGED <<turnVars, escVars>>
         /\ \A u \in Turns : stage'[u] # "none" => stage[u] # "none"
<1> USE DEF TurnInv
<1>1. UNCHANGED <<turnVars, escVars>>
  BY DEF Check, EnterGate, NoContext, Split, NothingToCheck, CheckFails, Judge, Persist,
         Conclusion, Background
<1>2. CASE EnterGate(t)
  <2>1. GateOK' /\ permits' \in 0..MaxConcurrent
    BY <1>2, GateEntered DEF EnterGate
  <2>2. TypeOK'
    BY <1>2, <2>1 DEF EnterGate, Background, turnVars, escVars, TypeOK, ChatTypeOK, EscTypeOK, Stages
  <2> QED BY <1>1, <1>2, <2>1, <2>2 DEF EnterGate, TypeOK
<1>3. ASSUME NEW o \in Outcomes, stage[t] \in {"splitting", "judging"}, Conclusion(t, o)
      PROVE  /\ TypeOK' /\ GateOK'
             /\ \A u \in Turns : stage'[u] # "none" => stage[u] # "none"
  BY <1>3, Concludes DEF TypeOK
<1>4. CASE NoContext(t)
  <2>1. Without("no_context") \in Outcomes
    BY DEF Without, Outcomes, Statuses
  <2> QED BY <1>1, <1>3, <1>4, <2>1 DEF NoContext
<1>5. CASE Split(t)
  <2>1. PICK n \in 1..MaxClaims :
          claims' = [claims EXCEPT ![t] = n] /\ stage' = [stage EXCEPT ![t] = "judging"]
          /\ UNCHANGED <<Background, outcome, permits>>
    BY <1>5 DEF Split
  <2>2. GateOK' /\ permits' \in 0..MaxConcurrent
    BY <1>5, <2>1, GatePassedBy DEF Split, Stages
  <2>3. TypeOK'
    BY <2>1, <2>2, CheckAssumption
    DEF Background, turnVars, escVars, TypeOK, ChatTypeOK, EscTypeOK, Stages, CheckAssumption
  <2> QED BY <1>1, <1>5, <2>1, <2>2, <2>3 DEF Split, TypeOK
<1>6. CASE NothingToCheck(t)
  <2>1. [status |-> "no_checkable_claims", counts |-> NoCounts, score |-> None] \in Outcomes
    BY CheckAssumption DEF NoCounts, Outcomes, Statuses, Counts, CheckAssumption
  <2> QED BY <1>1, <1>3, <1>6, <2>1 DEF NothingToCheck
<1>7. CASE CheckFails(t)
  <2>1. Failed \in Outcomes
    BY DEF Failed, Without, Outcomes, Statuses
  <2> QED BY <1>1, <1>3, <1>7, <2>1 DEF CheckFails
<1>8. CASE Judge(t)
  <2>1. PICK batch \in Batches :
          /\ Aligned(claims[t], batch)
          /\ Conclusion(t, Concluded(CountsOf(InClaimOrder(claims[t], batch))))
    BY <1>8 DEF Judge
  <2> DEFINE n == claims[t]
             counts == CountsOf(InClaimOrder(n, batch))
  <2>2. n \in 0..MaxClaims /\ n \in Nat
    BY CheckAssumption DEF TypeOK, CheckAssumption
  <2>3. counts \in [Verdicts -> 0..n] /\ AllClaims(counts) = n
    BY <2>1, <2>2, OneVerdictEach, EveryClaimCounts
  <2>4. Concluded(counts) \in Outcomes
    BY <2>2, <2>3, ConcludedOutcome
  <2> QED BY <1>1, <1>3, <1>8, <2>1, <2>4 DEF Judge
<1>9. CASE Persist(t)
  <2>1. GateOK' /\ permits' \in 0..MaxConcurrent
    BY <1>9, GatePassedBy DEF Persist, Stages
  <2>2. TypeOK'
    BY <1>9, <2>1
    DEF Persist, Background, turnVars, escVars, TypeOK, ChatTypeOK, EscTypeOK, Stages
  <2> QED BY <1>1, <1>9, <2>1, <2>2 DEF Persist, TypeOK
<1> QED BY <1>2, <1>4, <1>5, <1>6, <1>7, <1>8, <1>9 DEF Check
LEMMA CheckTurnInv ==
  ASSUME TurnInv, NEW t \in Turns, Check(t)
  PROVE  TurnInv'
<1>1. /\ TypeOK' /\ GateOK' /\ UNCHANGED <<turnVars, escVars>>
      /\ \A u \in Turns : stage'[u] # "none" => stage[u] # "none"
  BY CheckTypes
<1>2. ASSUME NEW u \in Turns PROVE TurnOK(u)'
  BY <1>1 DEF TurnInv, TurnOK, turnVars
<1> QED BY <1>1, <1>2 DEF TurnInv

LEMMA LostTurnInv ==
  ASSUME TurnInv, NEW t \in Turns, CheckLost(t)
  PROVE  TurnInv'
<1> USE DEF TurnInv
<1>1. /\ stage[t] \in Unsettled /\ stage' = [stage EXCEPT ![t] = "lost"]
      /\ claims' = [claims EXCEPT ![t] = 0] /\ outcome' = [outcome EXCEPT ![t] = Failed]
      /\ UNCHANGED <<turnVars, escVars>>
      /\ permits' = permits + Cardinality({u \in {t} : stage[u] \in {"splitting", "judging"}})
  BY DEF CheckLost, Background, PermitsAfterLoss
<1>2. GateOK' /\ permits' \in 0..MaxConcurrent
  <2>1. CASE stage[t] \in {"splitting", "judging"}
    <3>1. {u \in {t} : stage[u] \in {"splitting", "judging"}} = {t}
      BY <2>1
    <3>2. permits' = permits + 1
      BY <1>1, <3>1, FS_Singleton
    <3> QED BY <1>1, <2>1, <3>2, GateLeft DEF Stages
  <2>2. CASE stage[t] \notin {"splitting", "judging"}
    <3>1. {u \in {t} : stage[u] \in {"splitting", "judging"}} = {}
      BY <2>2
    <3>2. permits \in Int /\ Cardinality({}) = 0
      BY FS_EmptySet, CheckAssumption DEF TypeOK, CheckAssumption
    <3>3. permits' = permits
      BY <1>1, <3>1, <3>2
    <3> QED BY <1>1, <2>2, <3>3, GatePassedBy DEF Stages
  <2> QED BY <2>1, <2>2
<1>3. TypeOK'
  <2>1. Failed \in Outcomes /\ 0 \in 0..MaxClaims
    BY CheckAssumption DEF Failed, Without, Outcomes, Statuses, CheckAssumption
  <2> QED BY <1>1, <1>2, <2>1 DEF turnVars, escVars, TypeOK, ChatTypeOK, EscTypeOK, Stages
<1>4. ASSUME NEW u \in Turns PROVE TurnOK(u)'
  BY <1>1 DEF TurnOK, turnVars, TypeOK, Unsettled
<1> QED BY <1>2, <1>3, <1>4

LEMMA TurnInvStep ==
  ASSUME TurnInv, [Next]_vars
  PROVE  TurnInv'
<1>1. ASSUME NEW t \in Turns, BeginTurn(t), UNCHANGED <<escVars, checkVars>> PROVE TurnInv'
  BY <1>1, BeginTurnInv
<1>2. ASSUME NEW t \in Turns, Proceed(t) PROVE TurnInv'
  BY <1>2, AgentTurnInv, EscalateTurnInv, AnswerTurnInv DEF Proceed
<1>3. ASSUME NEW t \in Turns, Check(t) PROVE TurnInv'
  BY <1>3, CheckTurnInv
<1>4. ASSUME NEW t \in Turns, CheckLost(t) PROVE TurnInv'
  BY <1>4, LostTurnInv
<1>5. CASE Tick /\ UNCHANGED checkVars
  <2>1. GateOK'
    BY <1>5, GateKept DEF checkVars, TurnInv
  <2>2. TypeOK'
    BY <1>5, EscalationAssumption
    DEF Tick, turnVars, checkVars, TurnInv, TypeOK, ChatTypeOK, EscTypeOK, EscalationAssumption
  <2>3. ASSUME NEW u \in Turns PROVE TurnOK(u)'
    BY <1>5 DEF Tick, turnVars, checkVars, TurnInv, TurnOK
  <2> QED BY <2>1, <2>2, <2>3 DEF TurnInv
<1>6. CASE UNCHANGED vars
  <2> USE <1>6 DEF vars, turnVars, escVars, checkVars
  <2>1. GateOK'
    BY GateKept DEF TurnInv
  <2>2. TypeOK'
    BY DEF TurnInv, TypeOK, ChatTypeOK, EscTypeOK
  <2>3. ASSUME NEW u \in Turns PROVE TurnOK(u)'
    BY DEF TurnInv, TurnOK
  <2> QED BY <2>1, <2>2, <2>3 DEF TurnInv
<1> QED BY <1>1, <1>2, <1>3, <1>4, <1>5, <1>6 DEF Next

LEMMA TurnInvariance == Spec => []TurnInv
<1>1. Init => TurnInv
  BY InitTurnInv
<1>2. TurnInv /\ [Next]_vars => TurnInv'
  BY TurnInvStep
<1> QED BY <1>1, <1>2, PTL DEF Spec

(* Every variable keeps its type: in particular no turn makes more tool      *)
(* calls than it may, and the gate lends out no more places than it has and  *)
(* never holds more, however the checks inside it end.                       *)
THEOREM TypeCorrect == Spec => []TypeOK
<1>1. TurnInv => TypeOK
  BY DEF TurnInv
<1> QED BY <1>1, TurnInvariance, PTL

-----------------------------------------------------------------------------
(* What is remembered of a conversation.                                     *)

(* Besides beginning and storing a turn, no step touches what is remembered, *)
(* and none puts a turn to work.                                             *)
Quiet ==
  /\ UNCHANGED atRest
  /\ \A u \in Turns : phase'[u] \in InProgress => phase[u] \in InProgress

LEMMA QuietSteps ==
  ASSUME TurnInv, [Next]_vars
  PROVE  \/ Quiet
         \/ \E t \in Turns : StartConversation(t) \/ ResumeConversation(t) \/ StoreTurn(t)
<1> USE DEF TurnInv, TypeOK, ChatTypeOK, Quiet
<1>1. ASSUME NEW t \in Turns, ConversationNotFound(t) PROVE Quiet
  BY <1>1 DEF ConversationNotFound, Refuse, Reply, Enter, atRest, InProgress
<1>2. ASSUME NEW t \in Turns, SearchFaq(t) \/ CallTool(t) \/ ToolBreaks(t) PROVE Quiet
  BY <1>2 DEF SearchFaq, CallTool, ToolBreaks, atRest
<1>3. ASSUME NEW t \in Turns, AgentFails(t) \/ TurnBreaks(t) PROVE Quiet
  BY <1>3 DEF AgentFails, TurnBreaks, Refuse, Reply, Enter, atRest, InProgress
<1>4. ASSUME NEW t \in Turns, Escalate(t) PROVE Quiet
  BY <1>4 DEF Escalate, EscalateLimited, EscalateCounted, EscalateAssign, EscalateAssignBreaks,
      Conclude, EscalateInsert, EscalateRefreshed, EscalateRetry, EscalateDegrades, MayCall,
      Enter, atRest, InProgress
<1>5. ASSUME NEW t \in Turns, Respond(t) PROVE Quiet
  BY <1>5 DEF Respond, Reply, Enter, atRest, InProgress
<1>6. ASSUME NEW t \in Turns, Check(t) \/ CheckLost(t) PROVE Quiet
  BY <1>6 DEF Check, EnterGate, NoContext, Split, NothingToCheck, CheckFails, Judge, Persist,
         Conclusion, CheckLost, Background, turnVars, atRest
<1>7. CASE Tick \/ UNCHANGED vars
  BY <1>7 DEF Tick, vars, turnVars, atRest
<1> QED BY <1>1, <1>2, <1>3, <1>4, <1>5, <1>6, <1>7 DEF Next, BeginTurn, Proceed, AgentStep
(* The turns of a memory are stored turns of one conversation, each once.    *)
Known(h, c) ==
  /\ Once(h)
  /\ \A m \in Members(h) : m \in transcript /\ m \in Turns /\ conv[m] = c

LEMMA HistoryIsKnown ==
  HistoryInv <=> /\ \A c \in ConvIds : Known(history[c], c)
                 /\ \A t \in Turns : Known(loaded[t], conv[t])
  BY DEF HistoryInv, HistoryIsTranscribed, Known, Once, InConversation

LEMMA InitHistoryInv == Init => HistoryInv
<1> SUFFICES ASSUME Init PROVE HistoryInv
  OBVIOUS
<1> USE DEF Init, ChatInit
<1>1. \A c \in ConvIds : history[c] \in {<<>>, Unreadable}
  OBVIOUS
<1>2. ASSUME NEW c \in ConvIds PROVE Members(history[c]) = {} /\ Once(history[c])
  <2>1. Readable(history[c]) = <<>>
    BY <1>1 DEF Readable
  <2>2. Members(history[c]) = {}
    BY <2>1 DEF Members
  <2> QED BY <2>1, <2>2, FS_EmptySet DEF Once
<1>3. ASSUME NEW t \in Turns PROVE Members(loaded[t]) = {} /\ Once(loaded[t])
  BY NobodyYet
<1> QED BY <1>2, <1>3, HistoryIsKnown DEF Known

(* A turn that begins has not been in any conversation.                      *)
LEMMA BeginnerUnknown ==
  ASSUME TurnInv, NEW t \in Turns, NEW c \in ConvIds, NEW h, Begin(t, c, h)
  PROVE  /\ conv[t] = None /\ c # None /\ t \notin transcript
         /\ conv'[t] = c /\ phase'[t] = "running" /\ loaded'[t] = Readable(h)
         /\ \A u \in Turns \ {t} :
              conv'[u] = conv[u] /\ phase'[u] = phase[u] /\ loaded'[u] = loaded[u]
         /\ UNCHANGED <<history, transcript>>
  BY ChatAssumption DEF Begin, Enter, TurnInv, TypeOK, ChatTypeOK, TurnOK, ChatAssumption

LEMMA BeginHistory ==
  ASSUME TurnInv, HistoryInv, NEW t \in Turns, NEW c \in ConvIds,
         NEW h \in Seq(Turns) \cup {Unreadable}, Begin(t, c, h), Known(h, c)
  PROVE  HistoryInv'
<1>1. /\ conv[t] = None /\ c # None /\ t \notin transcript
      /\ conv'[t] = c /\ phase'[t] = "running" /\ loaded'[t] = Readable(h)
      /\ \A u \in Turns \ {t} :
              conv'[u] = conv[u] /\ phase'[u] = phase[u] /\ loaded'[u] = loaded[u]
      /\ UNCHANGED <<history, transcript>>
  BY BeginnerUnknown
<1>2. \A d \in ConvIds : Known(history[d], d)
  BY HistoryIsKnown
<1>3. (\A d \in ConvIds : Known(history[d], d))'
  BY <1>1, <1>2 DEF Known, Once
<1>4. Known(loaded[t], conv[t])'
  <2>1. Members(loaded'[t]) = Members(h) /\ Once(loaded'[t])
    BY <1>1, ReadHistory DEF Known, Once
  <2>2. \A m \in Members(h) : m # t
    BY <1>1 DEF Known
  <2> QED BY <1>1, <2>1, <2>2 DEF Known
<1>5. ASSUME NEW u \in Turns \ {t} PROVE Known(loaded[u], conv[u])'
  <2>1. Known(loaded[u], conv[u]) /\ loaded'[u] = loaded[u] /\ conv'[u] = conv[u]
    BY <1>1, HistoryIsKnown
  <2>2. \A m \in Members(loaded[u]) : m # t
    BY <1>1, <2>1 DEF Known
  <2> QED BY <1>1, <2>1, <2>2 DEF Known, Once
<1>6. (\A u \in Turns : Known(loaded[u], conv[u]))'
  BY <1>4, <1>5
<1> QED BY <1>3, <1>6 DEF HistoryInv, HistoryIsTranscribed, Known, Once, InConversation

(* What a turn that stores itself has loaded, and what it leaves.            *)
LEMMA Stored ==
  ASSUME TurnInv, NEW t \in Turns, StoreTurn(t)
  PROVE  /\ conv[t] \in ConvIds /\ t \notin transcript /\ loaded[t] \in Seq(Turns)
         /\ history'[conv[t]] = Append(loaded[t], t)
         /\ \A d \in ConvIds : d # conv[t] => history'[d] = history[d]
         /\ transcript' = transcript \cup {t} /\ UNCHANGED <<conv, loaded, contested>>
         /\ phase[t] = "running" /\ phase' = [phase EXCEPT ![t] = "stored"]
  BY DEF StoreTurn, Enter, TurnInv, TypeOK, ChatTypeOK, TurnOK, InProgress

LEMMA StoreHistory ==
  ASSUME TurnInv, HistoryInv, NEW t \in Turns, StoreTurn(t)
  PROVE  HistoryInv'
<1> DEFINE c == conv[t]
<1>1. /\ c \in ConvIds /\ t \notin transcript /\ loaded[t] \in Seq(Turns)
      /\ history'[c] = Append(loaded[t], t)
      /\ \A d \in ConvIds : d # c => history'[d] = history[d]
      /\ transcript' = transcript \cup {t} /\ UNCHANGED <<conv, loaded>>
  BY Stored
<1>2. /\ \A d \in ConvIds : Known(history[d], d)
      /\ \A u \in Turns : Known(loaded[u], conv[u])
  BY HistoryIsKnown
<1>3. Known(history[c], c)'
  <2>1. Known(loaded[t], c) /\ t \notin Members(loaded[t])
    BY <1>1, <1>2 DEF Known
  <2>2. /\ Members(history'[c]) = Members(loaded[t]) \cup {t} /\ Once(history'[c])
    BY <1>1, <2>1, AddedToHistory DEF Known
  <2> QED BY <1>1, <2>1, <2>2 DEF Known
<1>4. ASSUME NEW d \in ConvIds, d # c PROVE Known(history[d], d)'
  BY <1>1, <1>2, <1>4 DEF Known, Once
<1>5. ASSUME NEW u \in Turns PROVE Known(loaded[u], conv[u])'
  <2>1. Known(loaded[u], conv[u])
    BY <1>2
  <2> QED BY <1>1, <2>1 DEF Known, Once
<1>6. (\A d \in ConvIds : Known(history[d], d))'
  BY <1>1, <1>3, <1>4
<1>7. (\A u \in Turns : Known(loaded[u], conv[u]))'
  BY <1>5
<1> QED BY <1>6, <1>7 DEF HistoryInv, HistoryIsTranscribed, Known, Once, InConversation

(* What a conversation that can be resumed remembers.                        *)
LEMMA Resumable ==
  ASSUME TurnInv, NEW c \in Convs \cup {u \in Turns : conv[u] = u}
  PROVE  c \in ConvIds /\ history[c] \in Seq(Turns) \cup {Unreadable}
  BY DEF ConvIds, TurnInv, TypeOK, ChatTypeOK

LEMMA HistoryInvStep ==
  ASSUME TurnInv, HistoryInv, [Next]_vars
  PROVE  HistoryInv'
<1>1. CASE Quiet
  BY <1>1 DEF Quiet, atRest, HistoryInv, HistoryIsTranscribed, InConversation, Once
<1>2. ASSUME NEW t \in Turns, StartConversation(t) PROVE HistoryInv'
  <2>1. /\ t \in ConvIds /\ <<>> \in Seq(Turns) /\ Known(<<>>, t)
        /\ Begin(t, t, <<>>)
    BY <1>2, NobodyYet DEF StartConversation, ConvIds, Known
  <2> QED BY <2>1, BeginHistory
<1>3. ASSUME NEW t \in Turns, ResumeConversation(t) PROVE HistoryInv'
  <2>1. PICK c \in Convs \cup {u \in Turns : conv[u] = u} : Begin(t, c, history[c])
    BY <1>3 DEF ResumeConversation
  <2>2. c \in ConvIds /\ history[c] \in Seq(Turns) \cup {Unreadable}
    BY Resumable
  <2>3. Known(history[c], c)
    BY <2>2, HistoryIsKnown
  <2> QED BY <2>1, <2>2, <2>3, BeginHistory
<1>4. ASSUME NEW t \in Turns, StoreTurn(t) PROVE HistoryInv'
  BY <1>4, StoreHistory
<1> QED BY <1>1, <1>2, <1>3, <1>4, QuietSteps

LEMMA HistoryInvariance == Spec => []HistoryInv
<1>1. Init => HistoryInv
  BY InitHistoryInv
<1>2. TurnInv /\ HistoryInv /\ [Next]_vars => HistoryInv'
  BY HistoryInvStep
<1> QED BY <1>1, <1>2, TurnInvariance, PTL DEF Spec

(* The agent of a conversation remembers stored turns of that conversation   *)
(* only, each of them once, whatever turns overlap and wherever they break.  *)
THEOREM MemoryIsTranscribed == Spec => []HistoryIsTranscribed
<1>1. HistoryInv => HistoryIsTranscribed
  BY DEF HistoryInv
<1> QED BY <1>1, HistoryInvariance, PTL

(* A turn that was answered with a failure has stored no message, and is     *)
(* remembered in no conversation.                                            *)
THEOREM FailureLeavesNothing == Spec => []FailedTurnLeavesNothing
<1>1. TurnInv /\ HistoryInv => FailedTurnLeavesNothing
  <2> SUFFICES ASSUME TurnInv, HistoryInv, NEW t \in Turns,
                      reply[t] \in {"agent_unavailable", "conversation_not_found"}
               PROVE  t \notin transcript /\ \A c \in ConvIds : t \notin Members(history[c])
    BY DEF FailedTurnLeavesNothing
  <2>1. t \notin transcript
    BY DEF TurnInv, TurnOK
  <2> QED BY <2>1, HistoryIsKnown DEF Known
<1> QED BY <1>1, TurnInvariance, HistoryInvariance, PTL
-----------------------------------------------------------------------------
(* Turns of a conversation that come one after the other.                    *)

LEMMA InitStepInv == Init => StepInv
<1> SUFFICES ASSUME Init PROVE StepInv
  OBVIOUS
<1>1. ASSUME NEW c \in ConvIds PROVE OpenTurns(c) = {} /\ InConversation(c) = {}
  BY <1>1, ChatAssumption
  DEF Init, ChatInit, OpenTurns, InConversation, ChatAssumption
<1>2. ASSUME NEW c \in ConvIds PROVE Members(history[c]) = {}
  <2>1. \A m \in Members(history[c]) : m \in transcript
    BY InitHistoryInv, HistoryIsKnown DEF Known
  <2> QED BY <2>1 DEF Init, ChatInit
<1> QED BY <1>1, <1>2 DEF StepInv, AloneOK, InStep

LEMMA QuietSteadies ==
  ASSUME StepInv, Quiet
  PROVE  StepInv'
<1>1. /\ UNCHANGED <<history, transcript, conv, loaded, contested>>
      /\ \A c : InConversation(c)' = InConversation(c)
      /\ \A c : OpenTurns(c)' \subseteq OpenTurns(c)
  BY DEF Quiet, atRest, InConversation, OpenTurns
<1>2. AloneOK'
  BY <1>1 DEF StepInv, AloneOK
<1>3. InStep'
  BY <1>1 DEF StepInv, InStep
<1> QED BY <1>2, <1>3 DEF StepInv

LEMMA BeginSteps ==
  ASSUME TurnInv, StepInv, NEW t \in Turns, NEW c \in ConvIds,
         NEW h \in Seq(Turns) \cup {Unreadable}, Begin(t, c, h),
         c \notin contested => Members(h) = Members(history[c])
  PROVE  StepInv'
<1>1. /\ conv[t] = None /\ c # None /\ t \notin transcript
      /\ conv'[t] = c /\ phase'[t] = "running" /\ loaded'[t] = Readable(h)
      /\ \A u \in Turns \ {t} :
              conv'[u] = conv[u] /\ phase'[u] = phase[u] /\ loaded'[u] = loaded[u]
      /\ UNCHANGED <<history, transcript>>
  BY BeginnerUnknown
<1>2. /\ contested \subseteq contested'
      /\ c \notin contested' => OpenTurns(c) = {}
  BY DEF Begin
<1>3. ASSUME NEW d \in ConvIds, d # c
      PROVE  OpenTurns(d)' = OpenTurns(d) /\ InConversation(d)' = InConversation(d)
             /\ \A u \in OpenTurns(d) : loaded'[u] = loaded[u]
  BY <1>1, <1>3, ChatAssumption DEF OpenTurns, InConversation, ChatAssumption
<1>4. InConversation(c)' = InConversation(c) \cup {t} /\ OpenTurns(c)' = OpenTurns(c) \cup {t}
  BY <1>1 DEF OpenTurns, InConversation, InProgress
<1>5. Members(loaded'[t]) = Members(h)
  BY <1>1, ReadHistory
<1>6. AloneOK'
  <2>1. ASSUME NEW d \in ConvIds, d \notin contested'
        PROVE  /\ \A u, v \in OpenTurns(d)' : u = v
               /\ \A u \in OpenTurns(d)' : Members(loaded'[u]) = Members(history'[d])
    <3>1. CASE d = c
      BY <1>1, <1>2, <1>4, <1>5, <2>1, <3>1
    <3>2. CASE d # c
      BY <1>1, <1>2, <1>3, <2>1, <3>2 DEF StepInv, AloneOK
    <3> QED BY <3>1, <3>2
  <2> QED BY <2>1 DEF AloneOK
<1>7. InStep'
  <2>1. ASSUME NEW d \in ConvIds, d \notin contested'
        PROVE  Members(history'[d]) = transcript' \cap InConversation(d)'
    <3>1. Members(history[d]) = transcript \cap InConversation(d)
      BY <1>2, <2>1 DEF StepInv, InStep
    <3> QED BY <1>1, <1>3, <1>4, <3>1
  <2> QED BY <2>1 DEF InStep
<1> QED BY <1>6, <1>7 DEF StepInv

LEMMA StoreSteps ==
  ASSUME TurnInv, StepInv, NEW t \in Turns, StoreTurn(t)
  PROVE  StepInv'
<1> DEFINE c == conv[t]
<1>1. /\ c \in ConvIds /\ t \notin transcript /\ loaded[t] \in Seq(Turns)
      /\ history'[c] = Append(loaded[t], t)
      /\ \A d \in ConvIds : d # c => history'[d] = history[d]
      /\ transcript' = transcript \cup {t} /\ UNCHANGED <<conv, loaded, contested>>
      /\ phase[t] = "running" /\ phase' = [phase EXCEPT ![t] = "stored"]
  BY Stored
<1>2. \A d : InConversation(d)' = InConversation(d)
  BY <1>1 DEF InConversation
<1>3. t \in OpenTurns(c) /\ t \in InConversation(c)
  BY <1>1 DEF OpenTurns, InConversation, InProgress
<1>4. \A d : OpenTurns(d)' = OpenTurns(d) \ {t}
  BY <1>1 DEF OpenTurns, InConversation, InProgress, TurnInv, TypeOK, ChatTypeOK
<1>5. Members(history'[c]) = Members(loaded[t]) \cup {t}
  BY <1>1, AddedToHistory
<1>6. AloneOK'
  <2>1. ASSUME NEW d \in ConvIds, d \notin contested
        PROVE  /\ \A u, v \in OpenTurns(d)' : u = v
               /\ \A u \in OpenTurns(d)' : Members(loaded'[u]) = Members(history'[d])
    <3>1. /\ \A u, v \in OpenTurns(d) : u = v
          /\ \A u \in OpenTurns(d) : Members(loaded[u]) = Members(history[d])
      BY <2>1 DEF StepInv, AloneOK
    <3>2. CASE d = c
      BY <1>3, <1>4, <3>1, <3>2
    <3>3. CASE d # c
      BY <1>1, <1>4, <3>1, <3>3
    <3> QED BY <3>2, <3>3
  <2> QED BY <1>1, <2>1 DEF AloneOK
<1>7. InStep'
  <2>1. ASSUME NEW d \in ConvIds, d \notin contested
        PROVE  Members(history'[d]) = transcript' \cap InConversation(d)
    <3>1. Members(history[d]) = transcript \cap InConversation(d)
      BY <2>1 DEF StepInv, InStep
    <3>2. CASE d = c
      <4>1. Members(loaded[t]) = Members(history[d])
        BY <1>3, <2>1, <3>2 DEF StepInv, AloneOK
      <4> QED BY <1>1, <1>3, <1>5, <3>1, <3>2, <4>1
    <3>3. CASE d # c
      <4>1. t \notin InConversation(d)
        BY <3>3 DEF InConversation
      <4> QED BY <1>1, <3>1, <3>3, <4>1
    <3> QED BY <3>2, <3>3
  <2> QED BY <1>1, <1>2, <2>1 DEF InStep
<1> QED BY <1>6, <1>7 DEF StepInv

LEMMA StepInvStep ==
  ASSUME TurnInv, StepInv, [Next]_vars
  PROVE  StepInv'
<1>1. CASE Quiet
  BY <1>1, QuietSteadies
<1>2. ASSUME NEW t \in Turns, StartConversation(t) PROVE StepInv'
  <2>1. t \in ConvIds /\ <<>> \in Seq(Turns) /\ Members(<<>>) = {} /\ Begin(t, t, <<>>)
    BY <1>2, NobodyYet DEF StartConversation, ConvIds
  <2>2. conv[t] = None /\ None \notin Turns
    BY <2>1, BeginnerUnknown, ChatAssumption DEF ChatAssumption, ConvIds
  <2>3. InConversation(t) = {}
    BY <2>2 DEF InConversation, TurnInv, TurnOK
  <2>4. t \notin contested => Members(history[t]) = {}
    BY <2>1, <2>3 DEF StepInv, InStep
  <2> QED BY <2>1, <2>4, BeginSteps
<1>3. ASSUME NEW t \in Turns, ResumeConversation(t) PROVE StepInv'
  <2>1. PICK c \in Convs \cup {u \in Turns : conv[u] = u} : Begin(t, c, history[c])
    BY <1>3 DEF ResumeConversation
  <2>2. c \in ConvIds /\ history[c] \in Seq(Turns) \cup {Unreadable}
    BY Resumable
  <2> QED BY <2>1, <2>2, BeginSteps
<1>4. ASSUME NEW t \in Turns, StoreTurn(t) PROVE StepInv'
  BY <1>4, StoreSteps
<1> QED BY <1>1, <1>2, <1>3, <1>4, QuietSteps

LEMMA StepInvariance == Spec => []StepInv
<1>1. Init => StepInv
  BY InitStepInv
<1>2. TurnInv /\ StepInv /\ [Next]_vars => StepInv'
  BY StepInvStep
<1> QED BY <1>1, <1>2, TurnInvariance, PTL DEF Spec

(* A conversation whose turns never overlapped remembers exactly the turns   *)
(* its transcript shows.                                                     *)
THEOREM MemoryIsInStep == Spec => []InStep
<1>1. StepInv => InStep
  BY DEF StepInv
<1> QED BY <1>1, StepInvariance, PTL
-----------------------------------------------------------------------------
(* Escalations: what is announced.                                           *)

(* Besides inserting a row and announcing one, no step touches the rows or   *)
(* the events, or brings a call to where its row has been committed.         *)
Silent ==
  /\ rows' = rows /\ published' = published
  /\ \A u \in Turns : calls'[u] >= calls[u]
  /\ \A u \in Turns : phase'[u] = "logged" =>
       phase[u] = "logged" /\ calls'[u] = calls[u] /\ attempt'[u] = attempt[u]

LEMMA SilentSteps ==
  ASSUME TurnInv, [Next]_vars
  PROVE  Silent \/ \E t \in Turns : EscalateInsert(t) \/ EscalateRefreshed(t)
<1>1. /\ calls \in [Turns -> 0..MaxToolCalls] /\ phase \in [Turns -> Phases]
      /\ attempt \in [Turns -> {1, 2}] /\ MaxToolCalls \in Nat
      /\ \A u \in Turns : calls[u] \in Nat
  BY ChatAssumption DEF TurnInv, TypeOK, ChatTypeOK, EscTypeOK, ChatAssumption
<1> USE <1>1 DEF Silent
<1>2. ASSUME NEW t \in Turns, BeginTurn(t), UNCHANGED <<escVars, checkVars>> PROVE Silent
  BY <1>2 DEF BeginTurn, StartConversation, ResumeConversation, Begin, ConversationNotFound,
              Refuse, Reply, Enter, atRest, escVars
<1>3. ASSUME NEW t \in Turns, AgentStep(t), UNCHANGED <<escVars, checkVars>> PROVE Silent
  <2>1. CASE SearchFaq(t) \/ CallTool(t) \/ ToolBreaks(t)
    BY <1>3, <2>1 DEF SearchFaq, CallTool, ToolBreaks, MayCall, CountCall, escVars
  <2>2. CASE AgentFails(t) \/ StoreTurn(t)
    BY <1>3, <2>2 DEF AgentFails, StoreTurn, Refuse, Reply, Enter, escVars
  <2> QED BY <1>3, <2>1, <2>2 DEF AgentStep
<1>4. ASSUME NEW t \in Turns, Escalate(t)
      PROVE  Silent \/ EscalateInsert(t) \/ EscalateRefreshed(t)
  <2>1. CASE EscalateLimited(t) \/ EscalateCounted(t)
    BY <2>1 DEF EscalateLimited, EscalateCounted, MayCall, CountCall, Enter, atRest, escVars
  <2>2. CASE EscalateAssign(t) \/ EscalateAssignBreaks(t)
    BY <2>2 DEF EscalateAssign, EscalateAssignBreaks, Conclude, Enter, atRest
  <2>3. CASE EscalateRetry(t)
    BY <2>3 DEF EscalateRetry, Enter, atRest
  <2>4. CASE EscalateDegrades(t)
    BY <2>4 DEF EscalateDegrades, AnnouncedOnFailure, Forget, CountCall, Enter, atRest
  <2> QED BY <1>4, <2>1, <2>2, <2>3, <2>4 DEF Escalate
<1>5. ASSUME NEW t \in Turns, Respond(t) PROVE Silent
  BY <1>5 DEF Respond, Reply, Enter, atRest, escVars
<1>6. ASSUME NEW t \in Turns, TurnBreaks(t), Forget(t), UNCHANGED <<rows, published, now, checkVars>>
      PROVE  Silent
  <2>1. /\ phase' = [phase EXCEPT ![t] = "done"] /\ attempt' = [attempt EXCEPT ![t] = 1]
        /\ UNCHANGED <<calls, rows, published>>
    BY <1>6 DEF TurnBreaks, Refuse, Reply, Enter, Forget
  <2>2. ASSUME NEW u \in Turns, phase'[u] = "logged"
        PROVE  phase[u] = "logged" /\ calls'[u] = calls[u] /\ attempt'[u] = attempt[u]
    BY <2>1, <2>2
  <2> QED BY <2>1, <2>2
<1>7. ASSUME NEW t \in Turns, Check(t) \/ CheckLost(t) PROVE Silent
  <2>1. UNCHANGED <<turnVars, escVars>>
    BY <1>7 DEF Check, EnterGate, NoContext, Split, NothingToCheck, CheckFails, Judge, Persist,
           Conclusion, CheckLost, Background
  <2> QED BY <2>1 DEF turnVars, escVars
<1>8. CASE Tick \/ UNCHANGED vars
  BY <1>8 DEF Tick, vars, turnVars, escVars
<1> QED BY <1>2, <1>3, <1>4, <1>5, <1>6, <1>7, <1>8 DEF Next, Proceed

LEMMA InitAnnounceInv == Init => AnnounceInv
  BY DEF Init, ChatInit, EscInit, AnnounceInv, AnnouncedOnce, CallOK

LEMMA AnnounceInvStep ==
  ASSUME TurnInv, AnnounceInv, [Next]_vars
  PROVE  AnnounceInv'
<1>1. /\ \A u \in Turns : calls[u] \in Nat /\ calls'[u] \in Nat
      /\ published \subseteq RowIds
      /\ \A i \in published : i[1] \in Turns /\ i[2] \in Nat
  <2>1. TurnInv'
    BY TurnInvStep
  <2>2. \A u \in Turns : calls[u] \in Nat /\ calls'[u] \in Nat
    BY <2>1, ChatAssumption DEF TurnInv, TypeOK, ChatTypeOK, ChatAssumption
  <2>3. published \subseteq RowIds
    BY DEF TurnInv, TypeOK, EscTypeOK
  <2> QED BY <2>2, <2>3, ChatAssumption DEF RowIds, ChatAssumption
<1>2. CASE Silent
  <2>1. AnnouncedOnce'
    BY <1>2 DEF Silent, AnnounceInv, AnnouncedOnce
  <2>2. ASSUME NEW u \in Turns PROVE CallOK(u)'
    BY <1>1, <1>2 DEF Silent, AnnounceInv, CallOK
  <2> QED BY <2>1, <2>2 DEF AnnounceInv
<1>3. ASSUME NEW t \in Turns, EscalateInsert(t) PROVE AnnounceInv'
  <2>1. /\ phase' = [phase EXCEPT ![t] = "logged"] /\ rows' = rows \cup {NewRow(t)}
        /\ UNCHANGED <<calls, attempt, published>>
        /\ NewRow(t).id = <<t, calls[t], attempt[t]>>
    BY <1>3 DEF EscalateInsert, Enter, NewRow
  <2>2. AnnouncedOnce'
    BY <2>1 DEF AnnounceInv, AnnouncedOnce
  <2>3. ASSUME NEW u \in Turns PROVE CallOK(u)'
    BY <2>1 DEF AnnounceInv, CallOK, TurnInv, TypeOK, ChatTypeOK
  <2> QED BY <2>2, <2>3 DEF AnnounceInv
<1>4. ASSUME NEW t \in Turns, EscalateRefreshed(t) PROVE AnnounceInv'
  <2> DEFINE id == <<t, calls[t], attempt[t]>>
  <2>1. /\ phase[t] = "logged" /\ phase' = [phase EXCEPT ![t] = "running"]
        /\ rows' = rows /\ published' = published \cup {id}
        /\ calls' = [calls EXCEPT ![t] = calls[t] + 1]
        /\ attempt' = [attempt EXCEPT ![t] = 1]
    BY <1>4 DEF EscalateRefreshed, Enter, CountCall, Forget
  <2>2. /\ \E r \in rows : r.id = id
        /\ \A i \in published : i[1] = t => i[2] < calls[t]
        /\ id[1] = t /\ id[2] = calls[t]
    BY <2>1 DEF AnnounceInv, CallOK
  <2> HIDE DEF id
  <2>3. AnnouncedOnce'
    <3>1. published' \subseteq {r.id : r \in rows'}
      BY <2>1, <2>2 DEF AnnounceInv, AnnouncedOnce
    <3>2. \A i, j \in published' : i[1] = j[1] /\ i[2] = j[2] => i = j
      BY <1>1, <2>1, <2>2 DEF AnnounceInv, AnnouncedOnce
    <3> QED BY <3>1, <3>2 DEF AnnouncedOnce
  <2>4. ASSUME NEW u \in Turns PROVE CallOK(u)'
    <3>1. CASE u = t
      BY <1>1, <2>1, <2>2, <3>1 DEF CallOK, TurnInv, TypeOK, ChatTypeOK
    <3>2. CASE u # t
      BY <1>1, <2>1, <2>2, <3>2 DEF AnnounceInv, CallOK, TurnInv, TypeOK, ChatTypeOK, EscTypeOK
    <3> QED BY <3>1, <3>2
  <2> QED BY <2>3, <2>4 DEF AnnounceInv
<1> QED BY <1>2, <1>3, <1>4, SilentSteps

LEMMA AnnounceInvariance == Spec => []AnnounceInv
<1>1. Init => AnnounceInv
  BY InitAnnounceInv
<1>2. TurnInv /\ AnnounceInv /\ [Next]_vars => AnnounceInv'
  BY AnnounceInvStep
<1> QED BY <1>1, <1>2, TurnInvariance, PTL DEF Spec

(* An event is of a row that is committed, and of one row of a call at most, *)
(* also when the first insert took effect and was repeated.                  *)
THEOREM EscalationsAnnouncedOnce == Spec => []AnnouncedOnce
<1>1. AnnounceInv => AnnouncedOnce
  BY DEF AnnounceInv
<1> QED BY <1>1, AnnounceInvariance, PTL
-----------------------------------------------------------------------------
(* Escalations: how many there are.                                          *)

(* Besides an insert, no step writes a row, and each leaves a call where its *)
(* limit was checked, or has it checked.                                     *)
Moves(u) ==
  /\ phase'[u] \in Calling => conv'[u] = conv[u]
  /\ phase'[u] = "assigning" => phase[u] = "assigning" \/ Cardinality(Recent(u)) < Limit
  /\ phase'[u] = "logging" /\ attempt'[u] = 1 =>
       phase[u] = "assigning" \/ (phase[u] = "logging" /\ attempt[u] = 1)
  /\ phase'[u] = "logging" /\ attempt'[u] = 2 =>
       phase[u] = "logging" \/ (phase[u] = "logged" /\ attempt[u] = 1)
  /\ phase'[u] = "logged" => phase[u] = "logged" /\ attempt'[u] = attempt[u]

Unwritten ==
  /\ rows' = rows /\ now' >= now /\ contested \subseteq contested'
  /\ \A u \in Turns : Moves(u)

(* A turn that a step leaves alone, and one that is not in a call after it.  *)
LEMMA StandsStill ==
  ASSUME NEW u, conv'[u] = conv[u], phase'[u] = phase[u], attempt'[u] = attempt[u],
         attempt[u] \in {1, 2}
  PROVE  Moves(u)
  BY DEF Moves

LEMMA NotCalling ==
  ASSUME NEW u, phase'[u] \notin Calling
  PROVE  Moves(u)
  BY DEF Moves, Calling

LEMMA EscalateMoves ==
  ASSUME TurnInv, NEW t \in Turns, Escalate(t)
  PROVE  Unwritten \/ EscalateInsert(t)
<1>1. /\ phase \in [Turns -> Phases] /\ attempt \in [Turns -> {1, 2}]
      /\ \A u \in Turns : phase[u] \in Phases /\ attempt[u] \in {1, 2}
      /\ now \in Nat
  BY EscalationAssumption DEF TurnInv, TypeOK, ChatTypeOK, EscTypeOK, EscalationAssumption
<1> SUFFICES ASSUME ~EscalateInsert(t) PROVE Unwritten
  OBVIOUS
<1>2. UNCHANGED <<rows, now, conv, contested>>
  BY DEF Escalate, EscalateLimited, EscalateCounted, EscalateAssign, EscalateAssignBreaks,
      Conclude, EscalateRefreshed, EscalateRetry, EscalateDegrades, atRest, escVars
<1>3. ASSUME NEW u \in Turns, u # t PROVE phase'[u] = phase[u] /\ attempt'[u] = attempt[u]
  BY <1>1, <1>3
  DEF Escalate, EscalateLimited, EscalateCounted, EscalateAssign, EscalateAssignBreaks,
      Conclude, EscalateRefreshed, EscalateRetry, EscalateDegrades, Forget, Enter, escVars
<1>4. Moves(t)
  <2>1. CASE EscalateLimited(t)
    BY <1>1, <1>2, <2>1, StandsStill DEF EscalateLimited, escVars
  <2>2. CASE EscalateCounted(t)
    <3>1. phase'[t] = "assigning" /\ Cardinality(Recent(t)) < Limit
      BY <1>1, <2>2 DEF EscalateCounted, Enter
    <3> QED BY <1>2, <3>1 DEF Moves
  <2>3. CASE EscalateAssign(t) \/ EscalateAssignBreaks(t)
    <3>1. phase[t] = "assigning" /\ phase'[t] = "logging" /\ attempt'[t] = 1
      BY <1>1, <2>3 DEF EscalateAssign, EscalateAssignBreaks, Conclude, Enter
    <3> QED BY <1>2, <3>1 DEF Moves
  <2>4. CASE EscalateRefreshed(t) \/ EscalateDegrades(t)
    <3>1. phase'[t] = "running"
      BY <1>1, <2>4 DEF EscalateRefreshed, EscalateDegrades, Enter
    <3> QED BY <3>1, NotCalling DEF Calling
  <2>5. CASE EscalateRetry(t)
    <3>1. phase[t] \in {"logging", "logged"} /\ attempt[t] = 1 /\ phase'[t] = "logging" /\ attempt'[t] = 2
      BY <1>1, <2>5 DEF EscalateRetry, Enter
    <3> QED BY <1>2, <3>1 DEF Moves
  <2> QED BY <2>1, <2>2, <2>3, <2>4, <2>5 DEF Escalate
<1>5. ASSUME NEW u \in Turns, u # t PROVE Moves(u)
  BY <1>1, <1>2, <1>3, <1>5, StandsStill
<1> QED BY <1>1, <1>2, <1>4, <1>5 DEF Unwritten

LEMMA UnwrittenSteps ==
  ASSUME TurnInv, [Next]_vars
  PROVE  Unwritten \/ \E t \in Turns : EscalateInsert(t)
<1>1. /\ phase \in [Turns -> Phases] /\ conv \in [Turns -> ConvIds \cup {None}]
      /\ attempt \in [Turns -> {1, 2}]
      /\ \A u \in Turns : attempt[u] \in {1, 2}
      /\ now \in Nat
  BY EscalationAssumption DEF TurnInv, TypeOK, ChatTypeOK, EscTypeOK, EscalationAssumption
<1>2. ASSUME NEW t \in Turns, rows' = rows, now' = now, contested \subseteq contested',
             phase'[t] \notin Calling,
             \A u \in Turns \ {t} :
               conv'[u] = conv[u] /\ phase'[u] = phase[u] /\ attempt'[u] = attempt[u]
      PROVE  Unwritten
  BY <1>1, <1>2, StandsStill, NotCalling DEF Unwritten
<1>3. ASSUME rows' = rows, now' >= now, UNCHANGED <<contested, conv, phase, attempt>>
      PROVE  Unwritten
  BY <1>1, <1>3, StandsStill DEF Unwritten
<1>4. ASSUME NEW t \in Turns, BeginTurn(t), UNCHANGED <<escVars, checkVars>> PROVE Unwritten
  <2>1. CASE StartConversation(t) \/ ResumeConversation(t)
    <3>1. PICK c, h : Begin(t, c, h)
      BY <2>1 DEF StartConversation, ResumeConversation
    <3> QED BY <1>1, <1>2, <1>4, <3>1 DEF Begin, Enter, escVars, Calling
  <2>2. CASE ConversationNotFound(t)
    BY <1>1, <1>2, <1>4, <2>2 DEF ConversationNotFound, Refuse, Reply, Enter, atRest, escVars, Calling
  <2> QED BY <1>4, <2>1, <2>2 DEF BeginTurn
<1>5. ASSUME NEW t \in Turns, AgentStep(t), UNCHANGED <<escVars, checkVars>> PROVE Unwritten
  <2>1. CASE SearchFaq(t) \/ CallTool(t) \/ ToolBreaks(t)
    BY <1>1, <1>3, <1>5, <2>1 DEF SearchFaq, CallTool, ToolBreaks, atRest, escVars
  <2>2. CASE AgentFails(t) \/ StoreTurn(t)
    <3>1. /\ phase' = [phase EXCEPT ![t] = "done"] \/ phase' = [phase EXCEPT ![t] = "stored"]
          /\ UNCHANGED <<rows, now, contested, conv, attempt>>
      BY <1>5, <2>2 DEF AgentFails, StoreTurn, Refuse, Reply, Enter, atRest, escVars
    <3> QED BY <1>1, <1>2, <3>1 DEF Calling
  <2> QED BY <1>5, <2>1, <2>2 DEF AgentStep
<1>6. ASSUME NEW t \in Turns, Respond(t) PROVE Unwritten
  BY <1>1, <1>2, <1>6 DEF Respond, Reply, Enter, atRest, escVars, Calling
<1>7. ASSUME NEW t \in Turns, TurnBreaks(t), Forget(t), UNCHANGED <<rows, published, now, checkVars>>
      PROVE  Unwritten
  <2>1. /\ phase' = [phase EXCEPT ![t] = "done"] /\ attempt' = [attempt EXCEPT ![t] = 1]
        /\ UNCHANGED <<rows, now, contested, conv>>
    BY <1>7 DEF TurnBreaks, Refuse, Reply, Enter, Forget, atRest
  <2> QED BY <1>1, <1>2, <2>1 DEF Calling
<1>8. ASSUME NEW t \in Turns, Check(t) \/ CheckLost(t) PROVE Unwritten
  <2>1. UNCHANGED <<turnVars, escVars>>
    BY <1>8 DEF Check, EnterGate, NoContext, Split, NothingToCheck, CheckFails, Judge, Persist,
           Conclusion, CheckLost, Background
  <2> QED BY <1>1, <1>3, <2>1 DEF turnVars, escVars
<1>9. CASE Tick \/ UNCHANGED vars
  BY <1>1, <1>3, <1>9 DEF Tick, vars, turnVars, escVars
<1> QED BY <1>4, <1>5, <1>6, <1>7, <1>8, <1>9, EscalateMoves DEF Next, Proceed
(* The escalations of a conversation that an hour from x sees.               *)
Hour(c, x) == {r \in rows : r.conv = c /\ r.at \in x..(x + Window)}

LEMMA FiniteRows ==
  ASSUME IsFiniteSet(rows)
  PROVE  /\ \A u : IsFiniteSet(Recent(u)) /\ Cardinality(Recent(u)) \in Nat
         /\ \A c, x : IsFiniteSet(Hour(c, x)) /\ Cardinality(Hour(c, x)) \in Nat
<1>1. ASSUME NEW u PROVE IsFiniteSet(Recent(u)) /\ Cardinality(Recent(u)) \in Nat
  <2>1. Recent(u) \in SUBSET rows
    BY DEF Recent
  <2> QED BY <2>1, FS_Subset, FS_CardinalityType
<1>2. ASSUME NEW c, NEW x PROVE IsFiniteSet(Hour(c, x)) /\ Cardinality(Hour(c, x)) \in Nat
  <2>1. Hour(c, x) \in SUBSET rows
    BY DEF Hour
  <2> QED BY <2>1, FS_Subset, FS_CardinalityType
<1> QED BY <1>1, <1>2

LEMMA InitLimitInv == Init => LimitInv
<1> SUFFICES ASSUME Init PROVE LimitInv
  OBVIOUS
<1>1. rows = {} /\ \A t \in Turns : phase[t] = "idle"
  BY DEF Init, EscInit, ChatInit
<1>2. \A c, x : Hour(c, x) = {}
  BY <1>1 DEF Hour
<1>3. WithinLimit
  BY <1>2, FS_EmptySet, EscalationAssumption DEF WithinLimit, Hour, EscalationAssumption
<1> QED BY <1>1, <1>3, FS_EmptySet DEF LimitInv, LimitOK

(* As the clock goes on, a call sees fewer of the rows.                      *)
LEMMA UnwrittenLimits ==
  ASSUME TurnInv, TurnInv', LimitInv, Unwritten
  PROVE  LimitInv'
<1>1. /\ now \in Nat /\ now' \in Nat /\ Window \in Nat /\ Limit \in Nat
      /\ \A r \in rows : r.at \in Nat
      /\ \A u \in Turns : attempt[u] \in {1, 2}
      /\ IsFiniteSet(rows)
  BY EscalationAssumption
  DEF TurnInv, TypeOK, EscTypeOK, Escalation, EscalationAssumption, LimitInv
<1>2. /\ rows' = rows /\ now' >= now /\ contested \subseteq contested'
      /\ \A u \in Turns : Moves(u)
  BY DEF Unwritten
<1>3. ASSUME NEW u \in Turns PROVE LimitOK(u)'
  <2> SUFFICES ASSUME conv'[u] \notin contested', phase'[u] \in Calling PROVE LimitOK(u)'
    BY DEF LimitOK, Calling
  <2>1. conv'[u] = conv[u] /\ conv[u] \notin contested
    BY <1>2 DEF Moves
  <2>2. Recent(u)' \in SUBSET Recent(u)
    BY <1>1, <1>2, <2>1 DEF Recent
  <2>3. /\ Cardinality(Recent(u)') <= Cardinality(Recent(u))
        /\ Cardinality(Recent(u)') \in Nat /\ Cardinality(Recent(u)) \in Nat
    BY <1>1, <2>2, FiniteRows, FS_Subset, FS_CardinalityType
  <2>4. LimitOK(u) /\ Moves(u)
    BY <1>2 DEF LimitInv
  <2> QED BY <1>1, <2>1, <2>3, <2>4 DEF LimitOK, Moves
<1>4. \A r \in rows' : r.at <= now'
  BY <1>1, <1>2 DEF LimitInv
<1>5. WithinLimit'
  BY <1>2 DEF LimitInv, WithinLimit, Unwritten
<1> QED BY <1>1, <1>2, <1>3, <1>4, <1>5 DEF LimitInv

(* One row more, for the only call of an uncontested conversation.           *)
LEMMA InsertLimits ==
  ASSUME TurnInv, AloneOK, LimitInv, NEW t \in Turns, EscalateInsert(t)
  PROVE  LimitInv'
<1> DEFINE c == conv[t]
           new == NewRow(t)
<1>1. /\ now \in 0..MaxNow /\ MaxNow \in Nat /\ Window \in Nat /\ Limit \in Nat
      /\ \A r \in rows : r.at \in Nat
      /\ attempt[t] \in {1, 2} /\ c \in ConvIds
      /\ IsFiniteSet(rows)
  BY EscalationAssumption
  DEF TurnInv, TypeOK, EscTypeOK, Escalation, EscalationAssumption, LimitInv, TurnOK, Calling,
      InProgress, EscalateInsert
<1>2. /\ phase[t] = "logging" /\ phase' = [phase EXCEPT ![t] = "logged"]
      /\ rows' = rows \cup {new}
      /\ UNCHANGED <<conv, contested, attempt, now>>
      /\ new.conv = c /\ new.at = now
  BY DEF EscalateInsert, Enter, NewRow, atRest
<1> HIDE DEF new
<1>3. c \notin contested =>
        /\ Cardinality(Recent(t)) <= Limit
        /\ attempt[t] = 1 => Cardinality(Recent(t)) < Limit
  BY <1>1, <1>2, FiniteRows DEF LimitInv, LimitOK
<1>4. IsFiniteSet(rows') /\ \A r \in rows' : r.at <= now'
  BY <1>1, <1>2, FS_AddElement DEF LimitInv
<1>5. ASSUME NEW S, IsFiniteSet(S), NEW n \in Nat, Cardinality(S) <= n
      PROVE  Cardinality(S \cup {new}) <= n + 1
  <2>1. /\ Cardinality(S \cup {new}) = IF new \in S THEN Cardinality(S) ELSE Cardinality(S) + 1
        /\ Cardinality(S) \in Nat
    BY <1>5, FS_AddElement, FS_CardinalityType
  <2> QED BY <1>5, <2>1
<1>6. ASSUME NEW u \in Turns PROVE LimitOK(u)'
  <2> SUFFICES ASSUME conv[u] \notin contested, phase'[u] \in Calling PROVE LimitOK(u)'
    BY <1>2 DEF LimitOK, Calling
  <2>1. CASE u = t
    <3>1. attempt[t] = 1 => Cardinality(Recent(t) \cup {new}) <= Limit
      <4>1. /\ IsFiniteSet(Recent(t)) /\ Cardinality(Recent(t)) \in Nat
            /\ Cardinality(Recent(t) \cup {new}) =
                 IF new \in Recent(t) THEN Cardinality(Recent(t)) ELSE Cardinality(Recent(t)) + 1
        BY <1>1, FiniteRows, FS_AddElement
      <4> QED BY <1>1, <1>3, <2>1, <4>1
    <3>2. Recent(t)' = Recent(t) \cup {new}
      BY <1>1, <1>2 DEF Recent
    <3>3. phase'[t] = "logged"
      BY <1>2 DEF TurnInv, TypeOK, ChatTypeOK
    <3> QED BY <1>2, <2>1, <3>1, <3>2, <3>3 DEF LimitOK
  <2>2. CASE u # t
    <3>1. phase'[u] = phase[u]
      BY <1>2, <2>2 DEF TurnInv, TypeOK, ChatTypeOK
    <3>2. conv[u] \in ConvIds /\ u \in OpenTurns(conv[u]) /\ t \in OpenTurns(c)
      BY <1>1, <1>2, <3>1
      DEF OpenTurns, InConversation, InProgress, Calling, TurnInv, TurnOK
    <3>3. conv[u] # c
      BY <2>2, <3>2 DEF AloneOK
    <3>4. Recent(u)' = Recent(u)
      BY <1>2, <3>3 DEF Recent
    <3> QED BY <1>2, <3>1, <3>4 DEF LimitInv, LimitOK
  <2> QED BY <2>1, <2>2
<1>7. ASSUME NEW d \in ConvIds, d \notin contested, NEW x \in 0..MaxNow
      PROVE  Cardinality(Hour(d, x)') <= Limit + 1
  <2>1. CASE d = c /\ now \in x..(x + Window)
    <3>1. Hour(d, x)' = Hour(d, x) \cup {new}
      BY <1>2, <2>1 DEF Hour
    <3>2. Hour(d, x) \in SUBSET Recent(t)
      BY <1>1, <2>1 DEF Hour, Recent
    <3>3. Cardinality(Hour(d, x)) <= Limit
      BY <1>1, <1>3, <1>7, <2>1, <3>2, FiniteRows, FS_Subset
    <3> QED BY <1>1, <1>5, <3>1, <3>3, FiniteRows
  <2>2. CASE ~(d = c /\ now \in x..(x + Window))
    <3>1. Hour(d, x)' = Hour(d, x)
      BY <1>2, <2>2 DEF Hour
    <3>2. Cardinality(Hour(d, x)) <= Limit + 1
      BY <1>7 DEF LimitInv, WithinLimit, Hour
    <3> QED BY <3>1, <3>2
  <2> QED BY <2>1, <2>2
<1>8. WithinLimit'
  BY <1>2, <1>7 DEF WithinLimit, Hour
<1> QED BY <1>4, <1>6, <1>8 DEF LimitInv

LEMMA LimitInvariance == Spec => []LimitInv
<1>1. Init => LimitInv
  BY InitLimitInv
<1>2. TurnInv /\ StepInv /\ LimitInv /\ [Next]_vars => LimitInv'
  BY TurnInvStep, UnwrittenSteps, UnwrittenLimits, InsertLimits DEF StepInv
<1> QED BY <1>1, <1>2, TurnInvariance, StepInvariance, PTL DEF Spec

(* Turns of a conversation that come one after the other escalate at most    *)
(* once over the limit in any hour, whatever inserts are tried twice.        *)
THEOREM EscalationsAreLimited == Spec => []WithinLimit
<1>1. LimitInv => WithinLimit
  BY DEF LimitInv
<1> QED BY <1>1, LimitInvariance, PTL
-----------------------------------------------------------------------------
(* What a check concludes.                                                   *)

(* A step of a turn leaves a check that is queued, or further, as it stands. *)
Unchecked ==
  /\ UNCHANGED <<claims, outcome>>
  /\ \A u \in Turns :
       \/ stage'[u] = stage[u] /\ (stage[u] = "none" \/ sink'[u] = sink[u])
       \/ stage[u] = "none" /\ stage'[u] = "queued"

LEMMA UncheckedSteps ==
  ASSUME TurnInv, [Next]_vars
  PROVE  Unchecked \/ \E t \in Turns : Check(t) \/ CheckLost(t)
<1>1. /\ stage \in [Turns -> Stages] /\ sink \in [Turns -> Sinks]
      /\ \A u \in Turns : stage[u] # "none" => phase[u] = "done"
  BY DEF TurnInv, TypeOK, ChatTypeOK, TurnOK
<1>2. ASSUME UNCHANGED <<claims, outcome, stage, sink>> PROVE Unchecked
  BY <1>2 DEF Unchecked
<1>3. ASSUME NEW t \in Turns, BeginTurn(t), UNCHANGED <<escVars, checkVars>> PROVE Unchecked
  BY <1>2, <1>3 DEF BeginTurn, StartConversation, ResumeConversation, Begin, ConversationNotFound,
                    Refuse, checkVars
<1>4. ASSUME NEW t \in Turns, AgentStep(t), UNCHANGED <<escVars, checkVars>> PROVE Unchecked
  <2>1. CASE SearchFaq(t)
    <3>1. /\ phase[t] = "running" /\ UNCHANGED <<claims, outcome, stage>>
          /\ \A u \in Turns \ {t} : sink'[u] = sink[u]
      BY <1>1, <1>4, <2>1 DEF SearchFaq, MayCall, checkVars
    <3> QED BY <1>1, <3>1 DEF Unchecked
  <2>2. CASE CallTool(t) \/ ToolBreaks(t) \/ AgentFails(t) \/ StoreTurn(t)
    BY <1>2, <1>4, <2>2 DEF CallTool, ToolBreaks, AgentFails, StoreTurn, Refuse, checkVars
  <2> QED BY <1>4, <2>1, <2>2 DEF AgentStep
<1>5. ASSUME NEW t \in Turns, Escalate(t), UNCHANGED checkVars PROVE Unchecked
  BY <1>2, <1>5 DEF Escalate, EscalateLimited, EscalateCounted, EscalateAssign,
      EscalateAssignBreaks, Conclude, EscalateInsert, EscalateRefreshed, EscalateRetry,
      EscalateDegrades, checkVars
<1>6. ASSUME NEW t \in Turns, Respond(t) PROVE Unchecked
  <2>1. phase[t] = "stored" /\ stage' \in {stage, [stage EXCEPT ![t] = "queued"]}
        /\ UNCHANGED <<sink, claims, outcome>>
    BY <1>6 DEF Respond
  <2> QED BY <1>1, <2>1 DEF Unchecked
<1>7. ASSUME NEW t \in Turns, TurnBreaks(t), UNCHANGED checkVars PROVE Unchecked
  BY <1>2, <1>7 DEF TurnBreaks, Refuse, checkVars
<1>8. CASE (Tick /\ UNCHANGED checkVars) \/ UNCHANGED vars
  BY <1>2, <1>8 DEF Tick, vars, turnVars, checkVars
<1> QED BY <1>3, <1>4, <1>5, <1>6, <1>7, <1>8 DEF Next, Proceed

CheckInv == \A t \in Turns : CheckOK(t)

LEMMA InitCheckInv == Init => CheckInv
  BY DEF Init, ChatInit, CheckInit, CheckInv, CheckOK

LEMMA UncheckedKeeps ==
  ASSUME CheckInv, Unchecked
  PROVE  CheckInv'
<1>1. ASSUME NEW u \in Turns PROVE CheckOK(u)'
  <2>1. /\ CheckOK(u) /\ UNCHANGED <<claims, outcome>>
        /\ \/ stage'[u] = stage[u] /\ (stage[u] = "none" \/ sink'[u] = sink[u])
           \/ stage[u] = "none" /\ stage'[u] = "queued"
    BY DEF CheckInv, Unchecked
  <2> QED BY <2>1 DEF CheckOK, Whole
<1> QED BY <1>1 DEF CheckInv

(* The figures of a judged reply.                                            *)
LEMMA ConcludedIsWhole ==
  ASSUME NEW n \in Nat, NEW counts \in [Verdicts -> 0..n], AllClaims(counts) = n
  PROVE  LET o == Concluded(counts) IN
         /\ o.counts = counts
         /\ o.score # None <=> o.status = "scored"
         /\ o.status = "scored" =>
              o.score = <<counts["supported"], n - counts["not_applicable"]>>
<1>1. /\ counts["supported"] \in Nat /\ counts["unsupported"] \in Nat
      /\ counts["not_applicable"] \in Nat
  BY DEF Verdicts
<1>2. Checkable(counts) \in Nat /\ Checkable(counts) = n - counts["not_applicable"]
  BY <1>1 DEF Checkable, AllClaims
<1>3. <<counts["supported"], Checkable(counts)>> # None
  BY <1>1, <1>2, CheckAssumption DEF CheckAssumption
<1> QED BY <1>2, <1>3 DEF Concluded

LEMMA CheckKeeps ==
  ASSUME TurnInv, CheckInv, NEW t \in Turns, Check(t)
  PROVE  CheckInv'
<1>1. /\ DOMAIN stage = Turns /\ DOMAIN claims = Turns /\ DOMAIN outcome = Turns
      /\ claims[t] \in 0..MaxClaims /\ MaxClaims \in Nat
  BY CheckAssumption DEF TurnInv, TypeOK, CheckAssumption
<1>2. CheckOK(t)
  BY DEF CheckInv
<1>3. sink' = sink /\ \A u \in Turns \ {t} :
        stage'[u] = stage[u] /\ claims'[u] = claims[u] /\ outcome'[u] = outcome[u]
  BY <1>1 DEF Check, EnterGate, NoContext, Split, NothingToCheck, CheckFails, Judge, Persist,
         Conclusion, Background, turnVars
<1>4. ASSUME NEW u \in Turns \ {t} PROVE CheckOK(u)'
  BY <1>3 DEF CheckInv, CheckOK, Whole
<1>5. ASSUME NEW o, Conclusion(t, o), Whole(t, o)
      PROVE  CheckOK(t)'
  <2>1. stage'[t] = "judged" /\ outcome'[t] = o /\ claims' = claims
    BY <1>1, <1>5 DEF Conclusion
  <2> QED BY <1>3, <1>5, <2>1 DEF CheckOK, Whole
<1> SUFFICES CheckOK(t)'
  BY <1>4 DEF CheckInv
<1>6. CASE EnterGate(t)
  <2>1. stage[t] = "queued" /\ stage'[t] = "splitting" /\ claims'[t] = claims[t]
    BY <1>1, <1>6 DEF EnterGate
  <2> QED BY <1>2, <2>1 DEF CheckOK
<1>7. CASE NoContext(t)
  <2>1. Whole(t, Without("no_context"))
    BY DEF Whole, Without
  <2> QED BY <1>5, <1>7, <2>1 DEF NoContext
<1>8. CASE Split(t)
  <2>1. sink[t] = "hits" /\ stage'[t] = "judging" /\ claims'[t] \in 1..MaxClaims
    BY <1>1, <1>8 DEF Split, HasContext
  <2> QED BY <1>1, <1>3, <2>1 DEF CheckOK
<1>9. CASE NothingToCheck(t)
  <2>1. claims[t] = 0 /\ sink[t] = "hits"
    BY <1>2, <1>9 DEF NothingToCheck, HasContext, CheckOK
  <2>2. AllClaims(NoCounts) = 0
    BY DEF AllClaims, NoCounts, Verdicts
  <2>3. Whole(t, [status |-> "no_checkable_claims", counts |-> NoCounts, score |-> None])
    BY <2>1, <2>2 DEF Whole
  <2> QED BY <1>5, <1>9, <2>3 DEF NothingToCheck
<1>10. CASE CheckFails(t)
  <2>1. Whole(t, Failed)
    BY DEF Whole, Failed, Without
  <2> QED BY <1>5, <1>10, <2>1 DEF CheckFails
<1>11. CASE Judge(t)
  <2> DEFINE n == claims[t]
  <2>1. PICK batch \in Batches :
          /\ Aligned(n, batch)
          /\ Conclusion(t, Concluded(CountsOf(InClaimOrder(n, batch))))
    BY <1>11 DEF Judge
  <2> DEFINE counts == CountsOf(InClaimOrder(n, batch))
  <2>2. n \in 0..MaxClaims /\ n \in Nat
    BY <1>1
  <2>3. counts \in [Verdicts -> 0..n] /\ AllClaims(counts) = n
    BY <2>1, <2>2, OneVerdictEach, EveryClaimCounts
  <2>4. sink[t] = "hits"
    BY <1>2, <1>11 DEF Judge, CheckOK
  <2>5. Conclusion(t, Concluded(counts))
    BY <2>1
  <2> HIDE DEF counts
  <2>6. Whole(t, Concluded(counts))
    BY <2>2, <2>3, <2>4, ConcludedIsWhole DEF Whole
  <2> QED BY <1>5, <2>5, <2>6
<1>12. CASE Persist(t)
  <2>1. stage[t] = "judged" /\ stage'[t] = "recorded" /\ claims' = claims /\ outcome' = outcome
    BY <1>1, <1>12 DEF Persist
  <2> QED BY <1>2, <1>3, <2>1 DEF CheckOK, Whole
<1> QED BY <1>6, <1>7, <1>8, <1>9, <1>10, <1>11, <1>12 DEF Check

LEMMA LostKeeps ==
  ASSUME TurnInv, CheckInv, NEW t \in Turns, CheckLost(t)
  PROVE  CheckInv'
<1>1. /\ stage' = [stage EXCEPT ![t] = "lost"] /\ sink' = sink
      /\ claims' = [claims EXCEPT ![t] = 0] /\ outcome' = [outcome EXCEPT ![t] = Failed]
  BY DEF CheckLost, Background, turnVars
<1>2. ASSUME NEW u \in Turns PROVE CheckOK(u)'
  BY <1>1 DEF CheckInv, CheckOK, Whole, TurnInv, TypeOK
<1> QED BY <1>2 DEF CheckInv

LEMMA CheckInvariance == Spec => []CheckInv
<1>1. Init => CheckInv
  BY InitCheckInv
<1>2. TurnInv /\ CheckInv /\ [Next]_vars => CheckInv'
  BY UncheckedSteps, UncheckedKeeps, CheckKeeps, LostKeeps
<1> QED BY <1>1, <1>2, TurnInvariance, PTL DEF Spec

(* A recorded check is of a stored answer; it has a score exactly when it is *)
(* scored, its verdicts are one for each claim, in whatever order and with   *)
(* whatever indexes the judge replied, and the score is of the checkable.    *)
THEOREM ScoresAreOfClaims == Spec => []ScoresAreWhole
<1>1. TurnInv /\ CheckInv => ScoresAreWhole
  BY DEF TurnInv, TurnOK, CheckInv, CheckOK, Whole, ScoresAreWhole
<1> QED BY <1>1, TurnInvariance, CheckInvariance, PTL
=============================================================================
