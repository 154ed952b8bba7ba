------------------------------- MODULE ChatTurns -------------------------------
(* POST /chat/messages: a turn resolves its conversation, loads the history  *)
(* the agent kept there, lets the model call tools, and stores messages and  *)
(* history in one commit. A turn has a database session of its own; a        *)
(* statement that fails leaves its transaction aborted until a rollback.     *)
EXTENDS Naturals, Sequences, FiniteSets

CONSTANTS None,          \* no value
          Unreadable,    \* a stored history this version cannot parse
          Turns,         \* requests; a conversation a turn starts has its name
          Convs,         \* conversations that exist already
          MaxToolCalls   \* MAX_TOOL_CALLS_PER_TURN

ConvIds == Convs \cup Turns

ASSUME ChatAssumption ==
  /\ Convs \cap Turns = {}
  /\ None \notin ConvIds
  /\ Unreadable \notin Seq(Turns)
  /\ MaxToolCalls \in Nat

Phases == {"idle", "running", "assigning", "logging", "logged", "stored", "done"}
InProgress == {"running", "assigning", "logging", "logged"}
ChatReplies == {"none", "ok", "conversation_not_found", "agent_unavailable", "error"}

(* What the searches of a turn gave it: none made, nothing found, entries.   *)
Sinks == {"unused", "empty", "hits"}

VARIABLES history,     \* history_json of a conversation: turns, oldest first
          transcript,  \* turns whose messages and retrieval logs are stored
          conv,        \* the conversation of a turn
          loaded,      \* the history a turn gave its agent
          phase, reply,
          calls,       \* tool calls so far
          sink,        \* retrieval_sink
          aborted,     \* turns whose transaction Postgres has aborted
          contested    \* conversations that ever had two turns in progress

turnVars == <<history, transcript, conv, loaded, phase, reply, calls, sink, aborted, contested>>
atRest == <<history, transcript, conv, loaded, contested>>

ChatInit ==
  /\ \E old \in [Convs -> {<<>>, Unreadable}] :
       history = [c \in ConvIds |-> IF c \in Convs THEN old[c] ELSE <<>>]
  /\ transcript = {}
  /\ conv = [t \in Turns |-> None]
  /\ loaded = [t \in Turns |-> <<>>]
  /\ phase = [t \in Turns |-> "idle"]
  /\ reply = [t \in Turns |-> "none"]
  /\ calls = [t \in Turns |-> 0]
  /\ sink = [t \in Turns |-> "unused"]
  /\ aborted = {}
  /\ contested = {}

Enter(t, p) == phase' = [phase EXCEPT ![t] = p]

(* The endpoint returns or raises; closing the session rolls back.           *)
Reply(t, code) ==
  /\ Enter(t, "done")
  /\ reply' = [reply EXCEPT ![t] = code]
  /\ aborted' = aborted \ {t}

Refuse(t, code) ==
  /\ Reply(t, code)
  /\ UNCHANGED <<atRest, calls, sink>>

InConversation(c) == {t \in Turns : conv[t] = c}
OpenTurns(c) == {t \in InConversation(c) : phase[t] \in InProgress}

(* A history that does not parse is dropped rather than raised.              *)
Readable(h) == IF h = Unreadable THEN <<>> ELSE h

Begin(t, c, h) ==
  /\ phase[t] = "idle"
  /\ Enter(t, "running")
  /\ conv' = [conv EXCEPT ![t] = c]
  /\ loaded' = [loaded EXCEPT ![t] = Readable(h)]
  /\ contested' = contested \cup {d \in {c} : OpenTurns(d) # {}}
  /\ UNCHANGED <<history, transcript, reply, calls, sink, aborted>>

StartConversation(t) == Begin(t, t, <<>>)

(* Mutant: the row is found by its owner alone, whichever id was asked for.  *)
ResumeAny(t) ==
  \E c, d \in Convs \cup {u \in Turns : conv[u] = u} : Begin(t, c, history[d])

ResumeConversation(t) ==
  \E c \in Convs \cup {u \in Turns : conv[u] = u} : Begin(t, c, history[c])

(* An unknown conversation, or somebody else's.                              *)
ConversationNotFound(t) ==
  /\ phase[t] = "idle"
  /\ Refuse(t, "conversation_not_found")

-----------------------------------------------------------------------------
(* The agent run. What the model asks for is its own choice.                 *)

MayCall(t) == phase[t] = "running" /\ calls[t] < MaxToolCalls

CountCall(t) == calls' = [calls EXCEPT ![t] = @ + 1]

(* The sink after one more search, over the union of all of a turn's.        *)
SinkAfter(t, found) == IF found \/ sink[t] = "hits" THEN "hits" ELSE "empty"

SearchFaq(t) ==
  /\ MayCall(t) /\ t \notin aborted
  /\ CountCall(t)
  /\ \E found \in BOOLEAN : sink' = [sink EXCEPT ![t] = SinkAfter(t, found)]
  /\ UNCHANGED <<atRest, phase, reply, aborted>>

(* A tool that ends without a trace in this turn's session: a listing        *)
(* search, a booking that committed, or one refused.                         *)
CallTool(t) ==
  /\ MayCall(t)
  /\ CountCall(t)
  /\ UNCHANGED <<atRest, phase, reply, sink, aborted>>

(* A query of a tool failed: the tool reports a failure to the model, and    *)
(* nobody rolls back.                                                        *)
ToolBreaks(t) ==
  /\ MayCall(t)
  /\ CountCall(t)
  /\ aborted' = aborted \cup {t}
  /\ UNCHANGED <<atRest, phase, reply, sink>>

(* The model fails, or calls for more tools than a turn may use.             *)
AgentFails(t) ==
  /\ phase[t] = "running"
  /\ Refuse(t, "agent_unavailable")

(* Mutant: only the run's new messages are kept (new_messages()).            *)
StoreNewMessages(t) ==
  /\ phase[t] = "running" /\ t \notin aborted
  /\ transcript' = transcript \cup {t}
  /\ history' = [history EXCEPT ![conv[t]] = <<t>>]
  /\ Enter(t, "stored")
  /\ UNCHANGED <<conv, loaded, reply, calls, sink, aborted, contested>>

(* Mutant: the messages are committed before the history is.                 *)
StoreMessagesFirst(t) ==
  /\ phase[t] = "running" /\ t \notin aborted
  /\ transcript' = transcript \cup {t}
  /\ IF t \in transcript
     THEN /\ history' = [history EXCEPT ![conv[t]] = Append(loaded[t], t)]
          /\ Enter(t, "stored")
     ELSE UNCHANGED <<history, phase>>
  /\ UNCHANGED <<conv, loaded, reply, calls, sink, aborted, contested>>

(* Both messages, the retrieval logs and the history, in one commit. The     *)
(* history written is the one loaded when the turn began, plus this turn.    *)
StoreTurn(t) ==
  /\ phase[t] = "running" /\ t \notin aborted
  /\ transcript' = transcript \cup {t}
  /\ history' = [history EXCEPT ![conv[t]] = Append(loaded[t], t)]
  /\ Enter(t, "stored")
  /\ UNCHANGED <<conv, loaded, reply, calls, sink, aborted, contested>>

(* A statement raises outside a tool that handles it, or the process dies:   *)
(* before the commit nothing of the turn is kept, after it everything is.    *)
TurnBreaks(t) ==
  /\ phase[t] \in InProgress \cup {"stored"}
  /\ Refuse(t, "error")

-----------------------------------------------------------------------------
(* Properties.                                                               *)

ChatTypeOK ==
  /\ history \in [ConvIds -> Seq(Turns) \cup {Unreadable}]
  /\ transcript \subseteq Turns
  /\ conv \in [Turns -> ConvIds \cup {None}]
  /\ loaded \in [Turns -> Seq(Turns)]
  /\ phase \in [Turns -> Phases]
  /\ reply \in [Turns -> ChatReplies]
  /\ calls \in [Turns -> 0..MaxToolCalls]
  /\ sink \in [Turns -> Sinks]
  /\ aborted \subseteq Turns
  /\ contested \subseteq ConvIds

Members(h) == {Readable(h)[i] : i \in DOMAIN Readable(h)}

(* A turn that answered that the assistant is unavailable, or that there is  *)
(* no such conversation, left the conversation as it was: no message of it   *)
(* is stored and no later turn is given it as history.                       *)
FailedTurnLeavesNothing ==
  \A t \in Turns :
    reply[t] \in {"agent_unavailable", "conversation_not_found"} =>
      /\ t \notin transcript
      /\ \A c \in ConvIds : t \notin Members(history[c])

(* The agent remembers nothing the transcript does not show: every turn in   *)
(* a history, or in the copy a running turn works from, is a stored turn of  *)
(* that same conversation, and none is there twice.                          *)
HistoryIsTranscribed ==
  /\ \A c \in ConvIds :
       /\ Members(history[c]) \subseteq transcript \cap InConversation(c)
       /\ Cardinality(Members(history[c])) = Len(Readable(history[c]))
  /\ \A t \in Turns :
       Members(loaded[t]) \subseteq transcript \cap InConversation(conv[t])

(* Transcript and history grow together as long as the turns of the          *)
(* conversation come one after the other.                                    *)
InStep ==
  \A c \in ConvIds \ contested :
    Members(history[c]) = transcript \cap InConversation(c)
=============================================================================
