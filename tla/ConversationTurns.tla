------------------------- MODULE ConversationTurns -------------------------
(* One conversation thread of the chat API: requests are serialised by an   *)
(* advisory lock, the last node of the graph appends the turn's rows to     *)
(* conversation_messages and only then does LangGraph save the checkpoint.  *)
(* A retry of the same client_turn_id is answered from those rows.  Callers *)
(* stand for requests being served, in any worker process; authentication   *)
(* is on, so that every request is admitted against thread_metadata first.  *)
EXTENDS Naturals, Sequences, FiniteSetsExt

CONSTANTS Callers, NoCaller,
          Keys, NoKey,    \* client_turn_id values, and the empty one
          Window,         \* turns that trim_messages leaves in the memory
          MaxRequests     \* bound on the requests sent

\* A client_turn_id is never the hash that stands for a turn without one.
ASSUME CallersAssumption ==
    NoCaller \notin Callers /\ NoKey \notin Keys /\ Keys \cap Nat = {}
ASSUME WindowAssumption == Window \in Nat \ {0} /\ MaxRequests \in Nat

VARIABLES
    messages,     \* rows of conversation_messages, oldest first
    memory,       \* the turns in the messages channel of the last checkpoint
    thread,       \* thread_metadata.status, "none" before the first request
    turnLock,     \* the request that holds the advisory lock
    chat,         \* what each request is doing
    severed,      \* turns whose stream was cut off while the graph ran
    deleting,     \* between the two transactions of delete_thread
    sent

cvars == <<messages, memory, thread, turnLock, chat, severed, deleting, sent>>

\* derive_turn_id: the client's key, or a hash of the query and the number of
\* messages; unkeyed requests all carry the same words here.
TurnId(key, count) == IF key # NoKey THEN key ELSE count
TurnIds == Keys \cup 0..Window

Row(turn, role, version) == [turn |-> turn, role |-> role, version |-> version, live |-> TRUE]
Idle == [pc |-> "idle", key |-> NoKey, regenerate |-> FALSE, count |-> 0, version |-> 0]
Turn(c) == TurnId(chat[c].key, chat[c].count)

Live == {i \in DOMAIN messages : messages[i].live}
Answers(turn) == {i \in Live : messages[i].turn = turn /\ messages[i].role = "assistant"}
Question(turn) == {i \in Live : messages[i].turn = turn /\ messages[i].role = "user"}

MaxVersion(turn) == Max({messages[i].version : i \in Answers(turn)} \cup {0})

ConversationInit ==
    /\ messages = <<>> /\ memory = <<>>
    /\ thread = "none" /\ turnLock = NoCaller
    /\ chat = [c \in Callers |-> Idle]
    /\ severed = {} /\ deleting = FALSE /\ sent = 0

\* invoke_chat up to the lock: ensure_thread_for_invoke registers the thread
\* or refuses one that was deleted.
Admit(c, key, regenerate) ==
    /\ chat[c].pc = "idle" /\ sent < MaxRequests
    /\ thread # "deleted"
    /\ thread' = "active"
    /\ chat' = [chat EXCEPT ![c] =
                   [Idle EXCEPT !.pc = "queued", !.key = key, !.regenerate = regenerate]]
    /\ sent' = sent + 1
    /\ UNCHANGED <<messages, memory, turnLock, severed, deleting>>

\* Mutant: requests of one thread are not serialised.
TurnFreeAnyhow == TRUE

\* thread_advisory_lock, held by the connection of the request
TurnFree == turnLock = NoCaller

Enter(c) ==
    /\ chat[c].pc = "queued" /\ TurnFree
    /\ turnLock' = c
    /\ chat' = [chat EXCEPT ![c].pc = "looking"]
    /\ UNCHANGED <<messages, memory, thread, severed, deleting, sent>>

\* _resolve_cached_turn
Cached(key) == key # NoKey /\ Answers(key) # {}

Release(c) ==
    /\ chat' = [chat EXCEPT ![c] = Idle]
    /\ turnLock' = IF turnLock = c THEN NoCaller ELSE turnLock

AnswerFromRows(c) ==
    /\ chat[c].pc = "looking"
    /\ Cached(chat[c].key) /\ ~chat[c].regenerate
    /\ Release(c)
    /\ UNCHANGED <<messages, memory, thread, severed, deleting, sent>>

\* The graph loads the checkpoint and runs up to persist_conversation_memory.
StartGraph(c) ==
    /\ chat[c].pc = "looking"
    /\ ~Cached(chat[c].key) \/ chat[c].regenerate
    /\ chat' = [chat EXCEPT ![c].pc = "persist", ![c].count = Len(memory)]
    /\ UNCHANGED <<messages, memory, thread, turnLock, severed, deleting, sent>>

\* A regenerated answer takes the version after the highest live one.
TakeVersion(c) ==
    /\ chat[c].pc = "persist"
    /\ chat' = [chat EXCEPT ![c].pc = "append",
                  ![c].version = IF chat[c].regenerate THEN MaxVersion(Turn(c)) + 1 ELSE 1]
    /\ UNCHANGED <<messages, memory, thread, turnLock, severed, deleting, sent>>

\* Mutant: a failure to append is swallowed, the turn goes on.
AppendRowsBestEffort(turn, regenerate, version) ==
    messages' \in {messages, messages \o <<Row(turn, "assistant", version)>>}

\* ON CONFLICT DO NOTHING drops a row only where a unique index forbids it,
\* and the table has one for live user rows alone.
AppendRows(turn, regenerate, version) ==
    messages' = messages
        \o (IF regenerate \/ Question(turn) # {} THEN <<>> ELSE <<Row(turn, "user", 1)>>)
        \o <<Row(turn, "assistant", version)>>

\* append_messages commits; a request whose stream was cut ends here, in the
\* thread that outlives it.
AppendMessages(c) ==
    /\ chat[c].pc = "append"
    /\ AppendRows(Turn(c), chat[c].regenerate, chat[c].version)
    /\ chat' = [chat EXCEPT ![c] = IF turnLock = c THEN [@ EXCEPT !.pc = "checkpoint"] ELSE Idle]
    /\ UNCHANGED <<memory, thread, turnLock, severed, deleting, sent>>

\* LangGraph merges what the node returned, the request is answered.  A
\* regenerated answer replaces the last one in the memory, and is trimmed
\* away when the memory holds no question before it.
SaveCheckpoint(c) ==
    /\ chat[c].pc = "checkpoint"
    /\ LET turns == IF chat[c].regenerate THEN memory ELSE memory \o <<Turn(c)>>
       IN  memory' = SubSeq(turns, IF Len(turns) > Window THEN 2 ELSE 1, Len(turns))
    /\ Release(c)
    /\ UNCHANGED <<messages, thread, severed, deleting, sent>>

\* The graph raises and a friendly failure is answered, or the process dies
\* and the server frees the lock of its connection.
Fail(c) ==
    /\ chat[c].pc # "idle"
    /\ Release(c)
    /\ UNCHANGED <<messages, memory, thread, severed, deleting, sent>>

\* The client of a stream goes away: the lock is freed, the node's thread runs on.
Disconnect(c) ==
    /\ turnLock = c /\ chat[c].pc \in {"persist", "append"}
    /\ turnLock' = NoCaller
    /\ severed' = severed \cup {Turn(c)}
    /\ UNCHANGED <<messages, memory, thread, chat, deleting, sent>>

\* delete_thread takes no lock: checkpoints and metadata in one transaction,
\* the messages in a second one that may fail.
DeleteThread ==
    /\ thread = "active" /\ ~deleting
    /\ thread' = "deleted" /\ deleting' = TRUE
    /\ UNCHANGED <<messages, memory, turnLock, chat, severed, sent>>

DeleteMessages ==
    /\ deleting
    /\ deleting' = FALSE
    /\ \/ messages' = [i \in DOMAIN messages |-> [messages[i] EXCEPT !.live = FALSE]]
       \/ UNCHANGED messages
    /\ UNCHANGED <<memory, thread, turnLock, chat, severed, sent>>

ConversationNext ==
    \/ \E c \in Callers :
          \/ \E key \in Keys \cup {NoKey}, regenerate \in BOOLEAN : Admit(c, key, regenerate)
          \/ Enter(c) \/ AnswerFromRows(c) \/ StartGraph(c) \/ TakeVersion(c)
          \/ AppendMessages(c) \/ SaveCheckpoint(c) \/ Fail(c) \/ Disconnect(c)
    \/ DeleteThread \/ DeleteMessages

ConversationSpec == ConversationInit /\ [][ConversationNext]_cvars

-----------------------------------------------------------------------------
ConversationTypeOK ==
    /\ messages \in Seq([turn : TurnIds, role : {"user", "assistant"},
                         version : 1..(MaxRequests + 1), live : BOOLEAN])
    /\ memory \in Seq(TurnIds) /\ Len(memory) <= Window
    /\ thread \in {"none", "active", "deleted"}
    /\ turnLock \in Callers \cup {NoCaller}
    /\ chat \in [Callers -> [pc : {"idle", "queued", "looking", "persist", "append", "checkpoint"},
                             key : Keys \cup {NoKey}, regenerate : BOOLEAN,
                             count : 0..Window, version : 0..(MaxRequests + 1)]]
    /\ severed \subseteq TurnIds
    /\ deleting \in BOOLEAN
    /\ sent \in 0..MaxRequests

(* The live answers to a turn with a client_turn_id have distinct versions, *)
(* whatever is retried, regenerated, deleted or killed, unless a stream of  *)
(* that turn was cut off: the 1/3, 2/3 paging counts on it, no index does.  *)
AnswerVersionsDistinct ==
    \A key \in Keys \ severed : \A i, j \in Answers(key) :
        messages[i].version = messages[j].version => i = j

(* What the model remembers of the conversation was recorded for the user: *)
(* a failure between the two stores never leaves a turn in the checkpoint  *)
(* that conversation_messages does not have.                               *)
RememberedIsRecorded ==
    \A n \in DOMAIN memory : \E i \in DOMAIN messages :
        messages[i].turn = memory[n] /\ messages[i].role = "assistant"

\* get_turns: rows in order of time, each answer under the last question before it.
ShownUnder(i) ==
    LET questions == {j \in Live : j <= i /\ messages[j].role = "user"}
    IN  messages[IF questions # {} THEN Max(questions) ELSE Min(Live)].turn

(* An answer whose question is on record is shown in the turn it answers,  *)
(* as the description of GET /threads/{thread_id}/turns promises.          *)
AnswersUnderOwnTurn ==
    \A i \in Live :
        /\ messages[i].role = "assistant"
        /\ Question(messages[i].turn) # {}
        => ShownUnder(i) = messages[i].turn
=============================================================================
