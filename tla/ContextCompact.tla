--------------------------- MODULE ContextCompact ---------------------------
(***************************************************************************)
(* The middleware of aipkg/rag/contextcompact.  Before every call of the   *)
(* model it replaces the contents of old tool results, and when the        *)
(* messages are too long it saves them in a file, has them summarised, and *)
(* goes on with the first system message, the summary and the last tool    *)
(* calls and results.                                                      *)
(*                                                                         *)
(* The conversation around it is any that an agent can have: an assistant  *)
(* may call one tool at a time, whose result follows.  A message is        *)
(* [id, role, size, calls], and a summary also has the IDs it was made of. *)
(***************************************************************************)
EXTENDS Integers, Sequences, SequencesExt, FiniteSetsExt

CONSTANTS TokenThreshold, KeepRecentMessages,
          Sizes,            \* lengths of a content, in characters
          MaxMessages,      \* how many messages are ever said
          MaxSecond         \* how long the clock runs

ASSUME CompactAssumption ==
    /\ TokenThreshold \in Nat \ {0} /\ KeepRecentMessages \in Nat \ {0}
    /\ Sizes \subseteq Nat /\ MaxMessages \in Nat /\ MaxSecond \in Nat

VARIABLES
    messages,      \* state.Messages
    said,          \* every message, in the order in which it was said
    transcripts,   \* the files, by the second in their name
    second,        \* the clock
    turn           \* "open", or "before" when BeforeModel is called, or "model"

compactVars == <<messages, said, transcripts, second, turn>>

IsSystem(m) == m.role = "system"
IsResult(m) == m.role = "tool"
IsCall(m) == m.role = "assistant" /\ m.calls > 0

Placeholder == 25    \* the length of "[Previous: used ...]"
Message(role, size, calls) ==
    [id |-> Len(said) + 1, role |-> role, size |-> size, calls |-> calls, whole |-> TRUE, of |-> {}]

CompactInit ==
    /\ messages = <<>> /\ said = <<>> /\ transcripts = <<>>
    /\ second = 0 /\ turn = "open"

(***************************************************************************)
(* The conversation.                                                       *)
(***************************************************************************)
Say(m) ==
    /\ Len(said) < MaxMessages
    /\ said' = Append(said, m) /\ messages' = Append(messages, m)
    /\ UNCHANGED <<transcripts, second>>

SystemSpeaks == turn = "open" /\ said = <<>> /\ Say(Message("system", 40, 0)) /\ UNCHANGED turn
UserSpeaks(size) == turn = "open" /\ Say(Message("user", size, 0)) /\ turn' = "before"

\* The model answers, and the tool that it calls answers it.
ModelSpeaks(size) == turn = "model" /\ Say(Message("assistant", size, 0)) /\ turn' = "open"
ModelCalls == turn = "model" /\ Say(Message("assistant", 0, 1)) /\ turn' = "tool"
ToolAnswers(size) == turn = "tool" /\ Say(Message("tool", size, 0)) /\ turn' = "before"

Tick ==
    /\ second < MaxSecond /\ second' = second + 1
    /\ UNCHANGED <<messages, said, transcripts, turn>>

(***************************************************************************)
(* BeforeModel.                                                            *)
(***************************************************************************)
\* As MicroCompact, but the results to keep are counted from the front.
MicroCompactNew(list) ==
    LET Recent(i) == Cardinality({j \in DOMAIN list : j <= i /\ IsResult(list[j])}) <= KeepRecentMessages
    IN [i \in DOMAIN list |->
           IF IsResult(list[i]) /\ ~ Recent(i) /\ list[i].size > 100
           THEN [list[i] EXCEPT !.size = Placeholder, !.whole = FALSE] ELSE list[i]]

\* The results at i and after it; the last KeepRecentMessages results are recent.
ResultsFrom(list, i) == {j \in DOMAIN list : j >= i /\ IsResult(list[j])}

MicroCompact(list) ==
    LET Recent(i) == Cardinality(ResultsFrom(list, i)) <= KeepRecentMessages
    IN [i \in DOMAIN list |->
           IF IsResult(list[i]) /\ ~ Recent(i) /\ list[i].size > 100
           THEN [list[i] EXCEPT !.size = Placeholder, !.whole = FALSE] ELSE list[i]]

CountTokens(list) == FoldLeft(LAMBDA n, m : n + m.size \div 4 + 4 + 10 * m.calls, 0, list)

\* What a set of messages tells of: itself, and what its summaries were made of.
Covers(S) == ({m.id : m \in S} \ {0}) \union UNION {m.of : m \in S}
Read(list) == {m \in ToSet(list) : ~ IsSystem(m)}

\* As Summary, but an earlier summary is passed over, like a system message.
SummaryAnew(list, path) ==
    [id |-> 0, role |-> "assistant", size |-> 100, calls |-> 0, whole |-> TRUE,
     of |-> {m.id : m \in Read(list)} \ {0}, path |-> path]

\* summarize reads all but the system messages, and so what earlier summaries hold.
Summary(list, path) ==
    [id |-> 0, role |-> "assistant", size |-> 100, calls |-> 0, whole |-> TRUE,
     of |-> Covers(Read(list)), path |-> path]

\* The calls and results, and what recentCount is when the loop, which goes
\* backwards, has come to the one at i.
Kept(list) == {i \in DOMAIN list : IsResult(list[i]) \/ IsCall(list[i])}
RecentCount(list, i) == Cardinality({j \in Kept(list) : j >= i})

FirstSystem(list) ==
    LET systems == {i \in DOMAIN list : IsSystem(list[i])}
    IN IF systems = {} THEN <<>> ELSE <<list[Min(systems)]>>

LastKept(list) ==
    [k \in 1..Min({2 * KeepRecentMessages, Cardinality(Kept(list))}) |->
        list[CHOOSE i \in Kept(list) : RecentCount(list, i) = k]]

BuildCompactedState(list, path) ==
    FirstSystem(list) \o <<Summary(list, path)>> \o LastKept(list)

NoPath == -1
Micro == MicroCompact(messages)

StaysAsItIs ==
    /\ turn = "before" /\ CountTokens(Micro) <= TokenThreshold
    /\ messages' = Micro /\ turn' = "model"
    /\ UNCHANGED <<said, transcripts, second>>

\* A file of the same second is written over; whether it could be written or not,
\* the messages are summarised.
SaveTranscript(path) ==
    \/ path = second /\ transcripts' = [s \in {second} \union DOMAIN transcripts |->
                                           IF s = second THEN Micro ELSE transcripts[s]]
    \/ path = NoPath /\ UNCHANGED transcripts

Compacts(path) ==
    /\ turn = "before" /\ CountTokens(Micro) > TokenThreshold
    /\ SaveTranscript(path)
    /\ messages' = BuildCompactedState(Micro, path) /\ turn' = "model"
    /\ UNCHANGED <<said, second>>

\* The summary fails: the error is returned, and the agent may try again.
SummaryFails(path) ==
    /\ turn = "before" /\ CountTokens(Micro) > TokenThreshold
    /\ SaveTranscript(path)
    /\ messages' = Micro
    /\ UNCHANGED <<said, second, turn>>

CompactNext ==
    \/ SystemSpeaks \/ ModelCalls \/ Tick \/ StaysAsItIs
    \/ \E size \in Sizes : UserSpeaks(size) \/ ModelSpeaks(size) \/ ToolAnswers(size)
    \/ \E path \in {second, NoPath} : Compacts(path) \/ SummaryFails(path)

CompactSpec == CompactInit /\ [][CompactNext]_compactVars

(***************************************************************************)
(* Properties.                                                             *)
(***************************************************************************)
Held == Covers(ToSet(messages))

\* However often the messages are compacted, and however often that fails in
\* between, everything said is among them or was read, directly or through an
\* earlier summary, for the one summary that is; the system message stays first,
\* and a file that the summary names is there.
ConversationContinues ==
    /\ DOMAIN said = Held
    /\ \A i \in DOMAIN messages : IsSystem(messages[i]) => i = 1
    /\ said # <<>> /\ IsSystem(said[1]) => messages[1] = said[1]
    /\ Cardinality({i \in DOMAIN messages : messages[i].id = 0}) <= 1
    /\ \A i \in DOMAIN messages :
          messages[i].id = 0 => messages[i].path = NoPath \/ messages[i].path \in DOMAIN transcripts

\* A step that changes the messages otherwise than by adding one, that is a call of
\* BeforeModel, leaves the last KeepRecentMessages tool results of the list whole, and
\* never brings back a content that is gone.
LastResultsStay ==
    [][ /\ \A i \in DOMAIN messages :
              /\ IsResult(messages[i]) /\ messages[i].whole
              /\ Cardinality(ResultsFrom(messages, i)) <= KeepRecentMessages
              => \E j \in DOMAIN messages' : messages'[j] = messages[i]
        /\ \A i \in DOMAIN messages, j \in DOMAIN messages' :
              messages[i].id > 0 /\ messages'[j].id = messages[i].id /\ ~ messages[i].whole
                 => ~ messages'[j].whole
      ]_compactVars

\* The results that are whole are the most recent ones.  They are not: the kept
\* ones are put back in reverse, so that after a compaction the next results to be
\* replaced are the newest of them.
RecentResultsKept ==
    \A i, j \in DOMAIN messages :
        /\ IsResult(messages[i]) /\ IsResult(messages[j])
        /\ messages[i].id < messages[j].id
        /\ said[messages[i].id].size > 100 /\ messages[i].whole
        => messages[j].whole
=============================================================================
