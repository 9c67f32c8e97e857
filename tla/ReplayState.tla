----------------------------- MODULE ReplayState -----------------------------
(***************************************************************************)
(* The opaque state a Gemini model wants back with the results of its tool *)
(* calls (src/src/internal/provider-replay-state.ts), along the way it     *)
(* takes: attached to an answer by the adapter, carried by the message the *)
(* conversation makes of it, copied when the context is trimmed, written   *)
(* into the snapshot, restored from it, moved by the Session API's compact *)
(* and fork, and sent to the model that wrote it.                          *)
(*                                                                         *)
(* The WeakMap from messages to states is a field of the messages.  One    *)
(* tool is enough: its name is left out of the calls.                      *)
(***************************************************************************)
EXTENDS Integers, SequencesExt, Ordering

CONSTANTS
    Google,         \* models of the google provider
    Strategies,     \* context managers: "none", "window" or "summary"
    WindowSize,     \* its maxMessages
    KeepLast,       \* its keepLastMessages
    MaxEntries,     \* MAX_PROVIDER_REPLAY_ENTRIES
    MaxParts,       \* MAX_PROVIDER_REPLAY_PARTS
    MaxToolCalls,   \* MAX_PROVIDER_REPLAY_TOOL_CALLS
    MaxSize,        \* MAX_PROVIDER_REPLAY_SNAPSHOT_BYTES, a part taken for the unit
    MaxCalls,       \* tool calls in one answer
    MaxTurns, MaxRounds

ASSUME ReplayAssumption ==
    /\ Strategies \subseteq {"none", "window", "summary"}
    /\ KeepLast \in Nat
    /\ {MaxEntries, MaxParts, MaxToolCalls, MaxSize} \subseteq Nat

NoId == 0
NoSignature == [model |-> "none", answer |-> 0]
NoState == [model |-> "none", calls |-> <<>>, parts |-> <<>>]

VARIABLES
    history,        \* Conversation.messages
    loaded,         \* is there a Conversation in memory?
    saved,          \* the stored snapshot: messages and providerReplayState
    refused,        \* restore rejected the snapshot
    working,        \* the messages of the turn in progress
    asking,         \* a turn is waiting for an answer
    rounds, answers, turns,
    strategy,       \* the context manager of the session
    repeats         \* do the tool calls of the session repeat their arguments?

vars == <<history, loaded, saved, refused, working, asking, rounds, answers, turns, strategy, repeats>>
turnVars == <<working, asking, rounds, answers, turns, strategy, repeats>>

-----------------------------------------------------------------------------
(* Messages.  `wrote' remembers which answer a message was built from; no  *)
(* definition of the program reads it.                                     *)

Nobody == [model |-> "none", parts |-> <<>>]
Message(kind, calls, state, wrote) ==
    [kind |-> kind, calls |-> calls, state |-> state, wrote |-> wrote]
User == Message("user", <<>>, NoState, Nobody)
Results(calls) == Message("results", calls, NoState, Nobody)
\* The text of a summary, in the place of calls, tells it from other messages.
Summary == Message("assistant", <<[id |-> <<"summary", 0>>, args |-> 0]>>, NoState, Nobody)

\* The arguments of the calls of the current answer
Arguments == IF repeats THEN 0 ELSE answers

\* stableStringify of two messages
SameMessage(m, n) == m.kind = n.kind /\ m.calls = n.calls
Bare(messages) == [i \in DOMAIN messages |-> [messages[i] EXCEPT !.state = NoState]]

KindOf(m) == m.kind
NotPinned(m) == FALSE
OneToken(m) == 1
Context == INSTANCE ContextTrimming WITH
    Kind <- KindOf, Pinned <- NotPinned, TokenSize <- OneToken,
    MaxMessages <- WindowSize, MaxTokens <- -1, NoLimit <- -1,
    KeepLastMessages <- KeepLast

-----------------------------------------------------------------------------
(* Answers.  A part is text, a thought or a call; a call may have an id of *)
(* its own, and any part may be signed.  Tokens the model makes up name    *)
(* the answer they come from.  The adapter takes parts as they come;       *)
(* `known' says whether restore will recognise one: no keys but those of   *)
(* text, thoughts and calls, and a signature that is base64 and not longer *)
(* than 8 KB.                                                              *)

Part(type, args, native, sig) ==
    [type |-> type, args |-> args, native |-> native, sig |-> sig, known |-> TRUE]
Strange(part) == [part EXCEPT !.known = FALSE]

GoogleAnswers(model) ==
    LET token == [model |-> model, answer |-> answers]
        call(named, signed) == Part("call", Arguments, IF named THEN answers ELSE NoId,
                                    IF signed THEN token ELSE NoSignature)
        thought == Part("thought", 0, NoId, NoSignature)
    IN  {<<Part("text", 0, NoId, NoSignature)>>}
          \union {<<call(n, s)>> : n, s \in BOOLEAN}
          \union {<<thought, call(TRUE, TRUE)>>, <<Strange(thought), call(TRUE, TRUE)>>}
          \union (IF MaxCalls = 1 THEN {} ELSE {<<call(TRUE, TRUE), call(TRUE, FALSE)>>})

\* The function calls of an answer, with their place and the id
\* buildGeminiToolCallId makes of it.
CallsOf(parts) ==
    LET at == InOrder({i \in DOMAIN parts : parts[i].type = "call"})
    IN  [n \in DOMAIN at |-> [id |-> <<"gemini", at[n]>>, args |-> parts[at[n]].args,
                              native |-> parts[at[n]].native, at |-> at[n]]]

Signed(parts) == \E i \in DOMAIN parts : parts[i].sig # NoSignature

\* Parts and calls that a state may have to be written into a snapshot
Short(parts) == Len(parts) <= MaxParts /\ Len(CallsOf(parts)) <= MaxToolCalls

\* translateGeminiResponse, GeminiStreamAssembler.finish: only answers with
\* calls and a signature carry a state.
Attached(model, parts) ==
    IF CallsOf(parts) # <<>> /\ Signed(parts)
    THEN [model |-> model, calls |-> CallsOf(parts), parts |-> parts]
    ELSE NoState

Canonical(calls) == [n \in DOMAIN calls |-> [id |-> calls[n].id, args |-> calls[n].args]]

GoogleMessage(model, parts) ==
    LET calls == CallsOf(parts)
    IN  Message(IF calls = <<>> THEN "assistant" ELSE "calls", Canonical(calls),
                Attached(model, parts), [model |-> model, parts |-> parts])

OtherMessages ==
    {Message("assistant", <<>>, NoState, Nobody),
     Message("calls", <<[id |-> <<"call", answers>>, args |-> Arguments]>>, NoState, Nobody)}

-----------------------------------------------------------------------------
(* The states of messages.                                                 *)

AnyState(m, model) == m.state
GetState(m, model) == IF m.state.model = model THEN m.state ELSE NoState

\* stateMatchesMessage
Matches(state, m) ==
    LET ids == {m.calls[n].id : n \in DOMAIN m.calls}
    IN  /\ m.kind = "calls"
        /\ Len(state.parts) <= MaxParts /\ Len(state.calls) <= MaxToolCalls
        /\ Cardinality(ids) = Len(state.calls)
        /\ \A n \in DOMAIN state.calls :
             LET call == state.calls[n]
             IN  /\ call.at \in DOMAIN state.parts
                 /\ n > 1 => call.at > state.calls[n - 1].at
                 /\ \A earlier \in 1..(n - 1) : state.calls[earlier].id # call.id
                 /\ \E i \in DOMAIN m.calls : m.calls[i] = [id |-> call.id, args |-> call.args]
                 /\ state.parts[call.at].type = "call"
                 /\ state.parts[call.at].args = call.args
                 /\ call.native # NoId => state.parts[call.at].native = call.native

CopyByPlace(source, target) ==
    [i \in DOMAIN target |-> [target[i] EXCEPT !.state = source[i].state]]

\* copyGoogleReplayStatesByMessage: both lists are walked once, so a target
\* without a source ends the copying.  `reached' is sourceIndex after a target.
Sources(source, after, m) == {j \in after + 1..Len(source) : SameMessage(source[j], m)}

CopyStates(source, target) ==
    LET reached[i \in 0..Len(target)] ==
          IF i = 0 THEN 0
          ELSE LET from == Sources(source, reached[i - 1], target[i])
               IN  IF from = {} THEN Len(source) ELSE Min(from)
    IN  [i \in DOMAIN target |->
           LET from == Sources(source, reached[i - 1], target[i])
           IN  IF from = {} THEN target[i]
               ELSE [target[i] EXCEPT !.state = source[Min(from)].state]]

\* prepareModelStepMessages; whether a summarizer answers is its business.
Prepared(messages, answered) ==
    IF strategy = "none" \/ ~Context!ShouldTrim(messages) THEN messages
    ELSE CopyStates(messages, Bare(IF strategy = "window" THEN Context!SlidingWindow(messages)
                                   ELSE Context!Summarise(messages, answered)))

SerializedInOrder(messages) ==
    LET with == SelectSeq(messages, LAMBDA m : m.state # NoState /\ Matches(m.state, m))
    IN  [n \in DOMAIN with |-> [at |-> n, state |-> with[n].state]]

\* serializeGoogleReplayState: the places and states of the messages. What
\* does not fit throws (assertSerializedSize), where a snapshot is made.
Serialized(messages) ==
    LET at == InOrder({i \in DOMAIN messages :
                         messages[i].state # NoState /\ Matches(messages[i].state, messages[i])})
    IN  [n \in DOMAIN at |-> [at |-> at[n], state |-> messages[at[n]].state]]

Snapshot(messages) == [messages |-> Bare(messages), entries |-> Serialized(messages)]

Fits(entries) ==
    Cardinality(UNION {{n} \X DOMAIN entries[n].state.parts : n \in DOMAIN entries}) <= MaxSize

\* inspectReplayPart, for all parts
Recognised(entries) ==
    \A n \in DOMAIN entries : \A p \in Range(entries[n].state.parts) : p.known

\* inspectEnvelope
Acceptable(snapshot) ==
    /\ Fits(snapshot.entries)
    /\ Len(snapshot.entries) <= MaxEntries
    /\ Recognised(snapshot.entries)
    /\ \A n \in DOMAIN snapshot.entries :
         LET e == snapshot.entries[n]
         IN  /\ e.at \in DOMAIN snapshot.messages
             /\ Signed(e.state.parts)
             /\ Matches(e.state, snapshot.messages[e.at])

\* restoreGoogleReplayState
Restored(snapshot) ==
    LET stateAt(i) == {n \in DOMAIN snapshot.entries : snapshot.entries[n].at = i}
    IN  [i \in DOMAIN snapshot.messages |->
           IF stateAt(i) = {} THEN snapshot.messages[i]
           ELSE [snapshot.messages[i] EXCEPT !.state = snapshot.entries[Max(stateAt(i))].state]]

NotReindexed(snapshot, target) ==
    [messages |-> Bare(target), entries |-> snapshot.entries]

\* reindexGoogleReplaySnapshot
Reindexed(snapshot, target) == Snapshot(CopyStates(Restored(snapshot), Bare(target)))

-----------------------------------------------------------------------------
(* translateGeminiMessages: what a model is sent.  Messages with a state   *)
(* for the model go out as the parts it wrote; the ids of their calls are  *)
(* kept for the results that follow.                                       *)

\* The calls of a state under an id of the program that have one of their own.
NamedAs(state, id) ==
    {n \in DOMAIN state.calls : state.calls[n].id = id /\ state.calls[n].native # NoId}

\* Of several calls with one id the latest has the say (mutant: the earliest).
Earliest(places) == Min(places)
Latest(places) == Max(places)

\* nativeIds when message i is translated
NativeId(messages, model, i, id) ==
    LET callers == {j \in 1..(i - 1) : NamedAs(GetState(messages[j], model), id) # {}}
        state == GetState(messages[Latest(callers)], model)
    IN  IF callers = {} THEN NoId ELSE state.calls[Max(NamedAs(state, id))].native

Contents(messages, model) ==
    [i \in DOMAIN messages |->
        LET m == messages[i]
            state == GetState(m, model)
        IN  IF state # NoState THEN [raw |-> TRUE, parts |-> state.parts]
            ELSE [raw |-> FALSE,
                  parts |-> [n \in DOMAIN m.calls |->
                     IF m.kind = "results"
                     THEN Part("response", 0, NativeId(messages, model, i, m.calls[n].id), NoSignature)
                     ELSE Part(m.kind, 0, NoId, NoSignature)]]]

-----------------------------------------------------------------------------
Init ==
    /\ history = <<>> /\ loaded = TRUE /\ refused = FALSE
    /\ saved = [messages |-> <<>>, entries |-> <<>>]
    /\ working = <<>> /\ asking = FALSE
    /\ rounds = 0 /\ answers = 1 /\ turns = 0
    /\ strategy \in Strategies /\ repeats \in BOOLEAN

\* send, sendStream: up to the first model step
Send ==
    /\ loaded /\ ~asking /\ turns < MaxTurns
    /\ \E answered \in BOOLEAN : working' = Prepared(Append(history, User), answered)
    /\ asking' = TRUE /\ rounds' = 0 /\ turns' = turns + 1
    /\ UNCHANGED <<history, loaded, saved, refused, answers, strategy, repeats>>

EndTurn == working' = <<>> /\ asking' = FALSE /\ rounds' = 0

\* The model asks for tools: they run, and the next model step is prepared.
CallTools(m) ==
    /\ m.kind = "calls"
    /\ IF rounds = MaxRounds THEN EndTurn
       ELSE /\ \E answered \in BOOLEAN :
                 working' = Prepared(working \o <<m, Results(m.calls)>>, answered)
            /\ rounds' = rounds + 1 /\ UNCHANGED asking
    /\ UNCHANGED <<history, saved>>

\* finalizeExecution: the turn is saved, then kept in memory; it throws with
\* nothing done if its states take too much room.
Finish(m) ==
    LET snapshot == Snapshot(Append(working, m)) IN
    /\ m.kind = "assistant"
    /\ IF Fits(snapshot.entries)
       THEN history' = Append(working, m) /\ saved' = snapshot
       ELSE UNCHANGED <<history, saved>>
    /\ EndTurn

\* A model answers; the router may choose another one for every step.
Answer ==
    /\ asking
    /\ \E m \in OtherMessages \union UNION {{GoogleMessage(g, p) : p \in GoogleAnswers(g)} : g \in Google} :
         \/ CallTools(m)
         \/ Finish(m)
    /\ answers' = answers + 1
    /\ UNCHANGED <<loaded, refused, turns, strategy, repeats>>

\* The turn throws: what it gathered is dropped.
Fail == asking /\ EndTurn /\ UNCHANGED <<history, loaded, saved, refused, answers, turns, strategy, repeats>>

\* The process ends and takes the conversation with it.
Restart ==
    /\ loaded
    /\ loaded' = FALSE /\ history' = <<>> /\ EndTurn
    /\ UNCHANGED <<saved, refused, answers, turns, strategy, repeats>>

\* Conversation.restore
Load ==
    /\ ~loaded
    /\ IF Acceptable(saved)
       THEN loaded' = TRUE /\ history' = Restored(saved) /\ UNCHANGED refused
       ELSE refused' = TRUE /\ UNCHANGED <<loaded, history>>
    /\ UNCHANGED <<saved, turnVars>>

\* handleCompactSession: a later save of the conversation in memory would be
\* refused for its version, so it has to be loaded again. A request that
\* throws changes nothing.
Compact ==
    /\ ~asking /\ saved.messages # <<>> /\ Acceptable(saved)
    /\ saved' = Reindexed(saved, Context!SlidingWindow(saved.messages))
    /\ Fits(saved'.entries)
    /\ loaded' = FALSE /\ history' = <<>>
    /\ UNCHANGED <<refused, turnVars>>

\* handleForkSession; the fork is the session followed from here on.
Fork ==
    /\ ~asking /\ Acceptable(saved)
    /\ \E last \in DOMAIN saved.messages :
         saved' = Reindexed(saved, SubSeq(saved.messages, 1, last))
    /\ Fits(saved'.entries)
    /\ loaded' = FALSE /\ history' = <<>>
    /\ UNCHANGED <<refused, turnVars>>

Next == Send \/ Answer \/ Fail \/ Restart \/ Load \/ Compact \/ Fork

Spec == Init /\ [][Next]_vars

-----------------------------------------------------------------------------
(* No request to one model contains a signature or an id another model     *)
(* made up: "another provider or model never receives it"                  *)
(* (CONVERSATIONS_AND_TOOLS.md), after any sequence of fallbacks, trims,   *)
(* restarts, compactions and forks.                                        *)
StateBoundToModel ==
    asking => \A g \in Google : LET sent == Contents(working, g) IN
        \A i \in DOMAIN sent : \A p \in Range(sent[i].parts) :
            /\ p.sig # NoSignature => p.sig.model = g
            /\ sent[i].raw => [n \in DOMAIN working[i].calls |-> working[i].calls[n].args]
                              = [n \in DOMAIN CallsOf(sent[i].parts) |-> CallsOf(sent[i].parts)[n].args]

(* The results of tool calls never leave without the parts, signed, of the *)
(* answer that asked for them, when the model that signed them is asked    *)
(* again: "Conversation handles this".  Claimed for sessions whose calls   *)
(* differ, as states follow messages by their text, and that are not       *)
(* summarised: a summary in front of the call ends the copying.  And for   *)
(* answers short enough for a snapshot to hold their parts.                *)
SignatureReplayed ==
    asking /\ Len(working) > 1 /\ ~repeats /\ strategy # "summary" =>
        LET asked == working[Len(working) - 1] IN
        \A g \in Google :
            (/\ Last(working).kind = "results" /\ asked.wrote.model = g
             /\ Signed(asked.wrote.parts) /\ Short(asked.wrote.parts))
                => Contents(working, g)[Len(working) - 1].parts = asked.wrote.parts

(* The model that signed an answer gets the signatures back with the       *)
(* results of its calls, and no other model ever gets them.                *)
SignaturesFollowModel == StateBoundToModel /\ SignatureReplayed

(* A result carries the id the model gave to the call it answers, when the *)
(* call goes out as the model wrote it.                                    *)
ResultsNameCalls ==
    asking => \A g \in Google : LET sent == Contents(working, g) IN
        \A i \in DOMAIN working :
            i > 1 /\ working[i].kind = "results" /\ sent[i - 1].raw
              /\ working[i].calls = working[i - 1].calls =>
                \A n \in DOMAIN working[i].calls :
                    LET native == CallsOf(sent[i - 1].parts)[n].native
                    IN  native # NoId => sent[i].parts[n].native = native

(* Between turns a restart loses nothing but the states too long for a     *)
(* snapshot: what restore makes of the stored one is the conversation in   *)
(* memory, with all its other states.  And whatever was trimmed, compacted *)
(* or forked, the stored snapshot is refused for one of two reasons only:  *)
(* it has more states than restore admits, or a part that restore does not *)
(* recognise.  Neither its size, nor a state at the wrong message, without *)
(* a signature or with other calls than its message ever is the reason.    *)
Durable(messages) ==
    [i \in DOMAIN messages |->
        IF Short(messages[i].state.parts) THEN messages[i]
        ELSE [messages[i] EXCEPT !.state = NoState]]

SavedSessionRestores ==
    /\ refused => Len(saved.entries) > MaxEntries \/ ~Recognised(saved.entries)
    /\ loaded /\ ~asking => Restored(saved) = Durable(history)

(* Not so: what was saved can always be loaded.  Nothing on the way into a *)
(* snapshot counts its states or looks at the parts of an answer; only     *)
(* restore does.                                                           *)
SavedSessionsLoad == ~refused
=============================================================================
