-------------------------- MODULE ConversationTurns --------------------------
(***************************************************************************)
(* One Conversation object (src/src/conversation.ts) and its callers.      *)
(*                                                                         *)
(* A turn is one call of send() or one iterated sendStream().  Turns queue *)
(* first-in first-out for the conversation, run a model/tool loop, and     *)
(* commit history, totals and version only after the session store has     *)
(* accepted the new snapshot.  JavaScript runs to completion between       *)
(* awaits, so one action stands for the code between two awaits of one     *)
(* caller; everything the code awaits (a provider, a tool callback, a      *)
(* timer, the context manager, the store, the consumer of a stream) may    *)
(* interleave with the other callers.                                      *)
(***************************************************************************)
EXTENDS Integers, Sequences, FiniteSets, SequencesExt

CONSTANTS
    Turns,              \* the calls of send() and sendStream()
    Streams,            \* those that are sendStream() calls
    Calls,              \* names a model response may give to its tool calls
    MaxToolRounds,      \* maxToolRounds
    HasExecutor,        \* a dispatcher or a tool with execute() is registered
    HasStore,           \* a SessionStore is configured
    StrictLogging,      \* usageLoggerFailureMode is 'strict'
    ConversationBudget, \* budgetUsd of the conversation, or NoBudget
    RequestBudget,      \* per turn: budgetUsd of the request, or NoBudget
    BudgetAction,       \* per turn: 'throw', 'skip' or 'warn'
    NoBudget,           \* stands for an undefined budget
    Costs,              \* costs a provider response may have
    TrimOutcomes(_),    \* lists the context manager may return for a list
    Foreign,            \* the author of messages other processes store
    MaxForeignWrites    \* bound on the writes of other processes

ASSUME TurnsAssumption == Streams \subseteq Turns /\ IsFiniteSet(Calls)
ASSUME OptionsAssumption ==
    /\ MaxToolRounds \in Nat
    /\ HasExecutor \in BOOLEAN /\ HasStore \in BOOLEAN /\ StrictLogging \in BOOLEAN
    /\ MaxForeignWrites \in Nat /\ Costs \subseteq Nat
ASSUME BudgetAssumption ==
    /\ ConversationBudget \in Nat \cup {NoBudget}
    /\ RequestBudget \in [Turns -> Nat \cup {NoBudget}]
    /\ BudgetAction \in [Turns -> {"throw", "skip", "warn"}]

VARIABLES
    pc,                   \* where each turn is
    aborted,              \* each caller's AbortSignal has fired
    turnActive, turnWaiters,
    activeToolExecutions, \* the re-entrancy counter
    running,              \* tool callbacks that have started and not settled
    round, pending,       \* per turn: tool round, calls of it not yet answered
    work, spent,          \* per turn: working messages, aggregated cost
    messages, totalCostUSD, version,
    stored,               \* the record of this session in the store
    foreignWrites,
    arrivals              \* history: the turns that entered acquireTurn, in order

queueVars == <<turnActive, turnWaiters>>
toolVars  == <<activeToolExecutions, running>>
loopVars  == <<round, pending, work, spent>>
stateVars == <<messages, totalCostUSD, version>>
storeVars == <<stored, foreignWrites>>
vars == <<pc, aborted, queueVars, toolVars, loopVars, stateVars, storeVars, arrivals>>

Kinds    == {"user", "assistant", "calls", "results"}
Message  == [turn : Turns \cup {Foreign}, kind : Kinds]
Callback == Turns \X Nat \X Calls

(* The phases between acquiring the turn and releasing it; in a Body phase *)
(* the turn has also passed the checks made right after acquisition.       *)
Body    == {"preparing", "requesting", "executing", "offered", "committing", "billing"}
Holding == Body \cup {"granted"}
Ended   == {"committed", "billed", "failed", "rejected"}
Phase   == Holding \cup Ended \cup {"idle", "queued"}

Msg(t, k) == [turn |-> t, kind |-> k]
Snapshot(msgs, cost) == [version |-> version + 1, messages |-> msgs, cost |-> cost]

Init ==
    /\ pc = [t \in Turns |-> "idle"]
    /\ aborted = [t \in Turns |-> FALSE]
    /\ turnActive = FALSE
    /\ turnWaiters = <<>>
    /\ activeToolExecutions = 0
    /\ running = {}
    /\ round = [t \in Turns |-> 0]
    /\ pending = [t \in Turns |-> {}]
    /\ work = [t \in Turns |-> <<>>]
    /\ spent = [t \in Turns |-> 0]
    /\ messages = <<>>
    /\ totalCostUSD = 0
    /\ version = 0
    /\ stored = [version |-> 0, messages |-> <<>>, cost |-> 0]
    /\ foreignWrites = 0
    /\ arrivals = <<>>

-----------------------------------------------------------------------------
(* The turn queue.                                                         *)

(* send(), or the first pull from a sendStream() iterator, up to the await *)
(* of acquireTurn.                                                         *)
Call(t) ==
    /\ pc[t] = "idle"
    /\ \/ /\ activeToolExecutions > 0 \/ aborted[t]
          /\ pc' = [pc EXCEPT ![t] = "rejected"]
          /\ UNCHANGED <<queueVars, arrivals>>
       \/ /\ activeToolExecutions = 0 /\ ~aborted[t]
          /\ arrivals' = Append(arrivals, t)
          /\ \/ /\ ~turnActive
                /\ turnActive' = TRUE
                /\ pc' = [pc EXCEPT ![t] = "granted"]
                /\ UNCHANGED turnWaiters
             \/ /\ turnActive
                /\ turnWaiters' = Append(turnWaiters, t)
                /\ pc' = [pc EXCEPT ![t] = "queued"]
                /\ UNCHANGED turnActive
    /\ UNCHANGED <<aborted, toolVars, loopVars, stateVars, storeVars>>

(* The caller's signal fires; a waiter's onAbort takes it out of the queue. *)
Abort(t) ==
    /\ ~aborted[t] /\ pc[t] \notin Ended
    /\ aborted' = [aborted EXCEPT ![t] = TRUE]
    /\ \/ /\ pc[t] # "queued"
          /\ UNCHANGED <<pc, turnWaiters>>
       \/ /\ pc[t] = "queued"
          /\ \E i \in 1..Len(turnWaiters) :
                /\ turnWaiters[i] = t
                /\ turnWaiters' = RemoveAt(turnWaiters, i)
          /\ pc' = [pc EXCEPT ![t] = "rejected"]
    /\ UNCHANGED <<turnActive, toolVars, loopVars, stateVars, storeVars, arrivals>>

(* Mutants of Release: the conversation is marked free although it is      *)
(* handed over; the newest waiter is served; the waiter is dropped from    *)
(* the queue but never resolved.                                           *)
ReleaseReopens(t, outcome) ==
    /\ turnActive' = FALSE
    /\ turnWaiters' = IF turnWaiters = <<>> THEN <<>> ELSE Tail(turnWaiters)
    /\ pc' = [u \in Turns |->
                 IF u = t THEN outcome
                 ELSE IF turnWaiters # <<>> /\ u = Head(turnWaiters) THEN "granted" ELSE pc[u]]
ReleaseNewest(t, outcome) ==
    /\ turnActive' = (turnWaiters # <<>>)
    /\ turnWaiters' = IF turnWaiters = <<>> THEN <<>> ELSE Front(turnWaiters)
    /\ pc' = [u \in Turns |->
                 IF u = t THEN outcome
                 ELSE IF turnWaiters # <<>> /\ u = Last(turnWaiters) THEN "granted" ELSE pc[u]]
ReleaseForgets(t, outcome) ==
    /\ turnActive' = FALSE
    /\ turnWaiters' = IF turnWaiters = <<>> THEN <<>> ELSE Tail(turnWaiters)
    /\ pc' = [pc EXCEPT ![t] = outcome]

(* createTurnRelease: turn t ends with the given outcome and hands the     *)
(* conversation to the first waiter whose signal has not fired, rejecting  *)
(* the waiters before it; turnActive stays TRUE across a hand-over.        *)
Release(t, outcome) ==
    \/ /\ \A i \in 1..Len(turnWaiters) : aborted[turnWaiters[i]]
       /\ turnActive' = FALSE
       /\ turnWaiters' = <<>>
       /\ pc' = [u \in Turns |->
                    IF u = t THEN outcome
                    ELSE IF pc[u] = "queued" THEN "rejected" ELSE pc[u]]
    \/ \E i \in 1..Len(turnWaiters) :
          /\ ~aborted[turnWaiters[i]]
          /\ \A j \in 1..(i - 1) : aborted[turnWaiters[j]]
          /\ turnWaiters' = SubSeq(turnWaiters, i + 1, Len(turnWaiters))
          /\ pc' = [u \in Turns |->
                       IF u = t THEN outcome
                       ELSE IF u = turnWaiters[i] THEN "granted"
                       ELSE IF \E j \in 1..(i - 1) : turnWaiters[j] = u THEN "rejected"
                       ELSE pc[u]]
          /\ UNCHANGED turnActive

(* The turn throws: nothing it did is committed.                           *)
Fail(t) ==
    /\ Release(t, "failed")
    /\ UNCHANGED <<aborted, toolVars, loopVars, stateVars, storeVars, arrivals>>

(* Mutant of Start: re-entrancy is not checked again after the wait.       *)
StartUnchecked(t) ==
    /\ pc[t] = "granted"
    /\ \/ /\ aborted[t]
          /\ Fail(t)
       \/ /\ ~aborted[t]
          /\ pc' = [pc EXCEPT ![t] = "preparing"]
          /\ work' = [work EXCEPT ![t] = Append(messages, Msg(t, "user"))]
          /\ UNCHANGED <<aborted, queueVars, toolVars, round, pending, spent,
                         stateVars, storeVars, arrivals>>

(* The continuation of `await acquireTurn': both checks again, then the    *)
(* user message is appended to the committed history.                      *)
Start(t) ==
    /\ pc[t] = "granted"
    /\ \/ /\ activeToolExecutions > 0 \/ aborted[t]
          /\ Fail(t)
       \/ /\ activeToolExecutions = 0 /\ ~aborted[t]
          /\ pc' = [pc EXCEPT ![t] = "preparing"]
          /\ work' = [work EXCEPT ![t] = Append(messages, Msg(t, "user"))]
          /\ UNCHANGED <<aborted, queueVars, toolVars, round, pending, spent,
                         stateVars, storeVars, arrivals>>

(* Mutant of Clear: it does not look at turnActive.                        *)
ClearWhileActive ==
    /\ activeToolExecutions = 0
    /\ messages # <<>>
    /\ messages' = <<>>
    /\ UNCHANGED <<pc, aborted, queueVars, toolVars, loopVars, totalCostUSD, version,
                   storeVars, arrivals>>

(* clear() refuses while a turn or a callback is active.                   *)
Clear ==
    /\ ~turnActive /\ activeToolExecutions = 0
    /\ messages # <<>>
    /\ messages' = <<>>
    /\ UNCHANGED <<pc, aborted, queueVars, toolVars, loopVars, totalCostUSD, version,
                   storeVars, arrivals>>

-----------------------------------------------------------------------------
(* The model/tool loop.                                                    *)

(* Mutant of Remaining: the cost of the turn's earlier rounds is ignored.  *)
RemainingBeforeTurn(t) ==
    {ConversationBudget - totalCostUSD : b \in {ConversationBudget} \ {NoBudget}}
        \cup {RequestBudget[t] - spent[t] : b \in {RequestBudget[t]} \ {NoBudget}}

(* resolveRemainingBudgetDecision: what is left of each budget in force.   *)
Remaining(t) ==
    {ConversationBudget - (totalCostUSD + spent[t]) : b \in {ConversationBudget} \ {NoBudget}}
        \cup {RequestBudget[t] - spent[t] : b \in {RequestBudget[t]} \ {NoBudget}}
BudgetExhausted(t) == \E r \in Remaining(t) : r <= 0

(* The loop returns: send() goes on to finalizeExecution; sendStream()     *)
(* first yields the `done' chunk and waits for its consumer.               *)
Conclude(t, msgs) ==
    /\ work' = [work EXCEPT ![t] = msgs]
    /\ pc' = [pc EXCEPT ![t] = IF t \in Streams THEN "offered" ELSE "committing"]

(* The context manager answers and the next model step is decided.  A      *)
(* stream decides its budget before it trims, so that a skipped follow-up  *)
(* round keeps the untrimmed messages.  An aborted signal stops the turn   *)
(* here or on entry to the client, before a provider is contacted.         *)
Prepared(t) ==
    /\ pc[t] = "preparing"
    /\ \/ /\ aborted[t]
          /\ Fail(t)
       \/ /\ ~aborted[t]
          /\ BudgetExhausted(t) /\ BudgetAction[t] = "throw"
          /\ Fail(t)
       \/ /\ ~aborted[t]
          /\ \E trimmed \in TrimOutcomes(work[t]) :
                /\ trimmed \in Seq(Message)
                /\ \/ /\ BudgetExhausted(t) /\ BudgetAction[t] = "skip"
                      /\ Conclude(t, IF t \in Streams /\ round[t] > 0 THEN work[t] ELSE trimmed)
                   \/ /\ BudgetExhausted(t) => BudgetAction[t] = "warn"
                      /\ work' = [work EXCEPT ![t] = trimmed]
                      /\ pc' = [pc EXCEPT ![t] = "requesting"]
          /\ UNCHANGED <<aborted, queueVars, toolVars, round, pending, spent,
                         stateVars, storeVars, arrivals>>

(* The route does not resolve, the context manager throws or returns an    *)
(* invalid list; or the provider fails or streams an invalid sequence.     *)
StepFails(t) ==
    /\ pc[t] \in {"preparing", "requesting"}
    /\ Fail(t)

(* A response without tool calls to run.  send() also stops here when no   *)
(* executor is registered or when the calls came with another finish       *)
(* reason: the assistant message then keeps its unanswered calls.          *)
FinalReply(t, cost) ==
    /\ pc[t] = "requesting" /\ ~aborted[t]
    /\ spent' = [spent EXCEPT ![t] = @ + cost]
    /\ \E kind \in {"assistant"} \cup (IF t \in Streams THEN {} ELSE {"calls"}) :
          Conclude(t, Append(work[t], Msg(t, kind)))
    /\ UNCHANGED <<aborted, queueVars, toolVars, round, pending, stateVars, storeVars, arrivals>>

(* The client skips the request because its estimate exceeds the remaining *)
(* budget: nothing is spent and no assistant message is added.             *)
SkippedReply(t) ==
    /\ pc[t] = "requesting" /\ ~aborted[t]
    /\ BudgetAction[t] = "skip" /\ Remaining(t) # {}
    /\ Conclude(t, work[t])
    /\ UNCHANGED <<aborted, queueVars, toolVars, round, pending, spent, stateVars,
                   storeVars, arrivals>>

(* Mutant of FinishRound: the results replace the message with the calls.  *)
FinishRoundWithoutCalls(t, msgs) ==
    IF HasExecutor
    THEN /\ work' = [work EXCEPT ![t] = Append(Front(msgs), Msg(t, "results"))]
         /\ pc' = [pc EXCEPT ![t] = "preparing"]
    ELSE Conclude(t, Append(Front(msgs), Msg(t, "results")))

(* Every call of the round is answered: the results are appended and the   *)
(* next round is prepared; a stream without an executor ends here.         *)
FinishRound(t, msgs) ==
    IF HasExecutor
    THEN /\ work' = [work EXCEPT ![t] = Append(msgs, Msg(t, "results"))]
         /\ pc' = [pc EXCEPT ![t] = "preparing"]
    ELSE Conclude(t, Append(msgs, Msg(t, "results")))

(* A response with tool calls.  Calls with invalid arguments are answered  *)
(* at once with an error; for the others every callback is counted before  *)
(* the first one runs.                                                     *)
ToolReply(t, cost) ==
    /\ pc[t] = "requesting" /\ ~aborted[t]
    /\ HasExecutor \/ t \in Streams
    /\ spent' = [spent EXCEPT ![t] = @ + cost]
    /\ LET next  == round[t] + 1
           asked == Append(work[t], Msg(t, "calls"))
       IN \/ /\ next > MaxToolRounds
             /\ Release(t, "failed")
             /\ UNCHANGED <<toolVars, round, pending, work>>
          \/ /\ next <= MaxToolRounds
             /\ round' = [round EXCEPT ![t] = next]
             /\ \E started \in SUBSET Calls :
                   /\ HasExecutor \/ started = {}
                   /\ running' = running \cup {<<t, next, c>> : c \in started}
                   /\ activeToolExecutions' = activeToolExecutions + Cardinality(started)
                   /\ pending' = [pending EXCEPT ![t] = started]
                   /\ \/ /\ started = {}
                         /\ FinishRound(t, asked)
                      \/ /\ started # {}
                         /\ work' = [work EXCEPT ![t] = asked]
                         /\ pc' = [pc EXCEPT ![t] = "executing"]
             /\ UNCHANGED queueVars
    /\ UNCHANGED <<aborted, stateVars, storeVars, arrivals>>

(* One call of the current round gets its result, or a time-out error.     *)
Answer(t, c) ==
    /\ pending' = [pending EXCEPT ![t] = @ \ {c}]
    /\ \/ /\ pending[t] = {c}
          /\ FinishRound(t, work[t])
       \/ /\ pending[t] # {c}
          /\ UNCHANGED <<pc, work>>

(* A callback settles: the counter goes down, even when its turn has timed *)
(* out or ended; if the turn still waits for it, the call is answered.     *)
CallbackSettles(t, r, c) ==
    /\ <<t, r, c>> \in running
    /\ running' = running \ {<<t, r, c>>}
    /\ activeToolExecutions' = activeToolExecutions - 1
    /\ \/ /\ pc[t] = "executing" /\ round[t] = r /\ c \in pending[t] /\ ~aborted[t]
          /\ Answer(t, c)
       \/ /\ ~(pc[t] = "executing" /\ round[t] = r /\ c \in pending[t] /\ ~aborted[t])
          /\ UNCHANGED <<pc, work, pending>>
    /\ UNCHANGED <<aborted, queueVars, round, spent, stateVars, storeVars, arrivals>>

(* The timer of executeToolWithGuards wins; the callback keeps running.    *)
CallTimesOut(t, c) ==
    /\ pc[t] = "executing" /\ c \in pending[t] /\ ~aborted[t]
    /\ Answer(t, c)
    /\ UNCHANGED <<aborted, queueVars, toolVars, round, spent, stateVars, storeVars, arrivals>>

(* An awaiting turn whose signal has fired throws.                         *)
AbortObserved(t) ==
    /\ aborted[t] /\ pc[t] \in {"requesting", "executing", "offered"}
    /\ Fail(t)

(* The consumer of a stream leaves its loop: iterator.return().            *)
ConsumerStops(t) ==
    /\ t \in Streams
    /\ \/ pc[t] \in {"requesting", "offered"}
       \/ pc[t] = "preparing" /\ round[t] > 0
    /\ Fail(t)

(* Mutant of ConsumerPulls: the signal is not checked before the commit.   *)
ConsumerPullsUnchecked(t) ==
    /\ pc[t] = "offered"
    /\ pc' = [pc EXCEPT ![t] = "committing"]
    /\ UNCHANGED <<aborted, queueVars, toolVars, loopVars, stateVars, storeVars, arrivals>>

(* The consumer pulls again after `done': only now does the stream commit. *)
ConsumerPulls(t) ==
    /\ pc[t] = "offered" /\ ~aborted[t]
    /\ pc' = [pc EXCEPT ![t] = "committing"]
    /\ UNCHANGED <<aborted, queueVars, toolVars, loopVars, stateVars, storeVars, arrivals>>

(* The response arrived but the strict usage logger failed: the turn fails *)
(* after its aggregated cost has been committed with the old history.      *)
LoggerFails(t, cost) ==
    /\ StrictLogging
    /\ pc[t] = "requesting" /\ ~aborted[t]
    /\ spent' = [spent EXCEPT ![t] = @ + cost]
    /\ pc' = [pc EXCEPT ![t] = "billing"]
    /\ UNCHANGED <<aborted, queueVars, toolVars, round, pending, work, stateVars,
                   storeVars, arrivals>>

-----------------------------------------------------------------------------
(* finalizeExecution and the store.                                        *)

(* Mutants: billing a failed turn also keeps its partial messages; or      *)
(* forgets the cost the turn had accumulated.                              *)
NextMessagesOfLoop(t) == work[t]
NextCostUnbilled(t) == totalCostUSD + (IF pc[t] = "committing" THEN spent[t] ELSE 0)

Persisting(t) == pc[t] \in {"committing", "billing"}
NextMessages(t) == IF pc[t] = "committing" THEN work[t] ELSE messages
NextCost(t) == totalCostUSD + spent[t]
Accepts == stored.version = version   \* the compare of compare-and-set

(* The store accepts: only then do history, totals and version change.     *)
PersistOk(t) ==
    /\ Persisting(t)
    /\ \/ /\ HasStore /\ Accepts
          /\ stored' = Snapshot(NextMessages(t), NextCost(t))
          /\ version' = version + 1
       \/ /\ ~HasStore
          /\ UNCHANGED <<stored, version>>
    /\ messages' = NextMessages(t)
    /\ totalCostUSD' = NextCost(t)
    /\ Release(t, IF pc[t] = "committing" THEN "committed" ELSE "billed")
    /\ UNCHANGED <<aborted, toolVars, loopVars, foreignWrites, arrivals>>

PersistConflicts(t) ==
    /\ Persisting(t) /\ HasStore /\ ~Accepts
    /\ Fail(t)

(* Mutant of PersistFails: totals are assigned before the store is awaited. *)
PersistFailsEagerly(t) ==
    /\ Persisting(t) /\ HasStore
    /\ totalCostUSD' = NextCost(t)
    /\ Release(t, "failed")
    /\ UNCHANGED <<aborted, toolVars, loopVars, messages, version, storeVars, arrivals>>

(* The store call fails, before or after the write took effect.            *)
PersistFails(t) ==
    /\ Persisting(t) /\ HasStore
    /\ \/ UNCHANGED stored
       \/ /\ Accepts
          /\ stored' = Snapshot(NextMessages(t), NextCost(t))
    /\ Release(t, "failed")
    /\ UNCHANGED <<aborted, toolVars, loopVars, stateVars, foreignWrites, arrivals>>

(* Another process restores the session and commits a turn to it.          *)
ForeignWrite(cost) ==
    /\ HasStore /\ foreignWrites < MaxForeignWrites
    /\ foreignWrites' = foreignWrites + 1
    /\ stored' = [version  |-> stored.version + 1,
                  messages |-> Append(stored.messages, Msg(Foreign, "user")),
                  cost     |-> stored.cost + cost]
    /\ UNCHANGED <<pc, aborted, queueVars, toolVars, loopVars, stateVars, arrivals>>

-----------------------------------------------------------------------------

(* What the running side of a turn does once it has entered the queue.     *)
Progress(t) ==
    \/ Start(t) \/ Prepared(t) \/ StepFails(t) \/ SkippedReply(t)
    \/ AbortObserved(t) \/ ConsumerStops(t) \/ ConsumerPulls(t)
    \/ PersistOk(t) \/ PersistConflicts(t) \/ PersistFails(t)
    \/ \E cost \in Costs : FinalReply(t, cost) \/ ToolReply(t, cost) \/ LoggerFails(t, cost)
    \/ \E c \in Calls : CallTimesOut(t, c)

Next ==
    \/ \E t \in Turns : Call(t) \/ Abort(t) \/ Progress(t)
    \/ \E cb \in running : CallbackSettles(cb[1], cb[2], cb[3])
    \/ Clear
    \/ \E cost \in Costs : ForeignWrite(cost)

Spec == Init /\ [][Next]_vars

(* Providers and stores answer or fail, time-outs fire, and a consumer of  *)
(* a stream pulls again or stops; a tool callback may never settle.        *)
Fairness == \A t \in Turns : WF_vars(Progress(t))
FairSpec == Spec /\ Fairness

-----------------------------------------------------------------------------
(* Properties.                                                             *)

(* Every variable keeps its shape.                                         *)
TypeOK ==
    /\ pc \in [Turns -> Phase]
    /\ aborted \in [Turns -> BOOLEAN]
    /\ turnActive \in BOOLEAN
    /\ turnWaiters \in Seq(Turns)
    /\ activeToolExecutions \in Nat
    /\ running \in SUBSET Callback
    /\ round \in [Turns -> Nat]
    /\ pending \in [Turns -> SUBSET Calls]
    /\ work \in [Turns -> Seq(Message)]
    /\ spent \in [Turns -> Nat]
    /\ messages \in Seq(Message)
    /\ totalCostUSD \in Nat /\ version \in Nat
    /\ stored \in [version : Nat, messages : Seq(Message), cost : Nat]
    /\ foreignWrites \in Nat
    /\ arrivals \in Seq(Turns)

(* At most one turn is between acquisition and release.                    *)
OneHolder == \A t, u \in Turns : pc[t] \in Holding /\ pc[u] \in Holding => t = u

(* turnActive is exactly "some turn holds the conversation", and the queue *)
(* is exactly the queued turns, each once: no waiter is lost or left       *)
(* behind by createTurnRelease or by onAbort.                              *)
TurnQueueSound ==
    /\ OneHolder
    /\ turnActive <=> \E t \in Turns : pc[t] \in Holding
    /\ turnWaiters # <<>> => turnActive
    /\ \A t \in Turns : pc[t] = "queued" <=> \E i \in 1..Len(turnWaiters) : turnWaiters[i] = t
    /\ \A i, j \in 1..Len(turnWaiters) : turnWaiters[i] = turnWaiters[j] => i = j

(* First in, first out: while a turn waits, every turn that arrived after  *)
(* it waits too, or has been rejected.                                     *)
NoOvertaking ==
    \A i, j \in 1..Len(arrivals) :
        i < j /\ pc[arrivals[i]] = "queued" => pc[arrivals[j]] \in {"queued", "rejected"}

(* No turn does any work while a callback of another turn is still         *)
(* running, even one that timed out or whose turn has ended.               *)
NoForeignCallback ==
    \A t \in Turns : pc[t] \in Body => \A cb \in running : cb[1] = t

(* Turns exclude one another: in the queue, and in the callbacks they run. *)
TurnsExclusive == TurnQueueSound /\ NoForeignCallback

(* In the committed history tool results directly follow the assistant     *)
(* message, of the same turn, that asked for them.                         *)
ResultsFollowCalls ==
    \A i \in 1..Len(messages) :
        messages[i].kind = "results" =>
            i > 1 /\ messages[i - 1] = Msg(messages[i].turn, "calls")

(* History changes only by clear() or by the commit of one turn, which     *)
(* appends that turn's messages, all of them and only them (when nothing   *)
(* trims the history).                                                     *)
CommitAppendsWholeTurn ==
    [][messages' # messages =>
          \/ messages' = <<>> /\ ~turnActive
          \/ \E t \in Turns :
                /\ pc[t] = "committing" /\ pc'[t] = "committed"
                /\ messages' = work[t]
                /\ \A i \in 1..Len(messages') :
                      (messages'[i].turn = t) <=> (i > Len(messages))]_vars

(* Memory is never ahead of the store, and at the same version they agree: *)
(* no failed or conflicting store call leaks into history or totals.       *)
MemoryMatchesStore ==
    HasStore =>
        /\ version <= stored.version
        /\ version = stored.version =>
              /\ totalCostUSD = stored.cost
              /\ messages \in {stored.messages, <<>>}

(* The conversation's total is the cost of the turns that ended committed  *)
(* or billed: each counted once, with all of its rounds, and no other.     *)
AccountingExact ==
    totalCostUSD = MapThenSumSet(LAMBDA t : spent[t],
                                 {t \in Turns : pc[t] \in {"committed", "billed"}})

(* Unless a turn asked only for warnings, every round but the last that a  *)
(* budget pays for fits in it: spending stays below the budget plus one    *)
(* response, for the conversation and for each request.                    *)
BudgetRespected ==
    \A t \in Turns : pc[t] \in Body =>
        /\ ConversationBudget # NoBudget /\ (\A u \in Turns : BudgetAction[u] # "warn") =>
              totalCostUSD + spent[t] < ConversationBudget + Max(Costs)
        /\ RequestBudget[t] # NoBudget /\ BudgetAction[t] # "warn" =>
              spent[t] < RequestBudget[t] + Max(Costs)

(* Once its signal has fired a turn contacts no provider, starts no tool   *)
(* callback and begins no commit.                                          *)
AbortStopsWork ==
    [][\A t \in Turns :
          aborted[t] /\ pc'[t] # pc[t] => pc'[t] \in Ended]_vars

(* The steps of a turn, whatever its callbacks, its caller and the others  *)
(* do: a commit is of the whole turn, and none follows an abort.           *)
CommitsWholeWantedTurns == CommitAppendsWholeTurn /\ AbortStopsWork

(* Every turn that has been called ends, although callbacks may hang.      *)
EveryTurnEnds ==
    \A t \in Turns : (pc[t] \notin {"idle"} \cup Ended) ~> (pc[t] \in Ended)

(* "Streams a user turn and commits state when the final `done' chunk      *)
(* arrives" (the comment of sendStream): once its consumer holds the done  *)
(* chunk, the turn gets committed.                                         *)
DoneMeansCommitted ==
    \A t \in Streams : pc[t] = "offered" ~> pc[t] = "committed"

(* "Support pinned messages, including [...] latest user message"          *)
(* (todo.md, T-12.3): the prompt of the turn in flight stays among the     *)
(* messages sent to the model.                                             *)
PromptKept ==
    \A t \in Turns : pc[t] = "requesting" =>
        \E i \in 1..Len(work[t]) : work[t][i] = Msg(t, "user")
=============================================================================
