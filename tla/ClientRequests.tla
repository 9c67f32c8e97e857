--------------------------- MODULE ClientRequests ---------------------------
(***************************************************************************)
(* One request of LLMClient (client.ts): a completion, a stream or speech. *)
(* Completions and streams go over the routes that ModelRouter lists, one  *)
(* after the other; each route checks the budget, sends HTTP requests with *)
(* withRetry (utils/retry.ts), reads the answer and logs its usage.  The   *)
(* signal of the caller may abort the request at any moment.               *)
(*                                                                         *)
(* A step lasts from one await or yield to the next.  Requests of a client *)
(* share no state that matters here, so one request is enough.             *)
(***************************************************************************)
EXTENDS Naturals, Sequences

CONSTANTS MaxRoutes,     \* routes a rule lists: its target and its fallbacks
          MaxAttempts    \* maxAttempts of withRetry

ASSUME RoutesAssumption == MaxRoutes \in Nat \ {0}
ASSUME AttemptsAssumption == MaxAttempts \in Nat \ {0}

VARIABLES request,     \* what is asked for, and how the client is configured
          pc, resume,  \* the next step; the one after the next pull of the consumer
          outcome,     \* how the request ended
          route,       \* the route under way
          tries,       \* its HTTP requests
          visible,     \* emittedUserVisibleChunk
          warned,      \* budgetWarningIssued
          aborted,     \* the signal has fired
          replies,     \* history: the last HTTP response of every route
          requests,    \* history: the HTTP requests of every route
          logged,      \* history: the routes reported to the usage logger
          warnings     \* history: budget warnings to the application

control == <<pc, resume, outcome>>
history == <<replies, requests, logged, warnings>>
vars == <<request, control, route, tries, visible, warned, aborted, history>>

Routes == 1 .. MaxRoutes

\* keyed: the routes whose provider has an API key.
Request == [kind : {"complete", "stream", "speech"}, routes : Routes, keyed : SUBSET Routes,
            overBudget : {"throw", "warn", "skip"},
            logger : {"none", "lenient", "strict"}]

\* "refused": 401, 403 and what Gemini maps to the same errors; "transient":
\* 429 and 5xx; "bad": any other status; "lost": fetch itself fails.
Reply == {"ok", "refused", "transient", "bad", "lost"}

Places == {"idle", "route", "dispatch", "fetching", "sleeping", "reading", "logging",
           "held", "ended"}
Resumptions == {"none", "route", "dispatch", "reading", "skip text", "log", "done", "end"}
Outcomes == {"none", "ok", "skipped", "failed", "aborted", "stopped"}

TypeOK ==
  /\ request \in Request
  /\ pc \in Places /\ resume \in Resumptions /\ outcome \in Outcomes
  /\ route \in 0 .. request.routes
  /\ tries \in 0 .. MaxAttempts
  /\ visible \in BOOLEAN /\ warned \in BOOLEAN /\ aborted \in BOOLEAN
  /\ replies \in [Routes -> Reply \cup {"none"}]
  /\ requests \in [Routes -> 0 .. MaxAttempts]
  /\ logged \in Seq(Routes)
  /\ warnings \in Nat

Init ==
  /\ request \in {r \in Request : r.kind = "speech" => r.routes = 1}
  /\ pc = "idle" /\ resume = "none" /\ outcome = "none"
  /\ route = 0 /\ tries = 0
  /\ visible = FALSE /\ warned = FALSE /\ aborted = FALSE
  /\ replies = [r \in Routes |-> "none"]
  /\ requests = [r \in Routes |-> 0]
  /\ logged = <<>> /\ warnings = 0

----------------------------------------------------------------------------
Streamed == request.kind = "stream"

\* The route under way has been answered; a skipped one never is.
Answered == route > 0 /\ replies[route] = "ok"

Goto(place) == pc' = place /\ resume' = "none" /\ UNCHANGED outcome
Yield(next) == pc' = "held" /\ resume' = next /\ UNCHANGED outcome
End(how) == pc' = "ended" /\ resume' = "none" /\ outcome' = how

\* Mutant: every error is worth another route, if nothing visible came.
FallsBackAlways(retryable) == ~visible /\ route < request.routes

\* shouldTryFallback, and what the catch blocks ask besides.
FallsBack(retryable) ==
  /\ request.kind # "speech"
  /\ retryable /\ ~visible /\ route < request.routes

\* An error is thrown while a route is tried; a stream announces the retry.
Throw(retryable) ==
  IF FallsBack(retryable)
  THEN IF Streamed THEN Yield("route") ELSE Goto("route")
  ELSE End("failed")

\* Mutant: complete() looks at the signal only before it logs.
AfterLoggingUnchecked ==
  IF Streamed THEN Yield(IF Answered THEN "done" ELSE "end")
  ELSE End(IF Answered THEN "ok" ELSE "skipped")

\* The usage event is logged, or there is no logger.
AfterLogging ==
  IF aborted /\ (Streamed \/ Answered) THEN End("aborted")
  ELSE IF Streamed THEN Yield(IF Answered THEN "done" ELSE "end")
  ELSE End(IF Answered THEN "ok" ELSE "skipped")

Log ==
  IF request.logger = "none" THEN AfterLogging /\ UNCHANGED logged
  ELSE Goto("logging") /\ logged' = Append(logged, route)

----------------------------------------------------------------------------
\* The options are validated and the routes resolved.
Start ==
  /\ pc = "idle" /\ ~aborted
  /\ Goto("route") \/ End("failed")
  /\ UNCHANGED <<request, route, tries, visible, warned, aborted, history>>

\* The head of the loop over the routes.
BeginRoute ==
  /\ route' = route + 1 /\ tries' = 0 /\ visible' = FALSE
  /\ UNCHANGED <<request, aborted, replies, requests>>

Proceed == IF Streamed THEN Yield("dispatch") ELSE Goto("dispatch")

\* The next route fits the budget ...
Affordable ==
  /\ pc = "route" /\ ~aborted
  /\ BeginRoute /\ Proceed
  /\ UNCHANGED <<warned, warnings, logged>>

\* handleBudgetExceededAction warns once a request.
Warn ==
  /\ warnings' = IF warned THEN warnings ELSE warnings + 1
  /\ warned' = TRUE

\* ... or it does not.
Unaffordable ==
  /\ pc = "route" /\ ~aborted
  /\ BeginRoute
  /\ \/ request.overBudget = "throw" /\ End("failed") /\ UNCHANGED <<warned, warnings, logged>>
     \/ request.overBudget = "warn" /\ Proceed /\ Warn /\ UNCHANGED logged
     \/ /\ request.overBudget = "skip"
        /\ IF Streamed THEN Yield("skip text") /\ UNCHANGED logged
           ELSE IF request.logger = "none" THEN End("skipped") /\ UNCHANGED logged
           ELSE Goto("logging") /\ logged' = Append(logged, route')
        /\ UNCHANGED <<warned, warnings>>

Send ==
  /\ tries' = tries + 1
  /\ requests' = [requests EXCEPT ![route] = @ + 1]
  /\ Goto("fetching")
  /\ UNCHANGED <<request, route, visible, warned, aborted, replies, logged, warnings>>

\* get*Adapter without an API key: an AuthenticationError, which is worth
\* another route although nothing was asked of this one.
Keyless ==
  /\ pc = "dispatch" /\ ~aborted /\ route \notin request.keyed
  /\ Throw(TRUE)
  /\ UNCHANGED <<request, route, tries, visible, warned, aborted, history>>

\* A model that cannot do what is asked, or a provider without adapter.
Incapable ==
  /\ pc = "dispatch" /\ ~aborted
  /\ Throw(FALSE)
  /\ UNCHANGED <<request, route, tries, visible, warned, aborted, history>>

Dispatch == pc = "dispatch" /\ ~aborted /\ route \in request.keyed /\ Send

\* Mutant: gives up one attempt too early.
MayRetryLess == tries + 1 < MaxAttempts

MayRetry == tries < MaxAttempts

\* What withRetry and the error mapping of the adapters make of a response.
Respond(reply) ==
  /\ pc = "fetching" /\ ~aborted
  /\ replies' = [replies EXCEPT ![route] = reply]
  /\ \/ reply = "ok" /\ Goto("reading")
     \/ reply = "refused" /\ Throw(TRUE)
     \/ reply = "transient" /\ MayRetry /\ Goto("sleeping")
     \/ reply = "transient" /\ ~MayRetry /\ Throw(TRUE)
     \/ reply \in {"bad", "lost"} /\ Throw(FALSE)
  /\ UNCHANGED <<request, route, tries, visible, warned, aborted, requests, logged, warnings>>

Retry == pc = "sleeping" /\ ~aborted /\ Send

----------------------------------------------------------------------------
\* The body, or the last event of a stream, is there: it is logged first.
Complete ==
  /\ pc = "reading" /\ ~aborted
  /\ Log
  /\ UNCHANGED <<request, route, tries, visible, warned, aborted, replies, requests, warnings>>

\* One more chunk of a stream; reasoning does not count as visible.
Chunk ==
  /\ pc = "reading" /\ ~aborted /\ Streamed
  /\ visible' \in {visible, TRUE}
  /\ Yield("reading")
  /\ UNCHANGED <<request, route, tries, warned, aborted, history>>

\* An answer that ends early, does not parse or is not what was agreed.
Malformed ==
  /\ pc = "reading" /\ ~aborted
  /\ Throw(FALSE)
  /\ UNCHANGED <<request, route, tries, visible, warned, aborted, history>>

\* Mutant: a logger failure is as good a reason to fall back as any.
LoggerFailsRetryable == Throw(TRUE)

\* UsageLoggerError, in strict mode: complete() and stream() look at the
\* signal first, speech does not.
LoggerFails ==
  IF aborted /\ request.kind # "speech" THEN End("aborted") ELSE Throw(FALSE)

LoggerAnswers ==
  /\ pc = "logging"
  /\ AfterLogging \/ (request.logger = "strict" /\ LoggerFails)
  /\ UNCHANGED <<request, route, tries, visible, warned, aborted, history>>

\* The consumer of a stream asks for the next chunk ...
Pull ==
  /\ pc = "held"
  /\ \/ aborted /\ End("aborted") /\ UNCHANGED logged
     \/ /\ ~aborted
        /\ \/ resume \in {"route", "dispatch", "reading"} /\ Goto(resume) /\ UNCHANGED logged
           \/ resume = "skip text" /\ Yield("log") /\ UNCHANGED logged
           \/ resume = "log" /\ Log
           \/ resume = "done" /\ Yield("end") /\ UNCHANGED logged
           \/ resume = "end" /\ End(IF Answered THEN "ok" ELSE "skipped") /\ UNCHANGED logged
  /\ UNCHANGED <<request, route, tries, visible, warned, aborted, replies, requests, warnings>>

\* ... or leaves.
Stop ==
  /\ pc = "held"
  /\ End("stopped")
  /\ UNCHANGED <<request, route, tries, visible, warned, aborted, history>>

Abort ==
  /\ pc # "ended" /\ ~aborted
  /\ aborted' = TRUE
  /\ UNCHANGED <<request, control, route, tries, visible, warned, history>>

\* Mutant: fetch is awaited without the signal.
HeedfulNotFetching == {"idle", "route", "dispatch", "sleeping", "reading"}

\* Where throwIfAborted or awaitWithAbort watches the signal.
Heedful == {"idle", "route", "dispatch", "fetching", "sleeping", "reading"}

AbortObserved ==
  /\ pc \in Heedful /\ aborted
  /\ End("aborted")
  /\ UNCHANGED <<request, route, tries, visible, warned, aborted, history>>

\* What happens without any provider's doing.
Local ==
  \/ Start \/ Affordable \/ Unaffordable \/ Keyless \/ Incapable \/ Dispatch \/ Retry
  \/ LoggerAnswers \/ Pull \/ Stop \/ AbortObserved

Remote ==
  \/ \E reply \in Reply : Respond(reply)
  \/ Complete \/ Chunk \/ Malformed

Next == Local \/ Remote \/ Abort

Spec == Init /\ [][Next]_vars

(* Timers fire, the usage logger answers or fails, and the consumer of a   *)
(* stream pulls again or leaves.  Providers may never answer.              *)
FairSpec == Spec /\ WF_vars(Local)

----------------------------------------------------------------------------
(* Once a provider has accepted a request, which it then bills, no HTTP    *)
(* request is sent again, whatever fails afterwards: the body, the         *)
(* assembly of the stream or the usage logger.                             *)
PaidOnce ==
  [][(\E r \in Routes : replies[r] = "ok") => requests' = requests]_vars

\* There is nothing more to get from a route: it has no key and was asked
\* nothing, its provider refused it outright, or it failed transiently as
\* often as withRetry allows.
Spent(r) ==
  \/ r \notin request.keyed /\ requests[r] = 0 /\ replies[r] = "none"
  \/ replies[r] = "refused"
  \/ replies[r] = "transient" /\ requests[r] = MaxAttempts

(* A route is left for the next one only when it is spent: for want of a   *)
(* key, after a refusal or after every attempt.                            *)
RetriedBeforeFallback == \A r \in Routes : r < route => Spent(r)

(* Usage is reported at most once a request, and a request that ends well  *)
(* has reported the route that answered it, or the one it skipped.         *)
LoggedOnce ==
  /\ Len(logged) <= 1
  /\ request.logger # "none" /\ outcome \in {"ok", "skipped"} => logged = <<route>>

(* Whatever fails, on whichever route and attempt: routes are tried in     *)
(* turn until one accepts, which is then the only one paid and reported.   *)
PaidAndLoggedOnce == PaidOnce /\ [](LoggedOnce /\ RetriedBeforeFallback)

(* Once the signal has fired no HTTP request is sent and the request can   *)
(* no longer end well.                                                     *)
AbortStopsRequest ==
  [][aborted => requests' = requests /\ (outcome' = "ok" => outcome = "ok")]_vars

(* The application is warned of the budget at most once a request, however *)
(* many of its routes are over it.                                         *)
WarnedOnce == warnings <= 1

(* An aborted request ends even if its provider never answers.             *)
AbortedRequestEnds == aborted ~> pc = "ended"

(* An abort is honoured at every await: nothing is sent any more, and the  *)
(* request ends although its provider may never answer.                    *)
AbortHonoured == AbortStopsRequest /\ AbortedRequestEnds

(* todo.md:295: the client goes on to the "fallback model after terminal   *)
(* provider errors or exhausted retries": a request fails only when every  *)
(* route has been tried, or an answer had begun.                           *)
FailsAfterLastRoute ==
  outcome = "failed" /\ route > 0 /\ requests[route] > 0 /\ logged = <<>> =>
    route = request.routes \/ Answered
=============================================================================
