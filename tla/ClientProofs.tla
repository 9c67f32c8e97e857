----------------------------- MODULE ClientProofs -----------------------------
(***************************************************************************)
(* Proofs about src/client.ts, in two parts.                               *)
(*                                                                         *)
(* ClientRequests, for any number of routes and attempts: types, retries   *)
(* before a fallback, one usage event a request, one budget warning, no    *)
(* HTTP request after an accepted one or after an abort.                   *)
(*                                                                         *)
(* RequestPipeline, for any registry, rules, messages and answers: the     *)
(* registry holds what its validation accepts, every token is paid once,   *)
(* and a request carries every part of the conversation once, in order.    *)
(***************************************************************************)
EXTENDS ClientRequests, RequestPipeline, FiniteSetTheorems, SequenceTheorems,
        NaturalsInduction, WellFoundedInduction, TLAPS

-----------------------------------------------------------------------------
(* ClientRequests: one request, its routes and attempts.                   *)

(* What comes next, now or when the consumer pulls.                        *)
At(place) == pc = place \/ (pc = "held" /\ resume = place)

Idle == At("route") \/ pc \in {"idle", "ended"}
Unanswered == {"dispatch", "fetching", "sleeping", "skip text", "log"}

(* Where the request is in its list of routes and attempts.                *)
Position ==
  /\ resume # "none" <=> pc = "held"
  /\ pc = "idle" => route = 0
  /\ At("route") => route < request.routes
  /\ ~Idle => route > 0
  /\ At("dispatch") => tries = 0 /\ replies[route] = "none"
  /\ pc = "sleeping" => tries < MaxAttempts
  /\ route > 0 => requests[route] = tries
  /\ \A r \in Routes : r > route => requests[r] = 0 /\ replies[r] = "none"

(* Only the route under way can have been accepted, and then it is read.   *)
Accepted ==
  /\ \A p \in Unanswered : At(p) => ~Answered
  /\ At("route") => ~Answered
  /\ At("reading") \/ At("done") => Answered

(* Why the routes before this one were left, and this one if it was.       *)
Reasons ==
  /\ RetriedBeforeFallback
  /\ At("route") /\ route > 0 => Spent(route)

(* Nothing is logged until the route is read or skipped, then once.        *)
Expected == IF request.logger = "none" THEN <<>> ELSE <<route>>

Reporting ==
  /\ At("route") \/ At("reading") \/ pc = "idle" => logged = <<>>
  /\ \A p \in Unanswered : At(p) => logged = <<>>
  /\ pc = "logging" \/ At("done") \/ At("end") => logged = Expected
  /\ pc = "ended" => logged = <<>> \/ logged = <<route>>
  /\ outcome \in {"ok", "skipped"} => logged = Expected

Warning == warnings = (IF warned THEN 1 ELSE 0)

IInv == TypeOK /\ Position /\ Accepted /\ Reasons /\ Reporting /\ Warning

LEMMA InitInv == Init => IInv
<1> SUFFICES ASSUME Init PROVE IInv
  OBVIOUS
<1> USE RoutesAssumption, AttemptsAssumption
<1>1. TypeOK
  <2>1. request \in Request /\ request.routes \in Nat
    BY DEF Init, Request, Routes
  <2>2. /\ pc \in Places /\ resume \in Resumptions /\ outcome \in Outcomes
        /\ visible \in BOOLEAN /\ warned \in BOOLEAN /\ aborted \in BOOLEAN
    BY DEF Init, Places, Resumptions, Outcomes
  <2>3. route \in 0 .. request.routes /\ tries \in 0 .. MaxAttempts /\ warnings \in Nat
    BY <2>1 DEF Init
  <2>4. /\ replies \in [Routes -> Reply \cup {"none"}]
        /\ requests \in [Routes -> 0 .. MaxAttempts]
    BY DEF Init
  <2>5. logged \in Seq(Routes)
    BY DEF Init
  <2> QED
    BY <2>1, <2>2, <2>3, <2>4, <2>5 DEF TypeOK
<1>2. Position /\ Accepted
  BY DEF Init, Position, Accepted, At, Idle, Unanswered, Answered, Routes
<1>3. Reasons /\ Reporting /\ Warning
  BY DEF Init, Reasons, RetriedBeforeFallback, Reporting, Expected, Warning, At, Unanswered, Routes
<1> QED
  BY <1>1, <1>2, <1>3 DEF IInv

(* The numbers the request is counted with.                                *)
LEMMA Numbers ==
  ASSUME TypeOK
  PROVE  /\ MaxRoutes \in Nat /\ MaxAttempts \in Nat /\ MaxAttempts > 0
         /\ request.routes \in Nat /\ request.routes <= MaxRoutes
         /\ route \in Nat /\ route <= request.routes /\ (route > 0 => route \in Routes)
         /\ tries \in Nat /\ tries <= MaxAttempts
BY RoutesAssumption, AttemptsAssumption DEF TypeOK, Request, Routes

(* Logging the route under way, when nothing has been logged.              *)
LEMMA LoggedFirst ==
  ASSUME logged = <<>>, NEW r \in Routes
  PROVE  /\ Append(logged, r) = <<r>>
         /\ <<r>> \in Seq(Routes)
OBVIOUS

LEMMA LogCases ==
  ASSUME TypeOK, route > 0, logged = <<>>, Log
  PROVE  /\ logged' \in Seq(Routes)
         /\ \/ request.logger = "none" /\ AfterLogging /\ logged' = <<>>
            \/ request.logger # "none" /\ Goto("logging") /\ logged' = <<route>>
<1>1. route \in Routes
  BY RoutesAssumption DEF TypeOK, Request, Routes
<1>2. Append(logged, route) = <<route>> /\ <<route>> \in Seq(Routes) /\ <<>> \in Seq(Routes)
  BY <1>1, LoggedFirst
<1> QED
  BY <1>2 DEF Log

LEMMA StartKeeps == IInv /\ Start => IInv'
<1> SUFFICES ASSUME IInv, Start PROVE IInv'
  OBVIOUS
<1> USE RoutesAssumption, AttemptsAssumption DEF IInv, Start, Goto, End, history
<1>1. TypeOK'
  BY ZenonT(40) DEF TypeOK, Position, Idle, At, Request, Routes, Places, Resumptions, Outcomes
<1>2. Position'
  BY DEF TypeOK, Position, Idle, At, Request, Routes
<1>3. Accepted'
  BY DEF TypeOK, Position, Accepted, Idle, Unanswered, At, Routes, Answered
<1>4. Reasons'
  BY DEF TypeOK, Position, Reasons, RetriedBeforeFallback, Spent, Idle, At, Routes
<1>5. Reporting'
  BY DEF TypeOK, Position, Accepted, Reporting, Expected, Idle, Unanswered, At, Resumptions, Answered
<1>6. Warning'
  BY DEF Warning
<1> QED
  BY <1>1, <1>2, <1>3, <1>4, <1>5, <1>6

LEMMA KeylessKeeps == IInv /\ Keyless => IInv'
<1> SUFFICES ASSUME IInv, Keyless PROVE IInv'
  OBVIOUS
<1> USE RoutesAssumption, AttemptsAssumption DEF IInv, Keyless, Throw, FallsBack, Streamed, Goto, Yield, End, history
<1>1. TypeOK'
  BY DEF TypeOK, Position, Idle, At, Request, Routes, Places, Resumptions, Outcomes
<1>2. Position'
  BY DEF TypeOK, Position, Idle, At, Request, Routes
<1>3. Accepted'
  BY DEF TypeOK, Position, Accepted, Idle, Unanswered, At, Routes, Answered
<1>4. Reasons'
  BY DEF TypeOK, Position, Reasons, RetriedBeforeFallback, Spent, Idle, At, Routes
<1>5. Reporting'
  BY DEF TypeOK, Position, Accepted, Reporting, Expected, Idle, Unanswered, At, Resumptions, Answered
<1>6. Warning'
  BY DEF Warning
<1> QED
  BY <1>1, <1>2, <1>3, <1>4, <1>5, <1>6

LEMMA IncapableKeeps == IInv /\ Incapable => IInv'
<1> SUFFICES ASSUME IInv, Incapable PROVE IInv'
  OBVIOUS
<1> USE RoutesAssumption, AttemptsAssumption DEF IInv, Incapable, Throw, FallsBack, Streamed, Goto, Yield, End, history
<1>1. TypeOK'
  BY DEF TypeOK, Position, Idle, At, Request, Routes, Places, Resumptions, Outcomes
<1>2. Position'
  BY DEF TypeOK, Position, Idle, At, Request, Routes
<1>3. Accepted'
  BY DEF TypeOK, Position, Accepted, Idle, Unanswered, At, Routes, Answered
<1>4. Reasons'
  BY DEF TypeOK, Position, Reasons, RetriedBeforeFallback, Spent, Idle, At, Routes
<1>5. Reporting'
  BY DEF TypeOK, Position, Accepted, Reporting, Expected, Idle, Unanswered, At, Resumptions, Answered
<1>6. Warning'
  BY DEF Warning
<1> QED
  BY <1>1, <1>2, <1>3, <1>4, <1>5, <1>6

LEMMA CompleteKeeps == IInv /\ Complete => IInv'
<1> SUFFICES ASSUME IInv, Complete PROVE IInv'
  OBVIOUS
<1> USE RoutesAssumption, AttemptsAssumption DEF AfterLogging, Streamed, Answered, Goto, Yield, End
<1>a. /\ UNCHANGED <<request, route, tries, visible, warned, aborted, replies, requests, warnings>>
      /\ pc = "reading" /\ route > 0 /\ replies[route] = "ok" /\ logged = <<>>
  BY DEF IInv, Complete, TypeOK, Position, Idle, At, Accepted, Reporting
<1>b. /\ logged' \in Seq(Routes)
      /\ \/ request.logger = "none" /\ AfterLogging /\ logged' = <<>>
         \/ request.logger # "none" /\ Goto("logging") /\ logged' = <<route>>
  BY <1>a, LogCases DEF IInv, Complete
<1>1. TypeOK'
  BY <1>a, <1>b DEF IInv, TypeOK, Places, Resumptions, Outcomes
<1>2. Position'
  BY <1>a, <1>b DEF IInv, TypeOK, Position, Idle, At, Request, Routes
<1>3. Accepted'
  BY <1>a, <1>b DEF IInv, TypeOK, Position, Accepted, Idle, Unanswered, At, Routes
<1>4. Reasons'
  BY <1>a, <1>b DEF IInv, TypeOK, Position, Reasons, RetriedBeforeFallback, Spent, Idle, At, Routes
<1>5. Reporting'
  BY <1>a, <1>b DEF IInv, Position, Reporting, Expected, Unanswered, At
<1>6. Warning'
  BY <1>a DEF IInv, Warning
<1> QED
  BY <1>1, <1>2, <1>3, <1>4, <1>5, <1>6 DEF IInv

LEMMA ChunkKeeps == IInv /\ Chunk => IInv'
<1> SUFFICES ASSUME IInv, Chunk PROVE IInv'
  OBVIOUS
<1> USE RoutesAssumption, AttemptsAssumption DEF IInv, Chunk, Streamed, Yield, history
<1>1. TypeOK'
  BY DEF TypeOK, Position, Idle, At, Request, Routes, Places, Resumptions, Outcomes
<1>2. Position'
  BY DEF TypeOK, Position, Idle, At, Request, Routes
<1>3. Accepted'
  BY DEF TypeOK, Position, Accepted, Idle, Unanswered, At, Routes, Answered
<1>4. Reasons'
  BY DEF TypeOK, Position, Reasons, RetriedBeforeFallback, Spent, Idle, At, Routes
<1>5. Reporting'
  BY DEF TypeOK, Position, Accepted, Reporting, Expected, Idle, Unanswered, At, Resumptions, Answered
<1>6. Warning'
  BY DEF Warning
<1> QED
  BY <1>1, <1>2, <1>3, <1>4, <1>5, <1>6

LEMMA MalformedKeeps == IInv /\ Malformed => IInv'
<1> SUFFICES ASSUME IInv, Malformed PROVE IInv'
  OBVIOUS
<1> USE RoutesAssumption, AttemptsAssumption DEF IInv, Malformed, Throw, FallsBack, Streamed, Goto, Yield, End, history
<1>1. TypeOK'
  BY DEF TypeOK, Position, Idle, At, Request, Routes, Places, Resumptions, Outcomes
<1>2. Position'
  BY DEF TypeOK, Position, Idle, At, Request, Routes
<1>3. Accepted'
  BY DEF TypeOK, Position, Accepted, Idle, Unanswered, At, Routes, Answered
<1>4. Reasons'
  BY DEF TypeOK, Position, Reasons, RetriedBeforeFallback, Spent, Idle, At, Routes
<1>5. Reporting'
  BY DEF TypeOK, Position, Accepted, Reporting, Expected, Idle, Unanswered, At, Resumptions, Answered
<1>6. Warning'
  BY DEF Warning
<1> QED
  BY <1>1, <1>2, <1>3, <1>4, <1>5, <1>6

LEMMA LoggerAnswersKeeps == IInv /\ LoggerAnswers => IInv'
<1> SUFFICES ASSUME IInv, LoggerAnswers PROVE IInv'
  OBVIOUS
<1> USE RoutesAssumption, AttemptsAssumption DEF IInv, LoggerAnswers, AfterLogging, LoggerFails, Throw, FallsBack, Streamed, Answered, Goto, Yield, End, history
<1>1. TypeOK'
  BY ZenonT(40) DEF TypeOK, Position, Idle, At, Request, Routes, Places, Resumptions, Outcomes
<1>2. Position'
  BY DEF TypeOK, Position, Idle, At, Request, Routes
<1>3. Accepted'
  BY DEF TypeOK, Position, Accepted, Idle, Unanswered, At, Routes
<1>4. Reasons'
  BY DEF TypeOK, Position, Reasons, RetriedBeforeFallback, Spent, Idle, At, Routes
<1>5. Reporting'
  BY DEF TypeOK, Position, Accepted, Reporting, Expected, Idle, Unanswered, At, Resumptions
<1>6. Warning'
  BY DEF Warning
<1> QED
  BY <1>1, <1>2, <1>3, <1>4, <1>5, <1>6

LEMMA PullKeeps == IInv /\ Pull => IInv'
<1> SUFFICES ASSUME IInv, Pull PROVE IInv'
  OBVIOUS
<1> USE RoutesAssumption, AttemptsAssumption DEF AfterLogging, Streamed, Answered, Goto, Yield, End
<1>a. /\ UNCHANGED <<request, route, tries, visible, warned, aborted, replies, requests, warnings>>
      /\ pc = "held"
  BY DEF Pull
<1>b. CASE resume = "log" /\ Log
  <2>a. route > 0 /\ replies[route] # "ok" /\ logged = <<>>
    BY <1>a, <1>b DEF IInv, TypeOK, Position, Idle, At, Accepted, Unanswered, Reporting
  <2>b. /\ logged' \in Seq(Routes)
        /\ \/ request.logger = "none" /\ AfterLogging /\ logged' = <<>>
           \/ request.logger # "none" /\ Goto("logging") /\ logged' = <<route>>
    BY <1>b, <2>a, LogCases DEF IInv
  <2>1. TypeOK'
    BY <1>a, <2>b DEF IInv, TypeOK, Places, Resumptions, Outcomes
  <2>2. Position'
    BY <1>a, <1>b, <2>a, <2>b DEF IInv, TypeOK, Position, Idle, At, Request, Routes
  <2>3. Accepted'
    BY <1>a, <2>a, <2>b DEF IInv, TypeOK, Position, Accepted, Idle, Unanswered, At, Routes
  <2>4. Reasons'
    BY <1>a, <2>a, <2>b DEF IInv, TypeOK, Position, Reasons, RetriedBeforeFallback, Spent, Idle, At, Routes
  <2>5. Reporting'
    BY <1>a, <2>a, <2>b DEF IInv, Position, Reporting, Expected, Unanswered, At
  <2>6. Warning'
    BY <1>a DEF IInv, Warning
  <2> QED
    BY <2>1, <2>2, <2>3, <2>4, <2>5, <2>6 DEF IInv
<1>c. CASE ~(resume = "log" /\ Log)
  <2>b. /\ logged' = logged
        /\ \/ End("aborted")
           \/ resume \in {"route", "dispatch", "reading"} /\ Goto(resume)
           \/ resume = "skip text" /\ Yield("log")
           \/ resume = "done" /\ Yield("end")
           \/ resume = "end" /\ End(IF Answered THEN "ok" ELSE "skipped")
    BY <1>c DEF Pull
  <2>1. TypeOK'
    BY <1>a, <2>b DEF IInv, TypeOK, Places, Resumptions, Outcomes
  <2>2. Position'
    BY <1>a, <2>b DEF IInv, TypeOK, Position, Idle, At, Request, Routes
  <2>3. Accepted'
    BY <1>a, <2>b DEF IInv, TypeOK, Position, Accepted, Idle, Unanswered, At, Routes
  <2>4. Reasons'
    BY <1>a, <2>b DEF IInv, TypeOK, Position, Reasons, RetriedBeforeFallback, Spent, Idle, At, Routes
  <2>5. Reporting'
    BY <1>a, <2>b DEF IInv, TypeOK, Position, Reporting, Expected, Unanswered, At, Resumptions
  <2>6. Warning'
    BY <1>a DEF IInv, Warning
  <2> QED
    BY <2>1, <2>2, <2>3, <2>4, <2>5, <2>6 DEF IInv
<1> QED
  BY <1>b, <1>c

LEMMA StopKeeps == IInv /\ Stop => IInv'
<1> SUFFICES ASSUME IInv, Stop PROVE IInv'
  OBVIOUS
<1> USE RoutesAssumption, AttemptsAssumption DEF IInv, Stop, End, history
<1>1. TypeOK'
  BY DEF TypeOK, Position, Idle, At, Request, Routes, Places, Resumptions, Outcomes
<1>2. Position'
  BY DEF TypeOK, Position, Idle, At, Request, Routes
<1>3. Accepted'
  BY DEF TypeOK, Position, Accepted, Idle, Unanswered, At, Routes, Answered
<1>4. Reasons'
  BY DEF TypeOK, Position, Reasons, RetriedBeforeFallback, Spent, Idle, At, Routes
<1>5. Reporting'
  BY DEF TypeOK, Position, Accepted, Reporting, Expected, Idle, Unanswered, At, Resumptions, Answered
<1>6. Warning'
  BY DEF Warning
<1> QED
  BY <1>1, <1>2, <1>3, <1>4, <1>5, <1>6

LEMMA AbortObservedKeeps == IInv /\ AbortObserved => IInv'
<1> SUFFICES ASSUME IInv, AbortObserved PROVE IInv'
  OBVIOUS
<1> USE RoutesAssumption, AttemptsAssumption DEF IInv, AbortObserved, Heedful, End, history
<1>1. TypeOK'
  BY DEF TypeOK, Position, Idle, At, Request, Routes, Places, Resumptions, Outcomes
<1>2. Position'
  BY DEF TypeOK, Position, Idle, At, Request, Routes
<1>3. Accepted'
  BY DEF TypeOK, Position, Accepted, Idle, Unanswered, At, Routes, Answered
<1>4. Reasons'
  BY DEF TypeOK, Position, Reasons, RetriedBeforeFallback, Spent, Idle, At, Routes
<1>5. Reporting'
  BY DEF TypeOK, Position, Accepted, Reporting, Expected, Idle, Unanswered, At, Resumptions, Answered
<1>6. Warning'
  BY DEF Warning
<1> QED
  BY <1>1, <1>2, <1>3, <1>4, <1>5, <1>6

LEMMA AbortKeeps == IInv /\ Abort => IInv'
<1> SUFFICES ASSUME IInv, Abort PROVE IInv'
  OBVIOUS
<1> USE RoutesAssumption, AttemptsAssumption DEF IInv, Abort, control, history
<1>1. TypeOK'
  BY DEF TypeOK
<1>2. Position'
  BY DEF TypeOK, Position, Idle, At, Request, Routes
<1>3. Accepted'
  BY DEF TypeOK, Position, Accepted, Idle, Unanswered, At, Routes, Answered
<1>4. Reasons'
  BY DEF TypeOK, Position, Reasons, RetriedBeforeFallback, Spent, Idle, At, Routes
<1>5. Reporting'
  BY DEF TypeOK, Position, Accepted, Reporting, Expected, Idle, Unanswered, At, Resumptions, Answered
<1>6. Warning'
  BY DEF Warning
<1> QED
  BY <1>1, <1>2, <1>3, <1>4, <1>5, <1>6


LEMMA AffordableKeeps == IInv /\ Affordable => IInv'
<1> SUFFICES ASSUME IInv, Affordable PROVE IInv'
  OBVIOUS
<1> USE DEF Goto, Yield
<1>a. /\ UNCHANGED <<request, aborted, replies, requests, warned, warnings, logged, outcome>>
      /\ pc = "route" /\ route < request.routes
      /\ route' = route + 1 /\ tries' = 0 /\ visible' = FALSE /\ logged = <<>>
  BY DEF IInv, Affordable, BeginRoute, Proceed, Position, At, Reporting
<1>b. Yield("dispatch") \/ Goto("dispatch")
  BY DEF Affordable, Proceed
<1>c. /\ request.routes \in Nat /\ request.routes <= MaxRoutes /\ MaxRoutes \in Nat
      /\ MaxAttempts \in Nat /\ route \in Nat /\ route' \in Routes
  BY <1>a, Numbers DEF IInv, Routes
<1>d. ~Answered'
  <2>1. requests[route'] = 0 /\ replies[route'] = "none"
    BY <1>a, <1>c DEF IInv, Position
  <2> QED
    BY <1>a, <2>1 DEF Answered
<1>1. TypeOK'
  <2>1. request' \in Request /\ replies' \in [Routes -> Reply \cup {"none"}]
        /\ requests' \in [Routes -> 0 .. MaxAttempts] /\ logged' \in Seq(Routes)
    BY <1>a DEF IInv, TypeOK
  <2>2. visible' \in BOOLEAN /\ aborted' \in BOOLEAN
    BY <1>a, Zenon DEF IInv, TypeOK
  <2>3. warned' \in BOOLEAN
    BY <1>a, Zenon DEF IInv, TypeOK
  <2>4. pc' \in Places /\ resume' \in Resumptions /\ outcome' \in Outcomes /\ warnings' \in Nat
    BY <1>a, <1>b DEF IInv, TypeOK, Places, Resumptions
  <2>5. route' \in 0 .. request'.routes /\ tries' \in 0 .. MaxAttempts
    BY <1>a, <1>c
  <2> QED
    BY <2>1, <2>2, <2>3, <2>4, <2>5, Zenon DEF TypeOK
<1>2. Position'
  BY <1>a, <1>b, <1>c DEF IInv, Position, Idle, At, Routes
<1>3. Accepted'
  BY <1>b, <1>d DEF Accepted, Unanswered, At
<1>4. Reasons'
  BY <1>a, <1>b, <1>c DEF IInv, TypeOK, Position, Reasons, RetriedBeforeFallback, Spent, At, Routes
<1>5. Reporting'
  BY <1>a, <1>b DEF IInv, Position, Reporting, Expected, Unanswered, At
<1>6. Warning'
  BY <1>a DEF IInv, Warning
<1> QED
  BY <1>1, <1>2, <1>3, <1>4, <1>5, <1>6 DEF IInv

LEMMA UnaffordableKeeps == IInv /\ Unaffordable => IInv'
<1> SUFFICES ASSUME IInv, Unaffordable PROVE IInv'
  OBVIOUS
<1> USE DEF Goto, Yield, End
<1>a. /\ UNCHANGED <<request, aborted, replies, requests>>
      /\ pc = "route" /\ resume = "none" /\ outcome \in Outcomes
      /\ route < request.routes /\ route' = route + 1 /\ tries' = 0 /\ visible' = FALSE
      /\ logged = <<>>
  <2>1. /\ UNCHANGED <<request, aborted, replies, requests>>
        /\ pc = "route" /\ route' = route + 1 /\ tries' = 0 /\ visible' = FALSE
    BY DEF Unaffordable, BeginRoute
  <2> QED
    BY <2>1 DEF IInv, TypeOK, Position, At, Reporting
<1>b. /\ request.routes \in Nat /\ request.routes <= MaxRoutes /\ MaxRoutes \in Nat
      /\ MaxAttempts \in Nat /\ route \in Nat /\ route' \in Routes
  BY <1>a, Numbers DEF IInv, Routes
<1>c. Append(logged, route') = <<route'>> /\ <<route'>> \in Seq(Routes) /\ <<>> \in Seq(Routes)
  BY <1>a, <1>b, LoggedFirst
<1>d. /\ logged' \in Seq(Routes)
      /\ \/ End("failed") /\ logged' = <<>>
         \/ (Yield("dispatch") \/ Goto("dispatch")) /\ logged' = <<>>
         \/ Yield("skip text") /\ logged' = <<>>
         \/ request.logger = "none" /\ End("skipped") /\ logged' = <<>>
         \/ request.logger # "none" /\ Goto("logging") /\ logged' = <<route'>>
  BY <1>a, <1>c DEF Unaffordable, Proceed
<1>e. Warn \/ UNCHANGED <<warned, warnings>>
  BY DEF Unaffordable
<1>f. /\ resume' # "none" <=> pc' = "held"
      /\ pc' \in {"ended", "held", "dispatch", "logging"}
      /\ resume' \in {"none", "dispatch", "skip text"}
  BY <1>d
<1>g. /\ requests[route'] = 0 /\ replies[route'] = "none"
      /\ \A r \in Routes : r > route' => requests[r] = 0 /\ replies[r] = "none"
  BY <1>a, <1>b DEF IInv, Position, Routes
<1>h. \A r \in Routes : r < route' => r < route \/ (r = route /\ route > 0)
  BY <1>a, <1>b DEF Routes
<1>i. ~Answered'
  BY <1>a, <1>g DEF Answered
<1>1. TypeOK'
  <2>1. request' \in Request /\ replies' \in [Routes -> Reply \cup {"none"}]
        /\ requests' \in [Routes -> 0 .. MaxAttempts] /\ logged' \in Seq(Routes)
    BY <1>a, <1>d DEF IInv, TypeOK
  <2>2. visible' \in BOOLEAN /\ aborted' \in BOOLEAN
    BY <1>a, Zenon DEF IInv, TypeOK
  <2>3. warned' \in BOOLEAN
    BY <1>e, Zenon DEF IInv, TypeOK, Warn
  <2>4. warnings' \in Nat
    BY <1>e DEF IInv, TypeOK, Warn
  <2>5. pc' \in Places /\ resume' \in Resumptions /\ outcome' \in Outcomes
    BY <1>a, <1>d DEF Places, Resumptions, Outcomes
  <2>6. route' \in 0 .. request'.routes /\ tries' \in 0 .. MaxAttempts
    BY <1>a, <1>b
  <2> QED
    BY <2>1, <2>2, <2>3, <2>4, <2>5, <2>6, Zenon DEF TypeOK
<1>2. Position'
  <2>1. route' > 0 /\ requests'[route'] = tries' /\ tries' = 0 /\ replies'[route'] = "none"
    BY <1>a, <1>g, <1>b DEF Routes
  <2>2. \A r \in Routes : r > route' => requests'[r] = 0 /\ replies'[r] = "none"
    BY <1>a, <1>g
  <2>3. ~At("route")' /\ pc' # "idle" /\ pc' # "sleeping"
    BY <1>f DEF At
  <2> QED
    BY <1>a, <1>f, <2>1, <2>2, <2>3 DEF Position
<1>3. Accepted'
  BY <1>d, <1>i DEF Accepted, Unanswered, At
<1>4. Reasons'
  BY <1>a, <1>f, <1>h DEF IInv, Reasons, RetriedBeforeFallback, Spent, At
<1>5. Reporting'
  BY <1>a, <1>d DEF IInv, TypeOK, Position, Reporting, Expected, Unanswered, At
<1>6. Warning'
  BY <1>e DEF IInv, TypeOK, Warning, Warn
<1> QED
  BY <1>1, <1>2, <1>3, <1>4, <1>5, <1>6 DEF IInv

(* An HTTP request: the first one of a route, or one more attempt.         *)
LEMMA SendKeeps == IInv /\ (Dispatch \/ Retry) => IInv'
<1> SUFFICES ASSUME IInv, Dispatch \/ Retry PROVE IInv'
  OBVIOUS
<1> USE RoutesAssumption, AttemptsAssumption DEF Goto
<1>a. /\ pc \in {"dispatch", "sleeping"} /\ resume = "none"
      /\ tries \in Nat /\ tries < MaxAttempts
      /\ route \in Routes /\ requests[route] = tries /\ logged = <<>>
      /\ replies[route] # "ok"
  <2>1. pc \in {"dispatch", "sleeping"}
    BY DEF Dispatch, Retry
  <2>2. route > 0 /\ resume = "none" /\ tries < MaxAttempts
    BY <2>1, Numbers DEF IInv, Position, Idle, At
  <2>3. logged = <<>> /\ replies[route] # "ok" /\ requests[route] = tries
    BY <2>1, <2>2 DEF IInv, Position, Accepted, Reporting, At, Unanswered, Answered
  <2> QED
    BY <2>1, <2>2, <2>3, Numbers DEF IInv
<1>b. /\ tries' = tries + 1 /\ requests' = [requests EXCEPT ![route] = tries + 1]
      /\ pc' = "fetching" /\ resume' = "none"
      /\ UNCHANGED <<request, outcome, route, visible, warned, aborted, replies, logged, warnings>>
  BY <1>a DEF Dispatch, Retry, Send, IInv, TypeOK
<1>1. TypeOK'
  BY <1>a, <1>b DEF IInv, TypeOK, Places, Resumptions
<1>2. Position'
  BY <1>a, <1>b DEF IInv, TypeOK, Position, Idle, At, Request, Routes
<1>3. Accepted'
  BY <1>a, <1>b DEF Accepted, Unanswered, At, Answered
<1>4. Reasons'
  BY <1>a, <1>b DEF IInv, TypeOK, Reasons, RetriedBeforeFallback, Spent, At, Routes, Request
<1>5. Reporting'
  BY <1>a, <1>b DEF IInv, Reporting, Expected, Unanswered, At
<1>6. Warning'
  BY <1>b DEF IInv, Warning
<1> QED
  BY <1>1, <1>2, <1>3, <1>4, <1>5, <1>6 DEF IInv

LEMMA RespondKeeps == ASSUME IInv, NEW reply \in Reply, Respond(reply) PROVE IInv'
<1> USE RoutesAssumption, AttemptsAssumption DEF Goto, Yield, End, Throw, FallsBack, MayRetry
<1>a. /\ pc = "fetching" /\ resume = "none"
      /\ route \in Routes /\ requests[route] = tries /\ tries \in 0 .. MaxAttempts
      /\ logged = <<>> /\ route \in 0 .. request.routes /\ request.routes \in Routes
  BY DEF IInv, Respond, TypeOK, Position, Reporting, At, Idle, Unanswered, Request, Routes
<1>b. /\ replies' = [replies EXCEPT ![route] = reply]
      /\ UNCHANGED <<request, route, tries, visible, warned, aborted, requests, logged, warnings>>
  BY DEF Respond
<1>c. \/ reply = "ok" /\ Goto("reading")
      \/ reply # "ok" /\ End("failed")
      \/ reply = "transient" /\ tries < MaxAttempts /\ Goto("sleeping")
      \/ /\ reply = "refused" \/ (reply = "transient" /\ ~(tries < MaxAttempts))
         /\ route < request.routes
         /\ Yield("route") \/ Goto("route")
  BY DEF Respond
<1>d. Answered' <=> reply = "ok"
  BY <1>a, <1>b DEF IInv, TypeOK, Answered, Routes
<1>1. TypeOK'
  BY <1>b, <1>c DEF IInv, TypeOK, Places, Resumptions, Outcomes
<1>2. Position'
  BY <1>a, <1>b, <1>c DEF IInv, TypeOK, Position, Idle, At, Request, Routes
<1>3. Accepted'
  BY <1>c, <1>d DEF Accepted, Unanswered, At
<1>4. Reasons'
  BY <1>a, <1>b, <1>c DEF IInv, TypeOK, Reasons, RetriedBeforeFallback, Spent, At, Routes
<1>5. Reporting'
  BY <1>a, <1>b, <1>c DEF IInv, Position, Reporting, Expected, Unanswered, At
<1>6. Warning'
  BY <1>b DEF IInv, Warning
<1> QED
  BY <1>1, <1>2, <1>3, <1>4, <1>5, <1>6 DEF IInv

(* Every behaviour keeps the inductive invariant.                          *)
THEOREM Invariant == Spec => []IInv
<1>1. Init => IInv
  BY InitInv
<1>2. IInv /\ [Next]_vars => IInv'
  <2> SUFFICES ASSUME IInv, [Next]_vars PROVE IInv'
    OBVIOUS
  <2>1. CASE Local
    BY <2>1, StartKeeps, AffordableKeeps, UnaffordableKeeps, KeylessKeeps, IncapableKeeps, SendKeeps,
       LoggerAnswersKeeps, PullKeeps, StopKeeps, AbortObservedKeeps DEF Local
  <2>2. CASE Remote
    BY <2>2, RespondKeeps, CompleteKeeps, ChunkKeeps, MalformedKeeps DEF Remote
  <2>3. CASE Abort
    BY <2>3, AbortKeeps
  <2>4. CASE UNCHANGED vars
    <3>1. UNCHANGED <<request, pc, resume, outcome, route, tries, visible, warned, aborted,
                      replies, requests, logged, warnings>>
      BY <2>4 DEF vars, control, history
    <3>2. TypeOK' /\ Position' /\ Warning'
      BY <3>1 DEF IInv, TypeOK, Position, Warning, At, Idle
    <3>3. Accepted' /\ Reasons'
      BY <3>1 DEF IInv, Accepted, Reasons, RetriedBeforeFallback, Spent, At, Answered, Unanswered
    <3>4. Reporting'
      BY <3>1 DEF IInv, Reporting, Expected, At, Unanswered
    <3> QED
      BY <3>2, <3>3, <3>4 DEF IInv
  <2> QED
    BY <2>1, <2>2, <2>3, <2>4 DEF Next
<1> QED
  BY <1>1, <1>2, PTL DEF Spec

(* Every variable keeps its type: no route beyond the last one, no attempt *)
(* beyond MaxAttempts, for any number of routes and attempts.              *)
THEOREM TypeCorrect == Spec => []TypeOK
<1>1. IInv => TypeOK
  BY DEF IInv
<1> QED
  BY <1>1, Invariant, PTL

(* A route is left only for want of a key, after a refusal or after        *)
(* MaxAttempts transient failures.                                         *)
THEOREM RoutesRetried == Spec => []RetriedBeforeFallback
<1>1. IInv => RetriedBeforeFallback
  BY DEF IInv, Reasons
<1> QED
  BY <1>1, Invariant, PTL

(* One usage event a request at most, and one if it ended well.            *)
THEOREM ReportedOnce == Spec => []LoggedOnce
<1>1. ASSUME IInv PROVE LoggedOnce
  <2>1. logged = <<>> \/ logged = <<route>>
    <3>1. CASE pc = "held"
      BY <1>1, <3>1 DEF IInv, TypeOK, Position, Reporting, Expected, Unanswered, At, Resumptions
    <3>2. CASE pc # "held"
      BY <1>1, <3>2 DEF IInv, TypeOK, Reporting, Expected, Unanswered, At, Places
    <3> QED
      BY <3>1, <3>2
  <2>2. Len(logged) <= 1
    <3>1. Len(<<>>) = 0 /\ Len(<<route>>) = 1
      OBVIOUS
    <3>2. CASE logged = <<>>
      BY <3>1, <3>2
    <3>3. CASE logged = <<route>>
      BY <3>1, <3>3
    <3> QED
      BY <2>1, <3>2, <3>3
  <2>3. request.logger # "none" /\ outcome \in {"ok", "skipped"} => logged = <<route>>
    BY <1>1 DEF IInv, Reporting, Expected
  <2> QED
    BY <2>2, <2>3 DEF LoggedOnce
<1> QED
  BY <1>1, Invariant, PTL

(* One budget warning a request at most.                                   *)
THEOREM BudgetWarnedOnce == Spec => []WarnedOnce
<1>1. IInv => WarnedOnce
  BY DEF IInv, Warning, WarnedOnce
<1> QED
  BY <1>1, Invariant, PTL

(* Nothing is sent to a provider after one of them has accepted.           *)
THEOREM NothingSentAfterAcceptance == Spec => PaidOnce
<1>1. IInv /\ [Next]_vars => [(\E r \in Routes : replies[r] = "ok") => requests' = requests]_vars
  <2> SUFFICES ASSUME IInv, Next, NEW r \in Routes, replies[r] = "ok" PROVE requests' = requests
    OBVIOUS
  <2>1. r = route /\ Answered
    <3>1. ~(r < route)
      BY DEF IInv, Reasons, RetriedBeforeFallback, Spent
    <3>2. ~(r > route)
      BY DEF IInv, Position
    <3> QED
      BY <3>1, <3>2 DEF IInv, TypeOK, Routes, Request, Answered
  <2>2. ~(Dispatch \/ Retry)
    BY <2>1 DEF IInv, Accepted, At, Unanswered, Dispatch, Retry
  <2> QED
    BY <2>2 DEF Next, Local, Remote, Abort, Start, Affordable, Unaffordable, BeginRoute, Keyless,
       Incapable, LoggerAnswers, Pull, Stop, AbortObserved, Respond, Complete, Chunk, Malformed, history
<1> QED
  BY <1>1, Invariant, PTL DEF Spec, PaidOnce

(* Nothing is sent to a provider after the abort, and the request does not *)
(* end well any more.                                                      *)
THEOREM NothingSentAfterAbort == Spec => AbortStopsRequest
<1>1. IInv /\ [Next]_vars =>
        [aborted => requests' = requests /\ (outcome' = "ok" => outcome = "ok")]_vars
  <2> SUFFICES ASSUME IInv, Next, aborted
               PROVE  requests' = requests /\ (outcome' = "ok" => outcome = "ok")
    OBVIOUS
  <2>1. LoggerAnswers \/ Pull \/ Stop \/ AbortObserved
    BY DEF Next, Local, Remote, Abort, Start, Affordable, Unaffordable, Keyless, Incapable,
       Dispatch, Retry, Respond, Complete, Chunk, Malformed
  <2> QED
    BY <2>1 DEF IInv, Position, LoggerAnswers, AfterLogging, LoggerFails, Throw, FallsBack, Pull, Stop,
       AbortObserved, Goto, Yield, End, Streamed, Answered, history
<1> QED
  BY <1>1, Invariant, PTL DEF Spec, AbortStopsRequest

(* Routes are tried in turn until one accepts, and that one alone is paid  *)
(* and reported.                                                           *)
THEOREM PaidAndLogged == Spec => PaidAndLoggedOnce
  BY NothingSentAfterAcceptance, ReportedOnce, RoutesRetried, PTL DEF PaidAndLoggedOnce

-----------------------------------------------------------------------------
(* Induction, and finite sets of numbers in their order.                   *)

(* Induction on the natural numbers, for a set instead of a predicate.     *)
LEMMA NatSetInduction ==
    ASSUME NEW T, 0 \in T, \A n \in Nat : n \in T => n + 1 \in T
    PROVE  Nat \subseteq T
<1>. DEFINE Out == Nat \ T
<1>1. SUFFICES ASSUME Out # {} PROVE FALSE
  OBVIOUS
<1>2. PICK n \in Out : \A m \in Out : <<m, n>> \notin OpToRel(<, Nat)
  BY <1>1, NatLessThanWellFounded, WFMin
<1>3. n # 0 /\ n \in Nat
  OBVIOUS
<1>4. n - 1 \in Nat /\ n - 1 < n
  BY <1>3
<1>5. <<n - 1, n>> \in OpToRel(<, Nat)
  BY <1>3, <1>4 DEF OpToRel
<1>6. n - 1 \in T
  BY <1>2, <1>4, <1>5
<1>. QED
  BY <1>3, <1>4, <1>6

(* The place of a number in a set, counted from the smallest.              *)
UpTo(S, x) == {y \in S : y <= x}
Rank(S, x) == Cardinality(UpTo(S, x))

LEMMA RankProperties ==
    ASSUME NEW S \in SUBSET Nat, IsFiniteSet(S)
    PROVE  /\ \A x \in S : Rank(S, x) \in 1..Cardinality(S)
           /\ \A x, y \in S : x < y <=> Rank(S, x) < Rank(S, y)
           /\ \A x, y \in S : Rank(S, x) = Rank(S, y) => x = y
<1>1. ASSUME NEW x \in S
      PROVE  /\ IsFiniteSet(UpTo(S, x)) /\ Rank(S, x) \in Nat
             /\ Rank(S, x) <= Cardinality(S) /\ Rank(S, x) # 0
             /\ Cardinality(S) \in Nat
  <2>1. UpTo(S, x) \in SUBSET S /\ x \in UpTo(S, x)
    BY DEF UpTo
  <2>2. IsFiniteSet(UpTo(S, x)) /\ Cardinality(UpTo(S, x)) <= Cardinality(S)
    BY <2>1, FS_Subset
  <2>3. Cardinality(S) \in Nat /\ Cardinality(UpTo(S, x)) \in Nat
    BY <2>2, FS_CardinalityType
  <2>4. Cardinality(UpTo(S, x)) # 0
    BY <2>1, <2>2, FS_EmptySet
  <2>. QED
    BY <2>2, <2>3, <2>4 DEF Rank
<1>2. ASSUME NEW x \in S, NEW y \in S, x < y
      PROVE  Rank(S, x) < Rank(S, y)
  <2>1. UpTo(S, x) \in SUBSET UpTo(S, y)
    <3>1. x \in Nat /\ y \in Nat /\ \A z \in S : z \in Nat
      OBVIOUS
    <3>2. \A z \in S : z <= x => z <= y
      BY <1>2, <3>1
    <3>. QED
      BY <3>2 DEF UpTo
  <2>2. y \in UpTo(S, y) /\ y \notin UpTo(S, x)
    BY <1>2 DEF UpTo
  <2>3. UpTo(S, x) # UpTo(S, y)
    BY <2>2
  <2>4. /\ Cardinality(UpTo(S, x)) <= Cardinality(UpTo(S, y))
        /\ Cardinality(UpTo(S, x)) # Cardinality(UpTo(S, y))
    BY <1>1, <2>1, <2>3, FS_Subset
  <2>. QED
    BY <1>1, <2>4 DEF Rank
<1>3. \A x \in S : Rank(S, x) \in 1..Cardinality(S)
  BY <1>1
<1>4. \A x, y \in S : x < y => Rank(S, x) < Rank(S, y)
  BY <1>2
<1>5. \A x, y \in S : Rank(S, x) = Rank(S, y) => x = y
  <2>1. \A x, y \in S : x < y \/ y < x \/ x = y
    OBVIOUS
  <2>. QED
    BY <1>1, <1>4, <2>1
<1>6. \A x, y \in S : x < y <=> Rank(S, x) < Rank(S, y)
  <2>1. \A x, y \in S : x < y \/ y < x \/ x = y
    OBVIOUS
  <2>. QED
    BY <1>1, <1>4, <2>1
<1>. QED
  BY <1>3, <1>5, <1>6

(* Every place of a finite set of numbers is taken.                        *)
LEMMA RanksTaken ==
    ASSUME NEW S \in SUBSET Nat, IsFiniteSet(S), NEW n \in 1..Cardinality(S)
    PROVE  \E x \in S : Rank(S, x) = n
<1>1. Cardinality(S) \in Nat
  BY FS_CardinalityType
<1>. DEFINE f == [x \in S |-> Rank(S, x)]
<1>2. f \in Injection(S, 1..Cardinality(S))
  BY RankProperties DEF Injection, IsInjective
<1>3. IsFiniteSet(1..Cardinality(S)) /\ Cardinality(1..Cardinality(S)) = Cardinality(S)
  BY <1>1, FS_Interval
<1>4. f \in Surjection(S, 1..Cardinality(S))
  BY <1>2, <1>3, FS_Injection
<1>. QED
  BY <1>4 DEF Surjection

(* InOrder enumerates a finite set of numbers, the smallest first.         *)
LEMMA InOrderEnumerates ==
    ASSUME NEW S \in SUBSET Nat, IsFiniteSet(S)
    PROVE  /\ InOrder(S) \in [1..Cardinality(S) -> S]
           /\ Cardinality(S) \in Nat /\ InOrder(S) \in Seq(S) /\ Len(InOrder(S)) = Cardinality(S)
           /\ \A i, j \in 1..Cardinality(S) : i < j => InOrder(S)[i] < InOrder(S)[j]
           /\ \A x \in S : \E n \in 1..Cardinality(S) : InOrder(S)[n] = x
<1>1. \A n \in 1..Cardinality(S) : InOrder(S)[n] \in S /\ Rank(S, InOrder(S)[n]) = n
  <2>. SUFFICES ASSUME NEW n \in 1..Cardinality(S)
                PROVE  InOrder(S)[n] \in S /\ Rank(S, InOrder(S)[n]) = n
    OBVIOUS
  <2>1. \E x \in S : Cardinality({y \in S : y <= x}) = n
    BY RanksTaken DEF Rank, UpTo
  <2>2. InOrder(S)[n] = CHOOSE x \in S : Cardinality({y \in S : y <= x}) = n
    BY DEF InOrder
  <2>3. InOrder(S)[n] \in S /\ Cardinality({y \in S : y <= InOrder(S)[n]}) = n
    BY <2>1, <2>2
  <2>. QED
    BY <2>3 DEF Rank, UpTo
<1>2. Cardinality(S) \in Nat
  BY FS_CardinalityType
<1>3. InOrder(S) \in [1..Cardinality(S) -> S]
  BY <1>1 DEF InOrder
<1>4. \A x, y \in S : x < y <=> Rank(S, x) < Rank(S, y)
  BY RankProperties
<1>5. \A x, y \in S : Rank(S, x) = Rank(S, y) => x = y
  BY RankProperties
<1>6. \A x \in S : Rank(S, x) \in 1..Cardinality(S)
  BY RankProperties
<1>7. \A i, j \in 1..Cardinality(S) : i < j => InOrder(S)[i] < InOrder(S)[j]
  BY <1>1, <1>2, <1>4
<1>8. \A x \in S : \E n \in 1..Cardinality(S) : InOrder(S)[n] = x
  BY <1>1, <1>5, <1>6
<1>. QED
  BY <1>2, <1>3, <1>7, <1>8

(* A sequence in the order of a relation is known by its elements.         *)
Ordered(q, R) == \A i, j \in 1..Len(q) : i < j => <<q[i], q[j]>> \in R
Elements(q) == {q[i] : i \in 1..Len(q)}

-----------------------------------------------------------------------------
(* Joined sequences.                                                       *)

(* The equation of FlattenSeq, one more sequence at a time.                *)
Both(u, v) == u \o v
Flattens(f, s, n) == f = [i \in 1..n |-> IF i = 1 THEN s[i] ELSE Both(f[i - 1], s[i])]

LEMMA FlattensAt ==
    ASSUME NEW f, NEW s, NEW n \in Nat, Flattens(f, s, n)
    PROVE  /\ n # 0 => f[1] = s[1]
           /\ \A i \in 1..n : i # 1 => f[i] = Both(f[i - 1], s[i])
BY DEF Flattens

LEMMA FlattensExists == ASSUME NEW s, NEW n \in Nat PROVE \E f : Flattens(f, s, n)
<1>. DEFINE G == {m \in Nat : \E f : Flattens(f, s, m)}
<1>1. 0 \in G
  <2>1. Flattens([i \in 1..0 |-> s[i]], s, 0)
    BY DEF Flattens
  <2>. QED
    BY <2>1
<1>2. ASSUME NEW m \in Nat, m \in G PROVE m + 1 \in G
  <2>1. PICK f : Flattens(f, s, m)
    BY <1>2
  <2>. DEFINE g == [i \in 1..m + 1 |-> IF i = m + 1 THEN (IF i = 1 THEN s[i] ELSE Both(f[m], s[i])) ELSE f[i]]
              h == [i \in 1..m + 1 |-> IF i = 1 THEN s[i] ELSE Both(g[i - 1], s[i])]
  <2>2. ASSUME NEW i \in 1..m + 1 PROVE g[i] = h[i]
    <3>1. CASE i = m + 1
      <4>1. i # 1 => g[i - 1] = f[m]
        BY <3>1
      <4>. QED
        BY <3>1, <4>1
    <3>2. CASE i \in 1..m
      <4>1. g[i] = f[i] /\ (i # 1 => i - 1 \in 1..m /\ g[i - 1] = f[i - 1])
        BY <3>2
      <4>2. f[i] = IF i = 1 THEN s[i] ELSE Both(f[i - 1], s[i])
        BY <2>1, <3>2 DEF Flattens
      <4>. QED
        BY <4>1, <4>2
    <3>. QED
      BY <3>1, <3>2
  <2>3. g = h
    <3>1. g = [i \in 1..m + 1 |-> g[i]] /\ h = [i \in 1..m + 1 |-> h[i]]
      OBVIOUS
    <3>. HIDE DEF g, h
    <3>. QED
      BY <2>2, <3>1
  <2>4. Flattens(g, s, m + 1)
    <3>. HIDE DEF g
    <3>. QED
      BY <2>3 DEF Flattens
  <2>. QED
    BY <2>4
<1>. HIDE DEF G
<1>3. n \in G
  BY <1>1, <1>2, NatSetInduction
<1>. QED
  BY <1>3 DEF G

LEMMA FlattenIs ==
    ASSUME NEW s, Len(s) \in Nat, Len(s) # 0
    PROVE  \E f : Flattens(f, s, Len(s)) /\ FlattenSeq(s) = f[Len(s)]
<1>1. \E f : Flattens(f, s, Len(s))
  BY FlattensExists
<1>. QED
  BY <1>1 DEF FlattenSeq, Flattens, Both

LEMMA FlattenEmpty == FlattenSeq(<<>>) = <<>>
BY DEF FlattenSeq

LEMMA FlattenAppend ==
    ASSUME NEW T, NEW s \in Seq(Seq(T)), NEW x \in Seq(T)
    PROVE  /\ FlattenSeq(s) \in Seq(T)
           /\ FlattenSeq(Append(s, x)) = FlattenSeq(s) \o x
<1>. DEFINE r == Append(s, x)
            n == Len(s)
<1>1. r \in Seq(Seq(T)) /\ Len(r) = n + 1 /\ r[n + 1] = x /\ \A i \in 1..n : r[i] = s[i]
  OBVIOUS
<1>2. n \in Nat /\ \A i \in 1..n : s[i] \in Seq(T)
  OBVIOUS
<1>. HIDE DEF r
<1>. HIDE DEF n
<1>3. PICK g : Flattens(g, r, n + 1) /\ FlattenSeq(r) = g[n + 1]
  <2>1. Len(r) \in Nat /\ Len(r) # 0
    BY <1>1, <1>2
  <2>. QED
    BY <1>1, <2>1, FlattenIs
<1>6. g[1] = r[1] /\ \A i \in 1..n + 1 : i # 1 => g[i] = Both(g[i - 1], r[i])
  BY <1>2, <1>3, FlattensAt
<1>4. CASE n = 0
  <2>1. s = <<>>
    BY <1>4, EmptySeq DEF n
  <2>2. FlattenSeq(s) = <<>>
    BY <2>1, FlattenEmpty
  <2>3. g[1] = x
    BY <1>1, <1>4, <1>6
  <2>. QED
    BY <1>3, <1>4, <2>2, <2>3 DEF r
<1>5. CASE n # 0
  <2>1. PICK f : Flattens(f, s, n) /\ FlattenSeq(s) = f[n]
    BY <1>2, <1>5, FlattenIs DEF n
  <2>0. f[1] = s[1] /\ \A i \in 1..n : i # 1 => f[i] = Both(f[i - 1], s[i])
    BY <1>2, <1>5, <2>1, FlattensAt
  <2>. DEFINE G == {m \in Nat : m \in 1..n => f[m] = g[m] /\ f[m] \in Seq(T)}
  <2>2. 0 \in G
    OBVIOUS
  <2>3. ASSUME NEW m \in Nat, m \in G PROVE m + 1 \in G
    <3>. SUFFICES ASSUME m + 1 \in 1..n PROVE f[m + 1] = g[m + 1] /\ f[m + 1] \in Seq(T)
      OBVIOUS
    <3>1. r[m + 1] = s[m + 1] /\ s[m + 1] \in Seq(T) /\ m + 1 \in 1..n + 1 /\ m + 1 - 1 = m
      BY <1>1, <1>2
    <3>2. CASE m = 0
      BY <1>6, <2>0, <3>1, <3>2
    <3>3. CASE m # 0
      <4>1. f[m] = g[m] /\ f[m] \in Seq(T) /\ m + 1 # 1
        BY <1>2, <2>3, <3>3
      <4>2. f[m + 1] = Both(f[m], s[m + 1])
        BY <1>2, <2>0, <3>1, <4>1
      <4>3. g[m + 1] = Both(g[m], s[m + 1])
        BY <1>2, <1>6, <3>1, <4>1
      <4>4. Both(f[m], s[m + 1]) \in Seq(T)
        BY <3>1, <4>1, ConcatProperties DEF Both
      <4>. QED
        BY <4>1, <4>2, <4>3, <4>4
    <3>. QED
      BY <3>2, <3>3
  <2>. HIDE DEF G
  <2>4. n \in G
    BY <1>2, <2>2, <2>3, NatSetInduction
  <2>5. f[n] = g[n] /\ f[n] \in Seq(T)
    BY <1>2, <1>5, <2>4 DEF G
  <2>6. g[n + 1] = Both(g[n], x)
    <3>1. n + 1 \in 1..n + 1 /\ n + 1 # 1 /\ n + 1 - 1 = n
      BY <1>2, <1>5
    <3>. QED
      BY <1>1, <1>2, <1>6, <3>1
  <2>. QED
    BY <1>3, <2>1, <2>5, <2>6 DEF r, Both
<1>. QED
  BY <1>4, <1>5

LEMMA ConcatOrdered ==
    ASSUME NEW T, NEW R, NEW q \in Seq(T), NEW r \in Seq(T), Ordered(q, R), Ordered(r, R),
           \A i \in 1..Len(q), j \in 1..Len(r) : <<q[i], r[j]>> \in R
    PROVE  /\ q \o r \in Seq(T) /\ Ordered(q \o r, R)
           /\ Elements(q \o r) = Elements(q) \cup Elements(r)
<1>. DEFINE c == q \o r
            m == Len(q)
            n == Len(r)
<1>1. /\ c \in Seq(T) /\ Len(c) = m + n /\ m \in Nat /\ n \in Nat
      /\ \A i \in 1..m : c[i] = q[i]
      /\ \A i \in 1..n : c[m + i] = r[i]
  OBVIOUS
<1>. HIDE DEF c
<1>2. \A k \in 1..m + n : k \in 1..m \/ \E i \in 1..n : k = m + i
  <2>. SUFFICES ASSUME NEW k \in 1..m + n, k \notin 1..m PROVE \E i \in 1..n : k = m + i
    OBVIOUS
  <2>1. k - m \in 1..n /\ k = m + (k - m)
    BY <1>1
  <2>. QED
    BY <2>1
<1>3. \A i \in 1..m : i \in 1..m + n
  BY <1>1
<1>4. \A i \in 1..n : m + i \in 1..m + n
  BY <1>1
<1>5. Ordered(c, R)
  <2>. SUFFICES ASSUME NEW k \in 1..m + n, NEW l \in 1..m + n, k < l PROVE <<c[k], c[l]>> \in R
    BY <1>1 DEF Ordered
  <2>1. CASE k \in 1..m /\ l \in 1..m
    BY <1>1, <2>1 DEF Ordered
  <2>2. CASE k \in 1..m /\ l \notin 1..m
    <3>1. PICK j \in 1..n : l = m + j
      BY <1>2, <2>2
    <3>. QED
      BY <1>1, <2>2, <3>1
  <2>3. CASE k \notin 1..m
    <3>1. PICK i \in 1..n : k = m + i
      BY <1>2, <2>3
    <3>2. l \notin 1..m
      BY <1>1, <3>1
    <3>3. PICK j \in 1..n : l = m + j
      BY <1>2, <3>2
    <3>4. i < j
      BY <1>1, <3>1, <3>3
    <3>5. <<r[i], r[j]>> \in R
      BY <3>4 DEF Ordered
    <3>. QED
      BY <1>1, <3>1, <3>3, <3>5
  <2>. QED
    BY <2>1, <2>2, <2>3
<1>6. Elements(c) \subseteq Elements(q) \cup Elements(r)
  <2>. SUFFICES ASSUME NEW k \in 1..m + n PROVE c[k] \in Elements(q) \cup Elements(r)
    BY <1>1 DEF Elements
  <2>1. CASE k \in 1..m
    BY <1>1, <2>1 DEF Elements
  <2>2. CASE k \notin 1..m
    <3>1. PICK i \in 1..n : k = m + i
      BY <1>2, <2>2
    <3>. QED
      BY <1>1, <3>1 DEF Elements
  <2>. QED
    BY <2>1, <2>2
<1>7. Elements(q) \subseteq Elements(c)
  BY <1>1, <1>3 DEF Elements
<1>8. Elements(r) \subseteq Elements(c)
  BY <1>1, <1>4 DEF Elements
<1>. QED
  BY <1>1, <1>5, <1>6, <1>7, <1>8 DEF c

(* A sequence of ordered sequences, each before the next, joins to an      *)
(* ordered one.                                                            *)
Chained(s, R) ==
    /\ \A k \in 1..Len(s) : Ordered(s[k], R)
    /\ \A k, l \in 1..Len(s) : k < l =>
         \A x \in 1..Len(s[k]), y \in 1..Len(s[l]) : <<s[k][x], s[l][y]>> \in R
AllElements(s) == UNION {Elements(s[k]) : k \in 1..Len(s)}
Joins(T, R, s) ==
    /\ FlattenSeq(s) \in Seq(T) /\ Ordered(FlattenSeq(s), R)
    /\ Elements(FlattenSeq(s)) = AllElements(s)

LEMMA JoinsAppend ==
    ASSUME NEW T, NEW R, NEW s \in Seq(Seq(T)), NEW x \in Seq(T),
           Joins(T, R, s), Chained(Append(s, x), R)
    PROVE  Joins(T, R, Append(s, x))
<1>. DEFINE q == FlattenSeq(s)
            r == Append(s, x)
            m == Len(s) + 1
<1>1. /\ Len(s) \in Nat /\ Len(r) = m /\ r[m] = x /\ m \in 1..m
      /\ \A k \in 1..Len(s) : r[k] = s[k] /\ k \in 1..m /\ k < m
  OBVIOUS
<1>2. FlattenSeq(r) = q \o x
  BY FlattenAppend
<1>. HIDE DEF r
<1>3. q \in Seq(T) /\ Ordered(q, R) /\ Elements(q) = AllElements(s)
  BY DEF Joins
<1>4. Ordered(x, R)
  BY <1>1 DEF Chained, r
<1>. HIDE DEF q
<1>5. ASSUME NEW i \in 1..Len(q), NEW j \in 1..Len(x) PROVE <<q[i], x[j]>> \in R
  <2>1. q[i] \in AllElements(s)
    BY <1>3 DEF Elements
  <2>2. PICK k \in 1..Len(s) : q[i] \in Elements(s[k])
    BY <2>1 DEF AllElements
  <2>3. PICK l \in 1..Len(s[k]) : q[i] = s[k][l]
    BY <2>2 DEF Elements
  <2>4. r[k] = s[k] /\ k \in 1..Len(r) /\ m \in 1..Len(r) /\ k < m
    BY <1>1
  <2>. HIDE DEF m
  <2>5. \A u \in 1..Len(r[k]), v \in 1..Len(r[m]) : <<r[k][u], r[m][v]>> \in R
    BY <2>4 DEF Chained, r
  <2>. QED
    BY <1>1, <2>3, <2>4, <2>5
<1>6. q \o x \in Seq(T) /\ Ordered(q \o x, R) /\ Elements(q \o x) = Elements(q) \cup Elements(x)
  BY <1>3, <1>4, <1>5, ConcatOrdered
<1>7. AllElements(r) = AllElements(s) \cup Elements(x)
  <2>1. AllElements(r) \subseteq AllElements(s) \cup Elements(x)
    <3>. SUFFICES ASSUME NEW k \in 1..Len(r), NEW e \in Elements(r[k])
                  PROVE  e \in AllElements(s) \cup Elements(x)
      BY DEF AllElements
    <3>1. CASE k = m
      BY <1>1, <3>1
    <3>2. CASE k # m
      <4>1. k \in 1..Len(s)
        BY <1>1, <3>2
      <4>. QED
        BY <1>1, <4>1 DEF AllElements
    <3>. QED
      BY <3>1, <3>2
  <2>2. AllElements(s) \subseteq AllElements(r)
    <3>. SUFFICES ASSUME NEW k \in 1..Len(s), NEW e \in Elements(s[k]) PROVE e \in AllElements(r)
      BY DEF AllElements
    <3>. QED
      BY <1>1 DEF AllElements
  <2>3. Elements(x) \subseteq AllElements(r)
    BY <1>1 DEF AllElements
  <2>. QED
    BY <2>1, <2>2, <2>3
<1>. QED
  BY <1>2, <1>3, <1>6, <1>7 DEF Joins, r

LEMMA FlattenOrdered ==
    ASSUME NEW T, NEW R, NEW s \in Seq(Seq(T)), Chained(s, R)
    PROVE  Joins(T, R, s)
<1>. DEFINE Q == {n \in Nat : \A z \in Seq(Seq(T)) : Len(z) = n /\ Chained(z, R) => Joins(T, R, z)}
<1>1. 0 \in Q
  <2>. SUFFICES ASSUME NEW z \in Seq(Seq(T)), Len(z) = 0 PROVE Joins(T, R, z)
    OBVIOUS
  <2>1. z = <<>>
    OBVIOUS
  <2>2. FlattenSeq(z) = <<>>
    BY <2>1, FlattenEmpty
  <2>3. Elements(<<>>) = {} /\ AllElements(<<>>) = {} /\ Ordered(<<>>, R) /\ <<>> \in Seq(T)
    BY DEF Elements, AllElements, Ordered
  <2>. QED
    BY <2>1, <2>2, <2>3 DEF Joins
<1>2. ASSUME NEW n \in Nat, n \in Q PROVE n + 1 \in Q
  <2>. SUFFICES ASSUME NEW z \in Seq(Seq(T)), Len(z) = n + 1, Chained(z, R) PROVE Joins(T, R, z)
    BY <1>2
  <2>. DEFINE f == [k \in 1..n |-> z[k]]
              x == z[n + 1]
  <2>1. /\ \A k \in 1..n + 1 : z[k] \in Seq(T)
        /\ DOMAIN z = 1..n + 1
    BY <1>2
  <2>2. f \in Seq(Seq(T)) /\ Len(f) = n /\ x \in Seq(T) /\ \A k \in 1..n : f[k] = z[k]
    <3>1. f \in [1..n -> Seq(T)]
      BY <2>1, <1>2
    <3>. QED
      BY <1>2, <2>1, <3>1
  <2>3. z = Append(f, x)
    <3>. DEFINE y == Append(f, x)
    <3>1. y \in Seq(Seq(T)) /\ Len(y) = n + 1 /\ y[n + 1] = x /\ \A k \in 1..n : y[k] = f[k]
      BY <2>2, AppendProperties
    <3>. HIDE DEF y
    <3>2. \A k \in 1..n + 1 : y[k] = z[k]
      BY <1>2, <2>2, <3>1
    <3>. QED
      BY <3>1, <3>2, SeqEqual DEF y
  <2>. HIDE DEF f, x
  <2>4. Chained(f, R)
    <3>1. \A k \in 1..n : k \in 1..n + 1
      BY <1>2
    <3>. QED
      BY <2>2, <3>1 DEF Chained
  <2>5. Joins(T, R, f)
    BY <1>2, <2>2, <2>4
  <2>. QED
    BY <2>2, <2>3, <2>5, JoinsAppend
<1>. HIDE DEF Q
<1>3. Nat \subseteq Q
  BY <1>1, <1>2, NatSetInduction
<1>4. Len(s) \in Q
  BY <1>3
<1>. QED
  BY <1>4 DEF Q

-----------------------------------------------------------------------------
(* RequestPipeline: the registry.                                          *)

(* A record of the registry has every field, a price that is a number, its *)
(* own id, and what the validation asks for.                               *)
Recorded(id, info) ==
    /\ InfoFields \subseteq DOMAIN info /\ info.inputPrice \in Int
    /\ info.id = id /\ ValidInfo(info, TRUE)

RegistryInv ==
    /\ \A id \in DOMAIN models : Recorded(id, models[id])
    /\ \A i \in DOMAIN plan : plan[i].model \in DOMAIN models

LEMMA SeedRecorded ==
    ASSUME NEW id \in DOMAIN Seed,
           ValidInfo(WithKind([Seed[id] EXCEPT !.id = id]), FALSE)
    PROVE  Recorded(id, WithKind([Seed[id] EXCEPT !.id = id]))
<1>. DEFINE seed == Seed[id]
            named == [seed EXCEPT !.id = id]
            info == WithKind(named)
<1>1. InfoFields \subseteq DOMAIN seed /\ seed.inputPrice \in Int /\ Unset \notin Kinds
  BY RegistryAssumption
<1>. HIDE DEF seed
<1>2. /\ DOMAIN named = DOMAIN seed /\ named.inputPrice = seed.inputPrice
      /\ named.id = id
  BY <1>1 DEF InfoFields
<1>. HIDE DEF named
<1>3. /\ DOMAIN info = DOMAIN seed /\ info.inputPrice = seed.inputPrice /\ info.id = id
      /\ info.kind = IF named.kind = Unset THEN "completion" ELSE named.kind
  BY <1>1, <1>2 DEF InfoFields, WithKind
<1>4. info.kind # Unset
  BY <1>1, <1>3 DEF Kinds
<1>5. ValidInfo(info, FALSE)
  BY DEF named, seed
<1>. HIDE DEF info
<1>6. ValidInfo(info, TRUE)
  BY <1>4, <1>5 DEF ValidInfo
<1>7. Recorded(id, info)
  BY <1>1, <1>3, <1>6 DEF Recorded
<1>. QED
  BY <1>7 DEF info, named, seed

LEMMA InfoRecorded ==
    ASSUME NEW info \in Infos, ValidInfo(info, TRUE)
    PROVE  Recorded(info.id, WithKind(info))
<1>1. InfoFields \subseteq DOMAIN info /\ info.inputPrice \in Int
  BY RegistryAssumption
<1>2. info.kind # Unset
  BY DEF ValidInfo
<1>3. WithKind(info) = [info EXCEPT !.kind = info.kind]
  BY <1>2 DEF WithKind
<1>. DEFINE kept == WithKind(info)
<1>4. /\ DOMAIN kept = DOMAIN info /\ \A field \in DOMAIN info : kept[field] = info[field]
  BY <1>1, <1>3 DEF InfoFields
<1>. HIDE DEF kept
<1>5. \A field \in InfoFields : kept[field] = info[field]
  BY <1>1, <1>4
<1>6. ValidInfo(kept, TRUE)
  BY <1>5 DEF ValidInfo, InfoFields
<1>. QED
  BY <1>1, <1>4, <1>5, <1>6 DEF Recorded, InfoFields, kept

LEMMA MergedRecorded ==
    ASSUME NEW overrides \in Overrides, NEW id \in DOMAIN overrides, NEW info,
           Recorded(id, info), DOMAIN overrides[id] \intersect {"id", "provider"} = {},
           ValidInfo(Merged(info, overrides[id]), FALSE)
    PROVE  Recorded(id, Merged(info, overrides[id]))
<1>. DEFINE override == overrides[id]
            merged == Merged(info, override)
<1>1. "inputPrice" \in DOMAIN override => override.inputPrice \in Int
  BY RegistryAssumption
<1>. HIDE DEF override
<1>2. /\ InfoFields \subseteq DOMAIN info /\ info.inputPrice \in Int /\ info.id = id
      /\ info.kind # Unset
  BY DEF Recorded, ValidInfo
<1>3. /\ DOMAIN merged = DOMAIN info /\ merged.inputPrice \in Int /\ merged.kind # Unset
      /\ "id" \notin DOMAIN override => merged.id = id
  BY <1>1, <1>2 DEF Merged, InfoFields
<1>4. "id" \notin DOMAIN override
  BY DEF override
<1>5. ValidInfo(merged, FALSE)
  BY DEF override
<1>. HIDE DEF merged
<1>6. ValidInfo(merged, TRUE)
  BY <1>3, <1>5 DEF ValidInfo
<1>. QED
  BY <1>2, <1>3, <1>4, <1>6 DEF Recorded, merged, override

LEMMA RegistryKept ==
    ASSUME \A id \in DOMAIN models : Recorded(id, models[id]), RegistryNext
    PROVE  /\ \A id \in DOMAIN models' : Recorded(id, models'[id])
           /\ DOMAIN models \subseteq DOMAIN models'
<1>1. ASSUME NEW info \in Infos, Register(info)
      PROVE  /\ \A id \in DOMAIN models' : Recorded(id, models'[id])
             /\ DOMAIN models \subseteq DOMAIN models'
  <2>1. CASE ValidInfo(info, TRUE)
    <3>1. Recorded(info.id, WithKind(info))
      BY <2>1, InfoRecorded
    <3>2. models' = [id \in DOMAIN models \union {info.id} |->
                         IF id = info.id THEN WithKind(info) ELSE models[id]]
      BY <1>1, <2>1 DEF Register
    <3>. QED
      BY <3>1, <3>2
  <2>2. CASE ~ValidInfo(info, TRUE)
    BY <1>1, <2>2 DEF Register
  <2>. QED
    BY <2>1, <2>2
<1>2. ASSUME NEW overrides \in Overrides, UpdatePrices(overrides)
      PROVE  /\ \A id \in DOMAIN models' : Recorded(id, models'[id])
             /\ DOMAIN models \subseteq DOMAIN models'
  <2>1. CASE Applicable(models, overrides)
    <3>1. models' = Updated(models, overrides)
      BY <1>2, <2>1 DEF UpdatePrices
    <3>2. ASSUME NEW id \in DOMAIN overrides, id \in DOMAIN models
          PROVE  Recorded(id, Merged(models[id], overrides[id]))
      BY <2>1, <3>2, MergedRecorded DEF Applicable
    <3>. QED
      BY <3>1, <3>2 DEF Updated
  <2>2. CASE ~Applicable(models, overrides)
    BY <1>2, <2>2 DEF UpdatePrices
  <2>. QED
    BY <2>1, <2>2
<1>. QED
  BY <1>1, <1>2 DEF RegistryNext

LEMMA RoutesKnown ==
    ASSUME NEW context, NEW defaults, NEW roll,
           Router!Resolves(Rules, context, defaults, roll, Known),
           NEW i \in DOMAIN Router!Resolve(Rules, context, defaults, roll, Known)
    PROVE  Router!Resolve(Rules, context, defaults, roll, Known)[i].model \in DOMAIN models
BY DEF Router!Resolves, Router!Resolve, Router!Usable, Router!Attempt, Known

LEMMA RegistryInitially == PipelineInit => RegistryInv
<1>. SUFFICES ASSUME PipelineInit PROVE RegistryInv
  OBVIOUS
<1>1. RegistryInit /\ plan = <<>>
  BY DEF PipelineInit
<1>2. models = [id \in DOMAIN Seed |-> WithKind([Seed[id] EXCEPT !.id = id])]
  BY <1>1 DEF RegistryInit
<1>3. \A id \in DOMAIN Seed : ValidInfo(models[id], FALSE)
  BY <1>1, <1>2 DEF RegistryInit
<1>4. \A id \in DOMAIN Seed : Recorded(id, models[id])
  BY <1>2, <1>3, SeedRecorded
<1>. QED
  BY <1>1, <1>2, <1>4 DEF RegistryInv

LEMMA RegistryStep == RegistryInv /\ [PipelineNext]_pipelineVars => RegistryInv'
<1>. SUFFICES ASSUME RegistryInv, [PipelineNext]_pipelineVars PROVE RegistryInv'
  OBVIOUS
<1>1. CASE UNCHANGED <<registryVars, plan>>
  BY <1>1 DEF RegistryInv, registryVars
<1>2. CASE ChangeRegistry
  BY <1>2, RegistryKept DEF RegistryInv, ChangeRegistry, callVars
<1>3. ASSUME UNCHANGED registryVars, plan' = <<>> PROVE RegistryInv'
  BY <1>3 DEF RegistryInv, registryVars
<1>4. ASSUME NEW ask \in Asks, NEW roll \in 1..Sides, Call(ask, roll) PROVE RegistryInv'
  <2>. DEFINE defaults == [model |-> NoName, provider |-> NoName]
  <2>1. UNCHANGED registryVars
    BY <1>4 DEF Call
  <2>2. CASE plan' = <<>>
    BY <1>3, <2>1, <2>2
  <2>3. CASE /\ Router!Resolves(Rules, Context(ask), defaults, roll, Known)
             /\ plan' = Router!Resolve(Rules, Context(ask), defaults, roll, Known)
    BY <2>1, <2>3, RoutesKnown DEF RegistryInv, registryVars
  <2>. QED
    BY <1>4, <2>2, <2>3 DEF Call
<1>5. SendBody => UNCHANGED <<registryVars, plan>>
  BY DEF SendBody
<1>. QED
  BY <1>1, <1>2, <1>3, <1>4, <1>5
  DEF PipelineNext, Write, DispatchCall, RetrySend, FallBack, Answer, Failed, pipelineVars, callVars

(* Whatever is registered, re-priced and called, the registry is sound and *)
(* knows the models of the running request.                                *)
THEOREM RegistryCorrect == PipelineSpec => []RegistrySound
<1>1. RegistryInv => RegistrySound
  BY DEF RegistryInv, RegistrySound, Recorded, Supported
<1>. QED
  BY <1>1, RegistryInitially, RegistryStep, PTL DEF PipelineSpec

-----------------------------------------------------------------------------
(* The plan of a request and the bill of an answer.                        *)

PlanInv ==
    /\ plan \in Seq(Range(plan))
    /\ phase \in {"planned", "sent"} => at \in 1..Len(plan)

LEMMA SmallestIndex ==
    ASSUME NEW S \in SUBSET Nat, S # {}
    PROVE  Min(S) \in S
<1>1. PICK n \in S : \A m \in S : <<m, n>> \notin OpToRel(<, Nat)
  BY NatLessThanWellFounded, WFMin
<1>2. ASSUME NEW m \in S, m < n PROVE FALSE
  <2>1. <<m, n>> \in OpToRel(<, Nat)
    BY <1>2 DEF OpToRel
  <2>. QED
    BY <1>1, <2>1
<1>3. \A m \in S : n <= m
  BY <1>2
<1>. QED
  BY <1>3 DEF Min

LEMMA TargetsGiven ==
    ASSUME NEW context, NEW defaults, NEW roll
    PROVE  \E n \in Nat : n > 0 /\ DOMAIN Router!Targets(Rules, context, defaults, roll) = 1..n
<1>. DEFINE matching == {i \in DOMAIN Rules : Router!MatchesRule(Rules[i], context)}
            targets == Router!Targets(Rules, context, defaults, roll)
<1>1. CASE matching = {}
  <2>1. targets = <<Router!DirectTarget(context, defaults)>>
    BY <1>1 DEF Router!Targets
  <2>2. DOMAIN <<Router!DirectTarget(context, defaults)>> = 1..1
    OBVIOUS
  <2>. QED
    BY <2>1, <2>2
<1>2. CASE matching # {}
  <2>1. DOMAIN Rules \subseteq Nat
    BY PipelineAssumption
  <2>2. Router!Min(matching) \in matching
    BY <1>2, <2>1, SmallestIndex DEF Min, Router!Min
  <2>3. PICK rule \in {Rules[i] : i \in DOMAIN Rules} : rule = Rules[Router!Min(matching)]
    BY <2>2
  <2>4. rule.fallback \in Seq(Range(rule.fallback))
    BY <2>3, PipelineAssumption
  <2>5. PICK primary : primary = Router!Primary(rule, context, defaults, roll)
    OBVIOUS
  <2>6. targets = <<primary>> \o rule.fallback
    BY <1>2, <2>3, <2>5 DEF Router!Targets
  <2>7. PICK fallback \in Seq(Range(rule.fallback)) : fallback = rule.fallback
    BY <2>4
  <2>8. <<primary>> \in Seq({primary}) /\ Len(<<primary>>) = 1
    OBVIOUS
  <2>9. DOMAIN (<<primary>> \o fallback) = 1..(1 + Len(fallback)) /\ Len(fallback) \in Nat
    BY <2>8
  <2>. QED
    BY <2>6, <2>7, <2>9
<1>. QED
  BY <1>1, <1>2

LEMMA PlanGiven ==
    ASSUME NEW context, NEW defaults, NEW roll, NEW routes,
           routes = Router!Resolve(Rules, context, defaults, roll, Known)
    PROVE  routes \in Seq(Range(routes)) /\ 1 \in 1..Len(routes)
<1>1. PICK n \in Nat : n > 0 /\ DOMAIN routes = 1..n
  BY TargetsGiven DEF Router!Resolve
<1>2. routes \in [1..n -> Range(routes)]
  <2>1. routes = [i \in DOMAIN routes |-> routes[i]]
    BY DEF Router!Resolve
  <2>. QED
    BY <1>1, <2>1 DEF Range
<1>. QED
  BY <1>1, <1>2

LEMMA PlanInitially == PipelineInit => PlanInv
BY DEF PipelineInit, PlanInv, Range

LEMMA PlanStep == PlanInv /\ [PipelineNext]_pipelineVars => PlanInv'
<1>. SUFFICES ASSUME PlanInv, [PipelineNext]_pipelineVars PROVE PlanInv'
  OBVIOUS
<1>1. CASE UNCHANGED <<plan, at, phase>>
  BY <1>1 DEF PlanInv, Range
<1>2. ASSUME UNCHANGED <<plan, at>>, phase' = "failed" PROVE PlanInv'
  BY <1>2 DEF PlanInv, Range
<1>3. ASSUME plan' = <<>>, phase' \in {"idle", "failed"} PROVE PlanInv'
  BY <1>3 DEF PlanInv, Range
<1>4. ASSUME NEW ask \in Asks, NEW roll \in 1..Sides, Call(ask, roll) PROVE PlanInv'
  <2>. DEFINE defaults == [model |-> NoName, provider |-> NoName]
              routes == Router!Resolve(Rules, Context(ask), defaults, roll, Known)
  <2>1. CASE plan' = <<>> /\ phase' = "failed"
    BY <1>3, <2>1
  <2>2. CASE plan' = routes /\ at' = 1 /\ phase' = "planned"
    <3>1. routes \in Seq(Range(routes)) /\ 1 \in 1..Len(routes)
      BY PlanGiven
    <3>. QED
      BY <2>2, <3>1 DEF PlanInv
  <2>. QED
    BY <1>4, <2>1, <2>2 DEF Call
<1>5. ASSUME SendBody, phase \in {"planned", "sent"} PROVE PlanInv'
  BY <1>5 DEF SendBody, PlanInv, Range
<1>6. CASE FallBack
  <2>1. UNCHANGED plan
    BY <1>6 DEF FallBack
  <2>2. CASE at < Len(plan) /\ at' = at + 1
    BY <1>6, <2>1, <2>2 DEF FallBack, PlanInv, Range
  <2>. QED
    BY <1>2, <1>6, <2>1, <2>2 DEF FallBack
<1>. QED
  BY <1>1, <1>2, <1>3, <1>4, <1>5, <1>6
  DEF PipelineNext, Write, ChangeRegistry, DispatchCall, RetrySend, Answer, Failed, pipelineVars,
      callVars

(* A bill is the cost of what one of the providers reported, by the prices *)
(* of the registry of that moment.                                         *)
BillInv ==
    bill # None =>
      /\ bill.usage \in Usages /\ bill.usage.provider = bill.provider
      /\ bill.prices.inputPrice \in Int
      /\ bill.cost = Bill!Cost(bill.prices, Bill!Canonical(bill.provider, bill.usage))

LEMMA AnswerBilled ==
    ASSUME RegistryInv, PlanInv, NEW parts \in Answers, NEW usage \in Usages, NEW answered,
           Answer(parts, usage, answered)
    PROVE  BillInv'
<1>. DEFINE attempt == plan[at]
            billed == BilledModel(attempt, answered)
<1>1. at \in DOMAIN plan
  BY DEF Answer, PlanInv
<1>2. billed \in DOMAIN models
  BY <1>1 DEF BilledModel, Supported, RegistryInv
<1>3. models[billed].inputPrice \in Int
  BY <1>2 DEF RegistryInv, Recorded
<1>4. /\ usage.provider = attempt.provider
      /\ bill' = [provider |-> attempt.provider, usage |-> usage, prices |-> models[billed],
                  cost |-> Bill!Cost(models[billed], Bill!Canonical(attempt.provider, usage))]
  BY DEF Answer
<1>. HIDE DEF billed, attempt
<1>. QED
  BY <1>3, <1>4 DEF BillInv

LEMMA BillInitially == PipelineInit => BillInv
BY DEF PipelineInit, BillInv

LEMMA BillStep == RegistryInv /\ PlanInv /\ BillInv /\ [PipelineNext]_pipelineVars => BillInv'
<1>. SUFFICES ASSUME RegistryInv, PlanInv, BillInv, [PipelineNext]_pipelineVars PROVE BillInv'
  OBVIOUS
<1>1. CASE UNCHANGED bill
  BY <1>1 DEF BillInv
<1>2. CASE bill' = None
  BY <1>2 DEF BillInv
<1>3. SendBody => UNCHANGED bill
  BY DEF SendBody
<1>. QED
  BY <1>1, <1>2, <1>3, AnswerBilled
  DEF PipelineNext, Write, ChangeRegistry, Call, DispatchCall, RetrySend, FallBack, Failed,
      pipelineVars

(* What the four counters cost at one price.                               *)
LEMMA OnePrice ==
    ASSUME NEW a \in Nat, NEW b \in Nat, NEW c \in Nat, NEW d \in Nat, NEW e \in Nat, NEW p \in Int
    PROVE  20 * a * p + 20 * (b + e) * p + c * (20 * p) + d * (20 * p) = 20 * (a + b + c + d + e) * p
OBVIOUS

LEMMA FlatCost ==
    ASSUME NEW usage \in Usages, NEW prices, prices.inputPrice \in Int, FlatPrice(prices)
    PROVE  Bill!Cost(prices, Bill!Canonical(usage.provider, usage)) =
             20 * (Reported(usage, "input") + Reported(usage, "output")
              + (IF usage.provider = "anthropic"
                 THEN Reported(usage, "cacheRead") + Reported(usage, "cacheWrite") ELSE 0)
              + (IF usage.provider = "google" THEN Reported(usage, "thoughts") ELSE 0))
              * prices.inputPrice
<1>1. PICK p \in Int : p = prices.inputPrice
  OBVIOUS
<1>2. /\ prices.outputPrice = p /\ prices.cacheReadPrice = p /\ prices.cacheWritePrice = p
      /\ p # Unset
  BY <1>1, RegistryAssumption DEF FlatPrice
<1>3. Bill!CacheReadPrice(prices) = 20 * p /\ Bill!CacheWritePrice(prices) = 20 * p
  BY <1>1, <1>2 DEF Bill!CacheReadPrice, Bill!CacheWritePrice
<1>4. PICK input \in Nat, output \in Nat, read \in Nat, write \in Nat, thoughts \in Nat :
        /\ input = Reported(usage, "input") /\ output = Reported(usage, "output")
        /\ read = Reported(usage, "cacheRead") /\ write = Reported(usage, "cacheWrite")
        /\ thoughts = Reported(usage, "thoughts")
        /\ usage.provider # "anthropic" => read <= input
  BY PipelineAssumption DEF Counts
<1>5. /\ Bill!Or(usage.input, 0) = input /\ Bill!Or(usage.output, 0) = output
      /\ Bill!Or(usage.cacheRead, 0) = read /\ Bill!Or(usage.cacheWrite, 0) = write
      /\ Bill!Or(usage.thoughts, 0) = thoughts
  BY <1>4 DEF Reported, Bill!Or
<1>6. PICK used : used = Bill!Canonical(usage.provider, usage)
  OBVIOUS
<1>7. /\ used.billedInput = IF usage.provider = "anthropic" THEN input ELSE input - read
      /\ used.outputTokens = output /\ used.cachedRead = read
      /\ used.cachedWrite = IF usage.provider = "anthropic" THEN write ELSE 0
      /\ used.billedReasoning = IF usage.provider = "google" THEN thoughts ELSE 0
  BY <1>4, <1>5, <1>6 DEF Bill!Canonical
<1>8. /\ used.billedInput \in Nat /\ used.cachedWrite \in Nat /\ used.billedReasoning \in Nat
      /\ used.cachedRead \in Nat /\ used.outputTokens \in Nat
  BY <1>4, <1>7
<1>9. Bill!Cost(prices, used) =
        20 * used.billedInput * p + 20 * (used.outputTokens + used.billedReasoning) * p
          + used.cachedRead * (20 * p) + used.cachedWrite * (20 * p)
  BY <1>1, <1>2, <1>3 DEF Bill!Cost
<1>10. Bill!Cost(prices, used) =
         20 * (used.billedInput + used.outputTokens + used.cachedRead + used.cachedWrite
               + used.billedReasoning) * p
  BY <1>8, <1>9, OnePrice
<1>11. used.billedInput + used.outputTokens + used.cachedRead + used.cachedWrite
         + used.billedReasoning
       = input + output + (IF usage.provider = "anthropic" THEN read + write ELSE 0)
           + (IF usage.provider = "google" THEN thoughts ELSE 0)
  BY <1>4, <1>7
<1>. QED
  BY <1>1, <1>4, <1>6, <1>10, <1>11

(* Whatever the providers report and whatever the registry is changed to,  *)
(* at a flat price every token that was counted is paid once.              *)
THEOREM BillingCorrect == PipelineSpec => []TokensBilledOnce
<1>1. BillInv => TokensBilledOnce
  <2>. SUFFICES ASSUME BillInv, bill # None, FlatPrice(bill.prices) PROVE TokensBilledOnce
    BY DEF TokensBilledOnce
  <2>1. /\ bill.usage \in Usages /\ bill.usage.provider = bill.provider
        /\ bill.prices.inputPrice \in Int
        /\ bill.cost = Bill!Cost(bill.prices, Bill!Canonical(bill.usage.provider, bill.usage))
    BY DEF BillInv
  <2>. QED
    BY <2>1, FlatCost DEF TokensBilledOnce
<1>. QED
  BY <1>1, RegistryInitially, RegistryStep, PlanInitially, PlanStep, BillInitially, BillStep, PTL
  DEF PipelineSpec

-----------------------------------------------------------------------------
(* The translation of a conversation whose parts have their places as tags. *)

TaggedMessages(ms) ==
    /\ ms \in Seq(Range(ms))
    /\ \A i \in DOMAIN ms : /\ ms[i].parts \in Seq(Range(ms[i].parts))
                           /\ \A j \in DOMAIN ms[i].parts : ms[i].parts[j].tag = <<i, j>>

PlacesIn(ms) == UNION {{<<i, j>> : j \in DOMAIN ms[i].parts} : i \in DOMAIN ms}
Lifted(ms) == {q \in PlacesIn(ms) : ms[q[1]].role = "system"}
PartAt(ms, q) == ms[q[1]].parts[q[2]]

LEMMA TaggedFacts ==
    ASSUME NEW ms, TaggedMessages(ms)
    PROVE  /\ Len(ms) \in Nat /\ DOMAIN ms = 1..Len(ms)
           /\ \A i \in 1..Len(ms) :
                /\ Len(ms[i].parts) \in Nat /\ DOMAIN ms[i].parts = 1..Len(ms[i].parts)
                /\ \A j \in 1..Len(ms[i].parts) :
                     <<i, j>> \in PlacesIn(ms) /\ ms[i].parts[j].tag = <<i, j>>
           /\ \A q \in PlacesIn(ms) : /\ q = <<q[1], q[2]>> /\ q[1] \in 1..Len(ms)
                                    /\ q[2] \in 1..Len(ms[q[1]].parts)
                                    /\ PartAt(ms, q).tag = q
<1>1. Len(ms) \in Nat /\ DOMAIN ms = 1..Len(ms)
  BY DEF TaggedMessages
<1>2. ASSUME NEW i \in 1..Len(ms)
      PROVE  /\ Len(ms[i].parts) \in Nat /\ DOMAIN ms[i].parts = 1..Len(ms[i].parts)
             /\ \A j \in DOMAIN ms[i].parts : ms[i].parts[j].tag = <<i, j>>
  <2>1. ms[i].parts \in Seq(Range(ms[i].parts))
    BY <1>1 DEF TaggedMessages
  <2>. QED
    BY <1>1, <2>1 DEF TaggedMessages
<1>3. \A i \in 1..Len(ms) : \A j \in DOMAIN ms[i].parts : <<i, j>> \in PlacesIn(ms)
  BY <1>1 DEF PlacesIn
<1>4. ASSUME NEW q \in PlacesIn(ms)
      PROVE  /\ q = <<q[1], q[2]>> /\ q[1] \in 1..Len(ms)
             /\ q[2] \in 1..Len(ms[q[1]].parts)
             /\ PartAt(ms, q).tag = q
  <2>1. PICK i \in 1..Len(ms) : \E j \in DOMAIN ms[i].parts : q = <<i, j>>
    BY <1>1 DEF PlacesIn
  <2>2. PICK j \in DOMAIN ms[i].parts : q = <<i, j>>
    BY <2>1
  <2>3. q[1] = i /\ q[2] = j
    BY <2>2
  <2>4. j \in 1..Len(ms[i].parts) /\ ms[i].parts[j].tag = <<i, j>>
    BY <1>2
  <2>. QED
    BY <2>2, <2>3, <2>4 DEF PartAt
<1>. QED
  BY <1>1, <1>2, <1>3, <1>4

(* The parts of one message: those of the same type stay in their order.   *)
PartBefore(T) ==
    {p \in T \X T : p[1].tag # p[2].tag /\ (p[1].type = p[2].type => p[1].tag[2] < p[2].tag[2])}

PartsAt(parts, S) == {parts[j] : j \in S}

LEMMA PickedOrdered ==
    ASSUME NEW i, NEW parts, parts \in Seq(Range(parts)),
           \A j \in DOMAIN parts : parts[j].tag = <<i, j>>,
           NEW S \in SUBSET DOMAIN parts
    PROVE  /\ Picked(parts, S) \in Seq(Range(parts))
           /\ Ordered(Picked(parts, S), PartBefore(Range(parts)))
           /\ Elements(Picked(parts, S)) = PartsAt(parts, S)
<1>1. DOMAIN parts = 1..Len(parts) /\ Len(parts) \in Nat
  OBVIOUS
<1>2. IsFiniteSet(S) /\ S \in SUBSET Nat
  <2>1. IsFiniteSet(1..Len(parts))
    BY <1>1, FS_Interval
  <2>. QED
    BY <1>1, <2>1, FS_Subset
<1>. DEFINE n == Cardinality(S)
            q == InOrder(S)
            r == Picked(parts, S)
<1>3. /\ q \in [1..n -> S] /\ n \in Nat
      /\ \A k, l \in 1..n : k < l => q[k] < q[l]
      /\ \A x \in S : \E k \in 1..n : q[k] = x
  BY <1>2, InOrderEnumerates
<1>4. r = [k \in 1..n |-> parts[q[k]]]
  BY <1>3 DEF Picked
<1>. HIDE DEF q, n, r
<1>5. \A k \in 1..n : /\ q[k] \in S /\ q[k] \in DOMAIN parts /\ r[k] = parts[q[k]]
                      /\ r[k] \in Range(parts) /\ r[k].tag = <<i, q[k]>>
  BY <1>3, <1>4 DEF Range
<1>6. r \in Seq(Range(parts)) /\ Len(r) = n
  <2>1. r \in [1..n -> Range(parts)]
    BY <1>4, <1>5
  <2>. QED
    BY <1>3, <2>1
<1>7. Ordered(r, PartBefore(Range(parts)))
  <2>. SUFFICES ASSUME NEW k \in 1..n, NEW l \in 1..n, k < l
                PROVE  <<r[k], r[l]>> \in PartBefore(Range(parts))
    BY <1>6 DEF Ordered
  <2>1. q[k] < q[l] /\ q[k] \in Nat /\ q[l] \in Nat
    BY <1>2, <1>3, <1>5
  <2>2. r[k].tag[2] = q[k] /\ r[l].tag[2] = q[l]
    BY <1>5
  <2>. QED
    BY <1>5, <2>1, <2>2 DEF PartBefore
<1>8. Elements(r) = PartsAt(parts, S)
  <2>1. Elements(r) = {parts[q[k]] : k \in 1..n}
    BY <1>5, <1>6 DEF Elements
  <2>. QED
    BY <1>3, <1>5, <2>1 DEF PartsAt
<1>. QED
  BY <1>6, <1>7, <1>8 DEF r

LEMMA ItemsOrdered ==
    ASSUME NEW provider, NEW i, NEW m, m.parts \in Seq(Range(m.parts)),
           \A j \in DOMAIN m.parts : m.parts[j].tag = <<i, j>>
    PROVE  /\ ItemsOf(provider, m) \in Seq(Range(m.parts))
           /\ Ordered(ItemsOf(provider, m), PartBefore(Range(m.parts)))
           /\ Elements(ItemsOf(provider, m)) = Range(m.parts)
<1>1. PICK parts \in Seq(Range(m.parts)) : parts = m.parts
  OBVIOUS
<1>. DEFINE T == Range(parts)
            R == PartBefore(T)
<1>2. /\ parts \in Seq(T) /\ DOMAIN parts = 1..Len(parts) /\ Len(parts) \in Nat
      /\ \A j \in 1..Len(parts) : parts[j].tag = <<i, j>>
  BY <1>1
<1>5. parts \in Seq(Range(parts)) /\ \A j \in DOMAIN parts : parts[j].tag = <<i, j>>
  BY <1>2
<1>3. CASE provider = "openai"
  <2>. DEFINE apart == {j \in DOMAIN parts : parts[j].type \in {"tool_call", "tool_result"}}
              texts == DOMAIN parts \ apart
              q == Picked(parts, texts)
              r == Picked(parts, apart)
  <2>1. ItemsOf(provider, m) = q \o r
    BY <1>1, <1>3 DEF ItemsOf, OpenAIItems
  <2>0. /\ texts \in SUBSET DOMAIN parts /\ apart \in SUBSET DOMAIN parts
        /\ texts \cup apart = DOMAIN parts
        /\ \A u \in texts : parts[u].type \notin {"tool_call", "tool_result"}
        /\ \A v \in apart : parts[v].type \in {"tool_call", "tool_result"}
    OBVIOUS
  <2>. HIDE DEF texts, apart
  <2>2. q \in Seq(T) /\ Ordered(q, R) /\ Elements(q) = PartsAt(parts, texts)
    BY <1>5, <2>0, PickedOrdered, Zenon
  <2>3. r \in Seq(T) /\ Ordered(r, R) /\ Elements(r) = PartsAt(parts, apart)
    BY <1>5, <2>0, PickedOrdered, Zenon
  <2>4. ASSUME NEW k \in 1..Len(q), NEW l \in 1..Len(r) PROVE <<q[k], r[l]>> \in R
    <3>1. PICK u \in texts : q[k] = parts[u]
      BY <2>2 DEF Elements, PartsAt
    <3>2. PICK v \in apart : r[l] = parts[v]
      BY <2>3 DEF Elements, PartsAt
    <3>3. /\ parts[u].type \notin {"tool_call", "tool_result"}
          /\ parts[v].type \in {"tool_call", "tool_result"}
          /\ u \in 1..Len(parts) /\ v \in 1..Len(parts) /\ u # v
      BY <1>2, <2>0
    <3>4. parts[u].type # parts[v].type /\ parts[u].tag # parts[v].tag
      BY <1>2, <3>3
    <3>5. parts[u] \in T /\ parts[v] \in T
      BY <1>2, <3>3 DEF Range
    <3>. QED
      BY <3>1, <3>2, <3>4, <3>5 DEF PartBefore
  <2>5. Elements(q) \cup Elements(r) = T
    BY <2>0, <2>2, <2>3 DEF Range, PartsAt
  <2>. HIDE DEF q, r, T, R
  <2>6. /\ q \o r \in Seq(T) /\ Ordered(q \o r, R)
        /\ Elements(q \o r) = Elements(q) \cup Elements(r)
    BY <2>2, <2>3, <2>4, ConcatOrdered
  <2>. QED
    BY <1>1, <2>1, <2>5, <2>6 DEF T, R
<1>4. CASE provider # "openai"
  <2>1. ItemsOf(provider, m) = parts
    BY <1>1, <1>4 DEF ItemsOf
  <2>2. Ordered(parts, R)
    <3>. SUFFICES ASSUME NEW k \in 1..Len(parts), NEW l \in 1..Len(parts), k < l
                  PROVE  <<parts[k], parts[l]>> \in R
      BY DEF Ordered
    <3>1. parts[k].tag = <<i, k>> /\ parts[l].tag = <<i, l>>
      BY <1>2
    <3>2. parts[k].tag[2] = k /\ parts[l].tag[2] = l /\ parts[k].tag # parts[l].tag
      BY <3>1
    <3>3. parts[k] \in T /\ parts[l] \in T
      BY <1>2 DEF Range
    <3>. QED
      BY <3>2, <3>3 DEF PartBefore
  <2>3. Elements(parts) = T
    BY <1>2 DEF Elements, Range
  <2>. QED
    BY <1>1, <1>2, <2>1, <2>2, <2>3
<1>. QED
  BY <1>3, <1>4

(* What is sent of a part, and what comes before what in a request.        *)
Item(provider, ms, q) == Sent(provider, ms[q[1]].role, PartAt(ms, q))
Unlifted(ms) == PlacesIn(ms) \ Lifted(ms)
Shown(provider, ms) == {Item(provider, ms, q) : q \in PlacesIn(ms)}

Precedes(a, b) ==
    \/ a.tag[1] < b.tag[1]
    \/ /\ a.tag[1] = b.tag[1] /\ a.tag # b.tag
       /\ a.type = b.type => a.tag[2] < b.tag[2]
ContentBefore(T) == {p \in T \X T : Precedes(p[1], p[2])}

Piece(provider, m) ==
    LET items == ItemsOf(provider, m)
    IN  IF m.role = "system" THEN <<>>
        ELSE [j \in DOMAIN items |-> Sent(provider, m.role, items[j])]
Pieces(provider, ms) == [i \in DOMAIN ms |-> Piece(provider, ms[i])]

LEMMA ContentsArePieces ==
    ASSUME NEW provider, NEW ms
    PROVE  Contents(provider, ms) = FlattenSeq(Pieces(provider, ms))
BY DEF Contents, Pieces, Piece

SentAs(item, provider, ms, q) ==
    /\ item.tag = q /\ item.role = ms[q[1]].role
    /\ item.type = PartAt(ms, q).type /\ item.call = PartAt(ms, q).call
    /\ provider = "anthropic" => item.marked = ("cacheControl" \in PartAt(ms, q).fields)

LEMMA ItemFacts ==
    ASSUME NEW provider, NEW ms, TaggedMessages(ms), NEW q \in PlacesIn(ms)
    PROVE  /\ Item(provider, ms, q) \in Shown(provider, ms)
           /\ SentAs(Item(provider, ms, q), provider, ms, q)
<1>1. PartAt(ms, q).tag = q
  BY TaggedFacts
<1>2. Item(provider, ms, q) \in Shown(provider, ms)
  BY DEF Shown
<1>. QED
  BY <1>1, <1>2 DEF SentAs, Item, Sent

LEMMA PieceOrdered ==
    ASSUME NEW provider, NEW ms, TaggedMessages(ms), NEW i \in 1..Len(ms)
    PROVE  /\ Piece(provider, ms[i]) \in Seq(Shown(provider, ms))
           /\ Ordered(Piece(provider, ms[i]), ContentBefore(Shown(provider, ms)))
           /\ \A x \in 1..Len(Piece(provider, ms[i])) : \E q \in Unlifted(ms) :
                q[1] = i /\ Piece(provider, ms[i])[x] = Item(provider, ms, q)
           /\ \A q \in Unlifted(ms) : q[1] = i =>
                \E x \in 1..Len(Piece(provider, ms[i])) :
                    Piece(provider, ms[i])[x] = Item(provider, ms, q)
<1>. DEFINE m == ms[i]
            items == ItemsOf(provider, m)
            piece == Piece(provider, m)
            T == Shown(provider, ms)
<1>1. /\ DOMAIN m.parts = 1..Len(m.parts) /\ Len(m.parts) \in Nat
      /\ m.parts \in Seq(Range(m.parts))
      /\ \A j \in DOMAIN m.parts : <<i, j>> \in PlacesIn(ms) /\ m.parts[j].tag = <<i, j>>
  <2>1. DOMAIN ms = 1..Len(ms)
    BY TaggedFacts
  <2>2. m.parts \in Seq(Range(m.parts))
    BY <2>1 DEF TaggedMessages
  <2>3. DOMAIN m.parts = 1..Len(m.parts) /\ Len(m.parts) \in Nat
    BY TaggedFacts
  <2>4. \A j \in 1..Len(m.parts) : <<i, j>> \in PlacesIn(ms) /\ m.parts[j].tag = <<i, j>>
    BY TaggedFacts
  <2>. QED
    BY <2>2, <2>3, <2>4
<1>2. CASE m.role = "system"
  <2>1. piece = <<>>
    BY <1>2 DEF Piece
  <2>2. \A q \in Unlifted(ms) : q[1] # i
    BY <1>2 DEF Unlifted, Lifted
  <2>3. /\ <<>> \in Seq(T) /\ Ordered(<<>>, ContentBefore(T))
        /\ \A x \in 1..Len(<<>>) : FALSE
    BY DEF Ordered
  <2>. QED
    BY <2>1, <2>2, <2>3
<1>3. CASE m.role # "system"
  <2>1. /\ items \in Seq(Range(m.parts))
        /\ Ordered(items, PartBefore(Range(m.parts)))
        /\ Elements(items) = Range(m.parts)
    BY <1>1, ItemsOrdered
  <2>2. piece = [j \in 1..Len(items) |-> Sent(provider, m.role, items[j])] /\ Len(items) \in Nat
    BY <1>3, <2>1 DEF Piece
  <2>3. ASSUME NEW x \in 1..Len(items)
        PROVE  \E q \in Unlifted(ms) :
                 /\ q[1] = i /\ items[x] = PartAt(ms, q) /\ piece[x] = Item(provider, ms, q)
    <3>1. items[x] \in Range(m.parts)
      BY <2>1
    <3>2. PICK j \in DOMAIN m.parts : items[x] = m.parts[j]
      BY <3>1 DEF Range
    <3>3. PICK q \in PlacesIn(ms) : q = <<i, j>>
      BY <1>1, <3>2
    <3>4. q[1] = i /\ q[2] = j
      BY <3>3
    <3>5. q \in Unlifted(ms)
      BY <1>3, <3>4 DEF Unlifted, Lifted
    <3>6. items[x] = PartAt(ms, q) /\ piece[x] = Item(provider, ms, q)
      BY <2>2, <3>2, <3>4 DEF PartAt, Item
    <3>. QED
      BY <3>4, <3>5, <3>6
  <2>. HIDE DEF items, piece
  <2>4. piece \in Seq(T) /\ Len(piece) = Len(items)
    <3>1. \A x \in 1..Len(items) : piece[x] \in T
      BY <2>3 DEF Unlifted, Shown
    <3>2. piece \in [1..Len(items) -> T]
      BY <2>2, <3>1
    <3>. QED
      BY <2>2, <3>2
  <2>5. Ordered(piece, ContentBefore(T))
    <3>. SUFFICES ASSUME NEW x \in 1..Len(items), NEW y \in 1..Len(items), x < y
                  PROVE  <<piece[x], piece[y]>> \in ContentBefore(T)
      BY <2>4 DEF Ordered
    <3>1. PICK p \in Unlifted(ms) :
            p[1] = i /\ items[x] = PartAt(ms, p) /\ piece[x] = Item(provider, ms, p)
      BY <2>3
    <3>2. PICK q \in Unlifted(ms) :
            q[1] = i /\ items[y] = PartAt(ms, q) /\ piece[y] = Item(provider, ms, q)
      BY <2>3
    <3>3. p \in PlacesIn(ms) /\ q \in PlacesIn(ms)
      BY DEF Unlifted
    <3>4. <<items[x], items[y]>> \in PartBefore(Range(m.parts))
      BY <2>1 DEF Ordered
    <3>5. /\ PartAt(ms, p).tag # PartAt(ms, q).tag
          /\ PartAt(ms, p).type = PartAt(ms, q).type => PartAt(ms, p).tag[2] < PartAt(ms, q).tag[2]
      BY <3>1, <3>2, <3>4 DEF PartBefore
    <3>6. /\ piece[x].tag = p /\ piece[y].tag = q
          /\ piece[x].type = PartAt(ms, p).type /\ piece[y].type = PartAt(ms, q).type
          /\ PartAt(ms, p).tag = p /\ PartAt(ms, q).tag = q
          /\ piece[x] \in T /\ piece[y] \in T
      BY <3>1, <3>2, <3>3, ItemFacts, TaggedFacts DEF SentAs
    <3>7. Precedes(piece[x], piece[y])
      BY <3>1, <3>2, <3>5, <3>6 DEF Precedes
    <3>. QED
      BY <3>6, <3>7 DEF ContentBefore
  <2>6. ASSUME NEW q \in Unlifted(ms), q[1] = i
        PROVE  \E x \in 1..Len(piece) : piece[x] = Item(provider, ms, q)
    <3>1. q \in PlacesIn(ms) /\ q[2] \in DOMAIN m.parts /\ PartAt(ms, q) = m.parts[q[2]]
      BY <1>1, <2>6, TaggedFacts DEF Unlifted, PartAt
    <3>2. PartAt(ms, q) \in Elements(items)
      BY <2>1, <3>1 DEF Range
    <3>3. PICK x \in 1..Len(items) : items[x] = PartAt(ms, q)
      BY <3>2 DEF Elements
    <3>4. PICK p \in Unlifted(ms) :
            p[1] = i /\ items[x] = PartAt(ms, p) /\ piece[x] = Item(provider, ms, p)
      BY <2>3
    <3>5. p = q
      BY <3>1, <3>3, <3>4, TaggedFacts DEF Unlifted
    <3>. QED
      BY <2>4, <3>4, <3>5
  <2>. QED
    BY <2>3, <2>4, <2>5, <2>6 DEF piece
<1>. QED
  BY <1>2, <1>3

LEMMA ContentsOrdered ==
    ASSUME NEW provider, NEW ms, TaggedMessages(ms)
    PROVE  /\ Contents(provider, ms) \in Seq(Shown(provider, ms))
           /\ Ordered(Contents(provider, ms), ContentBefore(Shown(provider, ms)))
           /\ \A n \in 1..Len(Contents(provider, ms)) : \E q \in Unlifted(ms) :
                Contents(provider, ms)[n] = Item(provider, ms, q)
           /\ \A q \in Unlifted(ms) : \E n \in 1..Len(Contents(provider, ms)) :
                Contents(provider, ms)[n] = Item(provider, ms, q)
<1>. DEFINE T == Shown(provider, ms)
            R == ContentBefore(T)
            s == Pieces(provider, ms)
            c == Contents(provider, ms)
<1>1. DOMAIN ms = 1..Len(ms) /\ Len(ms) \in Nat
  BY TaggedFacts
<1>2. \A i \in 1..Len(ms) : s[i] = Piece(provider, ms[i])
  BY <1>1 DEF Pieces
<1>3. s \in Seq(Seq(T)) /\ Len(s) = Len(ms)
  <2>1. s \in [1..Len(ms) -> Seq(T)]
    BY <1>1, PieceOrdered DEF Pieces
  <2>. QED
    BY <1>1, <2>1
<1>4. ASSUME NEW k \in 1..Len(s), NEW x \in 1..Len(s[k])
      PROVE  \E q \in Unlifted(ms) : q[1] = k /\ s[k][x] = Item(provider, ms, q)
  <2>1. k \in 1..Len(ms)
    BY <1>3
  <2>. HIDE DEF s
  <2>2. s[k] = Piece(provider, ms[k])
    BY <1>2, <2>1
  <2>3. x \in 1..Len(Piece(provider, ms[k]))
    BY <2>2
  <2>4. \E q \in Unlifted(ms) : q[1] = k /\ Piece(provider, ms[k])[x] = Item(provider, ms, q)
    BY <2>1, <2>3, PieceOrdered
  <2>. QED
    BY <2>2, <2>4
<1>. HIDE DEF s
<1>5. Chained(s, R)
  <2>1. \A k \in 1..Len(s) : Ordered(s[k], R)
    BY <1>2, <1>3, PieceOrdered
  <2>2. ASSUME NEW k \in 1..Len(s), NEW l \in 1..Len(s), k < l,
               NEW x \in 1..Len(s[k]), NEW y \in 1..Len(s[l])
        PROVE  <<s[k][x], s[l][y]>> \in R
    <3>1. PICK p \in Unlifted(ms) : p[1] = k /\ s[k][x] = Item(provider, ms, p)
      BY <1>4
    <3>2. PICK q \in Unlifted(ms) : q[1] = l /\ s[l][y] = Item(provider, ms, q)
      BY <1>4
    <3>3. p \in PlacesIn(ms) /\ q \in PlacesIn(ms)
      BY DEF Unlifted
    <3>4. s[k][x] \in T /\ s[l][y] \in T /\ s[k][x].tag = p /\ s[l][y].tag = q
      BY <3>1, <3>2, <3>3, ItemFacts DEF SentAs
    <3>5. Precedes(s[k][x], s[l][y])
      BY <2>2, <3>1, <3>2, <3>4 DEF Precedes
    <3>. QED
      BY <3>4, <3>5 DEF ContentBefore
  <2>. QED
    BY <2>1, <2>2 DEF Chained
<1>6. c \in Seq(T) /\ Ordered(c, R) /\ Elements(c) = AllElements(s)
  <2>1. Joins(T, R, s)
    BY <1>3, <1>5, FlattenOrdered
  <2>. QED
    BY <2>1, ContentsArePieces DEF Joins, s
<1>. HIDE DEF c, R
<1>7. ASSUME NEW n \in 1..Len(c) PROVE \E q \in Unlifted(ms) : c[n] = Item(provider, ms, q)
  <2>1. c[n] \in AllElements(s)
    BY <1>6 DEF Elements
  <2>2. PICK k \in 1..Len(s) : c[n] \in Elements(s[k])
    BY <2>1 DEF AllElements
  <2>3. PICK x \in 1..Len(s[k]) : c[n] = s[k][x]
    BY <2>2 DEF Elements
  <2>. QED
    BY <1>4, <2>3
<1>8. ASSUME NEW q \in Unlifted(ms) PROVE \E n \in 1..Len(c) : c[n] = Item(provider, ms, q)
  <2>1. q[1] \in 1..Len(s) /\ q[1] \in 1..Len(ms)
    BY <1>3, TaggedFacts DEF Unlifted
  <2>2. PICK x \in 1..Len(s[q[1]]) : s[q[1]][x] = Item(provider, ms, q)
    <3>1. PICK i \in 1..Len(ms) : i = q[1]
      BY <2>1
    <3>2. \E x \in 1..Len(Piece(provider, ms[i])) :
            Piece(provider, ms[i])[x] = Item(provider, ms, q)
      BY <3>1, PieceOrdered
    <3>. QED
      BY <1>2, <3>1, <3>2
  <2>3. Item(provider, ms, q) \in AllElements(s)
    BY <2>1, <2>2 DEF AllElements, Elements
  <2>. QED
    BY <1>6, <2>3 DEF Elements
<1>. QED
  BY <1>6, <1>7, <1>8 DEF c, R

(* The system texts of the messages, in order, after the explicit prompt.  *)
Lexically(T) == {p \in T \X T : \/ p[1][1] < p[2][1]
                               \/ (p[1][1] = p[2][1] /\ p[1][2] < p[2][2])}

LEMMA LexicallyDiffer ==
    ASSUME NEW T, NEW a, NEW b, <<a, b>> \in Lexically(T),
           a[1] \in Nat, a[2] \in Nat, b[1] \in Nat, b[2] \in Nat
    PROVE  a # b
<1>1. a[1] < b[1] \/ (a[1] = b[1] /\ a[2] < b[2])
  BY DEF Lexically
<1>. QED
  BY <1>1

Text(m) == IF m.role = "system" THEN [j \in DOMAIN m.parts |-> m.parts[j].tag] ELSE <<>>
Texts(ms) == [i \in DOMAIN ms |-> Text(ms[i])]

LEMMA TextOrdered ==
    ASSUME NEW ms, TaggedMessages(ms), NEW i \in 1..Len(ms)
    PROVE  /\ Text(ms[i]) \in Seq(Lifted(ms))
           /\ \A x \in 1..Len(Text(ms[i])) : Text(ms[i])[x] = <<i, x>>
           /\ \A q \in Lifted(ms) : q[1] = i =>
                q[2] \in 1..Len(Text(ms[i])) /\ Text(ms[i])[q[2]] = q
<1>. DEFINE m == ms[i]
<1>1. /\ DOMAIN m.parts = 1..Len(m.parts) /\ Len(m.parts) \in Nat
      /\ \A j \in 1..Len(m.parts) : <<i, j>> \in PlacesIn(ms) /\ m.parts[j].tag = <<i, j>>
  BY TaggedFacts
<1>2. CASE m.role = "system"
  <2>1. Text(m) = [j \in 1..Len(m.parts) |-> m.parts[j].tag]
    BY <1>1, <1>2 DEF Text
  <2>2. \A j \in 1..Len(m.parts) : Text(m)[j] = <<i, j>> /\ <<i, j>> \in Lifted(ms)
    BY <1>1, <1>2, <2>1 DEF Lifted
  <2>3. Text(m) \in [1..Len(m.parts) -> Lifted(ms)]
    BY <2>1, <2>2
  <2>4. Text(m) \in Seq(Lifted(ms)) /\ Len(Text(m)) = Len(m.parts)
    BY <1>1, <2>3
  <2>5. ASSUME NEW q \in Lifted(ms), q[1] = i
        PROVE  q[2] \in 1..Len(Text(m)) /\ Text(m)[q[2]] = q
    <3>1. q = <<q[1], q[2]>> /\ q[2] \in 1..Len(m.parts)
      BY <2>5, TaggedFacts DEF Lifted
    <3>. QED
      BY <2>2, <2>4, <2>5, <3>1
  <2>. QED
    BY <2>2, <2>4, <2>5
<1>3. CASE m.role # "system"
  <2>1. Text(m) = <<>>
    BY <1>3 DEF Text
  <2>2. \A q \in Lifted(ms) : q[1] # i
    BY <1>3 DEF Lifted
  <2>3. <<>> \in Seq(Lifted(ms)) /\ \A x \in 1..Len(<<>>) : FALSE
    OBVIOUS
  <2>. QED
    BY <2>1, <2>2, <2>3
<1>. QED
  BY <1>2, <1>3

LEMMA TextsOrdered ==
    ASSUME NEW ms, TaggedMessages(ms)
    PROVE  /\ FlattenSeq(Texts(ms)) \in Seq(Lifted(ms))
           /\ Ordered(FlattenSeq(Texts(ms)), Lexically(Lifted(ms)))
           /\ Elements(FlattenSeq(Texts(ms))) = Lifted(ms)
<1>. DEFINE T == Lifted(ms)
            R == Lexically(T)
            s == Texts(ms)
<1>1. DOMAIN ms = 1..Len(ms) /\ Len(ms) \in Nat
  BY TaggedFacts
<1>2. \A i \in 1..Len(ms) : s[i] = Text(ms[i])
  BY <1>1 DEF Texts
<1>3. s \in Seq(Seq(T)) /\ Len(s) = Len(ms)
  <2>1. s \in [1..Len(ms) -> Seq(T)]
    BY <1>1, TextOrdered DEF Texts
  <2>. QED
    BY <1>1, <2>1
<1>4. ASSUME NEW k \in 1..Len(s), NEW x \in 1..Len(s[k])
      PROVE  s[k][x] = <<k, x>> /\ s[k][x] \in T
  <2>1. k \in 1..Len(ms)
    BY <1>3
  <2>2. s[k] = Text(ms[k]) /\ s[k] \in Seq(T)
    BY <1>2, <1>3, <2>1
  <2>. HIDE DEF s
  <2>3. x \in 1..Len(Text(ms[k]))
    BY <2>2
  <2>4. Text(ms[k])[x] = <<k, x>>
    BY <2>1, <2>3, TextOrdered
  <2>. QED
    BY <2>2, <2>4
<1>. HIDE DEF s
<1>5. Chained(s, R)
  <2>1. ASSUME NEW k \in 1..Len(s), NEW x \in 1..Len(s[k]), NEW y \in 1..Len(s[k]), x < y
        PROVE  <<s[k][x], s[k][y]>> \in R
    <3>1. /\ s[k][x] \in T /\ s[k][y] \in T
          /\ s[k][x][1] = k /\ s[k][y][1] = k /\ s[k][x][2] = x /\ s[k][y][2] = y
      BY <1>4
    <3>. QED
      BY <2>1, <3>1 DEF Lexically
  <2>2. ASSUME NEW k \in 1..Len(s), NEW l \in 1..Len(s), k < l,
               NEW x \in 1..Len(s[k]), NEW y \in 1..Len(s[l])
        PROVE  <<s[k][x], s[l][y]>> \in R
    <3>1. s[k][x] \in T /\ s[l][y] \in T /\ s[k][x][1] = k /\ s[l][y][1] = l
      BY <1>4
    <3>2. PICK a \in T : a = s[k][x]
      BY <3>1
    <3>3. PICK b \in T : b = s[l][y]
      BY <3>1
    <3>4. a[1] < b[1]
      BY <2>2, <3>1, <3>2, <3>3
    <3>5. <<a, b>> \in R
      BY <3>4 DEF Lexically
    <3>. QED
      BY <3>2, <3>3, <3>5
  <2>. QED
    BY <2>1, <2>2 DEF Chained, Ordered
<1>6. Joins(T, R, s)
  BY <1>3, <1>5, FlattenOrdered
<1>7. AllElements(s) \subseteq T
  BY <1>4 DEF AllElements, Elements
<1>8. ASSUME NEW q \in T PROVE q \in AllElements(s)
  <2>1. q[1] \in 1..Len(ms)
    BY TaggedFacts DEF Lifted
  <2>2. q[2] \in 1..Len(s[q[1]]) /\ s[q[1]][q[2]] = q
    BY <1>2, <2>1, TextOrdered
  <2>. QED
    BY <1>3, <2>1, <2>2 DEF AllElements, Elements
<1>. QED
  BY <1>6, <1>7, <1>8 DEF Joins, s

LEMMA SystemFaithful ==
    ASSUME NEW prompt, NEW P, prompt \in Seq(P), NEW ms, TaggedMessages(ms)
    PROVE  /\ SubSeq(System(prompt, ms), Len(prompt) + 1, Len(System(prompt, ms)))
                = FlattenSeq(Texts(ms))
           /\ IsPrefix(prompt, System(prompt, ms))
<1>1. PICK f \in Seq(Lifted(ms)) : f = FlattenSeq(Texts(ms))
  BY TextsOrdered
<1>2. System(prompt, ms) = prompt \o f
  BY <1>1 DEF System, Texts, Text
<1>. DEFINE T == P \cup Lifted(ms)
            m == Len(prompt)
            n == Len(f)
<1>3. /\ prompt \in Seq(T) /\ f \in Seq(T) /\ m \in Nat /\ n \in Nat
  BY SeqMonotonic
<1>. HIDE DEF T
<1>4. /\ prompt \o f \in Seq(T) /\ Len(prompt \o f) = m + n
      /\ \A i \in 1..m : (prompt \o f)[i] = prompt[i]
      /\ \A i \in 1..n : (prompt \o f)[m + i] = f[i]
  BY <1>3
<1>5. PICK c \in Seq(T) : c = prompt \o f
  BY <1>4
<1>6. SubSeq(c, m + 1, m + n) = f
  <2>. DEFINE g == SubSeq(c, m + 1, m + n)
  <2>1. g \in Seq(T) /\ Len(g) = n /\ \A i \in 1..n : g[i] = c[m + i]
    BY <1>3, <1>4, <1>5
  <2>. HIDE DEF g
  <2>2. \A i \in 1..n : g[i] = f[i]
    BY <1>4, <1>5, <2>1
  <2>. QED
    BY <1>3, <2>1, <2>2, SeqEqual DEF g
<1>7. SubSeq(c, 1, m) = SubSeq(prompt, 1, m)
  <2>. DEFINE g == SubSeq(c, 1, m)
              h == SubSeq(prompt, 1, m)
  <2>1. g \in Seq(T) /\ Len(g) = m /\ \A i \in 1..m : g[i] = c[i]
    BY <1>3, <1>4, <1>5
  <2>2. h \in Seq(T) /\ Len(h) = m /\ \A i \in 1..m : h[i] = prompt[i]
    BY <1>3
  <2>. HIDE DEF g, h
  <2>3. \A i \in 1..m : g[i] = h[i]
    BY <1>4, <1>5, <2>1, <2>2
  <2>. QED
    BY <1>3, <2>1, <2>2, <2>3, SeqEqual DEF g, h
<1>8. m <= m + n
  BY <1>3
<1>. QED
  BY <1>1, <1>2, <1>4, <1>5, <1>6, <1>7, <1>8 DEF IsPrefix

-----------------------------------------------------------------------------
(* What is on the wire is the translation of what was asked.               *)

WireOf(w, ask, ms) ==
    /\ w.system = System(ask.system, ms)
    /\ w.blocks = (w.provider = "anthropic" /\ SystemAsBlocks(ms))
    /\ w.contents = Contents(w.provider, ms)
    /\ w.choice = ToolChoice(w.provider, ask.choice)

RequestInv ==
    /\ TaggedMessages(conversation) /\ TaggedMessages(asked)
    /\ phase \in {"planned", "sent"} =>
         prepared.ask \in Asks /\ (prepared.ask.managed => prepared.messages = asked)
    /\ phase = "sent" => WireOf(wire, prepared.ask, asked)

LEMMA BodyTranslates ==
    ASSUME NEW attempt, NEW req, ~Body(attempt, req).refused
    PROVE  WireOf(Body(attempt, req), req.ask, Messages(req))
<1>1. ~(\/ TranslationRefused(attempt.provider, Options(req))
        \/ FormatRejected(attempt.provider, req.ask.format,
                         Mentions(Messages(req)) \/ req.ask.system # <<>>))
  BY DEF Body
<1>2. PICK sent : sent = Translation(attempt.provider, Options(req))
  OBVIOUS
<1>3. /\ sent.system = System(req.ask.system, Messages(req))
      /\ sent.blocks = (attempt.provider = "anthropic" /\ SystemAsBlocks(Messages(req)))
      /\ sent.contents = Contents(attempt.provider, Messages(req))
      /\ sent.choice = ToolChoice(attempt.provider, req.ask.choice)
  BY <1>2 DEF Translation, Options
<1>4. PICK schema : schema = IF req.ask.format.type = "json_schema"
                             THEN SchemaOnWire(attempt.provider, req.ask.format) ELSE None
  OBVIOUS
<1>5. Body(attempt, req) =
        [refused |-> FALSE, system |-> sent.system, blocks |-> sent.blocks,
         contents |-> sent.contents, choice |-> sent.choice, tools |-> sent.tools,
         schema |-> schema, provider |-> attempt.provider, model |-> attempt.model]
  BY <1>1, <1>2, <1>4 DEF Body
<1>. QED
  BY <1>3, <1>5 DEF WireOf

LEMMA TaggedAppend ==
    ASSUME NEW ms, TaggedMessages(ms), NEW message,
           {"role", "parts"} \subseteq DOMAIN message, ArePartsOf(message.parts)
    PROVE  TaggedMessages(Append(ms, Tagged(message, Len(ms) + 1)))
<1>. DEFINE n == Len(ms) + 1
            tagged == Tagged(message, n)
            parts == [j \in DOMAIN message.parts |-> [message.parts[j] EXCEPT !.tag = <<n, j>>]]
            r == Append(ms, tagged)
            T == Range(ms) \cup {tagged}
<1>1. ms \in Seq(Range(ms)) /\ Len(ms) \in Nat /\ n = Len(ms) + 1
  BY DEF TaggedMessages
<1>2. tagged.parts = parts
  BY DEF Tagged
<1>3. DOMAIN message.parts = 1..Len(message.parts) /\ Len(message.parts) \in Nat
  BY DEF ArePartsOf
<1>4. \A j \in DOMAIN message.parts : parts[j].tag = <<n, j>>
  BY DEF ArePartsOf, PartFieldsGiven
<1>5. parts \in Seq(Range(parts)) /\ DOMAIN parts = DOMAIN message.parts
  <2>1. parts \in [1..Len(message.parts) -> Range(parts)]
    BY <1>3 DEF Range
  <2>. QED
    BY <1>3, <2>1
<1>. HIDE DEF parts, tagged, n
<1>6. ms \in Seq(T) /\ tagged \in T
  BY <1>1, SeqMonotonic
<1>. HIDE DEF T
<1>7. /\ r \in Seq(T) /\ Len(r) = n /\ r[n] = tagged
      /\ \A i \in 1..Len(ms) : r[i] = ms[i]
  BY <1>1, <1>6
<1>. HIDE DEF r
<1>8. r \in Seq(Range(r))
  <2>1. r \in [1..n -> Range(r)]
    BY <1>1, <1>7 DEF Range
  <2>. QED
    BY <1>1, <2>1
<1>9. ASSUME NEW i \in DOMAIN r
      PROVE  /\ r[i].parts \in Seq(Range(r[i].parts))
             /\ \A j \in DOMAIN r[i].parts : r[i].parts[j].tag = <<i, j>>
  <2>1. CASE i = n
    BY <1>2, <1>4, <1>5, <1>7, <2>1
  <2>2. CASE i # n
    <3>1. i \in DOMAIN ms /\ r[i] = ms[i]
      BY <1>1, <1>7, <2>2
    <3>. QED
      BY <3>1 DEF TaggedMessages
  <2>. QED
    BY <2>1, <2>2
<1>10. TaggedMessages(r)
  BY <1>8, <1>9 DEF TaggedMessages
<1>. QED
  BY <1>10 DEF r, tagged, n

LEMMA RequestInitially == PipelineInit => RequestInv
BY DEF PipelineInit, RequestInv, TaggedMessages, Range

LEMMA AddTagged ==
    ASSUME TaggedMessages(conversation), NEW message,
           {"role", "parts"} \subseteq DOMAIN message, ArePartsOf(message.parts), Add(message)
    PROVE  TaggedMessages(conversation')
BY TaggedAppend DEF Add

LEMMA SendBodyStep ==
    ASSUME RequestInv, SendBody, phase \in {"planned", "sent"}
    PROVE  RequestInv'
<1>. DEFINE body == Body(plan[at], prepared)
<1>1. UNCHANGED <<conversation, prepared>>
  BY DEF SendBody
<1>2. CASE body.refused
  BY <1>1, <1>2 DEF SendBody, RequestInv
<1>3. CASE ~body.refused
  <2>1. /\ phase' = "sent" /\ wire' = body
        /\ asked' = IF prepared.ask.managed THEN asked ELSE conversation
    BY <1>3 DEF SendBody
  <2>2. WireOf(body, prepared.ask, Messages(prepared))
    BY <1>3, BodyTranslates
  <2>3. asked' = Messages(prepared)
    BY <2>1 DEF RequestInv, Messages
  <2>4. TaggedMessages(asked')
    BY <2>1 DEF RequestInv
  <2>5. prepared.ask \in Asks /\ (prepared.ask.managed => prepared.messages = asked')
    BY <2>1 DEF RequestInv
  <2>. HIDE DEF body
  <2>. QED
    BY <1>1, <2>1, <2>2, <2>3, <2>4, <2>5 DEF RequestInv
<1>. QED
  BY <1>2, <1>3

LEMMA RequestStep == RequestInv /\ [PipelineNext]_pipelineVars => RequestInv'
<1>. SUFFICES ASSUME RequestInv, [PipelineNext]_pipelineVars PROVE RequestInv'
  OBVIOUS
<1>1. CASE UNCHANGED <<conversation, asked, prepared, phase, wire>>
  BY <1>1 DEF RequestInv
<1>2. ASSUME UNCHANGED <<asked, prepared, phase, wire>>, TaggedMessages(conversation')
      PROVE  RequestInv'
  BY <1>2 DEF RequestInv
<1>3. ASSUME TaggedMessages(conversation'), asked' = <<>>, phase' = "idle"
      PROVE  RequestInv'
  <2>1. TaggedMessages(<<>>)
    BY DEF TaggedMessages, Range
  <2>. QED
    BY <1>3, <2>1 DEF RequestInv
<1>4. ASSUME UNCHANGED <<conversation, asked, prepared>>, phase' \in {"failed", "planned"},
             phase \in {"planned", "sent"}
      PROVE  RequestInv'
  BY <1>4 DEF RequestInv
<1>5. ASSUME NEW message \in Written, Write(message) PROVE RequestInv'
  <2>1. {"role", "parts"} \subseteq DOMAIN message /\ ArePartsOf(message.parts)
    BY PipelineAssumption
  <2>. QED
    BY <1>2, <1>5, <2>1, AddTagged DEF Write, RequestInv, callVars
<1>6. CASE ChangeRegistry
  BY <1>1, <1>6 DEF ChangeRegistry, callVars
<1>7. ASSUME NEW ask \in Asks, NEW roll \in 1..Sides, Call(ask, roll) PROVE RequestInv'
  <2>1. UNCHANGED conversation /\ asked' = conversation
    BY <1>7 DEF Call
  <2>2. \/ prepared' = Cloned(ask, conversation) /\ phase' = "planned"
        \/ phase' = "failed"
    BY <1>7 DEF Call
  <2>. QED
    BY <2>1, <2>2 DEF RequestInv, Cloned
<1>8. CASE DispatchCall
  <2>1. CASE SendBody
    BY <1>8, <2>1, SendBodyStep DEF DispatchCall
  <2>2. CASE ~SendBody
    BY <1>4, <1>8, <2>2 DEF DispatchCall
  <2>. QED
    BY <2>1, <2>2
<1>9. CASE RetrySend
  BY <1>9, SendBodyStep DEF RetrySend
<1>10. CASE FallBack
  BY <1>4, <1>10 DEF FallBack
<1>11. ASSUME NEW parts \in Answers, NEW usage, NEW answered, Answer(parts, usage, answered)
       PROVE  RequestInv'
  <2>. DEFINE message == [role |-> "assistant", parts |-> parts]
  <2>1. {"role", "parts"} \subseteq DOMAIN message /\ ArePartsOf(message.parts)
    BY PipelineAssumption
  <2>2. Add(message) /\ asked' = <<>> /\ phase' = "idle"
    BY <1>11 DEF Answer
  <2>3. TaggedMessages(conversation')
    BY <2>1, <2>2, AddTagged DEF RequestInv
  <2>. QED
    BY <1>3, <2>2, <2>3
<1>12. CASE Failed
  BY <1>3, <1>12 DEF Failed, RequestInv
<1>. QED
  BY <1>1, <1>5, <1>6, <1>7, <1>8, <1>9, <1>10, <1>11, <1>12 DEF PipelineNext, pipelineVars, callVars

(* RequestFaithful, of a request, its options and its messages.            *)
FaithfulTo(w, ask, ms) ==
    LET cached(q) == "cacheControl" \in PartAt(ms, q).fields
        tagAt(n) == w.contents[n].tag
        system == SubSeq(w.system, Len(ask.system) + 1, Len(w.system))
    IN  /\ IsInjective([n \in DOMAIN w.contents |-> tagAt(n)])
        /\ {tagAt(n) : n \in DOMAIN w.contents} = Unlifted(ms)
        /\ Range(system) = Lifted(ms) /\ IsInjective(system)
        /\ IsPrefix(ask.system, w.system)
        /\ \A n \in DOMAIN w.contents :
              /\ w.contents[n].role = ms[tagAt(n)[1]].role
              /\ w.contents[n].call = PartAt(ms, tagAt(n)).call
        /\ \A m, n \in DOMAIN w.contents : m < n =>
              \/ tagAt(m)[1] < tagAt(n)[1]
              \/ /\ tagAt(m)[1] = tagAt(n)[1]
                 /\ w.contents[m].type = w.contents[n].type => tagAt(m)[2] < tagAt(n)[2]
        /\ w.provider = "anthropic" =>
             /\ \A n \in DOMAIN w.contents : w.contents[n].marked = cached(tagAt(n))
             /\ (\E q \in Lifted(ms) : cached(q)) => w.blocks
        /\ ask.choice.type = "tool" =>
             w.choice.only = ask.choice.name /\ w.choice.mode = "must"

LEMMA FaithfulIs ==
    (phase = "sent" => FaithfulTo(wire, prepared.ask, asked)) => RequestFaithful
BY DEF FaithfulTo, RequestFaithful, Unlifted, Lifted, PlacesIn, PartAt

LEMMA WireFaithful ==
    ASSUME NEW w, NEW ask \in Asks, NEW ms, TaggedMessages(ms), WireOf(w, ask, ms)
    PROVE  FaithfulTo(w, ask, ms)
<1>. DEFINE T == Shown(w.provider, ms)
            c == w.contents
            system == SubSeq(w.system, Len(ask.system) + 1, Len(w.system))
<1>1. /\ c \in Seq(T) /\ DOMAIN c = 1..Len(c) /\ Len(c) \in Nat
      /\ Ordered(c, ContentBefore(T))
      /\ \A n \in 1..Len(c) : \E q \in Unlifted(ms) : c[n] = Item(w.provider, ms, q)
      /\ \A q \in Unlifted(ms) : \E n \in 1..Len(c) : c[n] = Item(w.provider, ms, q)
  BY ContentsOrdered DEF WireOf
<1>2. ASSUME NEW q \in Unlifted(ms)
      PROVE  SentAs(Item(w.provider, ms, q), w.provider, ms, q)
  BY ItemFacts DEF Unlifted
<1>3. ASSUME NEW m \in 1..Len(c), NEW n \in 1..Len(c), m < n
      PROVE  Precedes(c[m], c[n])
  BY <1>1, <1>3 DEF Ordered, ContentBefore
<1>4. ASSUME NEW n \in 1..Len(c)
      PROVE  c[n].tag \in Unlifted(ms) /\ SentAs(c[n], w.provider, ms, c[n].tag)
  <2>1. PICK q \in Unlifted(ms) : c[n] = Item(w.provider, ms, q)
    BY <1>1
  <2>2. SentAs(c[n], w.provider, ms, q)
    BY <1>2, <2>1
  <2>3. c[n].tag = q
    BY <2>2 DEF SentAs
  <2>. QED
    BY <2>2, <2>3
<1>5. {c[n].tag : n \in DOMAIN c} = Unlifted(ms)
  BY <1>1, <1>2, <1>4 DEF SentAs
<1>6. IsInjective([n \in DOMAIN c |-> c[n].tag])
  <2>. SUFFICES ASSUME NEW m \in 1..Len(c), NEW n \in 1..Len(c), m # n
                PROVE  c[m].tag # c[n].tag
    BY <1>1 DEF IsInjective
  <2>1. \A q \in Unlifted(ms) : q[1] \in Nat
    BY TaggedFacts DEF Unlifted
  <2>2. c[m].tag[1] \in Nat /\ c[n].tag[1] \in Nat
    BY <1>4, <2>1
  <2>3. CASE m < n
    BY <1>3, <2>2, <2>3 DEF Precedes
  <2>4. CASE n < m
    BY <1>3, <2>2, <2>4 DEF Precedes
  <2>. QED
    BY <1>1, <2>3, <2>4
<1>7. ask.system \in Seq(Range(ask.system)) /\ w.system = System(ask.system, ms)
  BY PipelineAssumption DEF WireOf
<1>8. system = FlattenSeq(Texts(ms)) /\ IsPrefix(ask.system, w.system)
  BY <1>7, SystemFaithful
<1>. HIDE DEF system
<1>9. /\ system \in Seq(Lifted(ms)) /\ Ordered(system, Lexically(Lifted(ms)))
      /\ Elements(system) = Lifted(ms) /\ DOMAIN system = 1..Len(system) /\ Len(system) \in Nat
  <2>1. /\ system \in Seq(Lifted(ms)) /\ Ordered(system, Lexically(Lifted(ms)))
        /\ Elements(system) = Lifted(ms)
    BY <1>8, TextsOrdered
  <2>. QED
    BY <2>1
<1>. HIDE DEF c
<1>10. Range(system) = Lifted(ms)
  BY <1>9 DEF Elements, Range
<1>11. IsInjective(system)
  <2>. SUFFICES ASSUME NEW m \in 1..Len(system), NEW n \in 1..Len(system), m # n
                PROVE  system[m] # system[n]
    BY <1>9 DEF IsInjective
  <2>1. \A q \in Lifted(ms) : q[1] \in Nat /\ q[2] \in Nat
    BY TaggedFacts DEF Lifted
  <2>2. /\ system[m] \in Lifted(ms) /\ system[n] \in Lifted(ms)
        /\ system[m][1] \in Nat /\ system[n][1] \in Nat
        /\ system[m][2] \in Nat /\ system[n][2] \in Nat
    BY <1>9, <2>1
  <2>3. CASE m < n
    <3>1. <<system[m], system[n]>> \in Lexically(Lifted(ms))
      BY <1>9, <2>3 DEF Ordered
    <3>. QED
      BY <2>2, <3>1, LexicallyDiffer
  <2>4. CASE n < m
    <3>1. <<system[n], system[m]>> \in Lexically(Lifted(ms))
      BY <1>9, <2>4 DEF Ordered
    <3>. QED
      BY <2>2, <3>1, LexicallyDiffer
  <2>. QED
    BY <1>9, <2>3, <2>4
<1>12. \A m, n \in DOMAIN c : m < n =>
         \/ c[m].tag[1] < c[n].tag[1]
         \/ /\ c[m].tag[1] = c[n].tag[1]
            /\ c[m].type = c[n].type => c[m].tag[2] < c[n].tag[2]
  BY <1>1, <1>3 DEF Precedes
<1>13. ASSUME w.provider = "anthropic", NEW q \in Lifted(ms),
              "cacheControl" \in PartAt(ms, q).fields
       PROVE  w.blocks
  <2>1. /\ q[1] \in DOMAIN ms /\ q[2] \in DOMAIN ms[q[1]].parts
        /\ ms[q[1]].role = "system"
    BY TaggedFacts DEF Lifted
  <2>2. SystemAsBlocks(ms)
    BY <1>13, <2>1 DEF SystemAsBlocks, PartAt
  <2>. QED
    BY <1>13, <2>2 DEF WireOf
<1>14. ask.choice.type = "tool" => w.choice.only = ask.choice.name /\ w.choice.mode = "must"
  BY DEF WireOf, ToolChoice
<1>15. w.provider = "anthropic" =>
         \A n \in DOMAIN c : c[n].marked = ("cacheControl" \in PartAt(ms, c[n].tag).fields)
  BY <1>1, <1>4 DEF SentAs
<1>16. \A n \in DOMAIN c : /\ c[n].role = ms[c[n].tag[1]].role
                          /\ c[n].call = PartAt(ms, c[n].tag).call
  BY <1>1, <1>4 DEF SentAs
<1>. QED
  BY <1>5, <1>6, <1>8, <1>10, <1>11, <1>12, <1>13, <1>14, <1>15, <1>16
  DEF FaithfulTo, c, system

(* Whatever is asked of whichever provider, and whatever the caller writes *)
(* meanwhile, every part of the conversation is in the request once, in    *)
(* its place.                                                              *)
THEOREM RequestCorrect == PipelineSpec => []RequestFaithful
<1>1. RequestInv => RequestFaithful
  <2>. SUFFICES ASSUME RequestInv, phase = "sent" PROVE FaithfulTo(wire, prepared.ask, asked)
    BY FaithfulIs
  <2>. QED
    BY WireFaithful DEF RequestInv
<1>. QED
  BY <1>1, RequestInitially, RequestStep, PTL DEF PipelineSpec
=============================================================================
