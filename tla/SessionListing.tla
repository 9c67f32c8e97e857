--------------------------- MODULE SessionListing ---------------------------
(* Listing sessions page by page, as SessionApi.handleListSessions and the  *)
(* listPage of the three stores do it (src/session-store.ts,                *)
(* src/session-api.ts), while the sessions are written and deleted. The     *)
(* memory store and Postgres answer from one look at the records; Redis     *)
(* scans the keys and reads their records one at a time.                    *)
(*                                                                          *)
(* A session is [tenant, name]; times, tenants and names are numbers in the *)
(* order of the code's strings. Under version 1 of its key a session may    *)
(* still have the record an earlier release of the Redis store wrote.       *)
EXTENDS Integers, FiniteSets, SequencesExt

CONSTANTS Sessions,     \* the sessions there may be
          Models,       \* their models
          Filters,      \* the filters a client may list with
          Limits,       \* the page sizes it may ask for
          Undefined,    \* undefined
          StoredKeys,   \* the sets of keys a run may start with
          MaxWrites, MaxPages    \* bounds on what a run does

VARIABLES records,      \* the stored records by key
          clock,        \* the store's now()
          writes,       \* how often a session was written or deleted
          listing       \* the client's walk over the pages

lvars == <<records, clock, writes, listing>>

Directions == {"forward", "backward"}
Keys == Sessions \X {1, 2}
KeysOf(session) == {session} \X {1, 2}
SessionsAt(keys) == {k[1] : k \in keys}
Cursors == [direction : Directions, filter : Filters, key : [at : Nat, session : Sessions]]

ASSUME ListingAssumption ==
    /\ Sessions \subseteq [tenant : Int, name : Int]
    /\ Limits \subseteq Nat \ {0}
    /\ \A keys \in StoredKeys : IsFiniteSet(keys) /\ keys \subseteq Keys
    /\ Undefined \notin Cursors

-----------------------------------------------------------------------------
(* Pages.                                                                   *)

\* compareSessionMeta, compareSessionMetaToCursor: newest first.
Before(a, b) ==
    \/ a.at > b.at
    \/ a.at = b.at /\ a.session.tenant < b.session.tenant
    \/ /\ a.at = b.at /\ a.session.tenant = b.session.tenant
       /\ a.session.name < b.session.name

\* filterAndSortSessionMetas: the filter, and the sorted list, whose n-th
\* session has n - 1 before it.
Matches(meta, filter) ==
    /\ filter.tenant \in {Undefined, meta.session.tenant}
    /\ filter.model \in {Undefined, meta.model}
Sorted(metas) ==
    [n \in 1..Cardinality(metas) |->
        CHOOSE m \in metas : Cardinality({o \in metas : Before(o, m)}) = n - 1]

\* The key a cursor takes from the session it stands at.
KeyOf(meta) == [at |-> meta.at, session |-> meta.session]

\* Mutant: the session at the cursor is still a candidate.
FollowsOrIs(direction, cursor, meta) ==
    \/ cursor = Undefined
    \/ ~Before(IF direction = "forward" THEN meta ELSE cursor.key,
               IF direction = "forward" THEN cursor.key ELSE meta)

Follows(direction, cursor, meta) ==
    \/ cursor = Undefined
    \/ direction = "forward" /\ Before(cursor.key, meta)
    \/ direction = "backward" /\ Before(meta, cursor.key)

\* buildSessionStorePage, encodeSessionCursor: a page of the given sessions
\* with the cursors of its neighbours.
Page(items, options, cursor, hasMore) ==
    LET forward == options.direction = "forward"
        first == KeyOf(items[1])
        last == KeyOf(items[Len(items)])
        at(direction, key) == [direction |-> direction, filter |-> options.filter, key |-> key]
    IN  [items |-> items,
         next |-> IF items = <<>> \/ ~hasMore THEN Undefined
                  ELSE at(options.direction, IF forward THEN last ELSE first),
         previous |-> IF items = <<>> \/ cursor = Undefined THEN Undefined
                      ELSE at(IF forward THEN "backward" ELSE "forward",
                              IF forward THEN first ELSE last)]

\* The sessions that pass the filter and lie behind the cursor.
Candidates(metas, options, cursor) ==
    {m \in metas : Matches(m, options.filter) /\ Follows(options.direction, cursor, m)}

\* paginateSessionMetas
Paginated(metas, options, cursor) ==
    LET candidates == Sorted(Candidates(metas, options, cursor))
        hasMore == Len(candidates) > options.limit
        items == IF ~hasMore THEN candidates
                 ELSE IF options.direction = "forward"
                      THEN SubSeq(candidates, 1, options.limit)
                      ELSE SubSeq(candidates, Len(candidates) - options.limit + 1,
                                  Len(candidates))
    IN  Page(items, options, cursor, hasMore)

\* buildPostgresSessionListQuery and PostgresSessionStore.listPage: the query
\* orders a backward page the other way round and returns one row too many.
Queried(metas, options, cursor) ==
    LET backward == options.direction = "backward"
        candidates == Sorted(Candidates(metas, options, cursor))
        found == IF backward THEN Reverse(candidates) ELSE candidates
        rows == SubSeq(found, 1, IF Len(found) > options.limit THEN options.limit + 1
                                 ELSE Len(found))
        hasMore == Len(rows) > options.limit
        kept == IF hasMore THEN Front(rows) ELSE rows
    IN  Page(IF backward THEN Reverse(kept) ELSE kept, options, cursor, hasMore)

\* decodeSessionCursor: a cursor is for the direction and filter it was made for.
Accepts(options, cursor) ==
    \/ cursor = Undefined
    \/ cursor.direction = options.direction /\ cursor.filter = options.filter

-----------------------------------------------------------------------------
(* The stores.                                                              *)

\* A record as it is read, with the version of its key.
Read(key) == [session |-> key[1], key |-> key[2],
              at |-> records[key].at, model |-> records[key].model]

\* RedisSessionStore.collectSessionMetas: of a session's two records that of
\* the newer key.
Collected(reads) ==
    {[session |-> r.session, at |-> r.at, model |-> r.model] :
       r \in {r \in reads : \A q \in reads : q.session = r.session => q.key <= r.key}}

\* What memory and Postgres hold.
Held == Collected({Read(k) : k \in DOMAIN records})

\* A session is no longer as it was when the walk began, nor are `gone' keys
\* there all the time a scan takes.
Touched(session, gone) ==
    listing' = [listing EXCEPT !.untouched = @ \ {session}, !.quiet = FALSE, !.due = @ \ gone]

\* now() may return the same time again.
Tick == clock' \in {clock, clock + 1}

\* set: a session keeps the model it was created with.
Set(session) ==
    /\ writes < MaxWrites /\ writes' = writes + 1
    /\ Tick
    /\ \E model \in Models :
         LET kept == {records[k].model : k \in DOMAIN records \intersect KeysOf(session)}
         IN  /\ kept # {} => model \in kept
             /\ records' = [k \in DOMAIN records \union {<<session, 2>>} |->
                              IF k = <<session, 2>> THEN [at |-> clock', model |-> model]
                              ELSE records[k]]
    /\ Touched(session, {})

\* The second step of a set in Redis.
DropLegacy(session) ==
    /\ KeysOf(session) \subseteq DOMAIN records
    /\ records' = [k \in DOMAIN records \ {<<session, 1>>} |-> records[k]]
    /\ UNCHANGED <<clock, writes, listing>>

\* The key with the record of a session that a get returns.
KeyFound(session) == <<session, IF <<session, 2>> \in DOMAIN records THEN 2 ELSE 1>>

\* Memory and Postgres forget a session at once; in Redis a guarded delete
\* removes the key it found, and an unconditional one first that and then, as a
\* step of its own, the older one (another such step, or DropLegacy when the
\* session was written in between).
Delete(session) ==
    /\ writes < MaxWrites /\ writes' = writes + 1
    /\ session \in SessionsAt(DOMAIN records)
    /\ \E gone \in {{KeyFound(session)}, KeysOf(session)} :
         /\ records' = [k \in DOMAIN records \ gone |-> records[k]]
         /\ Touched(session, gone)
    /\ UNCHANGED clock

-----------------------------------------------------------------------------
(* The walk: `pages' are the pages shown, `as' the options of the last,     *)
(* `untouched' the sessions not written since the first page was asked for, *)
(* `quiet' that nothing was written since then.                             *)

\* A request for a page: the first, or the next with the last page's cursor.
\* The client may have changed its filter or direction in between.
Ask ==
    /\ listing.phase = "idle" /\ Len(listing.pages) < MaxPages
    /\ listing.pages # <<>> => Last(listing.pages).next # Undefined
    /\ \E direction \in Directions, filter \in Filters, limit \in Limits :
         LET options == [direction |-> direction, filter |-> filter, limit |-> limit]
             cursor == IF listing.pages = <<>> THEN Undefined ELSE Last(listing.pages).next
         IN  listing' = [listing EXCEPT
               !.phase = IF Accepts(options, cursor) THEN "reading" ELSE "refused",
               !.options = options, !.cursor = cursor, !.reads = {}, !.scanned = {},
               !.due = DOMAIN records,
               !.untouched = IF listing.pages = <<>> THEN SessionsAt(DOMAIN records) ELSE @,
               !.quiet = listing.pages = <<>> \/ @]
    /\ UNCHANGED <<records, clock, writes>>

Show(page) ==
    listing' = [listing EXCEPT !.phase = "idle", !.pages = Append(@, page),
                               !.as = listing.options, !.reads = {}, !.scanned = {}, !.due = {}]

\* listPage of the memory store and of Postgres.
LookOnce ==
    /\ listing.phase = "reading" /\ listing.scanned = {}
    /\ \/ Show(Paginated(Held, listing.options, listing.cursor))
       \/ Show(Queried(Held, listing.options, listing.cursor))
    /\ UNCHANGED <<records, clock, writes>>

\* RedisSessionStore.iterateKeys: SCAN returns the keys in any order, each key
\* that is there all the time at least once, and the store skips the repeated.
ScanKey(key) ==
    /\ listing.phase = "reading" /\ key \in DOMAIN records \ listing.scanned
    /\ listing' = [listing EXCEPT !.scanned = @ \union {key},
                                  !.reads = @ \union {Read(key)}]
    /\ UNCHANGED <<records, clock, writes>>

ScanEnds ==
    /\ listing.phase = "reading"
    /\ listing.due \intersect DOMAIN records \subseteq listing.scanned
    /\ Show(Paginated(Collected(listing.reads), listing.options, listing.cursor))
    /\ UNCHANGED <<records, clock, writes>>

ListInit ==
    /\ records \in UNION {[keys -> [at : {1, 2}, model : Models]] : keys \in StoredKeys}
    /\ clock = 2 /\ writes = 0
    /\ listing = [phase |-> "idle", options |-> Undefined, cursor |-> Undefined, pages |-> <<>>,
                  as |-> Undefined, reads |-> {}, scanned |-> {}, due |-> {}, untouched |-> {}, quiet |-> TRUE]

ListNext ==
    \/ Ask \/ LookOnce \/ ScanEnds
    \/ \E key \in Keys : ScanKey(key)
    \/ \E session \in Sessions : Set(session) \/ DropLegacy(session) \/ Delete(session)

ListSpec == ListInit /\ [][ListNext]_lvars

-----------------------------------------------------------------------------
\* Where the pages show a session, and which of two places comes first in the
\* order of the listing: a backward walk shows the last page first.
Placements(session) ==
    {p \in UNION {{i} \X DOMAIN listing.pages[i].items : i \in DOMAIN listing.pages} :
       listing.pages[p[1]].items[p[2]].session = session}
Above(p, q) ==
    IF p[1] = q[1] THEN p[2] < q[2]
    ELSE IF listing.as.direction = "forward" THEN p[1] < q[1] ELSE q[1] < p[1]

\* The stored sessions that were not written during the walk and pass its filter.
Kept == {m \in Held : m.session \in listing.untouched /\ Matches(m, listing.as.filter)}

\* The walk has passed the place of a session.
Passed(page, meta) ==
    page.next = Undefined \/ ~Follows(listing.as.direction, page.next, meta)

\* Every session that was there when the walk began and was not written since
\* is on exactly one page once the walk has passed its place, in the order of
\* the listing, whatever was written meanwhile, in whatever order Redis
\* returns its keys, and whether or not the client asks with other options
\* under way.
UndisturbedShownOnce ==
    /\ \A m \in Kept :
         Cardinality(Placements(m.session)) = IF Passed(Last(listing.pages), m) THEN 1 ELSE 0
    /\ \A m, n \in Kept :
         Before(m, n) => \A p \in Placements(m.session), q \in Placements(n.session) : Above(p, q)

\* Stepping back over sessions that did not change shows the page before again.
BackShowsSame ==
    LET page == Last(listing.pages)
        before == listing.pages[Len(listing.pages) - 1].items
    IN  listing.quiet /\ page.previous # Undefined =>
          Paginated(Held, [direction |-> page.previous.direction,
                           filter |-> listing.as.filter, limit |-> Len(before)],
                    page.previous).items = before

\* A walk over the pages of a listing.
PagesCoverListing == listing.pages # <<>> => UndisturbedShownOnce /\ BackShowsSame
=============================================================================
