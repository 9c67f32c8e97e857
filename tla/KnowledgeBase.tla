--------------------------- MODULE KnowledgeBase ---------------------------
(* The knowledge stores and the retrievers of src/retrieval.ts: spaces,     *)
(* embedding profiles, sources and chunks of several tenants in one set of  *)
(* tables, written by any number of callers and searched by retrievers.     *)
(* The in-memory store runs each call in one step. The Postgres store runs  *)
(* one statement a step, so that the calls that look before they write are  *)
(* two steps with other callers in between, and every call waits for the    *)
(* creation of the tables first.                                            *)
EXTENDS Naturals, FiniteSets

CONSTANTS Owners,      \* pairs <<tenant, bot>>
          Spaces, Profiles, Sources, Chunks,   \* the identifiers callers use
          Shapes,      \* what of a profile may not change: model, dimensions, ...
          Clients,     \* callers whose calls take several steps
          None

VARIABLES backend,     \* "memory" or "postgres"
          schema,      \* ensureSchemaPromise
          spaces, profiles, sources, chunks,   \* the four tables
          call         \* the call each client is in

tables == <<spaces, profiles, sources, chunks>>
vars == <<backend, schema, tables, call>>

Tenant(owner) == owner[1]

SpaceRows   == [owner : Owners, active : Profiles \union {None}]
ProfileRows == [owner : Owners, space : Spaces, shape : Shapes]
SourceRows  == [owner : Owners, space : Spaces, profile : Profiles \union {None}, ready : BOOLEAN]
ChunkRows   == [owner : Owners, space : Spaces, source : Sources, profile : Profiles]

\* An empty place in a table is no row, and no profile is called None.
ASSUME NoneDistinct ==
    None \notin SpaceRows \union ProfileRows \union SourceRows \union ChunkRows \union Profiles

Filters == [owner : Owners, space : Spaces, profile : Profiles]
Hits    == [chunk : Chunks, owner : Owners, source : Sources,
            sourceOwner : Owners, profile : Profiles]

Idle == [op |-> "idle"]

TypeOK ==
    /\ backend \in {"memory", "postgres"}
    /\ schema \in {"none", "creating", "ready", "failed"}
    /\ spaces \in [Spaces -> SpaceRows \union {None}]
    /\ profiles \in [Profiles -> ProfileRows \union {None}]
    /\ sources \in [Sources -> SourceRows \union {None}]
    /\ chunks \in [Chunks -> ChunkRows \union {None}]
    /\ call \in [Clients ->
         {Idle}
         \union [op : {"upsertProfile"}, id : Profiles, row : ProfileRows]
         \union [op : {"activate"}, owner : Owners, space : Spaces, profile : Profiles]
         \union [op : {"search"}, filter : Filters, todo : SUBSET {"dense", "lexical"},
                 hits : SUBSET Hits]]

Init ==
    /\ backend \in {"memory", "postgres"}
    /\ schema = "none"
    /\ spaces = [s \in Spaces |-> None]
    /\ profiles = [p \in Profiles |-> None]
    /\ sources = [d \in Sources |-> None]
    /\ chunks = [k \in Chunks |-> None]
    /\ call = [c \in Clients |-> Idle]

-----------------------------------------------------------------------------
(* The tables of Postgres: ensureSchema, runEnsureSchema, close.            *)

\* The first call starts the creation, the others await the same promise.
EnsureSchema ==
    /\ backend = "postgres" /\ schema = "none"
    /\ schema' = "creating"
    /\ UNCHANGED <<backend, tables, call>>

\* A rejected promise is kept: only close() forgets it.
RunEnsureSchema ==
    /\ schema = "creating"
    /\ schema' \in {"ready", "failed"}
    /\ UNCHANGED <<backend, tables, call>>

\* close() of a store with a pool of its own; rows stay in the database.
Close ==
    /\ backend = "postgres" /\ schema # "none"
    /\ schema' = "none"
    /\ UNCHANGED <<backend, tables, call>>

Usable == backend = "memory" \/ schema = "ready"

-----------------------------------------------------------------------------
(* Calls of one step: one statement, or a body without await.               *)

\* Mutant: an upsert takes over whatever row has its identifier.
MayReplaceAny(row, owner) == TRUE

\* assertKnowledgeRecordOwnership and the WHERE of ON CONFLICT DO UPDATE.
MayReplace(row, owner) == row # None => row.owner = owner

\* The foreign keys that runEnsureSchema declares; maps have none.
Exists(table, id) == backend = "postgres" => table[id] # None

UpsertKnowledgeSpace(s, row) ==
    /\ Usable
    /\ MayReplace(spaces[s], row.owner)
    /\ row.active # None => Exists(profiles, row.active)
    /\ spaces' = [spaces EXCEPT ![s] = row]
    /\ UNCHANGED <<backend, schema, profiles, sources, chunks, call>>

UpsertKnowledgeSource(d, row) ==
    /\ Usable
    /\ MayReplace(sources[d], row.owner)
    /\ Exists(spaces, row.space)
    /\ row.profile # None => Exists(profiles, row.profile)
    /\ sources' = [sources EXCEPT ![d] = row]
    /\ UNCHANGED <<backend, schema, spaces, profiles, chunks, call>>

UpsertKnowledgeChunk(k, row) ==
    /\ Usable
    /\ MayReplace(chunks[k], row.owner)
    /\ Exists(spaces, row.space) /\ Exists(sources, row.source) /\ Exists(profiles, row.profile)
    /\ chunks' = [chunks EXCEPT ![k] = row]
    /\ UNCHANGED <<backend, schema, spaces, profiles, sources, call>>

\* Every source of the space that is not on the profile loses its status.
MarkKnowledgeSourcesNeedingReindex(owner, s, from, to) ==
    /\ Usable
    /\ sources' = [d \in Sources |->
         LET row == sources[d] IN
         IF /\ row # None
            /\ row.owner = owner /\ row.space = s /\ row.profile # to
            /\ from # None => row.profile = from
         THEN [row EXCEPT !.ready = FALSE] ELSE row]
    /\ sources' # sources
    /\ UNCHANGED <<backend, schema, spaces, profiles, chunks, call>>

\* Only the in-memory store deletes.
DeleteKnowledgeSource(d) ==
    /\ backend = "memory"
    /\ sources[d] # None
    /\ sources' = [sources EXCEPT ![d] = None]
    /\ chunks' = [k \in Chunks |->
         IF chunks[k] # None /\ chunks[k].source = d THEN None ELSE chunks[k]]
    /\ UNCHANGED <<backend, schema, spaces, profiles, call>>

Clear ==
    /\ backend = "memory"
    /\ spaces' = [s \in Spaces |-> None]
    /\ profiles' = [p \in Profiles |-> None]
    /\ sources' = [d \in Sources |-> None]
    /\ chunks' = [k \in Chunks |-> None]
    /\ UNCHANGED <<backend, schema, call>>

-----------------------------------------------------------------------------
(* Calls that look first and write afterwards.                              *)

Begin(c, operation) ==
    /\ call[c] = Idle
    /\ call' = [call EXCEPT ![c] = operation]

Return(c) == call' = [call EXCEPT ![c] = Idle]

\* Mutant: the owner and the space of a profile are not compared.
ImmutableShape(p, row) == profiles[p] # None => profiles[p].shape = row.shape

\* assertEmbeddingProfileImmutability: nothing of the shape or the owner may
\* differ. The map does check and write at once.
Immutable(p, row) == profiles[p] = None \/ profiles[p] = row

CheckProfile(c, p, row) ==
    /\ backend = "postgres" /\ Usable
    /\ Immutable(p, row)
    /\ Begin(c, [op |-> "upsertProfile", id |-> p, row |-> row])
    /\ UNCHANGED <<backend, schema, tables>>

\* Mutant: ON CONFLICT updates every column.
InsertedOrUpdated(p, row) == row

\* INSERT ... ON CONFLICT (id) DO UPDATE of the status only: when another row
\* came first it stays, and the caller is told of success all the same.
Inserted(p, row) == IF profiles[p] = None THEN row ELSE profiles[p]

WriteProfile(c) ==
    /\ call[c].op = "upsertProfile"
    /\ IF Exists(spaces, call[c].row.space)
       THEN profiles' = [profiles EXCEPT ![call[c].id] = Inserted(call[c].id, call[c].row)]
       ELSE UNCHANGED profiles
    /\ Return(c)
    /\ UNCHANGED <<backend, schema, spaces, sources, chunks>>

SetProfile(p, row) ==
    /\ backend = "memory"
    /\ Immutable(p, row)
    /\ profiles' = [profiles EXCEPT ![p] = row]
    /\ UNCHANGED <<backend, schema, spaces, sources, chunks, call>>

\* assertActivatableEmbeddingProfile, and the same tests of the map.
Activatable(owner, s, p) ==
    /\ spaces[s] # None /\ spaces[s].owner = owner
    /\ profiles[p] # None
    /\ profiles[p].owner = owner /\ profiles[p].space = s

CheckActivation(c, owner, s, p) ==
    /\ backend = "postgres" /\ Usable
    /\ Activatable(owner, s, p)
    /\ Begin(c, [op |-> "activate", owner |-> owner, space |-> s, profile |-> p])
    /\ UNCHANGED <<backend, schema, tables>>

WriteActivation(c) ==
    /\ call[c].op = "activate"
    /\ LET s == call[c].space
       IN  IF spaces[s] # None /\ spaces[s].owner = call[c].owner
           THEN spaces' = [spaces EXCEPT ![s].active = call[c].profile]
           ELSE UNCHANGED spaces
    /\ Return(c)
    /\ UNCHANGED <<backend, schema, profiles, sources, chunks>>

ActivateEmbeddingProfile(owner, s, p) ==
    /\ backend = "memory"
    /\ Activatable(owner, s, p)
    /\ spaces' = [spaces EXCEPT ![s].active = p]
    /\ UNCHANGED <<backend, schema, profiles, sources, chunks, call>>

-----------------------------------------------------------------------------
(* Retrievers: an embedding of the query, then one or two searches, started *)
(* together and answered in any order; the merge of their lists, the rerank *)
(* hook and the limits (module RetrievalRanking) only drop and reorder.     *)

\* matchesInMemoryRetrievalFilter, buildPostgresFilterClause: the scope; the
\* other conditions only drop more.
Matches(row, filter) ==
    row.owner = filter.owner /\ row.space = filter.space /\ row.profile = filter.profile

\* The maps: a chunk of the filter whose source is ready, whoever's source it is.
MemoryFinds(k, filter) ==
    /\ chunks[k] # None
    /\ Matches(chunks[k], filter)
    /\ sources[chunks[k].source] # None
    /\ sources[chunks[k].source].ready

Joined(row, other) == other # None /\ Tenant(other.owner) = Tenant(row.owner)

\* The SELECTs join the source, and a dense one the profile, by tenant too.
PostgresFinds(k, filter, kind) ==
    /\ MemoryFinds(k, filter)
    /\ Joined(chunks[k], sources[chunks[k].source])
    /\ kind = "dense" => Joined(chunks[k], profiles[chunks[k].profile])

\* Mutant: the join with the sources compares identifiers only.
SearchableUnjoined(k, filter, kind) == MemoryFinds(k, filter)

Searchable(k, filter, kind) ==
    IF backend = "postgres" THEN PostgresFinds(k, filter, kind) ELSE MemoryFinds(k, filter)

Hit(k) == [chunk |-> k, owner |-> chunks[k].owner, source |-> chunks[k].source,
           sourceOwner |-> sources[chunks[k].source].owner, profile |-> chunks[k].profile]

\* createDenseRetriever and createHybridRetriever, up to the embedding.
StartSearch(c, filter, kinds) ==
    /\ Usable
    /\ Begin(c, [op |-> "search", filter |-> filter, todo |-> kinds, hits |-> {}])
    /\ UNCHANGED <<backend, schema, tables>>

\* searchByEmbedding and searchByText; the limit keeps any of the matches.
Search(c, kind) ==
    /\ call[c].op = "search" /\ kind \in call[c].todo
    /\ Usable
    /\ \E found \in SUBSET {k \in Chunks : Searchable(k, call[c].filter, kind)} :
         call' = [call EXCEPT ![c].todo = @ \ {kind},
                              ![c].hits = @ \union {Hit(k) : k \in found}]
    /\ UNCHANGED <<backend, schema, tables>>

\* A search answers or fails, a statement of another call fails.
EndCall(c) ==
    /\ call[c] # Idle
    /\ Return(c)
    /\ UNCHANGED <<backend, schema, tables>>

-----------------------------------------------------------------------------
Next ==
    \/ EnsureSchema \/ RunEnsureSchema \/ Close
    \/ \E s \in Spaces, row \in SpaceRows : UpsertKnowledgeSpace(s, row)
    \/ \E d \in Sources, row \in SourceRows : UpsertKnowledgeSource(d, row)
    \/ \E k \in Chunks, row \in ChunkRows : UpsertKnowledgeChunk(k, row)
    \/ \E owner \in Owners, s \in Spaces, from \in Profiles \union {None}, to \in Profiles :
          MarkKnowledgeSourcesNeedingReindex(owner, s, from, to)
    \/ \E d \in Sources : DeleteKnowledgeSource(d)
    \/ Clear
    \/ \E p \in Profiles, row \in ProfileRows :
          SetProfile(p, row) \/ \E c \in Clients : CheckProfile(c, p, row)
    \/ \E owner \in Owners, s \in Spaces, p \in Profiles :
          \/ ActivateEmbeddingProfile(owner, s, p)
          \/ \E c \in Clients : CheckActivation(c, owner, s, p)
    \/ \E c \in Clients :
          \/ WriteProfile(c) \/ WriteActivation(c) \/ EndCall(c)
          \/ \E filter \in Filters, kinds \in {{"dense"}, {"dense", "lexical"}} :
                StartSearch(c, filter, kinds)
          \/ \E kind \in {"dense", "lexical"} : Search(c, kind)

Spec == Init /\ [][Next]_vars
-----------------------------------------------------------------------------
(* What callers may rely on.                                                *)

\* A search shows a tenant only chunks of its own and, with Postgres, only
\* chunks whose source is its own too, whatever rows callers combined; and what
\* a retriever still holds while it searches, merges and reranks stays the
\* tenant's, whatever is written in the meantime.
ResultsWithinTenant ==
    \A c \in Clients : call[c].op = "search" =>
        \A hit \in call[c].hits :
            /\ hit.owner = call[c].filter.owner
            /\ hit.profile = call[c].filter.profile
            /\ backend = "postgres" =>
                 /\ Tenant(hit.sourceOwner) = Tenant(hit.owner)
                 /\ chunks[hit.chunk] # None
                 /\ chunks[hit.chunk].owner = hit.owner

\* What activateEmbeddingProfile checked in one statement still holds when it
\* writes in the next, because nobody can change or remove what it looked at.
CheckedActivationHolds ==
    \A c \in Clients : call[c].op = "activate" =>
        Activatable(call[c].owner, call[c].space, call[c].profile)

\* A row never passes to another owner, and a profile never changes at all:
\* the vectors stored under its name stay comparable.
RowsKeepOwner ==
    [][/\ \A s \in Spaces : {None} \cap {spaces[s], spaces'[s]} = {} =>
              spaces'[s].owner = spaces[s].owner
       /\ \A d \in Sources : {None} \cap {sources[d], sources'[d]} = {} =>
              sources'[d].owner = sources[d].owner
       /\ \A k \in Chunks : {None} \cap {chunks[k], chunks'[k]} = {} =>
              chunks'[k].owner = chunks[k].owner]_vars

ProfilesFixed ==
    [][\A p \in Profiles : {None} \cap {profiles[p], profiles'[p]} = {} =>
              profiles'[p] = profiles[p]]_vars

\* No step shows a tenant, or gives it, what is another's.
TenantsApart == [][ResultsWithinTenant']_vars /\ RowsKeepOwner

\* What was right to activate stays what it was.
ActivationsHold == []CheckedActivationHolds /\ ProfilesFixed

\* The same for upsertEmbeddingProfile does not hold: two first inserts of one
\* identifier both pass their check, and the later caller is told that its row
\* was stored although the earlier one stays.
CheckedProfileHolds ==
    \A c \in Clients : call[c].op = "upsertProfile" =>
        Immutable(call[c].id, call[c].row)
=============================================================================
