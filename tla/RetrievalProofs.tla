--------------------------- MODULE RetrievalProofs ---------------------------
(***************************************************************************)
(* Theorems about KnowledgeBase for any number of tenants, rows and        *)
(* clients, for both stores; and about the calls AlgorithmTrials tries,    *)
(* for any set of calls: what is cut out of a text, fused, limited and     *)
(* shown of what a search finds, what an answer may cite, what saving      *)
(* keeps of a conversation, and what a speech request may cost.            *)
(***************************************************************************)
EXTENDS KnowledgeBase, AlgorithmTrials, FiniteSetTheorems, SequenceTheorems,
        NaturalsInduction, WellFoundedInduction, TLAPS

(* Only Postgres has calls that look first and write afterwards.           *)
InFlight ==
    \A c \in Clients :
        call[c].op \in {"upsertProfile", "activate"} => backend = "postgres"

IInv == TypeOK /\ InFlight /\ ResultsWithinTenant /\ CheckedActivationHolds

(* What no statement of Postgres does: take away a row, pass one to another *)
(* owner, or change a profile.                                             *)
Kept ==
    /\ \A s \in Spaces : spaces[s] # None =>
          spaces'[s] # None /\ spaces'[s].owner = spaces[s].owner
    /\ \A k \in Chunks : chunks[k] # None =>
          chunks'[k] # None /\ chunks'[k].owner = chunks[k].owner
    /\ \A p \in Profiles : profiles[p] # None => profiles'[p] = profiles[p]

LEMMA CallShapes ==
    ASSUME TypeOK, NEW c \in Clients
    PROVE  /\ call[c].op \in {"idle", "upsertProfile", "activate", "search"}
           /\ call[c].op = "idle" <=> call[c] = Idle
           /\ call[c].op = "upsertProfile" =>
                /\ call[c] \in [op : {"upsertProfile"}, id : Profiles, row : ProfileRows]
                /\ call[c].id \in Profiles /\ call[c].row \in ProfileRows
           /\ call[c].op = "activate" =>
                /\ call[c] \in [op : {"activate"}, owner : Owners, space : Spaces, profile : Profiles]
                /\ call[c].owner \in Owners /\ call[c].space \in Spaces /\ call[c].profile \in Profiles
           /\ call[c].op = "search" =>
                /\ call[c] \in [op : {"search"}, filter : Filters,
                                todo : SUBSET {"dense", "lexical"}, hits : SUBSET Hits]
                /\ call[c].filter \in Filters
                /\ call[c].todo \in SUBSET {"dense", "lexical"} /\ call[c].hits \in SUBSET Hits
  BY DEF TypeOK, Idle

(* A step that leaves the calls alone and, with Postgres, keeps every row   *)
(* leaves alone what is said of the calls.                                 *)
LEMMA CallsUndisturbed ==
    ASSUME IInv, UNCHANGED <<backend, call>>, backend = "postgres" => Kept
    PROVE  InFlight' /\ ResultsWithinTenant' /\ CheckedActivationHolds'
<1>1. InFlight'
  BY DEF IInv, InFlight
<1>2. ResultsWithinTenant'
  <2>. SUFFICES ASSUME NEW c \in Clients, call[c].op = "search", NEW hit \in call[c].hits
                PROVE  /\ hit.owner = call[c].filter.owner
                       /\ hit.profile = call[c].filter.profile
                       /\ backend = "postgres" =>
                            /\ Tenant(hit.sourceOwner) = Tenant(hit.owner)
                            /\ chunks'[hit.chunk] # None
                            /\ chunks'[hit.chunk].owner = hit.owner
    BY DEF ResultsWithinTenant
  <2>1. hit.chunk \in Chunks
    BY CallShapes DEF IInv, Hits
  <2>. QED
    BY <2>1 DEF IInv, ResultsWithinTenant, Kept
<1>3. CheckedActivationHolds'
  <2>. SUFFICES ASSUME NEW c \in Clients, call[c].op = "activate"
                PROVE  Activatable(call[c].owner, call[c].space, call[c].profile)'
    BY DEF CheckedActivationHolds
  <2>1. backend = "postgres"
    BY DEF IInv, InFlight
  <2>2. call[c].space \in Spaces /\ call[c].profile \in Profiles
    BY CallShapes DEF IInv
  <2>. QED
    BY <2>1, <2>2 DEF IInv, CheckedActivationHolds, Activatable, Kept
<1>. QED
  BY <1>1, <1>2, <1>3

(* A step of one client's call that leaves the tables alone disturbs no    *)
(* other client's.                                                         *)
LEMMA OneCall ==
    ASSUME IInv, UNCHANGED backend, NEW c \in Clients, NEW new,
           call' = [call EXCEPT ![c] = new],
           backend = "postgres" => Kept,
           new.op \in {"upsertProfile", "activate"} => backend = "postgres",
           new.op = "activate" => Activatable(new.owner, new.space, new.profile)',
           new.op = "search" =>
             \A hit \in new.hits :
               /\ hit.owner = new.filter.owner
               /\ hit.profile = new.filter.profile
               /\ backend = "postgres" =>
                    /\ Tenant(hit.sourceOwner) = Tenant(hit.owner)
                    /\ chunks'[hit.chunk] # None
                    /\ chunks'[hit.chunk].owner = hit.owner
    PROVE  InFlight' /\ ResultsWithinTenant' /\ CheckedActivationHolds'
<1>1. \A b \in Clients : call'[b] = IF b = c THEN new ELSE call[b]
  BY DEF IInv, TypeOK
<1>2. InFlight'
  BY <1>1 DEF IInv, InFlight
<1>3. ResultsWithinTenant'
  <2>. SUFFICES ASSUME NEW b \in Clients, b # c, call[b].op = "search", NEW hit \in call[b].hits
                PROVE  /\ hit.owner = call[b].filter.owner
                       /\ hit.profile = call[b].filter.profile
                       /\ backend = "postgres" =>
                            /\ Tenant(hit.sourceOwner) = Tenant(hit.owner)
                            /\ chunks'[hit.chunk] # None
                            /\ chunks'[hit.chunk].owner = hit.owner
    BY <1>1 DEF ResultsWithinTenant
  <2>1. hit.chunk \in Chunks
    BY CallShapes DEF IInv, Hits
  <2>. QED
    BY <2>1 DEF IInv, ResultsWithinTenant, Kept
<1>4. CheckedActivationHolds'
  <2>. SUFFICES ASSUME NEW b \in Clients, b # c, call[b].op = "activate"
                PROVE  Activatable(call[b].owner, call[b].space, call[b].profile)'
    BY <1>1 DEF CheckedActivationHolds
  <2>1. backend = "postgres"
    BY DEF IInv, InFlight
  <2>2. call[b].space \in Spaces /\ call[b].profile \in Profiles
    BY CallShapes DEF IInv
  <2>. QED
    BY <2>1, <2>2 DEF IInv, CheckedActivationHolds, Activatable, Kept
<1>. QED
  BY <1>2, <1>3, <1>4

-----------------------------------------------------------------------------
(* The steps that write a table.                                           *)

LEMMA SpaceStep ==
    ASSUME IInv, NEW s \in Spaces, NEW row \in SpaceRows, UpsertKnowledgeSpace(s, row)
    PROVE  TypeOK' /\ Kept
  BY NoneDistinct DEF IInv, TypeOK, Kept, UpsertKnowledgeSpace, MayReplace

LEMMA SourceStep ==
    ASSUME IInv, NEW d \in Sources, NEW row \in SourceRows, UpsertKnowledgeSource(d, row)
    PROVE  TypeOK' /\ Kept
  BY DEF IInv, TypeOK, Kept, UpsertKnowledgeSource

LEMMA ChunkStep ==
    ASSUME IInv, NEW k \in Chunks, NEW row \in ChunkRows, UpsertKnowledgeChunk(k, row)
    PROVE  TypeOK' /\ Kept
  BY NoneDistinct DEF IInv, TypeOK, Kept, UpsertKnowledgeChunk, MayReplace

LEMMA MarkStep ==
    ASSUME IInv, NEW owner \in Owners, NEW s \in Spaces, NEW from \in Profiles \union {None},
           NEW to \in Profiles, MarkKnowledgeSourcesNeedingReindex(owner, s, from, to)
    PROVE  TypeOK' /\ Kept
<1>1. \A d \in Sources : sources[d] # None => [sources[d] EXCEPT !.ready = FALSE] \in SourceRows
  BY ZenonT(40) DEF IInv, TypeOK, SourceRows
<1>2. sources' \in [Sources -> SourceRows \union {None}]
  BY <1>1 DEF IInv, TypeOK, MarkKnowledgeSourcesNeedingReindex
<1>. QED
  BY <1>2 DEF IInv, TypeOK, Kept, MarkKnowledgeSourcesNeedingReindex

LEMMA MemoryStep ==
    ASSUME IInv,
           \/ \E d \in Sources : DeleteKnowledgeSource(d)
           \/ Clear
           \/ \E p \in Profiles, row \in ProfileRows : SetProfile(p, row)
           \/ \E owner \in Owners, s \in Spaces, p \in Profiles : ActivateEmbeddingProfile(owner, s, p)
    PROVE  TypeOK' /\ backend # "postgres" /\ UNCHANGED <<backend, call>>
<1>1. CASE \E d \in Sources : DeleteKnowledgeSource(d)
  BY <1>1 DEF IInv, TypeOK, DeleteKnowledgeSource
<1>2. CASE Clear
  BY <1>2 DEF IInv, TypeOK, Clear
<1>3. CASE \E p \in Profiles, row \in ProfileRows : SetProfile(p, row)
  BY <1>3 DEF IInv, TypeOK, SetProfile
<1>4. CASE \E owner \in Owners, s \in Spaces, p \in Profiles : ActivateEmbeddingProfile(owner, s, p)
  <2>. PICK owner \in Owners, s \in Spaces, p \in Profiles : ActivateEmbeddingProfile(owner, s, p)
    BY <1>4
  <2>1. [spaces[s] EXCEPT !.active = p] \in SpaceRows
    BY DEF IInv, TypeOK, SpaceRows, ActivateEmbeddingProfile, Activatable
  <2>2. spaces' \in [Spaces -> SpaceRows \union {None}]
    BY <2>1 DEF IInv, TypeOK, ActivateEmbeddingProfile
  <2>. QED
    BY <2>2 DEF IInv, TypeOK, ActivateEmbeddingProfile
<1>. QED
  BY <1>1, <1>2, <1>3, <1>4

LEMMA WriteProfileStep ==
    ASSUME IInv, NEW c \in Clients, WriteProfile(c)
    PROVE  TypeOK' /\ Kept
<1>1. call[c].id \in Profiles /\ call[c].row \in ProfileRows
  BY CallShapes DEF IInv, WriteProfile
<1>3. call' = [call EXCEPT ![c] = Idle]
  BY DEF WriteProfile, Return
<1>4. Kept
  BY <1>1 DEF IInv, TypeOK, Kept, WriteProfile, Inserted
<1>5. profiles' \in [Profiles -> ProfileRows \union {None}]
  BY <1>1 DEF IInv, TypeOK, WriteProfile, Inserted
<1>. QED
  BY <1>3, <1>4, <1>5 DEF IInv, TypeOK, WriteProfile

LEMMA WriteActivationStep ==
    ASSUME IInv, NEW c \in Clients, WriteActivation(c)
    PROVE  TypeOK' /\ Kept
<1>. DEFINE s == call[c].space
<1>1. s \in Spaces /\ call[c].profile \in Profiles
  BY CallShapes DEF IInv, WriteActivation
<1>2. call' = [call EXCEPT ![c] = Idle]
  BY DEF WriteActivation, Return
<1>3. CASE UNCHANGED spaces
  BY <1>2, <1>3 DEF IInv, TypeOK, Kept, WriteActivation
<1>4. CASE spaces[s] # None /\ spaces' = [spaces EXCEPT ![s].active = call[c].profile]
  <2>1. spaces[s] \in SpaceRows
    BY <1>1, <1>4 DEF IInv, TypeOK
  <2>2. [spaces[s] EXCEPT !.active = call[c].profile] \in SpaceRows
    BY <1>1, <2>1 DEF SpaceRows
  <2>3. [spaces[s] EXCEPT !.active = call[c].profile].owner = spaces[s].owner
    BY <2>1 DEF SpaceRows
  <2>4. spaces' \in [Spaces -> SpaceRows \union {None}]
    BY <1>1, <1>4, <2>2 DEF IInv, TypeOK
  <2>5. \A t \in Spaces : spaces[t] # None => spaces'[t] # None /\ spaces'[t].owner = spaces[t].owner
    BY <1>1, <1>4, <2>2, <2>3, NoneDistinct DEF IInv, TypeOK
  <2>. QED
    BY <1>2, <2>4, <2>5 DEF IInv, TypeOK, Kept, WriteActivation
<1>. QED
  BY <1>3, <1>4 DEF WriteActivation

-----------------------------------------------------------------------------
(* The steps of one client's call.                                         *)

LEMMA SearchStep ==
    ASSUME IInv, NEW c \in Clients, NEW kind \in {"dense", "lexical"}, Search(c, kind)
    PROVE  IInv'
<1>. DEFINE filter == call[c].filter
<1>1. PICK found \in SUBSET {k \in Chunks : Searchable(k, filter, kind)} :
        call' = [call EXCEPT ![c].todo = @ \ {kind},
                             ![c].hits = @ \union {Hit(k) : k \in found}]
  BY DEF Search
<1>. DEFINE new == [call[c] EXCEPT !.todo = @ \ {kind}, !.hits = @ \union {Hit(k) : k \in found}]
<1>2. call[c] \in [op : {"search"}, filter : Filters,
                   todo : SUBSET {"dense", "lexical"}, hits : SUBSET Hits]
  BY CallShapes DEF IInv, Search
<1>3. \A k \in found :
        /\ Hit(k) \in Hits
        /\ Hit(k).chunk = k
        /\ Hit(k).owner = filter.owner
        /\ Hit(k).profile = filter.profile
        /\ chunks[k] # None /\ chunks[k].owner = Hit(k).owner
        /\ backend = "postgres" => Tenant(Hit(k).sourceOwner) = Tenant(Hit(k).owner)
  <2>. SUFFICES ASSUME NEW k \in Chunks, Searchable(k, filter, kind)
                PROVE  /\ Hit(k) \in Hits
                       /\ Hit(k).chunk = k
                       /\ Hit(k).owner = filter.owner
                       /\ Hit(k).profile = filter.profile
                       /\ chunks[k] # None /\ chunks[k].owner = Hit(k).owner
                       /\ backend = "postgres" => Tenant(Hit(k).sourceOwner) = Tenant(Hit(k).owner)
    OBVIOUS
  <2>1. chunks[k] \in ChunkRows
    BY DEF IInv, TypeOK, Searchable, PostgresFinds, MemoryFinds
  <2>2. chunks[k].source \in Sources /\ chunks[k].owner \in Owners /\ chunks[k].profile \in Profiles
    BY <2>1 DEF ChunkRows
  <2>3. sources[chunks[k].source] \in SourceRows
    BY <2>2 DEF IInv, TypeOK, Searchable, PostgresFinds, MemoryFinds
  <2>4. sources[chunks[k].source].owner \in Owners
    BY <2>3 DEF SourceRows
  <2>. QED
    BY <2>1, <2>2, <2>4, NoneDistinct
    DEF Hit, Hits, Searchable, PostgresFinds, MemoryFinds, Matches, Joined
<1>3a. call' = [call EXCEPT ![c] = new]
  BY <1>1, <1>2 DEF IInv, TypeOK
<1>3b. {Hit(k) : k \in found} \subseteq Hits
  BY <1>3
<1>4. /\ call' = [call EXCEPT ![c] = new]
      /\ new \in [op : {"search"}, filter : Filters,
                  todo : SUBSET {"dense", "lexical"}, hits : SUBSET Hits]
      /\ new.filter = filter
      /\ new.hits = call[c].hits \union {Hit(k) : k \in found}
  BY <1>2, <1>3a, <1>3b
<1>5. UNCHANGED <<backend, schema, tables>>
  BY DEF Search
<1>6. TypeOK'
  BY <1>4, <1>5 DEF IInv, TypeOK, tables
<1>7. \A hit \in new.hits :
        /\ hit.owner = new.filter.owner
        /\ hit.profile = new.filter.profile
        /\ backend = "postgres" =>
             /\ Tenant(hit.sourceOwner) = Tenant(hit.owner)
             /\ chunks'[hit.chunk] # None
             /\ chunks'[hit.chunk].owner = hit.owner
  <2>. SUFFICES ASSUME NEW hit \in new.hits
                PROVE  /\ hit.owner = filter.owner
                       /\ hit.profile = filter.profile
                       /\ backend = "postgres" =>
                            /\ Tenant(hit.sourceOwner) = Tenant(hit.owner)
                            /\ chunks[hit.chunk] # None
                            /\ chunks[hit.chunk].owner = hit.owner
    BY <1>4, <1>5 DEF tables
  <2>1. call[c].op = "search"
    BY <1>2
  <2>2. CASE hit \in call[c].hits
    BY <2>1, <2>2 DEF IInv, ResultsWithinTenant
  <2>3. CASE hit \in {Hit(k) : k \in found}
    BY <1>3, <2>3
  <2>. QED
    BY <1>4, <2>2, <2>3
<1>8. Kept
  BY <1>5 DEF Kept, tables
<1>9. InFlight' /\ ResultsWithinTenant' /\ CheckedActivationHolds'
  <2>. HIDE DEF new
  <2>. QED
    BY <1>4, <1>5, <1>7, <1>8, OneCall
<1>. QED
  BY <1>6, <1>9 DEF IInv

(* A call that begins with its check done, or ends.                        *)
LEMMA CallStep ==
    ASSUME IInv, UNCHANGED <<backend, schema, tables>>, NEW c \in Clients, NEW new,
           call' = [call EXCEPT ![c] = new],
           \/ new = Idle
           \/ \E p \in Profiles, row \in ProfileRows :
                 /\ new = [op |-> "upsertProfile", id |-> p, row |-> row]
                 /\ backend = "postgres"
           \/ \E owner \in Owners, s \in Spaces, p \in Profiles :
                 /\ new = [op |-> "activate", owner |-> owner, space |-> s, profile |-> p]
                 /\ backend = "postgres" /\ Activatable(owner, s, p)
           \/ \E filter \in Filters, kinds \in {{"dense"}, {"dense", "lexical"}} :
                 new = [op |-> "search", filter |-> filter, todo |-> kinds, hits |-> {}]
    PROVE  IInv'
<1>1. Kept
  BY DEF Kept, tables
<1>2. TypeOK'
  BY DEF IInv, TypeOK, tables
<1>3. CASE new = Idle
  <2>1. new.op = "idle"
    BY <1>3 DEF Idle
  <2>. QED
    BY <1>1, <1>2, <2>1, OneCall DEF IInv
<1>4. ASSUME NEW p \in Profiles, NEW row \in ProfileRows, backend = "postgres",
             new = [op |-> "upsertProfile", id |-> p, row |-> row]
      PROVE  IInv'
  <2>1. new.op = "upsertProfile"
    BY <1>4
  <2>. QED
    BY <1>1, <1>2, <1>4, <2>1, OneCall DEF IInv
<1>5. ASSUME NEW owner \in Owners, NEW s \in Spaces, NEW p \in Profiles, backend = "postgres",
             new = [op |-> "activate", owner |-> owner, space |-> s, profile |-> p],
             Activatable(owner, s, p)
      PROVE  IInv'
  <2>1. new.op = "activate" /\ new.owner = owner /\ new.space = s /\ new.profile = p
    BY <1>5
  <2>2. Activatable(new.owner, new.space, new.profile)'
    BY <1>5, <2>1 DEF Activatable, tables
  <2>. QED
    BY <1>1, <1>2, <1>5, <2>1, <2>2, OneCall DEF IInv
<1>6. ASSUME NEW filter \in Filters, NEW kinds \in {{"dense"}, {"dense", "lexical"}},
             new = [op |-> "search", filter |-> filter, todo |-> kinds, hits |-> {}]
      PROVE  IInv'
  <2>1. new.op = "search" /\ new.hits = {}
    BY <1>6
  <2>. QED
    BY <1>1, <1>2, <2>1, OneCall DEF IInv
<1>. QED
  BY <1>3, <1>4, <1>5, <1>6

LEMMA StepKeepsIInv ==
    ASSUME IInv, [Next]_vars
    PROVE  IInv'
<1>1. CASE UNCHANGED vars
  BY <1>1 DEF vars, tables, IInv, TypeOK, InFlight, ResultsWithinTenant,
              CheckedActivationHolds, Activatable
<1>2. CASE EnsureSchema \/ RunEnsureSchema \/ Close
  <2>1. TypeOK' /\ Kept /\ UNCHANGED <<backend, call>>
    BY <1>2 DEF IInv, TypeOK, Kept, tables, EnsureSchema, RunEnsureSchema, Close
  <2>. QED
    BY <2>1, CallsUndisturbed DEF IInv
<1>3. ASSUME NEW s \in Spaces, NEW row \in SpaceRows, UpsertKnowledgeSpace(s, row)
      PROVE  IInv'
  BY <1>3, SpaceStep, CallsUndisturbed DEF IInv, UpsertKnowledgeSpace
<1>4. ASSUME NEW d \in Sources, NEW row \in SourceRows, UpsertKnowledgeSource(d, row)
      PROVE  IInv'
  BY <1>4, SourceStep, CallsUndisturbed DEF IInv, UpsertKnowledgeSource
<1>5. ASSUME NEW k \in Chunks, NEW row \in ChunkRows, UpsertKnowledgeChunk(k, row)
      PROVE  IInv'
  BY <1>5, ChunkStep, CallsUndisturbed DEF IInv, UpsertKnowledgeChunk
<1>6. ASSUME NEW owner \in Owners, NEW s \in Spaces, NEW from \in Profiles \union {None},
             NEW to \in Profiles, MarkKnowledgeSourcesNeedingReindex(owner, s, from, to)
      PROVE  IInv'
  BY <1>6, MarkStep, SMTT(60), CallsUndisturbed DEF IInv, MarkKnowledgeSourcesNeedingReindex
<1>7. CASE \/ \E d \in Sources : DeleteKnowledgeSource(d)
           \/ Clear
           \/ \E p \in Profiles, row \in ProfileRows : SetProfile(p, row)
           \/ \E owner \in Owners, s \in Spaces, p \in Profiles : ActivateEmbeddingProfile(owner, s, p)
  BY <1>7, MemoryStep, CallsUndisturbed DEF IInv
<1>8. ASSUME NEW c \in Clients, WriteProfile(c)
      PROVE  IInv'
  <2>1. Idle.op = "idle" /\ call' = [call EXCEPT ![c] = Idle] /\ UNCHANGED backend
    BY <1>8 DEF WriteProfile, Return, Idle
  <2>. QED
    BY <1>8, <2>1, WriteProfileStep, OneCall DEF IInv
<1>9. ASSUME NEW c \in Clients, WriteActivation(c)
      PROVE  IInv'
  <2>1. Idle.op = "idle" /\ call' = [call EXCEPT ![c] = Idle] /\ UNCHANGED backend
    BY <1>9 DEF WriteActivation, Return, Idle
  <2>. QED
    BY <1>9, <2>1, WriteActivationStep, OneCall DEF IInv
<1>10. ASSUME NEW c \in Clients, NEW p \in Profiles, NEW row \in ProfileRows, CheckProfile(c, p, row)
       PROVE  IInv'
  BY <1>10, CallStep DEF CheckProfile, Begin
<1>11. ASSUME NEW c \in Clients, NEW owner \in Owners, NEW s \in Spaces, NEW p \in Profiles,
              CheckActivation(c, owner, s, p)
       PROVE  IInv'
  BY <1>11, CallStep DEF CheckActivation, Begin
<1>12. ASSUME NEW c \in Clients, NEW filter \in Filters,
              NEW kinds \in {{"dense"}, {"dense", "lexical"}}, StartSearch(c, filter, kinds)
       PROVE  IInv'
  BY <1>12, CallStep DEF StartSearch, Begin
<1>13. ASSUME NEW c \in Clients, EndCall(c)
       PROVE  IInv'
  BY <1>13, CallStep DEF EndCall, Return
<1>14. ASSUME NEW c \in Clients, NEW kind \in {"dense", "lexical"}, Search(c, kind)
       PROVE  IInv'
  BY <1>14, SearchStep
<1>. QED
  BY <1>1, <1>2, <1>3, <1>4, <1>5, <1>6, <1>7, <1>8, <1>9, <1>10, <1>11, <1>12, <1>13, <1>14
  DEF Next

(* The strengthened invariant of both stores.                              *)
THEOREM Invariance == Spec => []IInv
<1>1. Init => IInv
  BY DEF Init, IInv, TypeOK, InFlight, ResultsWithinTenant, CheckedActivationHolds, Idle
<1>2. IInv /\ [Next]_vars => IInv'
  BY StepKeepsIInv
<1>. QED
  BY <1>1, <1>2, PTL DEF Spec

(* Types, for both stores.                                                 *)
THEOREM TypeCorrect == Spec => []TypeOK
<1>1. IInv => TypeOK
  BY DEF IInv
<1>. QED
  BY <1>1, Invariance, PTL

(* No search shows one tenant another's chunks, and with Postgres what a   *)
(* retriever holds stays the tenant's until it answers.                    *)
THEOREM SearchesIsolated == Spec => []ResultsWithinTenant
<1>1. IInv => ResultsWithinTenant
  BY DEF IInv
<1>. QED
  BY <1>1, Invariance, PTL

(* Between the check of an activation and its UPDATE nothing can happen    *)
(* that makes the check wrong.                                             *)
THEOREM ActivationSafe == Spec => []CheckedActivationHolds
<1>1. IInv => CheckedActivationHolds
  BY DEF IInv
<1>. QED
  BY <1>1, Invariance, PTL

-----------------------------------------------------------------------------
(* What one step does to rows that are there before and after it.          *)
OwnerKept ==
    /\ \A s \in Spaces : {None} \cap {spaces[s], spaces'[s]} = {} => spaces'[s].owner = spaces[s].owner
    /\ \A d \in Sources : {None} \cap {sources[d], sources'[d]} = {} => sources'[d].owner = sources[d].owner
    /\ \A k \in Chunks : {None} \cap {chunks[k], chunks'[k]} = {} => chunks'[k].owner = chunks[k].owner

ProfileKept ==
    \A p \in Profiles : {None} \cap {profiles[p], profiles'[p]} = {} => profiles'[p] = profiles[p]

LEMMA StepKeepsRows ==
    ASSUME IInv, [Next]_vars
    PROVE  OwnerKept /\ ProfileKept
<1>1. ASSUME UNCHANGED tables
      PROVE  OwnerKept /\ ProfileKept
  BY <1>1 DEF tables, OwnerKept, ProfileKept
<1>2. ASSUME NEW s \in Spaces, NEW row \in SpaceRows, UpsertKnowledgeSpace(s, row)
      PROVE  OwnerKept /\ ProfileKept
  BY <1>2 DEF IInv, TypeOK, UpsertKnowledgeSpace, MayReplace, OwnerKept, ProfileKept
<1>3. ASSUME NEW d \in Sources, NEW row \in SourceRows, UpsertKnowledgeSource(d, row)
      PROVE  OwnerKept /\ ProfileKept
  BY <1>3 DEF IInv, TypeOK, UpsertKnowledgeSource, MayReplace, OwnerKept, ProfileKept
<1>4. ASSUME NEW k \in Chunks, NEW row \in ChunkRows, UpsertKnowledgeChunk(k, row)
      PROVE  OwnerKept /\ ProfileKept
  BY <1>4 DEF IInv, TypeOK, UpsertKnowledgeChunk, MayReplace, OwnerKept, ProfileKept
<1>5. ASSUME NEW owner \in Owners, NEW s \in Spaces, NEW from \in Profiles \union {None},
             NEW to \in Profiles, MarkKnowledgeSourcesNeedingReindex(owner, s, from, to)
      PROVE  OwnerKept /\ ProfileKept
  <2>1. \A d \in Sources : sources[d] # None =>
          [sources[d] EXCEPT !.ready = FALSE].owner = sources[d].owner
    BY DEF IInv, TypeOK, SourceRows
  <2>2. \A d \in Sources : sources[d] # None => sources'[d].owner = sources[d].owner
    BY <1>5, <2>1 DEF MarkKnowledgeSourcesNeedingReindex
  <2>. QED
    BY <1>5, <2>2 DEF MarkKnowledgeSourcesNeedingReindex, OwnerKept, ProfileKept
<1>6. CASE \/ \E d \in Sources : DeleteKnowledgeSource(d)
           \/ Clear
           \/ \E p \in Profiles, row \in ProfileRows : SetProfile(p, row)
  BY <1>6 DEF IInv, TypeOK, DeleteKnowledgeSource, Clear, SetProfile, Immutable, OwnerKept, ProfileKept
<1>7. ASSUME NEW owner \in Owners, NEW s \in Spaces, NEW p \in Profiles,
             ActivateEmbeddingProfile(owner, s, p)
      PROVE  OwnerKept /\ ProfileKept
  <2>1. spaces[s] \in SpaceRows
    BY <1>7 DEF IInv, TypeOK, ActivateEmbeddingProfile, Activatable
  <2>2. [spaces[s] EXCEPT !.active = p].owner = spaces[s].owner
    BY <2>1 DEF SpaceRows
  <2>3. \A t \in Spaces : spaces[t] # None => spaces'[t].owner = spaces[t].owner
    BY <1>7, <2>2 DEF IInv, TypeOK, ActivateEmbeddingProfile
  <2>. QED
    BY <1>7, <2>3 DEF ActivateEmbeddingProfile, OwnerKept, ProfileKept
<1>8. ASSUME NEW c \in Clients, WriteProfile(c)
      PROVE  OwnerKept /\ ProfileKept
  BY <1>8, WriteProfileStep DEF Kept, WriteProfile, OwnerKept, ProfileKept
<1>9. ASSUME NEW c \in Clients, WriteActivation(c)
      PROVE  OwnerKept /\ ProfileKept
  BY <1>9, WriteActivationStep DEF Kept, WriteActivation, OwnerKept, ProfileKept
<1>. QED
  BY <1>1, <1>2, <1>3, <1>4, <1>5, <1>6, <1>7, <1>8, <1>9
  DEF Next, vars, EnsureSchema, RunEnsureSchema, Close, CheckProfile, CheckActivation,
      StartSearch, Search, EndCall

(* No upsert moves a space, a source or a chunk to another owner.          *)
THEOREM OwnersKept == Spec => RowsKeepOwner
<1>1. IInv /\ [Next]_vars => [OwnerKept]_vars
  BY StepKeepsRows
<1>2. [OwnerKept]_vars <=>
        [/\ \A s \in Spaces : {None} \cap {spaces[s], spaces'[s]} = {} =>
              spaces'[s].owner = spaces[s].owner
         /\ \A d \in Sources : {None} \cap {sources[d], sources'[d]} = {} =>
              sources'[d].owner = sources[d].owner
         /\ \A k \in Chunks : {None} \cap {chunks[k], chunks'[k]} = {} =>
              chunks'[k].owner = chunks[k].owner]_vars
  BY DEF OwnerKept
<1>. QED
  BY <1>1, <1>2, Invariance, PTL DEF Spec, RowsKeepOwner

(* A profile that exists never changes, although Postgres checks that in   *)
(* one statement and inserts in the next.                                  *)
THEOREM ProfilesKept == Spec => ProfilesFixed
<1>1. IInv /\ [Next]_vars => [ProfileKept]_vars
  BY StepKeepsRows
<1>2. [ProfileKept]_vars <=>
        [\A p \in Profiles : {None} \cap {profiles[p], profiles'[p]} = {} =>
              profiles'[p] = profiles[p]]_vars
  BY DEF ProfileKept
<1>. QED
  BY <1>1, <1>2, Invariance, PTL DEF Spec, ProfilesFixed


(* For both stores and any callers, no tenant sees or takes over what is   *)
(* another's.                                                              *)
THEOREM TenantsKeptApart == Spec => TenantsApart
  BY SearchesIsolated, OwnersKept, PTL DEF TenantsApart

(* An activation is right when it is written, and the profile it makes     *)
(* active never changes.                                                   *)
THEOREM ActivationsCorrect == Spec => ActivationsHold
  BY ActivationSafe, ProfilesKept, PTL DEF ActivationsHold

-----------------------------------------------------------------------------
(* The calls of AlgorithmTrials.                                           *)

(* A trial is one call of its kind.                                        *)
OneTrial ==
    \/ trial = [of |-> "none"]
    \/ \E kind \in TrialKinds : \E asked \in Calls(kind) : trial = [of |-> kind, call |-> asked]

LEMMA TrialsAreCalls == TrialSpec => []OneTrial
<1>1. TrialInit => OneTrial
  BY DEF TrialInit, OneTrial
<1>2. OneTrial /\ [Try]_trial => OneTrial'
  BY DEF OneTrial, Try
<1>. QED
  BY <1>1, <1>2, PTL DEF TrialSpec

LEMMA CallsOf ==
    ASSUME OneTrial
    PROVE  /\ trial.of = "context" => trial.call \in ContextCalls
           /\ trial.of = "scope" => trial.call \in ScopeCalls
           /\ trial.of = "merge" => trial.call \in MergeCalls
           /\ trial.of = "chunks" => trial.call \in ChunkCalls
           /\ trial.of = "snapshot" => trial.call \in SnapshotCalls
           /\ trial.of = "speech" => trial.call \in SpeechCalls
  BY DEF OneTrial, TrialKinds, Calls

LEMMA NumbersAreSet == \A n \in Int : n # NotSet
  BY NotSetAssumption

-----------------------------------------------------------------------------
(* Saved settings.                                                         *)

(* A conversation whose settings have their defaults filled in.            *)
Filled(c) ==
    /\ c = [field \in Saved!Fields |-> c[field]]
    /\ c.maxToolRounds # NotSet /\ c.timeout # NotSet /\ c.toolValidation # NotSet
    /\ c.budgetExceededAction # NotSet

(* The settings a snapshot leaves out when they have their defaults, and    *)
(* the tools, whose handlers it leaves out.                                *)
Reduced == {"maxToolRounds", "timeout", "toolValidation", "tools"}

LEMMA SnapshotFields ==
    ASSUME NEW c, c = [field \in Saved!Fields |-> c[field]]
    PROVE  LET s == Saved!Snapshot(c)
           IN  /\ DOMAIN s = Saved!Fields
               /\ s.maxToolRounds = IF c.maxToolRounds = DefaultRounds THEN NotSet
                                    ELSE c.maxToolRounds
               /\ s.timeout = IF c.timeout = DefaultTimeout THEN NotSet ELSE c.timeout
               /\ s.toolValidation = IF c.toolValidation = "strict" THEN NotSet
                                     ELSE c.toolValidation
               /\ s.tools = Saved!Definitions(c.tools)
               /\ \A field \in Saved!Fields \ Reduced :
                     s[field] = IF field \in Saved!NotSaved THEN NotSet ELSE c[field]
<1>. DEFINE held == Saved!Held(c)
<1>1. /\ held = [field \in Saved!Fields |-> IF field \in Saved!NotSaved THEN NotSet ELSE c[field]]
  BY DEF Saved!Held
<1>. HIDE DEF held
<1>2. /\ Reduced \subseteq Saved!Fields
      /\ \A field \in Reduced : field \notin Saved!NotSaved
  BY DEF Reduced, Saved!Fields, Saved!Settings, Saved!NotSaved, Saved!Runtime
<1>3. /\ held.maxToolRounds = c.maxToolRounds /\ held.timeout = c.timeout
      /\ held.toolValidation = c.toolValidation /\ held.tools = c.tools
  BY <1>1, <1>2 DEF Reduced
<1>4. PICK s : s = Saved!Snapshot(c)
  OBVIOUS
<1>5. s = [held EXCEPT !.maxToolRounds = IF @ = DefaultRounds THEN NotSet ELSE @,
                       !.timeout = IF @ = DefaultTimeout THEN NotSet ELSE @,
                       !.toolValidation = IF @ = "strict" THEN NotSet ELSE @,
                       !.tools = Saved!Definitions(@)]
  BY <1>4 DEF Saved!Snapshot, held
<1>6. /\ DOMAIN s = Saved!Fields
      /\ \A field \in Saved!Fields \ Reduced : s[field] = held[field]
  BY <1>1, <1>5 DEF Reduced
<1>7. /\ s.maxToolRounds = IF held.maxToolRounds = DefaultRounds THEN NotSet
                           ELSE held.maxToolRounds
      /\ s.timeout = IF held.timeout = DefaultTimeout THEN NotSet ELSE held.timeout
      /\ s.toolValidation = IF held.toolValidation = "strict" THEN NotSet
                            ELSE held.toolValidation
      /\ s.tools = Saved!Definitions(held.tools)
  BY <1>1, <1>2, <1>5 DEF Reduced
<1>. QED
  BY <1>1, <1>3, <1>4, <1>6, <1>7

(* What the constructor changes of the options it is given.                *)
Defaulted == {"maxToolRounds", "timeout", "toolValidation", "budgetExceededAction",
              "createdAt", "updatedAt"}

LEMMA ConstructedFields ==
    ASSUME NEW o, DOMAIN o = Saved!Fields, NEW now
    PROVE  LET d == Saved!Constructed(o, now)
           IN  /\ d = [field \in Saved!Fields |-> d[field]]
               /\ d.maxToolRounds = Saved!Rounds(o.maxToolRounds)
               /\ d.timeout = Saved!Timeout(o.timeout)
               /\ d.toolValidation = IF o.toolValidation = NotSet THEN "strict"
                                     ELSE o.toolValidation
               /\ d.budgetExceededAction = IF o.budgetExceededAction = NotSet THEN "throw"
                                           ELSE o.budgetExceededAction
               /\ d.createdAt = now /\ d.updatedAt = now
               /\ \A field \in Saved!Fields \ Defaulted : d[field] = o[field]
<1>1. Defaulted \subseteq Saved!Fields
  BY DEF Defaulted, Saved!Fields, Saved!Settings, Saved!NotSaved, Saved!Runtime
<1>2. PICK d : d = Saved!Constructed(o, now)
  OBVIOUS
<1>3. d = [o EXCEPT !.maxToolRounds = Saved!Rounds(@), !.timeout = Saved!Timeout(@),
                    !.toolValidation = IF @ = NotSet THEN "strict" ELSE @,
                    !.budgetExceededAction = IF @ = NotSet THEN "throw" ELSE @,
                    !.createdAt = now, !.updatedAt = now]
  BY <1>2 DEF Saved!Constructed
<1>4. /\ d = [field \in Saved!Fields |-> d[field]]
      /\ \A field \in Saved!Fields \ Defaulted : d[field] = o[field]
  BY <1>3 DEF Defaulted
<1>5. /\ d.maxToolRounds = Saved!Rounds(o.maxToolRounds)
      /\ d.timeout = Saved!Timeout(o.timeout)
      /\ d.toolValidation = IF o.toolValidation = NotSet THEN "strict" ELSE o.toolValidation
      /\ d.budgetExceededAction = IF o.budgetExceededAction = NotSet THEN "throw"
                                  ELSE o.budgetExceededAction
      /\ d.createdAt = now /\ d.updatedAt = now
  BY <1>1, <1>3 DEF Defaulted
<1>. QED
  BY <1>2, <1>4, <1>5

LEMMA RestoreUndoesSnapshot ==
    ASSUME NEW c, Filled(c), NEW given, DOMAIN given = Saved!Fields
    PROVE  Saved!Restored(given, Saved!Snapshot(c)) = Expected(c, given)
<1>1. PICK s : s = Saved!Snapshot(c)
  OBVIOUS
<1>2. PICK chosen : chosen = Saved!Chosen(given, s)
  OBVIOUS
<1>3. PICK d : d = Saved!Constructed(chosen, 0)
  OBVIOUS
<1>4. PICK again : again = Saved!Restored(given, s)
  OBVIOUS
<1>5. PICK wanted : wanted = Expected(c, given)
  OBVIOUS
<1>6. /\ DOMAIN s = Saved!Fields
      /\ s.maxToolRounds = IF c.maxToolRounds = DefaultRounds THEN NotSet ELSE c.maxToolRounds
      /\ s.timeout = IF c.timeout = DefaultTimeout THEN NotSet ELSE c.timeout
      /\ s.toolValidation = IF c.toolValidation = "strict" THEN NotSet ELSE c.toolValidation
      /\ s.tools = Saved!Definitions(c.tools)
      /\ \A field \in Saved!Fields \ Reduced :
            s[field] = IF field \in Saved!NotSaved THEN NotSet ELSE c[field]
  BY <1>1, SnapshotFields DEF Filled
<1>7. /\ DOMAIN chosen = Saved!Fields
      /\ \A field \in Saved!Fields :
            chosen[field] = IF field \in Saved!Settings \union Saved!Runtime
                               /\ given[field] # NotSet
                            THEN given[field] ELSE s[field]
  BY <1>2, <1>6 DEF Saved!Chosen
<1>8. /\ d = [field \in Saved!Fields |-> d[field]]
      /\ d.maxToolRounds = Saved!Rounds(chosen.maxToolRounds)
      /\ d.timeout = Saved!Timeout(chosen.timeout)
      /\ d.toolValidation = IF chosen.toolValidation = NotSet THEN "strict"
                            ELSE chosen.toolValidation
      /\ d.budgetExceededAction = IF chosen.budgetExceededAction = NotSet THEN "throw"
                                  ELSE chosen.budgetExceededAction
      /\ \A field \in Saved!Fields \ Defaulted : d[field] = chosen[field]
  BY <1>3, <1>7, ConstructedFields
<1>9. again = [d EXCEPT !.createdAt = s.createdAt, !.updatedAt = s.updatedAt]
  BY <1>2, <1>3, <1>4 DEF Saved!Restored
<1>10. /\ Defaulted \subseteq Saved!Fields /\ Reduced \subseteq Saved!Fields
       /\ {"createdAt", "updatedAt"} \intersect (Saved!Settings \union Saved!NotSaved) = {}
       /\ Saved!NotSaved = Saved!Runtime \union {"onCompaction"}
       /\ "onCompaction" \notin Saved!Settings \union Saved!Runtime
       /\ "onCompaction" \in Saved!Fields
       /\ Saved!Settings \union Saved!Runtime \subseteq Saved!Fields
       /\ Saved!Settings \intersect Saved!NotSaved = {}
       /\ {"maxToolRounds", "timeout", "toolValidation", "tools"} \subseteq Saved!Settings
       /\ "budgetExceededAction" \in Saved!Runtime
  BY DEF Defaulted, Reduced, Saved!Fields, Saved!Settings, Saved!NotSaved, Saved!Runtime
<1>11. /\ again = [field \in Saved!Fields |-> again[field]]
       /\ again.createdAt = s.createdAt /\ again.updatedAt = s.updatedAt
       /\ \A field \in Saved!Fields \ {"createdAt", "updatedAt"} : again[field] = d[field]
  BY <1>8, <1>9, <1>10 DEF Defaulted
<1>12. /\ wanted = [field \in Saved!Fields |-> wanted[field]]
       /\ \A field \in Saved!Fields :
            wanted[field] =
              IF field \in Saved!Settings \union Saved!Runtime /\ given[field] # NotSet
              THEN given[field]
              ELSE IF field = "budgetExceededAction" THEN "throw"
              ELSE IF field \in Saved!NotSaved THEN NotSet
              ELSE IF field = "tools" THEN Saved!Definitions(c.tools)
              ELSE c[field]
  <2>1. DOMAIN c = Saved!Fields
    BY DEF Filled
  <2>. QED
    BY <1>5, <1>10, <2>1 DEF Expected
<1>13. \A field \in Saved!Fields : again[field] = wanted[field]
  <2>. SUFFICES ASSUME NEW field \in Saved!Fields
                PROVE  again[field] = wanted[field]
    OBVIOUS
  <2>1. CASE field \in {"createdAt", "updatedAt"}
    BY <1>6, <1>10, <1>11, <1>12, <2>1 DEF Reduced
  <2>2. CASE field \in {"maxToolRounds", "timeout", "toolValidation"}
    <3>1. again[field] = d[field]
      BY <1>11, <2>2
    <3>2. wanted[field] = IF given[field] # NotSet THEN given[field] ELSE c[field]
      BY <1>10, <1>12, <2>2
    <3>3. chosen[field] = IF given[field] # NotSet THEN given[field] ELSE s[field]
      BY <1>7, <1>10, <2>2
    <3>4. d[field] = IF given[field] # NotSet THEN given[field] ELSE c[field]
      BY <1>6, <1>8, <2>2, <3>3, NotSetAssumption DEF Filled, Saved!Rounds, Saved!Timeout
    <3>. QED
      BY <3>1, <3>2, <3>4
  <2>3. CASE field = "budgetExceededAction"
    <3>1. s[field] = NotSet
      BY <1>6, <1>10, <2>3 DEF Reduced
    <3>. QED
      BY <1>7, <1>8, <1>10, <1>11, <1>12, <2>3, <3>1, NotSetAssumption
  <2>4. CASE field = "tools"
    BY <1>6, <1>7, <1>8, <1>10, <1>11, <1>12, <2>4 DEF Defaulted
  <2>5. CASE field \notin Defaulted /\ field # "tools"
    <3>1. field \notin Reduced /\ field \notin {"createdAt", "updatedAt"}
      BY <2>5 DEF Reduced, Defaulted
    <3>2. field # "budgetExceededAction"
      BY <2>5 DEF Defaulted
    <3>. QED
      BY <1>6, <1>7, <1>8, <1>11, <1>12, <2>5, <3>1, <3>2
  <2>. QED
    BY <2>1, <2>2, <2>3, <2>4, <2>5 DEF Defaulted
<1>14. again = wanted
  BY <1>11, <1>12, <1>13
<1>. QED
  BY <1>1, <1>4, <1>5, <1>14

(* What has to hold of the settings a save is to be read back with.        *)
Savable(c) ==
    /\ Filled(c)
    /\ c.updatedAt >= c.createdAt
    /\ c.sessionId # "" /\ c.sessionId \notin ControlNames
    /\ c.provider = NotSet \/ c.provider \in KnownProviders
    /\ c.totalTokens >= 0 /\ c.totalCostUSD >= 0 /\ c.version >= 0
    /\ c.budgetUsd = NotSet \/ c.budgetUsd >= 0
    /\ c.maxTokens = NotSet \/ (c.maxTokens >= 0 /\ Saved!Whole(c.maxTokens))
    /\ c.maxContextTokens = NotSet
          \/ (c.maxContextTokens >= 0 /\ Saved!Whole(c.maxContextTokens))
    /\ c.maxToolRounds \in 0..MaxRounds /\ Saved!Whole(c.maxToolRounds)
    /\ c.timeout >= 2 /\ c.timeout <= MaxTimeout
    /\ c.providerOptions = NotSet \/ Saved!ProviderOptionsAccepted(c.providerOptions)
    /\ c.responseFormat = NotSet \/ Saved!FormatAccepted(c.responseFormat)
    /\ c.toolChoice = NotSet \/ Saved!ChoiceAccepted(c.toolChoice)
    /\ c.toolValidation \in {"permissive", "strict"}
    /\ c.tools = NotSet \/ Saved!Distinct(c.tools)

(* The tools without their handlers have the names they had.               *)
LEMMA DefinitionsDistinct ==
    ASSUME NEW tools, tools = NotSet \/ Saved!Distinct(tools)
    PROVE  LET left == Saved!Definitions(tools)
           IN  left = NotSet
               \/ (Saved!Distinct(left) /\ \A i \in DOMAIN left : ~left[i].execute)
<1>1. CASE tools = NotSet
  BY <1>1 DEF Saved!Definitions
<1>2. CASE tools # NotSet
  <2>1. PICK left : left = Saved!Definitions(tools)
    OBVIOUS
  <2>2. left = [i \in DOMAIN tools |-> [name |-> tools[i].name, execute |-> FALSE]]
    BY <1>2, <2>1 DEF Saved!Definitions
  <2>. QED
    BY <1>2, <2>1, <2>2 DEF Saved!Distinct
<1>. QED
  BY <1>1, <1>2

LEMMA SavableIsAccepted ==
    ASSUME NEW c, Savable(c)
    PROVE  Saved!Accepted(Saved!Snapshot(c))
<1>1. PICK s : s = Saved!Snapshot(c)
  OBVIOUS
<1>2. /\ s.maxToolRounds = IF c.maxToolRounds = DefaultRounds THEN NotSet ELSE c.maxToolRounds
      /\ s.timeout = IF c.timeout = DefaultTimeout THEN NotSet ELSE c.timeout
      /\ s.toolValidation = IF c.toolValidation = "strict" THEN NotSet ELSE c.toolValidation
      /\ s.tools = Saved!Definitions(c.tools)
      /\ \A field \in Saved!Fields \ Reduced :
            s[field] = IF field \in Saved!NotSaved THEN NotSet ELSE c[field]
  BY <1>1, SnapshotFields DEF Savable, Filled
<1>3. {"updatedAt", "createdAt", "sessionId", "provider", "totalTokens", "totalCostUSD",
       "version", "budgetUsd", "maxContextTokens", "maxTokens", "providerOptions",
       "responseFormat", "toolChoice"} \subseteq (Saved!Fields \ Reduced) \ Saved!NotSaved
  BY DEF Saved!Fields, Saved!Settings, Saved!NotSaved, Saved!Runtime, Reduced
<1>4. /\ s.updatedAt = c.updatedAt /\ s.createdAt = c.createdAt
      /\ s.sessionId = c.sessionId /\ s.provider = c.provider
      /\ s.totalTokens = c.totalTokens /\ s.totalCostUSD = c.totalCostUSD
      /\ s.version = c.version /\ s.budgetUsd = c.budgetUsd
      /\ s.maxContextTokens = c.maxContextTokens /\ s.maxTokens = c.maxTokens
      /\ s.providerOptions = c.providerOptions /\ s.responseFormat = c.responseFormat
      /\ s.toolChoice = c.toolChoice
  BY <1>2, <1>3
<1>5. Saved!Optional(s.maxTokens, s.maxTokens >= 0 /\ Saved!Whole(s.maxTokens))
      /\ Saved!Optional(s.maxContextTokens,
                        s.maxContextTokens >= 0 /\ Saved!Whole(s.maxContextTokens))
  BY <1>4 DEF Savable, Saved!Optional
<1>6. Saved!Optional(s.maxToolRounds,
                     s.maxToolRounds \in 0..MaxRounds /\ Saved!Whole(s.maxToolRounds))
  BY <1>2 DEF Savable, Saved!Optional
<1>7. Saved!Optional(s.timeout, s.timeout >= 2 /\ s.timeout <= MaxTimeout)
      /\ Saved!Optional(s.toolValidation, s.toolValidation \in {"permissive", "strict"})
  BY <1>2 DEF Savable, Saved!Optional
<1>8. /\ Saved!Optional(s.providerOptions, Saved!ProviderOptionsAccepted(s.providerOptions))
      /\ Saved!Optional(s.responseFormat, Saved!FormatAccepted(s.responseFormat))
      /\ Saved!Optional(s.toolChoice, Saved!ChoiceAccepted(s.toolChoice))
      /\ Saved!Optional(s.provider, s.provider \in KnownProviders)
      /\ Saved!Optional(s.budgetUsd, s.budgetUsd >= 0)
  BY <1>4 DEF Savable, Saved!Optional
<1>9. Saved!Optional(s.tools, Saved!Distinct(s.tools)
                              /\ \A i \in DOMAIN s.tools : ~s.tools[i].execute)
  BY <1>2, DefinitionsDistinct DEF Savable, Saved!Optional
<1>10. Saved!Accepted(s)
  BY <1>4, <1>5, <1>6, <1>7, <1>8, <1>9 DEF Savable, Saved!Accepted
<1>. QED
  BY <1>1, <1>10

(* The conversation a caller's options and one turn make.                  *)
SavedBy(one) ==
    Saved!Committed(Saved!Constructed(one.options, one.created), one.tokens, one.cost, one.updated)

(* What options that are typed and proper say of the conversation that     *)
(* takes its settings from them.                                           *)
LEMMA ProperSettings ==
    ASSUME NEW o, SettingsTyped(o), Proper(o)
    PROVE  /\ Saved!Rounds(o.maxToolRounds) \in 0..MaxRounds
           /\ Saved!Whole(Saved!Rounds(o.maxToolRounds))
           /\ Saved!Timeout(o.timeout) >= 2 /\ Saved!Timeout(o.timeout) <= MaxTimeout
           /\ Saved!Timeout(o.timeout) # NotSet
           /\ o.toolValidation \in {"permissive", "strict", NotSet}
           /\ o.budgetUsd = NotSet \/ o.budgetUsd >= 0
           /\ o.maxTokens = NotSet \/ (o.maxTokens >= 0 /\ Saved!Whole(o.maxTokens))
           /\ o.maxContextTokens = NotSet
                \/ (o.maxContextTokens >= 0 /\ Saved!Whole(o.maxContextTokens))
           /\ o.provider = NotSet \/ o.provider \in KnownProviders
           /\ o.providerOptions = NotSet \/ Saved!ProviderOptionsAccepted(o.providerOptions)
           /\ o.responseFormat = NotSet \/ Saved!FormatAccepted(o.responseFormat)
           /\ o.toolChoice = NotSet \/ Saved!ChoiceAccepted(o.toolChoice)
           /\ o.tools = NotSet \/ Saved!Distinct(o.tools)
<1>1. DefaultTimeout \in 2..MaxTimeout /\ MaxTimeout \in Nat
  BY SnapshotAssumption
<1>2. Saved!Timeout(o.timeout) >= 2 /\ Saved!Timeout(o.timeout) <= MaxTimeout
  BY <1>1 DEF Proper, Saved!Constructible, Saved!Timeout, Saved!Optional
<1>3. Saved!Timeout(o.timeout) # NotSet
  <2>1. DefaultTimeout \in Int
    BY <1>1
  <2>2. DefaultTimeout # NotSet
    BY <2>1, NumbersAreSet
  <2>. QED
    BY <2>2 DEF Saved!Timeout
<1>4. /\ Saved!Rounds(o.maxToolRounds) \in 0..MaxRounds
      /\ Saved!Whole(Saved!Rounds(o.maxToolRounds))
      /\ o.budgetUsd = NotSet \/ o.budgetUsd >= 0
      /\ o.tools = NotSet \/ Saved!Distinct(o.tools)
  BY DEF Proper, Saved!Constructible, Saved!Optional
<1>5. /\ o.maxTokens = NotSet \/ (o.maxTokens >= 0 /\ Saved!Whole(o.maxTokens))
      /\ o.maxContextTokens = NotSet
           \/ (o.maxContextTokens >= 0 /\ Saved!Whole(o.maxContextTokens))
  BY DEF Proper, Saved!Optional
<1>6. /\ o.toolValidation \in {"permissive", "strict", NotSet}
      /\ o.provider = NotSet \/ o.provider \in KnownProviders
      /\ o.providerOptions = NotSet \/ Saved!ProviderOptionsAccepted(o.providerOptions)
      /\ o.responseFormat = NotSet \/ Saved!FormatAccepted(o.responseFormat)
      /\ o.toolChoice = NotSet \/ Saved!ChoiceAccepted(o.toolChoice)
  BY DEF SettingsTyped
<1>. QED
  BY <1>2, <1>3, <1>4, <1>5, <1>6

LEMMA ProperIsSavable ==
    ASSUME NEW one \in SnapshotCalls, Proper(one.options)
    PROVE  Savable(SavedBy(one))
<1>1. PICK o : o = one.options
  OBVIOUS
<1>2. SettingsTyped(o) /\ Proper(o) /\ one.tokens \in Nat /\ one.cost \in Nat
      /\ one.created \in Nat /\ one.updated \in Nat /\ one.created <= one.updated
  BY <1>1, SnapshotAssumption
<1>3. DOMAIN o = Saved!Fields
  BY <1>2 DEF SettingsTyped
<1>4. PICK d : d = Saved!Constructed(o, one.created)
  OBVIOUS
<1>5. /\ d = [field \in Saved!Fields |-> d[field]]
      /\ d.maxToolRounds = Saved!Rounds(o.maxToolRounds)
      /\ d.timeout = Saved!Timeout(o.timeout)
      /\ d.toolValidation = IF o.toolValidation = NotSet THEN "strict" ELSE o.toolValidation
      /\ d.budgetExceededAction = IF o.budgetExceededAction = NotSet THEN "throw"
                                  ELSE o.budgetExceededAction
      /\ d.createdAt = one.created
      /\ \A field \in Saved!Fields \ Defaulted : d[field] = o[field]
  BY <1>3, <1>4, ConstructedFields
<1>6. PICK c : c = SavedBy(one)
  OBVIOUS
<1>7. c = [d EXCEPT !.totalTokens = @ + one.tokens, !.totalCostUSD = @ + one.cost,
                    !.updatedAt = one.updated, !.version = @ + 1]
  BY <1>1, <1>4, <1>6 DEF SavedBy, Saved!Committed
<1>8. /\ {"updatedAt", "totalTokens", "totalCostUSD", "version"} \subseteq Saved!Fields
      /\ {"totalTokens", "totalCostUSD", "version", "sessionId", "provider", "budgetUsd",
          "maxContextTokens", "maxTokens", "providerOptions", "responseFormat", "toolChoice",
          "tools"} \subseteq Saved!Fields \ Defaulted
      /\ Defaulted \subseteq Saved!Fields
  BY DEF Saved!Fields, Saved!Settings, Saved!NotSaved, Saved!Runtime, Defaulted
<1>9. /\ c = [field \in Saved!Fields |-> c[field]]
      /\ c.updatedAt = one.updated
      /\ c.totalTokens = d.totalTokens + one.tokens
      /\ c.totalCostUSD = d.totalCostUSD + one.cost
      /\ c.version = d.version + 1
      /\ \A field \in Saved!Fields \ {"updatedAt", "totalTokens", "totalCostUSD", "version"} :
            c[field] = d[field]
  BY <1>5, <1>7, <1>8
<1>10. /\ c.maxToolRounds = Saved!Rounds(o.maxToolRounds)
       /\ c.timeout = Saved!Timeout(o.timeout)
       /\ c.toolValidation = IF o.toolValidation = NotSet THEN "strict" ELSE o.toolValidation
       /\ c.budgetExceededAction = IF o.budgetExceededAction = NotSet THEN "throw"
                                   ELSE o.budgetExceededAction
       /\ c.createdAt = one.created
  BY <1>5, <1>8, <1>9 DEF Defaulted
<1>11. /\ c.totalTokens = o.totalTokens + one.tokens
       /\ c.totalCostUSD = o.totalCostUSD + one.cost
       /\ c.version = o.version + 1
       /\ c.sessionId = o.sessionId /\ c.provider = o.provider /\ c.budgetUsd = o.budgetUsd
       /\ c.maxContextTokens = o.maxContextTokens /\ c.maxTokens = o.maxTokens
       /\ c.providerOptions = o.providerOptions /\ c.responseFormat = o.responseFormat
       /\ c.toolChoice = o.toolChoice /\ c.tools = o.tools
  BY <1>5, <1>8, <1>9
<1>12. c.totalTokens >= 0 /\ c.totalCostUSD >= 0 /\ c.version >= 0
  <2>1. o.totalTokens \in Nat /\ o.totalCostUSD \in Nat /\ o.version \in Nat
    BY <1>2 DEF SettingsTyped
  <2>. QED
    BY <1>2, <1>11, <2>1
<1>13. c.sessionId # "" /\ c.sessionId \notin ControlNames
  BY <1>2, <1>11 DEF SettingsTyped
<1>14. /\ c.maxToolRounds \in 0..MaxRounds /\ Saved!Whole(c.maxToolRounds)
       /\ c.timeout >= 2 /\ c.timeout <= MaxTimeout /\ c.timeout # NotSet
       /\ c.toolValidation \in {"permissive", "strict"}
       /\ c.budgetUsd = NotSet \/ c.budgetUsd >= 0
       /\ c.maxTokens = NotSet \/ (c.maxTokens >= 0 /\ Saved!Whole(c.maxTokens))
       /\ c.maxContextTokens = NotSet
            \/ (c.maxContextTokens >= 0 /\ Saved!Whole(c.maxContextTokens))
       /\ c.provider = NotSet \/ c.provider \in KnownProviders
       /\ c.providerOptions = NotSet \/ Saved!ProviderOptionsAccepted(c.providerOptions)
       /\ c.responseFormat = NotSet \/ Saved!FormatAccepted(c.responseFormat)
       /\ c.toolChoice = NotSet \/ Saved!ChoiceAccepted(c.toolChoice)
       /\ c.tools = NotSet \/ Saved!Distinct(c.tools)
  BY <1>2, <1>10, <1>11, ProperSettings
<1>15. c.maxToolRounds # NotSet /\ c.toolValidation # NotSet /\ c.budgetExceededAction # NotSet
  <2>1. c.maxToolRounds \in Int
    BY <1>14, SnapshotAssumption
  <2>2. c.maxToolRounds # NotSet
    BY <2>1, NumbersAreSet
  <2>. QED
    BY <1>10, <1>14, <2>2, NotSetAssumption
<1>16. Filled(c)
  BY <1>9, <1>14, <1>15 DEF Filled
<1>17. c.updatedAt >= c.createdAt
  BY <1>2, <1>9, <1>10
<1>. QED
  BY <1>6, <1>12, <1>13, <1>14, <1>16, <1>17 DEF Savable

(* What comes back to proper options can be saved again.                   *)
LEMMA ExpectedIsSavable ==
    ASSUME NEW c, Savable(c), NEW given, SettingsTyped(given), Proper(given)
    PROVE  Savable(Expected(c, given))
<1>1. PICK again : again = Expected(c, given)
  OBVIOUS
<1>2. DOMAIN c = Saved!Fields
  BY DEF Savable, Filled
<1>3. /\ again = [field \in Saved!Fields |-> again[field]]
      /\ \A field \in Saved!Fields :
            again[field] =
              IF field \in Saved!Settings \union Saved!Runtime /\ given[field] # NotSet
              THEN given[field]
              ELSE IF field = "budgetExceededAction" THEN "throw"
              ELSE IF field \in Saved!NotSaved THEN NotSet
              ELSE IF field = "tools" THEN Saved!Definitions(c.tools)
              ELSE c[field]
  <2>1. "tools" \notin Saved!NotSaved
    BY DEF Saved!NotSaved, Saved!Runtime
  <2>. QED
    BY <1>1, <1>2, <2>1 DEF Expected
<1>4. /\ {"updatedAt", "createdAt", "sessionId", "totalTokens", "totalCostUSD", "version"}
           \subseteq Saved!Fields \ ((Saved!Settings \union Saved!Runtime) \union Saved!NotSaved)
      /\ {"provider", "budgetUsd", "maxContextTokens", "maxTokens", "providerOptions",
          "responseFormat", "toolChoice", "maxToolRounds", "timeout", "toolValidation", "tools"}
           \subseteq Saved!Settings \ Saved!NotSaved
      /\ Saved!Settings \subseteq Saved!Fields
      /\ "budgetExceededAction" \in Saved!Runtime /\ Saved!Runtime \subseteq Saved!Fields
  BY DEF Saved!Fields, Saved!Settings, Saved!NotSaved, Saved!Runtime
<1>5. \A field \in {"updatedAt", "createdAt", "sessionId", "totalTokens", "totalCostUSD",
                    "version"} : again[field] = c[field]
  <2>. SUFFICES ASSUME NEW field \in {"updatedAt", "createdAt", "sessionId", "totalTokens",
                                      "totalCostUSD", "version"}
                PROVE  again[field] = c[field]
    OBVIOUS
  <2>1. field # "budgetExceededAction" /\ field # "tools"
    OBVIOUS
  <2>. QED
    BY <1>3, <1>4, <2>1
<1>6. \A field \in {"provider", "budgetUsd", "maxContextTokens", "maxTokens",
                    "providerOptions", "responseFormat", "toolChoice", "maxToolRounds",
                    "timeout", "toolValidation"} :
        again[field] = IF given[field] # NotSet THEN given[field] ELSE c[field]
  <2>. SUFFICES ASSUME NEW field \in {"provider", "budgetUsd", "maxContextTokens", "maxTokens",
                    "providerOptions", "responseFormat", "toolChoice", "maxToolRounds",
                    "timeout", "toolValidation"}
                PROVE  again[field] = IF given[field] # NotSet THEN given[field] ELSE c[field]
    OBVIOUS
  <2>1. field # "budgetExceededAction" /\ field # "tools"
    OBVIOUS
  <2>. QED
    BY <1>3, <1>4, <2>1
<1>7. again.tools = IF given.tools # NotSet THEN given.tools ELSE Saved!Definitions(c.tools)
  BY <1>3, <1>4
<1>8. again.budgetExceededAction # NotSet
  BY <1>3, <1>4, NotSetAssumption
<1>9. /\ again.updatedAt = c.updatedAt /\ again.createdAt = c.createdAt
      /\ again.sessionId = c.sessionId /\ again.totalTokens = c.totalTokens
      /\ again.totalCostUSD = c.totalCostUSD /\ again.version = c.version
  BY <1>5
<1>10. /\ again.provider = IF given.provider # NotSet THEN given.provider ELSE c.provider
       /\ again.budgetUsd = IF given.budgetUsd # NotSet THEN given.budgetUsd ELSE c.budgetUsd
       /\ again.maxContextTokens = IF given.maxContextTokens # NotSet
                                   THEN given.maxContextTokens ELSE c.maxContextTokens
       /\ again.maxTokens = IF given.maxTokens # NotSet THEN given.maxTokens ELSE c.maxTokens
       /\ again.providerOptions = IF given.providerOptions # NotSet THEN given.providerOptions
                                  ELSE c.providerOptions
       /\ again.responseFormat = IF given.responseFormat # NotSet THEN given.responseFormat
                                 ELSE c.responseFormat
       /\ again.toolChoice = IF given.toolChoice # NotSet THEN given.toolChoice
                             ELSE c.toolChoice
       /\ again.maxToolRounds = IF given.maxToolRounds # NotSet THEN given.maxToolRounds
                                ELSE c.maxToolRounds
       /\ again.timeout = IF given.timeout # NotSet THEN given.timeout ELSE c.timeout
       /\ again.toolValidation = IF given.toolValidation # NotSet THEN given.toolValidation
                                 ELSE c.toolValidation
  BY <1>6
<1>11. /\ again.maxToolRounds \in 0..MaxRounds /\ Saved!Whole(again.maxToolRounds)
       /\ again.timeout >= 2 /\ again.timeout <= MaxTimeout
  BY <1>10, ProperSettings DEF Savable, Saved!Rounds, Saved!Timeout
<1>12. /\ again.toolValidation \in {"permissive", "strict"}
       /\ again.budgetUsd = NotSet \/ again.budgetUsd >= 0
       /\ again.maxTokens = NotSet \/ (again.maxTokens >= 0 /\ Saved!Whole(again.maxTokens))
       /\ again.maxContextTokens = NotSet
            \/ (again.maxContextTokens >= 0 /\ Saved!Whole(again.maxContextTokens))
       /\ again.provider = NotSet \/ again.provider \in KnownProviders
  BY <1>10, ProperSettings DEF Savable
<1>13. /\ again.providerOptions = NotSet
            \/ Saved!ProviderOptionsAccepted(again.providerOptions)
       /\ again.responseFormat = NotSet \/ Saved!FormatAccepted(again.responseFormat)
       /\ again.toolChoice = NotSet \/ Saved!ChoiceAccepted(again.toolChoice)
  BY <1>10, ProperSettings DEF Savable
<1>14. again.tools = NotSet \/ Saved!Distinct(again.tools)
  BY <1>7, ProperSettings, DefinitionsDistinct DEF Savable
<1>15. Filled(again)
  <2>1. again.maxToolRounds # NotSet /\ again.timeout # NotSet /\ again.toolValidation # NotSet
    BY <1>10 DEF Savable, Filled
  <2>. QED
    BY <1>3, <1>8, <2>1 DEF Filled
<1>16. /\ again.updatedAt >= again.createdAt
       /\ again.sessionId # "" /\ again.sessionId \notin ControlNames
       /\ again.totalTokens >= 0 /\ again.totalCostUSD >= 0 /\ again.version >= 0
  BY <1>9 DEF Savable
<1>. QED
  BY <1>1, <1>11, <1>12, <1>13, <1>14, <1>15, <1>16 DEF Savable

LEMMA OneRoundTrip ==
    ASSUME NEW one \in SnapshotCalls, Proper(one.options), Proper(one.given)
    PROVE  LET saved == SavedBy(one)
               again == Saved!Restored(one.given, Saved!Snapshot(saved))
           IN  /\ Saved!Accepted(Saved!Snapshot(saved))
               /\ again = Expected(saved, one.given)
               /\ Saved!Accepted(Saved!Snapshot(again))
               /\ Saved!Restored(NoOptions, Saved!Snapshot(again)) = Expected(again, NoOptions)
<1>1. PICK saved : saved = SavedBy(one)
  OBVIOUS
<1>2. Savable(saved) /\ Filled(saved)
  BY <1>1, ProperIsSavable DEF Savable
<1>3. SettingsTyped(one.given) /\ DOMAIN one.given = Saved!Fields
  BY SnapshotAssumption DEF SettingsTyped
<1>4. PICK again : again = Saved!Restored(one.given, Saved!Snapshot(saved))
  OBVIOUS
<1>5. again = Expected(saved, one.given)
  BY <1>2, <1>3, <1>4, RestoreUndoesSnapshot
<1>6. Savable(again) /\ Filled(again)
  BY <1>2, <1>3, <1>5, ExpectedIsSavable DEF Savable
<1>7. Saved!Restored(NoOptions, Saved!Snapshot(again)) = Expected(again, NoOptions)
  <2>1. DOMAIN NoOptions = Saved!Fields
    BY DEF NoOptions
  <2>. QED
    BY <1>6, <2>1, RestoreUndoesSnapshot
<1>8. Saved!Accepted(Saved!Snapshot(saved)) /\ Saved!Accepted(Saved!Snapshot(again))
  BY <1>2, <1>6, SavableIsAccepted
<1>. QED
  BY <1>1, <1>4, <1>5, <1>7, <1>8

(* What is saved of a conversation is read back after any turn, and again  *)
(* after it was changed by options: each setting a snapshot holds is there *)
(* as it was or as it was given, tools without the handlers that were not  *)
(* given again, and what no snapshot holds as it was given or by default.  *)
THEOREM SettingsSurvive == TrialSpec => []SnapshotRoundTrip
<1>1. OneTrial => SnapshotRoundTrip
  <2>. SUFFICES ASSUME OneTrial, trial.of = "snapshot", Proper(trial.call.options),
                       Proper(trial.call.given)
                PROVE  SnapshotRoundTrip
    BY DEF SnapshotRoundTrip
  <2>1. trial.call \in SnapshotCalls
    BY CallsOf
  <2>. QED
    BY <2>1, OneRoundTrip DEF SnapshotRoundTrip, SavedBy
<1>. QED
  BY <1>1, TrialsAreCalls, PTL

-----------------------------------------------------------------------------
(* The costs of speech.                                                    *)

Quantities(f) == \A unit \in DOMAIN f : f[unit] \in Nat
Amount(prices, measured, unit) ==
    IF unit \in Speech!SpeechLines(prices, measured) THEN prices[unit] * measured[unit] ELSE 0
Fee(prices, measured) ==
    IF "request" \in Speech!SpeechLines(prices, measured) THEN prices["request"] ELSE 0

LEMMA CostIsSum ==
    ASSUME NEW prices, NEW measured
    PROVE  Speech!SpeechCost(prices, measured) =
             IF Speech!SpeechLines(prices, measured) = {} THEN NotSet
             ELSE Amount(prices, measured, "textIn") + Amount(prices, measured, "textOut")
                  + Amount(prices, measured, "audioIn") + Amount(prices, measured, "audioOut")
                  + Amount(prices, measured, "secondsIn") + Amount(prices, measured, "secondsOut")
                  + Amount(prices, measured, "charsIn") + Amount(prices, measured, "charsOut")
                  + Fee(prices, measured)
  BY DEF Speech!SpeechCost, Amount, Fee

LEMMA TimesGrows == \A a, b, c \in Nat : b <= c => a * b \in Nat /\ a * c \in Nat /\ a * b <= a * c
  OBVIOUS

(* With fewer prices and no more of anything a call costs no more.         *)
LEMMA CostGrows ==
    ASSUME NEW prices, Quantities(prices), NEW kept \in SUBSET (DOMAIN prices),
           NEW few, Quantities(few), NEW many, Quantities(many),
           \A unit \in kept \cap DOMAIN few : unit \in DOMAIN many /\ few[unit] <= many[unit]
    PROVE  LET fewer == [unit \in kept |-> prices[unit]]
           IN  \/ Speech!SpeechCost(fewer, few) = NotSet
               \/ /\ Speech!SpeechLines(prices, many) # {}
                  /\ Speech!SpeechCost(fewer, few) \in Nat
                  /\ Speech!SpeechCost(prices, many) \in Nat
                  /\ Speech!SpeechCost(fewer, few) <= Speech!SpeechCost(prices, many)
<1>. DEFINE fewer == [unit \in kept |-> prices[unit]]
<1>1. Speech!SpeechLines(fewer, few) \subseteq Speech!SpeechLines(prices, many)
  <2>1. ASSUME NEW unit \in Speech!SpeechLines(fewer, few)
        PROVE  unit \in Speech!SpeechLines(prices, many)
    <3>1. CASE unit = "request"
      BY <3>1, <2>1 DEF Speech!SpeechLines, Speech!SpeechUnits
    <3>2. CASE unit # "request"
      <4>1. unit \in Speech!SpeechUnits /\ unit \in kept /\ unit \in DOMAIN few /\ few[unit] > 0
        BY <2>1, <3>2 DEF Speech!SpeechLines
      <4>2. unit \in DOMAIN many /\ many[unit] > 0
        BY <4>1 DEF Quantities
      <4>. QED
        BY <4>1, <4>2 DEF Speech!SpeechLines
    <3>. QED
      BY <3>1, <3>2
  <2>. QED
    BY <2>1
<1>2. ASSUME NEW unit \in Speech!SpeechUnits
      PROVE  /\ Amount(fewer, few, unit) \in Nat /\ Amount(prices, many, unit) \in Nat
             /\ Amount(fewer, few, unit) <= Amount(prices, many, unit)
  <2>0. unit # "request"
    BY DEF Speech!SpeechUnits
  <2>1. unit \in Speech!SpeechLines(prices, many) =>
          unit \in DOMAIN prices /\ unit \in DOMAIN many
    BY <2>0 DEF Speech!SpeechLines
  <2>2. Amount(prices, many, unit) \in Nat
    BY <2>1, TimesGrows DEF Amount, Quantities
  <2>3. CASE unit \in Speech!SpeechLines(fewer, few)
    <3>1. unit \in kept /\ unit \in DOMAIN few
      BY <2>0, <2>3 DEF Speech!SpeechLines
    <3>2. unit \in DOMAIN many /\ unit \in Speech!SpeechLines(prices, many)
      BY <1>1, <2>3, <3>1
    <3>3. prices[unit] \in Nat /\ few[unit] \in Nat /\ many[unit] \in Nat /\ few[unit] <= many[unit]
      BY <3>1, <3>2 DEF Quantities
    <3>4. fewer[unit] = prices[unit]
      BY <3>1
    <3>5. Amount(fewer, few, unit) = prices[unit] * few[unit]
          /\ Amount(prices, many, unit) = prices[unit] * many[unit]
      BY <2>3, <3>2, <3>4 DEF Amount
    <3>. HIDE DEF fewer
    <3>. QED
      BY <3>3, <3>5, TimesGrows
  <2>4. CASE unit \notin Speech!SpeechLines(fewer, few)
    BY <2>2, <2>4 DEF Amount
  <2>. QED
    BY <2>3, <2>4
<1>3. /\ Fee(fewer, few) \in Nat /\ Fee(prices, many) \in Nat
      /\ Fee(fewer, few) <= Fee(prices, many)
  <2>1. "request" \in Speech!SpeechLines(prices, many) => "request" \in DOMAIN prices
    BY DEF Speech!SpeechLines, Speech!SpeechUnits
  <2>2. "request" \in Speech!SpeechLines(fewer, few) => "request" \in kept
    BY DEF Speech!SpeechLines, Speech!SpeechUnits
  <2>3. Fee(prices, many) \in Nat
    BY <2>1 DEF Fee, Quantities
  <2>4. CASE "request" \in Speech!SpeechLines(fewer, few)
    BY <1>1, <2>2, <2>3, <2>4 DEF Fee
  <2>5. CASE "request" \notin Speech!SpeechLines(fewer, few)
    BY <2>3, <2>5 DEF Fee
  <2>. QED
    BY <2>3, <2>4, <2>5
<1>4. {"textIn", "textOut", "audioIn", "audioOut", "secondsIn", "secondsOut", "charsIn",
       "charsOut"} = Speech!SpeechUnits
  BY DEF Speech!SpeechUnits
<1>. HIDE DEF fewer
<1>5. CASE Speech!SpeechLines(fewer, few) = {}
  BY <1>5, CostIsSum DEF fewer
<1>6. CASE Speech!SpeechLines(fewer, few) # {}
  <2>1. Speech!SpeechLines(prices, many) # {}
    BY <1>1, <1>6
  <2>2. /\ Speech!SpeechCost(fewer, few) \in Nat /\ Speech!SpeechCost(prices, many) \in Nat
        /\ Speech!SpeechCost(fewer, few) <= Speech!SpeechCost(prices, many)
    <3>. DEFINE a(unit) == Amount(fewer, few, unit)
                b(unit) == Amount(prices, many, unit)
    <3>1. \A unit \in {"textIn", "textOut", "audioIn", "audioOut", "secondsIn", "secondsOut",
                       "charsIn", "charsOut"} : a(unit) \in Nat /\ b(unit) \in Nat /\ a(unit) <= b(unit)
      BY <1>2, <1>4
    <3>2. Speech!SpeechCost(fewer, few) = a("textIn") + a("textOut") + a("audioIn") + a("audioOut")
             + a("secondsIn") + a("secondsOut") + a("charsIn") + a("charsOut") + Fee(fewer, few)
      BY <1>6, CostIsSum
    <3>3. Speech!SpeechCost(prices, many) = b("textIn") + b("textOut") + b("audioIn") + b("audioOut")
             + b("secondsIn") + b("secondsOut") + b("charsIn") + b("charsOut") + Fee(prices, many)
      BY <2>1, CostIsSum
    <3>. HIDE DEF a, b
    <3>. QED
      BY <1>3, <3>1, <3>2, <3>3
  <2>. QED
    BY <2>1, <2>2 DEF fewer
<1>. QED
  BY <1>5, <1>6

LEMMA FirstGiven ==
    ASSUME NEW a \in Nat \union {NotSet}, NEW b \in Nat \union {NotSet}
    PROVE  Speech!Or(a, b) \in Nat \union {NotSet}
  BY DEF Speech!Or

SecondsOf(o) == IF o.kind = "speech" THEN "secondsOut" ELSE "secondsIn"
SaidOf(o) == IF o.kind = "speech" THEN o.maxSeconds
             ELSE Speech!Or(o.givenSeconds, o.derivedSeconds)
Unmeasured(prices, o) ==
    SecondsOf(o) \in DOMAIN prices /\ SecondsOf(o) \notin DOMAIN Speech!Estimate(o)
NoLonger(o, answer) ==
    answer.seconds # NotSet /\ SaidOf(o) # NotSet => answer.seconds <= SaidOf(o)

(* What is known beforehand of a request the budget lets through bounds    *)
(* what it turns out to be.                                                *)
LEMMA EstimateBounds ==
    ASSUME NEW one \in SpeechCalls, NEW prices, prices = one.prices,
           NEW o, o = one.request, NEW answer, answer = one.answer,
           ~Unmeasured(prices, o), NoLonger(o, answer)
    PROVE  /\ Quantities(Speech!Estimate(o)) /\ Quantities(Speech!Usage(o, answer))
           /\ \A unit \in (DOMAIN prices \ {"textOut", "charsOut"}) \cap DOMAIN Speech!Usage(o, answer) :
                 /\ unit \in DOMAIN Speech!Estimate(o)
                 /\ Speech!Usage(o, answer)[unit] <= Speech!Estimate(o)[unit]
<1>1. /\ o.kind \in {"speech", "transcription"}
      /\ o.length \in Nat /\ answer.length \in Nat
      /\ o.estimatedSeconds \in Nat \union {NotSet} /\ o.maxSeconds \in Nat \union {NotSet}
      /\ o.givenSeconds \in Nat \union {NotSet} /\ o.derivedSeconds \in Nat \union {NotSet}
      /\ answer.seconds \in Nat \union {NotSet}
  BY SpeechAssumption
<1>2. Speech!TokensOf(o.length) \in Nat /\ Speech!TokensOf(answer.length) \in Nat
  BY <1>1 DEF Speech!TokensOf
<1>3. /\ o.length # NotSet /\ answer.length # NotSet
      /\ Speech!TokensOf(o.length) # NotSet /\ Speech!TokensOf(answer.length) # NotSet
  BY <1>1, <1>2, NumbersAreSet
<1>4. CASE o.kind = "speech"
  <2>1. PICK e : e = Speech!Or(o.estimatedSeconds, o.maxSeconds)
    OBVIOUS
  <2>2. PICK u : u = Speech!Or(o.estimatedSeconds, Speech!Or(answer.seconds, o.maxSeconds))
    OBVIOUS
  <2>3. e \in Nat \union {NotSet} /\ u \in Nat \union {NotSet}
    BY <1>1, <2>1, <2>2, FirstGiven
  <2>4. Speech!Estimate(o) =
          [unit \in {"charsIn", "textIn"} \union (IF e = NotSet THEN {} ELSE {"secondsOut"}) |->
             CASE unit = "charsIn" -> o.length
               [] unit = "textIn" -> Speech!TokensOf(o.length)
               [] unit = "secondsOut" -> e]
    BY <1>3, <1>4, <2>1 DEF Speech!Estimate, Speech!Known
  <2>5. Speech!Usage(o, answer) =
          [unit \in {"charsIn", "textIn"} \union (IF u = NotSet THEN {} ELSE {"secondsOut"}) |->
             CASE unit = "charsIn" -> o.length
               [] unit = "textIn" -> Speech!TokensOf(o.length)
               [] unit = "secondsOut" -> u]
    BY <1>3, <1>4, <2>2 DEF Speech!Usage, Speech!Known
  <2>6. "secondsOut" \in DOMAIN prices => e # NotSet
    BY <1>4, <2>4 DEF Unmeasured, SecondsOf
  <2>7. e # NotSet /\ u # NotSet => u <= e
    BY <1>1, <1>4, <2>1, <2>2 DEF Speech!Or, NoLonger, SaidOf
  <2>. QED
    BY <1>1, <1>2, <2>3, <2>4, <2>5, <2>6, <2>7 DEF Quantities
<1>5. CASE o.kind = "transcription"
  <2>1. PICK e : e = Speech!Or(o.givenSeconds, o.derivedSeconds)
    OBVIOUS
  <2>2. PICK u : u = Speech!Or(answer.seconds, Speech!Or(o.givenSeconds, o.derivedSeconds))
    OBVIOUS
  <2>3. e \in Nat \union {NotSet} /\ u \in Nat \union {NotSet}
    BY <1>1, <2>1, <2>2, FirstGiven
  <2>4. Speech!Estimate(o) =
          [unit \in (IF e = NotSet THEN {} ELSE {"secondsIn"}) |-> e]
    BY <1>5, <2>1 DEF Speech!Estimate, Speech!Known
  <2>5. Speech!Usage(o, answer) =
          [unit \in {"charsOut", "textOut"} \union (IF u = NotSet THEN {} ELSE {"secondsIn"}) |->
             CASE unit = "charsOut" -> answer.length
               [] unit = "textOut" -> Speech!TokensOf(answer.length)
               [] unit = "secondsIn" -> u]
    BY <1>3, <1>5, <2>2 DEF Speech!Usage, Speech!Known
  <2>6. "secondsIn" \in DOMAIN prices => e # NotSet
    BY <1>5, <2>4 DEF Unmeasured, SecondsOf
  <2>7. e # NotSet /\ u # NotSet => u <= e
    BY <1>1, <1>5, <2>1, <2>2 DEF Speech!Or, NoLonger, SaidOf
  <2>. QED
    BY <1>1, <1>2, <2>3, <2>4, <2>5, <2>6, <2>7 DEF Quantities
<1>. QED
  BY <1>1, <1>4, <1>5

(* A request with a budget is sent only when what is known beforehand of   *)
(* its cost is within it.                                                  *)
THEOREM SpeechBudgets == TrialSpec => []SpeechBudgetKept
<1>1. OneTrial => SpeechBudgetKept
  <2>. SUFFICES ASSUME OneTrial, trial.of = "speech" PROVE SpeechBudgetKept
    BY DEF SpeechBudgetKept
  <2>1. PICK one \in SpeechCalls : one = trial.call
    BY CallsOf
  <2>2. PICK o : o = one.request
    OBVIOUS
  <2>3. PICK prices : prices = one.prices
    OBVIOUS
  <2>4. PICK answer : answer = one.answer
    OBVIOUS
  <2>5. PICK decision : decision = Speech!Preflight(o, prices)
    OBVIOUS
  <2>6. PICK outcome : outcome = Speech!Outcome(o, prices, answer, one.fired)
    OBVIOUS
  <2>7. /\ o.action \in {"throw", "skip", "warn"} /\ o.budget \in Nat \union {NotSet}
        /\ Quantities(prices)
    BY <2>1, <2>2, <2>3, SpeechAssumption DEF Quantities
  <2>8. /\ decision \in {"continue", "throw", "skip"}
        /\ decision = "skip" => o.action = "skip"
    BY <2>5, <2>7 DEF Speech!Preflight
  <2>9. /\ outcome.sent => decision = "continue"
        /\ outcome.answered => Len(outcome.logged) = 1
        /\ ~outcome.sent => outcome.logged \in {<<>>, <<0>>}
        /\ outcome.logged = <<0>> /\ ~outcome.sent => decision = "skip"
    BY <2>5, <2>6, <2>8 DEF Speech!Outcome
  <2>. DEFINE bounded == DOMAIN prices \ {"textOut", "charsOut"}
              said == IF o.kind = "speech" THEN o.maxSeconds
                      ELSE Speech!Or(o.givenSeconds, o.derivedSeconds)
              longer == answer.seconds # NotSet /\ said # NotSet /\ answer.seconds > said
              fewer == [unit \in bounded |-> prices[unit]]
              cost == Speech!SpeechCost(fewer, Speech!Usage(o, answer))
  <2>10. ASSUME outcome.sent, o.budget # NotSet, o.action # "warn", ~longer
         PROVE  cost = NotSet \/ cost <= o.budget
    <3>. DEFINE known == Speech!SpeechCost(prices, Speech!Estimate(o))
    <3>1. ~Unmeasured(prices, o) /\ (known = NotSet \/ known <= o.budget)
      BY <2>5, <2>7, <2>9, <2>10 DEF Speech!Preflight, Unmeasured, SecondsOf
    <3>2. NoLonger(o, answer)
      <4>1. /\ answer.seconds \in Nat \union {NotSet}
            /\ o.maxSeconds \in Nat \union {NotSet} /\ o.givenSeconds \in Nat \union {NotSet}
            /\ o.derivedSeconds \in Nat \union {NotSet}
        BY <2>1, <2>2, <2>4, SpeechAssumption
      <4>2. said \in Nat \union {NotSet}
        BY <4>1, FirstGiven
      <4>3. said = SaidOf(o)
        BY DEF SaidOf
      <4>. HIDE DEF said
      <4>. QED
        BY <2>10, <4>1, <4>2, <4>3 DEF NoLonger
    <3>3. /\ Quantities(Speech!Estimate(o)) /\ Quantities(Speech!Usage(o, answer))
          /\ \A unit \in bounded \cap DOMAIN Speech!Usage(o, answer) :
                 /\ unit \in DOMAIN Speech!Estimate(o)
                 /\ Speech!Usage(o, answer)[unit] <= Speech!Estimate(o)[unit]
      BY <2>1, <2>2, <2>3, <2>4, <3>1, <3>2, EstimateBounds
    <3>4. \/ cost = NotSet
          \/ /\ cost \in Nat /\ known \in Nat /\ cost <= known
      BY <2>7, <3>3, CostGrows
    <3>5. known \in Nat => known # NotSet
      BY NumbersAreSet
    <3>6. o.budget \in Nat
      BY <2>7, <2>10
    <3>. HIDE DEF cost, known
    <3>. QED
      BY <3>1, <3>4, <3>5, <3>6
  <2>. QED
    BY <2>1, <2>2, <2>3, <2>4, <2>6, <2>8, <2>9, <2>10 DEF SpeechBudgetKept
<1>. QED
  BY <1>1, TrialsAreCalls, PTL

-----------------------------------------------------------------------------
(* Loops.                                                                  *)

(* Induction on the natural numbers, for a set instead of a predicate.     *)
LEMMA NatSetInduction ==
    ASSUME NEW T, 0 \in T, \A n \in Nat : n \in T => n + 1 \in T
    PROVE  Nat \subseteq T
<1>. DEFINE Out == Nat \ T
<1>1. SUFFICES ASSUME Out # {} PROVE FALSE
  OBVIOUS
<1>2. PICK n \in Out : \A m \in Out : <<m, n>> \notin OpToRel(<, Nat)
  BY <1>1, NatLessThanWellFounded, WFMin
<1>3. n # 0 /\ n \in Nat
  OBVIOUS
<1>4. n - 1 \in Nat /\ n - 1 < n
  BY <1>3
<1>5. <<n - 1, n>> \in OpToRel(<, Nat)
  BY <1>3, <1>4 DEF OpToRel
<1>6. n - 1 \in T
  BY <1>2, <1>4, <1>5
<1>. QED
  BY <1>3, <1>4, <1>6

LEMMA UpTo ==
    ASSUME NEW T, NEW k \in Nat, 0 \in T, \A n \in 1..k : n - 1 \in T => n \in T
    PROVE  \A n \in 0..k : n \in T
<1>. DEFINE U == {n \in Nat : n <= k => n \in T}
<1>1. 0 \in U
  OBVIOUS
<1>2. ASSUME NEW n \in Nat, n \in U PROVE n + 1 \in U
  <2>1. n + 1 <= k => n + 1 \in 1..k /\ (n + 1) - 1 = n /\ n \in T
    BY <1>2
  <2>. QED
    BY <2>1
<1>. HIDE DEF U
<1>3. Nat \subseteq U
  BY <1>1, <1>2, NatSetInduction
<1>. QED
  BY <1>3 DEF U

LEMMA UpToAtEnd ==
    ASSUME NEW T, NEW k \in Nat, 0 \in T, \A n \in 1..k : n - 1 \in T => n \in T
    PROVE  k \in T
  BY UpTo

(* A loop has a state after every round: F gives what a round makes of one. *)
Walked(f, F, S, first, k) ==
    /\ f \in [0..k -> S] /\ f[0] = first
    /\ \A n \in 1..k : f[n] = F[<<f[n - 1], n>>]

LEMMA Walks ==
    ASSUME NEW S, NEW first \in S, NEW k \in Nat, NEW F,
           \A s \in S, n \in 1..k : F[<<s, n>>] \in S
    PROVE  \E f : Walked(f, F, S, first, k)
<1>. DEFINE T == {m \in 0..k : \E f : Walked(f, F, S, first, m)}
<1>1. 0 \in T
  <2>1. Walked([n \in 0..0 |-> first], F, S, first, 0)
    BY DEF Walked
  <2>. QED
    BY <2>1
<1>2. ASSUME NEW m \in 1..k, m - 1 \in T PROVE m \in T
  <2>1. PICK f : Walked(f, F, S, first, m - 1)
    BY <1>2
  <2>2. f \in [0..(m - 1) -> S] /\ f[0] = first
    BY <2>1 DEF Walked
  <2>3. F[<<f[m - 1], m>>] \in S
    BY <2>2
  <2>4. PICK g : g = [n \in 0..m |-> IF n < m THEN f[n] ELSE F[<<f[m - 1], m>>]]
    OBVIOUS
  <2>5. g \in [0..m -> S] /\ g[0] = first
    BY <2>2, <2>3, <2>4
  <2>6. ASSUME NEW n \in 1..m PROVE g[n] = F[<<g[n - 1], n>>]
    <3>1. CASE n < m
      <4>1. f[n] = F[<<f[n - 1], n>>]
        BY <2>1, <3>1 DEF Walked
      <4>2. g[n] = f[n] /\ g[n - 1] = f[n - 1]
        BY <2>4, <3>1
      <4>. QED
        BY <4>1, <4>2
    <3>2. CASE n = m
      <4>1. g[n] = F[<<f[m - 1], m>>] /\ g[n - 1] = f[m - 1]
        BY <2>4, <3>2
      <4>. QED
        BY <4>1, <3>2
    <3>. QED
      BY <3>1, <3>2
  <2>7. Walked(g, F, S, first, m)
    BY <2>5, <2>6 DEF Walked
  <2>. QED
    BY <2>7
<1>. HIDE DEF T
<1>3. k \in T
  BY <1>1, <1>2, UpToAtEnd
<1>. QED
  BY <1>3 DEF T

-----------------------------------------------------------------------------
(* limitRetrievalResults.                                                  *)

Limiting(f, results, topK, perSource) ==
    f = [n \in 0..Len(results) |->
           IF n = 0 THEN <<>> ELSE Ranking!Keep(f[n - 1], results[n], topK, perSource)]

LEMMA LimitIs ==
    ASSUME NEW results, results \in Seq(Range(results)), NEW topK, NEW perSource
    PROVE  \E f : /\ Ranking!Limit(results, topK, perSource) = f[Len(results)]
                 /\ f[0] = <<>>
                 /\ \A n \in 1..Len(results) :
                      f[n] = Ranking!Keep(f[n - 1], results[n], topK, perSource)
<1>. DEFINE S == Seq(Range(results))
            k == Len(results)
<1>1. k \in Nat /\ <<>> \in S /\ \A n \in 1..k : results[n] \in Range(results)
  BY DEF Range
<1>2. PICK F : F = [p \in S \X (1..k) |-> Ranking!Keep(p[1], results[p[2]], topK, perSource)]
  OBVIOUS
<1>3. ASSUME NEW s \in S, NEW n \in 1..k
      PROVE  /\ F[<<s, n>>] = Ranking!Keep(s, results[n], topK, perSource)
             /\ F[<<s, n>>] \in S
  <2>1. F[<<s, n>>] = Ranking!Keep(s, results[n], topK, perSource)
    BY <1>2
  <2>2. Append(s, results[n]) \in S
    BY <1>1
  <2>. QED
    BY <2>1, <2>2 DEF Ranking!Keep
<1>. HIDE DEF S, k
<1>4. PICK f : Walked(f, F, S, <<>>, k)
  BY <1>1, <1>3, Walks
<1>5. Limiting(f, results, topK, perSource)
  <2>1. f \in [0..k -> S] /\ f[0] = <<>>
    BY <1>4 DEF Walked
  <2>2. \A n \in 1..k : f[n] = Ranking!Keep(f[n - 1], results[n], topK, perSource)
    <3>1. ASSUME NEW n \in 1..k PROVE f[n] = Ranking!Keep(f[n - 1], results[n], topK, perSource)
      <4>1. f[n - 1] \in S /\ f[n] = F[<<f[n - 1], n>>]
        BY <1>1, <1>4, <2>1 DEF Walked
      <4>. QED
        BY <1>3, <4>1
    <3>. QED
      BY <3>1
  <2>. QED
    BY <1>1, <2>1, <2>2 DEF Limiting, k
<1>6. \E g : Limiting(g, results, topK, perSource)
             /\ Ranking!Limit(results, topK, perSource) = g[Len(results)]
  BY <1>5 DEF Limiting, Ranking!Limit, Ranking!Loop
<1>7. PICK g : Limiting(g, results, topK, perSource)
             /\ Ranking!Limit(results, topK, perSource) = g[Len(results)]
  BY <1>6
<1>. QED
  BY <1>1, <1>7 DEF Limiting, k

(* What is limited is no longer than the results, and all of them if it is *)
(* as long.                                                                *)
LEMMA LimitFacts ==
    ASSUME NEW results, results \in Seq(Range(results)), NEW topK, NEW perSource
    PROVE  LET limited == Ranking!Limit(results, topK, perSource)
           IN  /\ limited \in Seq(Range(results)) /\ Len(limited) \in 0..Len(results)
               /\ Len(limited) = Len(results) => limited = results
<1>. DEFINE k == Len(results)
<1>1. k \in Nat /\ \A n \in 1..k : results[n] \in Range(results)
  BY DEF Range
<1>2. PICK f : /\ Ranking!Limit(results, topK, perSource) = f[k]
               /\ f[0] = <<>>
               /\ \A n \in 1..k : f[n] = Ranking!Keep(f[n - 1], results[n], topK, perSource)
  BY LimitIs
<1>. DEFINE T == {n \in 0..k :
                    /\ f[n] \in Seq(Range(results)) /\ Len(f[n]) \in 0..n
                    /\ Len(f[n]) = n => \A i \in 1..n : f[n][i] = results[i]}
<1>. HIDE DEF k
<1>3. 0 \in T
  <2>1. <<>> \in Seq(Range(results)) /\ Len(<<>>) = 0
    OBVIOUS
  <2>2. f[0] \in Seq(Range(results)) /\ Len(f[0]) = 0
    BY <1>2, <2>1
  <2>. QED
    BY <1>1, <2>2 DEF T
<1>4. ASSUME NEW n \in 1..k, n - 1 \in T PROVE n \in T
  <2>1. PICK kept \in Seq(Range(results)) : kept = f[n - 1]
    BY <1>4
  <2>2. Len(kept) \in 0..(n - 1)
        /\ (Len(kept) = n - 1 => \A i \in 1..(n - 1) : kept[i] = results[i])
    BY <1>4, <2>1
  <2>3. f[n] = kept \/ f[n] = Append(kept, results[n])
    BY <1>2, <2>1 DEF Ranking!Keep
  <2>4. CASE f[n] = kept
    BY <1>1, <2>1, <2>2, <2>4
  <2>5. CASE f[n] = Append(kept, results[n])
    <3>1. f[n] \in Seq(Range(results)) /\ Len(f[n]) = Len(kept) + 1
      BY <1>1, <2>1, <2>5
    <3>2. ASSUME Len(f[n]) = n, NEW i \in 1..n PROVE f[n][i] = results[i]
      <4>1. Len(kept) = n - 1
        BY <2>2, <3>1, <3>2
      <4>2. CASE i = n
        BY <2>5, <4>1, <4>2
      <4>3. CASE i # n
        BY <2>2, <2>5, <4>1, <4>3
      <4>. QED
        BY <4>2, <4>3
    <3>. QED
      BY <1>1, <2>2, <3>1, <3>2
  <2>. QED
    BY <2>3, <2>4, <2>5
<1>. HIDE DEF T
<1>5. k \in T
  BY <1>1, <1>3, <1>4, UpToAtEnd
<1>6. /\ f[k] \in Seq(Range(results)) /\ Len(f[k]) \in 0..k
      /\ Len(f[k]) = k => \A i \in 1..k : f[k][i] = results[i]
  BY <1>5 DEF T
<1>7. Len(f[k]) = k => f[k] = results
  BY <1>6, SeqEqual DEF k
<1>. QED
  BY <1>2, <1>6, <1>7 DEF k

-----------------------------------------------------------------------------
(* Lengths of blocks.                                                      *)

Totalling(f, lengths) ==
    f = [n \in 0..Len(lengths) |-> IF n = 0 THEN 0 ELSE f[n - 1] + lengths[n]]

LEMMA TotalIs ==
    ASSUME NEW lengths \in Seq(Nat)
    PROVE  \E f : /\ Ranking!Total(lengths) = f[Len(lengths)]
                 /\ f[0] = 0
                 /\ \A n \in 1..Len(lengths) : f[n] = f[n - 1] + lengths[n]
<1>. DEFINE k == Len(lengths)
<1>1. k \in Nat /\ \A n \in 1..k : lengths[n] \in Nat
  OBVIOUS
<1>2. PICK F : F = [p \in Nat \X (1..k) |-> p[1] + lengths[p[2]]]
  OBVIOUS
<1>3. \A s \in Nat, n \in 1..k : F[<<s, n>>] = s + lengths[n] /\ F[<<s, n>>] \in Nat
  BY <1>1, <1>2
<1>. HIDE DEF k
<1>4. PICK f : Walked(f, F, Nat, 0, k)
  BY <1>1, <1>3, Walks
<1>5. Totalling(f, lengths)
  <2>1. f \in [0..k -> Nat] /\ f[0] = 0
    BY <1>4 DEF Walked
  <2>2. ASSUME NEW n \in 1..k PROVE f[n] = f[n - 1] + lengths[n]
    <3>1. f[n - 1] \in Nat /\ f[n] = F[<<f[n - 1], n>>]
      BY <1>1, <1>4, <2>1 DEF Walked
    <3>. QED
      BY <1>3, <3>1
  <2>. QED
    BY <1>1, <2>1, <2>2 DEF Totalling, k
<1>6. \E g : Totalling(g, lengths) /\ Ranking!Total(lengths) = g[Len(lengths)]
  BY <1>5 DEF Totalling, Ranking!Total, Ranking!Loop
<1>7. PICK g : Totalling(g, lengths) /\ Ranking!Total(lengths) = g[k]
  BY <1>6 DEF k
<1>8. g[0] = 0 /\ \A n \in 1..k : g[n] = g[n - 1] + lengths[n]
  BY <1>1, <1>7 DEF Totalling, k
<1>. QED
  BY <1>7, <1>8 DEF k

LEMMA TotalAppend ==
    ASSUME NEW lengths \in Seq(Nat), NEW x \in Nat
    PROVE  /\ Ranking!Total(lengths) \in Nat
           /\ Ranking!Total(Append(lengths, x)) = Ranking!Total(lengths) + x
<1>1. PICK k \in Nat : k = Len(lengths)
  OBVIOUS
<1>2. PICK longer : longer = Append(lengths, x)
  OBVIOUS
<1>3. /\ longer \in Seq(Nat)
      /\ Len(longer) = k + 1 /\ longer[k + 1] = x /\ \A n \in 1..k : longer[n] = lengths[n]
  BY <1>1, <1>2
<1>4. PICK f : /\ Ranking!Total(lengths) = f[k] /\ f[0] = 0
               /\ \A n \in 1..k : f[n] = f[n - 1] + lengths[n]
  BY <1>1, TotalIs
<1>g. PICK g : /\ Ranking!Total(longer) = g[Len(longer)] /\ g[0] = 0
               /\ \A n \in 1..Len(longer) : g[n] = g[n - 1] + longer[n]
  BY <1>3, TotalIs
<1>5. /\ Ranking!Total(longer) = g[k + 1] /\ g[0] = 0
      /\ \A n \in 1..(k + 1) : g[n] = g[n - 1] + longer[n]
  BY <1>3, <1>g
<1>. DEFINE T == {n \in 0..k : f[n] \in Nat /\ f[n] = g[n]}
<1>6. 0 \in T
  BY <1>4, <1>5
<1>7. ASSUME NEW n \in 1..k, n - 1 \in T PROVE n \in T
  <2>1. lengths[n] \in Nat /\ longer[n] = lengths[n]
    BY <1>1, <1>3
  <2>2. f[n] = f[n - 1] + lengths[n] /\ g[n] = g[n - 1] + longer[n]
    BY <1>4, <1>5
  <2>. QED
    BY <1>7, <2>1, <2>2
<1>. HIDE DEF T
<1>8. k \in T
  BY <1>6, <1>7, UpToAtEnd
<1>9. f[k] \in Nat /\ f[k] = g[k]
  BY <1>8 DEF T
<1>10. g[k + 1] = g[k] + longer[k + 1]
  BY <1>5
<1>. QED
  BY <1>2, <1>3, <1>4, <1>5, <1>9, <1>10

(* More characters never make room.                                        *)
LEMMA FitsShorter ==
    ASSUME NEW blocks \in Seq(Nat), NEW x \in Nat, NEW y \in Nat, x <= y,
           NEW budget \in Nat, Ranking!Fits(Append(blocks, y), budget)
    PROVE  Ranking!Fits(Append(blocks, x), budget)
<1>. DEFINE frame == HeaderLen + EnvelopeLen + Ranking!Total(blocks) + 2 * Len(blocks)
<1>1. frame \in Nat
  <2>1. Ranking!Total(blocks) \in Nat /\ Len(blocks) \in Nat
    BY TotalAppend
  <2>. QED
    BY <2>1, ContextAssumption
<1>2. ASSUME NEW z \in Nat
      PROVE  Ranking!ContextLen(Append(blocks, z)) = frame + z
  <2>1. Append(blocks, z) # <<>> /\ Len(Append(blocks, z)) = Len(blocks) + 1
    OBVIOUS
  <2>2. Ranking!Total(Append(blocks, z)) = Ranking!Total(blocks) + z
    BY ZenonT(30), TotalAppend
  <2>3. Ranking!Total(blocks) \in Nat
    BY ZenonT(30), TotalAppend
  <2>4. Len(blocks) \in Nat
    OBVIOUS
  <2>. QED
    BY <2>1, <2>2, <2>3, <2>4, ContextAssumption DEF Ranking!ContextLen
<1>. HIDE DEF frame
<1>3. (2 * (frame + y) + 6) \div 7 <= budget
  BY <1>2 DEF Ranking!Fits, Ranking!Tokens
<1>4. (2 * (frame + x) + 6) \div 7 <= budget
  BY <1>1, <1>3
<1>. QED
  BY <1>2, <1>4 DEF Ranking!Fits, Ranking!Tokens

LEMMA LargestUpTo ==
    ASSUME NEW n \in Nat, NEW S \in SUBSET (0..n), S # {}
    PROVE  Ranking!Max(S) \in S /\ \A y \in S : y <= Ranking!Max(S)
<1>. DEFINE U == {m \in 0..n : (\E y \in S : y <= m) =>
                     \E x \in S : \A y \in S : y <= m => x >= y}
<1>1. 0 \in U
  OBVIOUS
<1>2. ASSUME NEW m \in 1..n, m - 1 \in U PROVE m \in U
  <2>1. CASE m \in S
    BY <2>1
  <2>2. CASE m \notin S
    <3>1. \A y \in S : y <= m <=> y <= m - 1
      BY <2>2
    <3>. QED
      BY <1>2, <3>1
  <2>. QED
    BY <2>1, <2>2
<1>. HIDE DEF U
<1>3. n \in U
  BY <1>1, <1>2, UpToAtEnd
<1>4. \E x \in S : \A y \in S : x >= y
  <2>1. (\E y \in S : y <= n) => \E x \in S : \A y \in S : y <= n => x >= y
    BY <1>3 DEF U
  <2>2. \A y \in S : y <= n
    OBVIOUS
  <2>. QED
    BY <2>1, <2>2
<1>5. Ranking!Max(S) \in S /\ \A y \in S : Ranking!Max(S) >= y
  BY <1>4 DEF Ranking!Max
<1>. QED
  BY <1>5

(* A longer prefix is no shorter when its blanks are gone.                 *)
LEMMA TrimmedFacts ==
    ASSUME NEW text, NEW n \in Nat
    PROVE  /\ Ranking!Trimmed(text, n) \in 0..n
           /\ \A m \in 0..n : Ranking!Trimmed(text, m) <= Ranking!Trimmed(text, n)
<1>. DEFINE marks(m) == {0} \union {i \in 1..m : text[i] # Ranking!Blank}
<1>1. ASSUME NEW m \in Nat
      PROVE  /\ Ranking!Trimmed(text, m) \in marks(m) /\ marks(m) \in SUBSET (0..m)
             /\ \A y \in marks(m) : y <= Ranking!Trimmed(text, m)
  <2>1. marks(m) \in SUBSET (0..m) /\ marks(m) # {}
    OBVIOUS
  <2>2. Ranking!Trimmed(text, m) = Ranking!Max(marks(m))
    BY DEF Ranking!Trimmed
  <2>. HIDE DEF marks
  <2>. QED
    BY <2>1, <2>2, LargestUpTo
<1>2. \A m \in 0..n : marks(m) \subseteq marks(n)
  OBVIOUS
<1>. HIDE DEF marks
<1>3. Ranking!Trimmed(text, n) \in 0..n
  BY <1>1
<1>4. ASSUME NEW m \in 0..n PROVE Ranking!Trimmed(text, m) <= Ranking!Trimmed(text, n)
  <2>1. Ranking!Trimmed(text, m) \in marks(m)
    BY <1>1
  <2>. QED
    BY <1>1, <1>2, <2>1
<1>. QED
  BY <1>3, <1>4

-----------------------------------------------------------------------------
(* truncateBlock: a binary search.                                         *)

Searches == [low : Nat, high : Int, best : Nat]
FirstSearch(text) == [low |-> 0, high |-> Len(text), best |-> 0]

Searching(f, text, blocks, budget) ==
    f = [n \in 0..(Len(text) + 1) |->
           IF n = 0 THEN FirstSearch(text) ELSE Ranking!Halve(f[n - 1], text, blocks, budget)]

LEMMA HalveTyped ==
    ASSUME NEW text, NEW blocks, NEW budget, NEW s \in Searches
    PROVE  Ranking!Halve(s, text, blocks, budget) \in Searches
<1>1. s.low \in Nat /\ s.high \in Int /\ s.best \in Nat
  BY DEF Searches
<1>2. PICK middle : middle = (s.low + s.high) \div 2
  OBVIOUS
<1>3. middle \in Int
  BY <1>1, <1>2
<1>4. s.low <= s.high => middle \in Nat
  BY <1>1, <1>2
<1>5. middle \in Nat => Ranking!Trimmed(text, middle) \in Nat
  BY TrimmedFacts
<1>6. CASE s.low > s.high
  BY <1>6 DEF Ranking!Halve
<1>7. CASE ~(s.low > s.high)
  <2>1. middle \in Nat /\ Ranking!Trimmed(text, middle) \in Nat
    BY <1>1, <1>4, <1>5, <1>7
  <2>2. \/ Ranking!Halve(s, text, blocks, budget)
             = [s EXCEPT !.low = middle + 1, !.best = Ranking!Trimmed(text, middle)]
        \/ Ranking!Halve(s, text, blocks, budget) = [s EXCEPT !.high = middle - 1]
    BY <1>2, <1>7 DEF Ranking!Halve
  <2>3. \A x \in Nat, y \in Nat : [s EXCEPT !.low = x, !.best = y] \in Searches
    BY DEF Searches
  <2>4. \A x \in Int : [s EXCEPT !.high = x] \in Searches
    BY DEF Searches
  <2>5. middle + 1 \in Nat /\ middle - 1 \in Int
    BY <2>1
  <2>. QED
    BY <2>1, <2>2, <2>3, <2>4, <2>5
<1>. QED
  BY <1>6, <1>7

LEMMA SearchIs ==
    ASSUME NEW text, Len(text) \in Nat, NEW blocks, NEW budget
    PROVE  \E f : /\ Ranking!LongestCut(text, blocks, budget) = f[Len(text) + 1].best
                 /\ f[0] = FirstSearch(text)
                 /\ \A n \in 1..(Len(text) + 1) :
                      f[n] = Ranking!Halve(f[n - 1], text, blocks, budget)
<1>. DEFINE k == Len(text) + 1
<1>1. k \in Nat /\ FirstSearch(text) \in Searches
  BY DEF FirstSearch, Searches
<1>2. PICK F : F = [p \in Searches \X (1..k) |-> Ranking!Halve(p[1], text, blocks, budget)]
  OBVIOUS
<1>3. ASSUME NEW s \in Searches, NEW n \in 1..k
      PROVE  F[<<s, n>>] = Ranking!Halve(s, text, blocks, budget) /\ F[<<s, n>>] \in Searches
  BY <1>2, HalveTyped
<1>. HIDE DEF k
<1>4. PICK f : Walked(f, F, Searches, FirstSearch(text), k)
  BY <1>1, <1>3, Walks
<1>5. Searching(f, text, blocks, budget)
  <2>1. f \in [0..k -> Searches] /\ f[0] = FirstSearch(text)
    BY <1>4 DEF Walked
  <2>2. ASSUME NEW n \in 1..k PROVE f[n] = Ranking!Halve(f[n - 1], text, blocks, budget)
    <3>1. f[n - 1] \in Searches /\ f[n] = F[<<f[n - 1], n>>]
      BY <1>1, <1>4, <2>1 DEF Walked
    <3>. QED
      BY <1>3, <3>1
  <2>. QED
    BY <1>1, <2>1, <2>2 DEF Searching, k
<1>6. \E g : Searching(g, text, blocks, budget)
             /\ Ranking!LongestCut(text, blocks, budget) = g[Len(text) + 1].best
  BY <1>5 DEF Searching, FirstSearch, Ranking!LongestCut, Ranking!Loop
<1>7. PICK g : Searching(g, text, blocks, budget)
             /\ Ranking!LongestCut(text, blocks, budget) = g[k].best
  BY <1>6 DEF k
<1>8. /\ g[0] = FirstSearch(text)
      /\ \A n \in 1..k : g[n] = Ranking!Halve(g[n - 1], text, blocks, budget)
  BY <1>1, <1>7 DEF Searching, k
<1>. QED
  BY <1>7, <1>8 DEF k

(* Whether the first n characters have room.                               *)
Room(text, n, blocks, budget) ==
    Ranking!Fits(Append(blocks, Ranking!CutBlock(Ranking!Trimmed(text, n))), budget)

(* What the search knows after n rounds.                                   *)
Narrowed(s, n, text, blocks, budget) ==
    /\ s \in Searches
    /\ s.high \in -1..Len(text) /\ s.low \in 0..(s.high + 1)
    /\ s.low <= s.high => s.high - s.low + n <= Len(text)
    /\ s.low = 0 => s.best = 0
    /\ s.low > 0 => s.best = Ranking!Trimmed(text, s.low - 1) /\ Room(text, s.low - 1, blocks, budget)
    /\ s.high < Len(text) => ~Room(text, s.high + 1, blocks, budget)

(* The middle of an interval, rounded down, lies in it.                    *)
LEMMA MiddleBetween ==
    ASSUME NEW low \in Int, NEW high \in Int, low <= high
    PROVE  /\ (low + high) \div 2 \in Int
           /\ low <= (low + high) \div 2 /\ (low + high) \div 2 <= high
<1>1. PICK middle \in Int : middle = (low + high) \div 2
  BY SMTT(30)
<1>2. 2 * middle <= low + high /\ low + high <= 2 * middle + 1
  BY <1>1, SMTT(30)
<1>. QED
  BY <1>1, <1>2, SMTT(30)

(* Halving keeps what the search knows.                                    *)
LEMMA HalveNarrows ==
    ASSUME NEW text, Len(text) \in Nat, NEW blocks \in Seq(Nat), NEW budget \in Nat,
           NEW n \in Nat, NEW s, Narrowed(s, n, text, blocks, budget)
    PROVE  Narrowed(Ranking!Halve(s, text, blocks, budget), n + 1, text, blocks, budget)
<1>1. s.low \in Nat /\ s.high \in Int /\ s.best \in Nat /\ s \in Searches
  BY DEF Searches, Narrowed
<1>2. PICK middle : middle = (s.low + s.high) \div 2
  OBVIOUS
<1>3. PICK t : t = Ranking!Halve(s, text, blocks, budget)
  OBVIOUS
<1>4. t \in Searches
  BY <1>1, <1>3, HalveTyped
<1>5. CASE s.low > s.high
  <2>1. t = s
    BY <1>3, <1>5 DEF Ranking!Halve
  <2>. QED
    BY <1>1, <1>3, <1>5, <2>1 DEF Narrowed
<1>6. CASE s.low <= s.high
  <2>a. /\ s.high <= Len(text) /\ s.high \in -1..Len(text)
        /\ s.high - s.low + n <= Len(text)
    BY <1>6 DEF Narrowed
  <2>b. PICK low \in Nat, high \in Int : low = s.low /\ high = s.high
    BY <1>1
  <2>c. middle = (low + high) \div 2 /\ low <= high
    BY <1>2, <1>6, <2>b
  <2>d. middle \in Int /\ low <= middle /\ middle <= high
    BY <2>b, <2>c, MiddleBetween
  <2>1. middle \in s.low..s.high /\ middle \in Nat /\ middle <= Len(text)
    BY <2>a, <2>b, <2>d
  <2>2. CASE Room(text, middle, blocks, budget)
    <3>1. t = [s EXCEPT !.low = middle + 1, !.best = Ranking!Trimmed(text, middle)]
      BY <1>1, <1>2, <1>3, <1>6, <2>2 DEF Ranking!Halve, Room
    <3>2. t.low = middle + 1 /\ t.high = s.high /\ t.best = Ranking!Trimmed(text, middle)
      BY <1>1, <3>1 DEF Searches
    <3>3. t.low - 1 = middle
      BY <2>1, <3>2
    <3>4. t.high \in -1..Len(text) /\ t.low \in 0..(t.high + 1) /\ t.low > 0
          /\ (t.low <= t.high => t.high - t.low + (n + 1) <= Len(text))
      BY <1>1, <1>6, <2>a, <2>1, <3>2
    <3>5. t.high < Len(text) => ~Room(text, t.high + 1, blocks, budget)
      BY <3>2 DEF Narrowed
    <3>. QED
      BY <1>3, <1>4, <2>2, <3>2, <3>3, <3>4, <3>5 DEF Narrowed
  <2>3. CASE ~Room(text, middle, blocks, budget)
    <3>1. t = [s EXCEPT !.high = middle - 1]
      BY <1>1, <1>2, <1>3, <1>6, <2>3 DEF Ranking!Halve, Room
    <3>2. t.low = s.low /\ t.high = middle - 1 /\ t.best = s.best
      BY <1>1, <3>1 DEF Searches
    <3>3. t.high + 1 = middle
      BY <2>1, <3>2
    <3>4. t.high \in -1..Len(text) /\ t.low \in 0..(t.high + 1)
          /\ (t.low <= t.high => t.high - t.low + (n + 1) <= Len(text))
      BY <1>1, <1>6, <2>a, <2>1, <3>2
    <3>. QED
      BY <1>3, <1>4, <2>3, <3>2, <3>3, <3>4 DEF Narrowed
  <2>. QED
    BY <2>2, <2>3
<1>7. s.low > s.high \/ s.low <= s.high
  <2>1. s.low \in Int /\ s.high \in Int
    BY <1>1
  <2>. QED
    BY <2>1
<1>. QED
  BY ZenonT(30), <1>5, <1>6, <1>7

(* The search finds the longest prefix there is room for.                  *)
LEMMA LongestCutFits ==
    ASSUME NEW text, Len(text) \in Nat, NEW blocks \in Seq(Nat), NEW budget \in Nat,
           Ranking!Fits(Append(blocks, Ranking!CutBlock(0)), budget)
    PROVE  LET best == Ranking!LongestCut(text, blocks, budget)
           IN  /\ best \in Nat
               /\ Ranking!Fits(Append(blocks, Ranking!CutBlock(best)), budget)
               /\ \A n \in 0..Len(text) :
                    Ranking!Trimmed(text, n) > best => ~Room(text, n, blocks, budget)
<1>. DEFINE k == Len(text) + 1
<1>1. PICK f : /\ Ranking!LongestCut(text, blocks, budget) = f[k].best
               /\ f[0] = FirstSearch(text)
               /\ \A n \in 1..k : f[n] = Ranking!Halve(f[n - 1], text, blocks, budget)
  BY SearchIs
<1>2. k \in Nat
  OBVIOUS
<1>. DEFINE T == {n \in 0..k : Narrowed(f[n], n, text, blocks, budget)}
<1>3. 0 \in T
  <2>1. Narrowed(FirstSearch(text), 0, text, blocks, budget)
    BY DEF Narrowed, FirstSearch, Searches
  <2>. QED
    BY <1>1, <1>2, <2>1
<1>4. ASSUME NEW n \in 1..k, n - 1 \in T PROVE n \in T
  <2>1. n - 1 \in Nat /\ (n - 1) + 1 = n /\ n \in 0..k
    BY <1>2
  <2>2. Narrowed(f[n - 1], n - 1, text, blocks, budget)
    BY <1>4
  <2>3. f[n] = Ranking!Halve(f[n - 1], text, blocks, budget)
    BY <1>1
  <2>. HIDE DEF k
  <2>4. Narrowed(f[n], n, text, blocks, budget)
    BY <2>1, <2>2, <2>3, HalveNarrows
  <2>. QED
    BY <2>1, <2>4
<1>. HIDE DEF T, k
<1>5. k \in T
  BY <1>2, <1>3, <1>4, UpToAtEnd
<1>6. PICK s : s = f[k]
  OBVIOUS
<1>7. Narrowed(s, k, text, blocks, budget)
  BY <1>5, <1>6 DEF T
<1>8. s.low = s.high + 1 /\ s.high \in -1..Len(text) /\ s.low \in Nat /\ s.best \in Nat
  BY <1>7 DEF Narrowed, Searches, k
<1>9. s.low > 0
  <2>. SUFFICES ASSUME s.low = 0 PROVE FALSE
    BY <1>8
  <2>1. ~Room(text, 0, blocks, budget)
    BY <1>7, <1>8 DEF Narrowed
  <2>2. Ranking!Trimmed(text, 0) = 0
    BY TrimmedFacts
  <2>. QED
    BY <2>1, <2>2 DEF Room
<1>10. s.best = Ranking!Trimmed(text, s.low - 1) /\ Room(text, s.low - 1, blocks, budget)
  BY <1>7, <1>9 DEF Narrowed
<1>11. ASSUME NEW n \in 0..Len(text), Ranking!Trimmed(text, n) > s.best
       PROVE  ~Room(text, n, blocks, budget)
  <2>1. s.low - 1 \in Nat /\ n \in Nat
    BY <1>8, <1>9
  <2>2. ~(n <= s.low - 1)
    <3>. SUFFICES ASSUME n <= s.low - 1 PROVE FALSE
      OBVIOUS
    <3>1. Ranking!Trimmed(text, n) <= Ranking!Trimmed(text, s.low - 1)
      BY <2>1, TrimmedFacts
    <3>2. Ranking!Trimmed(text, n) \in Int /\ s.best \in Int
      BY <1>8, <2>1, TrimmedFacts
    <3>. QED
      BY <1>10, <1>11, <3>1, <3>2
  <2>3. s.high < Len(text) /\ s.high + 1 <= n /\ s.high + 1 \in Nat
    BY <1>8, <1>9, <2>1, <2>2
  <2>4. ~Room(text, s.high + 1, blocks, budget)
    BY <1>7, <2>3 DEF Narrowed
  <2>5. /\ Ranking!Trimmed(text, s.high + 1) \in Nat /\ Ranking!Trimmed(text, n) \in Nat
        /\ Ranking!Trimmed(text, s.high + 1) <= Ranking!Trimmed(text, n)
    BY <2>1, <2>3, TrimmedFacts
  <2>6. /\ Ranking!CutBlock(Ranking!Trimmed(text, s.high + 1)) \in Nat
        /\ Ranking!CutBlock(Ranking!Trimmed(text, n)) \in Nat
        /\ Ranking!CutBlock(Ranking!Trimmed(text, s.high + 1))
             <= Ranking!CutBlock(Ranking!Trimmed(text, n))
    BY <2>5, ContextAssumption DEF Ranking!CutBlock
  <2>. QED
    BY <2>4, <2>6, FitsShorter DEF Room
<1>. QED
  BY <1>1, <1>6, <1>8, <1>10, <1>11 DEF Room

-----------------------------------------------------------------------------
(* formatRetrievedContext: the blocks.                                     *)

Shows == [blocks : Seq(Nat), stop : BOOLEAN, partial : BOOLEAN]
FirstShow == [blocks |-> <<>>, stop |-> FALSE, partial |-> FALSE]
Readable(results) ==
    /\ results \in Seq(Range(results))
    /\ \A i \in 1..Len(results) : Len(results[i].text) \in Nat

Cut(r, blocks, budget) == Ranking!CutBlock(Ranking!LongestCut(r.text, blocks, budget))

(* What a round does: nothing more, a whole block, a cut one, or the end.  *)
LEMMA AddBlockIs ==
    ASSUME NEW s \in Shows, NEW r, Len(r.text) \in Nat, NEW budget \in Nat
    PROVE  LET t == Ranking!AddBlock(s, r, budget)
               whole == Append(s.blocks, Ranking!WholeBlock(r))
           IN  /\ t \in Shows
               /\ \/ s.stop /\ t = s
                  \/ /\ ~s.stop /\ t.blocks = whole /\ ~t.stop /\ t.partial = s.partial
                     /\ Ranking!Fits(whole, budget)
                  \/ /\ ~s.stop /\ Ranking!Fits(Append(s.blocks, Ranking!CutBlock(0)), budget)
                     /\ t.blocks = Append(s.blocks, Cut(r, s.blocks, budget))
                     /\ t.stop /\ t.partial /\ Cut(r, s.blocks, budget) \in Nat
                  \/ /\ ~s.stop /\ t.blocks = s.blocks /\ t.stop /\ t.partial = s.partial
<1>. DEFINE whole == Append(s.blocks, Ranking!WholeBlock(r))
            short == Append(s.blocks, Ranking!CutBlock(0))
<1>1. s.blocks \in Seq(Nat) /\ s.stop \in BOOLEAN /\ s.partial \in BOOLEAN
  BY DEF Shows
<1>2. Ranking!WholeBlock(r) \in Nat
  BY TrimmedFacts, ContextAssumption DEF Ranking!WholeBlock
<1>3. PICK t : t = Ranking!AddBlock(s, r, budget)
  OBVIOUS
<1>4. CASE s.stop
  BY <1>3, <1>4 DEF Ranking!AddBlock
<1>5. CASE ~s.stop /\ Ranking!Fits(whole, budget)
  <2>1. t = [s EXCEPT !.blocks = whole]
    BY <1>3, <1>5 DEF Ranking!AddBlock
  <2>2. whole \in Seq(Nat)
    BY <1>1, <1>2
  <2>. HIDE DEF whole
  <2>3. t \in Shows /\ t.blocks = whole /\ t.stop = s.stop /\ t.partial = s.partial
    BY <2>1, <2>2 DEF Shows
  <2>. QED
    BY <1>3, <1>5, <2>3 DEF whole
<1>6. CASE ~s.stop /\ ~Ranking!Fits(whole, budget) /\ Ranking!Fits(short, budget)
  <2>1. t = [blocks |-> Append(s.blocks, Cut(r, s.blocks, budget)), stop |-> TRUE, partial |-> TRUE]
    BY <1>3, <1>6 DEF Ranking!AddBlock, Cut
  <2>2. Ranking!LongestCut(r.text, s.blocks, budget) \in Nat
    BY <1>1, <1>6, LongestCutFits
  <2>3. Cut(r, s.blocks, budget) \in Nat
    BY <2>2, ContextAssumption DEF Cut, Ranking!CutBlock
  <2>4. t \in Shows
    BY <1>1, <2>1, <2>3 DEF Shows
  <2>5. t.blocks = Append(s.blocks, Cut(r, s.blocks, budget)) /\ t.stop /\ t.partial
    BY <2>1
  <2>. HIDE DEF whole
  <2>. QED
    BY <1>3, <1>6, <2>3, <2>4, <2>5 DEF whole
<1>7. CASE ~s.stop /\ ~Ranking!Fits(whole, budget) /\ ~Ranking!Fits(short, budget)
  <2>1. t = [s EXCEPT !.stop = TRUE]
    BY <1>3, <1>7 DEF Ranking!AddBlock
  <2>2. t \in Shows /\ t.blocks = s.blocks /\ t.stop /\ t.partial = s.partial
    BY <2>1 DEF Shows
  <2>. QED
    BY <1>3, <1>7, <2>2
<1>. QED
  BY <1>1, <1>4, <1>5, <1>6, <1>7

Showing(f, results, budget) ==
    f = [n \in 0..Len(results) |->
           IF n = 0 THEN FirstShow ELSE Ranking!AddBlock(f[n - 1], results[n], budget)]

LEMMA BlocksAre ==
    ASSUME NEW results, Readable(results), NEW budget \in Nat
    PROVE  \E f : /\ Ranking!Blocks(results, budget) = f[Len(results)]
                 /\ f[0] = FirstShow
                 /\ \A n \in 1..Len(results) :
                      f[n] = Ranking!AddBlock(f[n - 1], results[n], budget)
<1>. DEFINE k == Len(results)
<1>1. /\ k \in Nat /\ FirstShow \in Shows
      /\ \A n \in 1..k : Len(results[n].text) \in Nat
  BY DEF Readable, FirstShow, Shows
<1>2. PICK F : F = [p \in Shows \X (1..k) |-> Ranking!AddBlock(p[1], results[p[2]], budget)]
  OBVIOUS
<1>3. ASSUME NEW s \in Shows, NEW n \in 1..k
      PROVE  F[<<s, n>>] = Ranking!AddBlock(s, results[n], budget) /\ F[<<s, n>>] \in Shows
  <2>1. F[<<s, n>>] = Ranking!AddBlock(s, results[n], budget)
    BY <1>2
  <2>. QED
    BY <1>1, <2>1, AddBlockIs
<1>. HIDE DEF k
<1>4. PICK f : Walked(f, F, Shows, FirstShow, k)
  BY <1>1, <1>3, Walks
<1>5. Showing(f, results, budget)
  <2>1. f \in [0..k -> Shows] /\ f[0] = FirstShow
    BY <1>4 DEF Walked
  <2>2. ASSUME NEW n \in 1..k PROVE f[n] = Ranking!AddBlock(f[n - 1], results[n], budget)
    <3>1. f[n - 1] \in Shows /\ f[n] = F[<<f[n - 1], n>>]
      BY <1>1, <1>4, <2>1 DEF Walked
    <3>. QED
      BY <1>3, <3>1
  <2>. QED
    BY <1>1, <2>1, <2>2 DEF Showing, k
<1>6. \E g : Showing(g, results, budget) /\ Ranking!Blocks(results, budget) = g[Len(results)]
  BY <1>5 DEF Showing, FirstShow, Ranking!Blocks, Ranking!Loop
<1>7. PICK g : Showing(g, results, budget) /\ Ranking!Blocks(results, budget) = g[k]
  BY <1>6 DEF k
<1>8. /\ g[0] = FirstShow
      /\ \A n \in 1..k : g[n] = Ranking!AddBlock(g[n - 1], results[n], budget)
  BY <1>1, <1>7 DEF Showing, k
<1>. QED
  BY <1>7, <1>8 DEF k

Wholes(results, n) == [i \in 1..n |-> Ranking!WholeBlock(results[i])]

(* The last block is cut, after the others.                                *)
CutAt(blocks, m, results, budget) ==
    \E front \in Seq(Nat) :
        /\ Len(front) = m - 1
        /\ Ranking!Fits(Append(front, Ranking!CutBlock(0)), budget)
        /\ Cut(results[m], front, budget) \in Nat
        /\ blocks = Append(front, Cut(results[m], front, budget))

(* What has been shown after n results.                                    *)
Shown(s, n, results, budget) ==
    /\ s \in Shows /\ Len(s.blocks) \in 0..n
    /\ s.blocks # <<>> => Ranking!Fits(s.blocks, budget)
    /\ ~s.stop => ~s.partial /\ s.blocks = Wholes(results, n)
    /\ s.stop /\ ~s.partial => Len(s.blocks) < n
    /\ s.partial => s.stop /\ Len(s.blocks) > 0
                    /\ CutAt(s.blocks, Len(s.blocks), results, budget)

LEMMA AddBlockShows ==
    ASSUME NEW results, Readable(results), NEW budget \in Nat, NEW n \in 1..Len(results),
           NEW s, Shown(s, n - 1, results, budget)
    PROVE  Shown(Ranking!AddBlock(s, results[n], budget), n, results, budget)
<1>1. /\ s \in Shows /\ s.blocks \in Seq(Nat) /\ s.stop \in BOOLEAN /\ s.partial \in BOOLEAN
      /\ Len(s.blocks) \in 0..(n - 1) /\ Len(s.blocks) \in Nat /\ n \in Nat
  BY DEF Shown, Shows
<1>2. Len(results[n].text) \in Nat
  BY DEF Readable
<1>3. PICK t : t = Ranking!AddBlock(s, results[n], budget)
  OBVIOUS
<1>. DEFINE whole == Append(s.blocks, Ranking!WholeBlock(results[n]))
<1>4. /\ t \in Shows
      /\ \/ s.stop /\ t = s
         \/ /\ ~s.stop /\ t.blocks = whole /\ ~t.stop /\ t.partial = s.partial
            /\ Ranking!Fits(whole, budget)
         \/ /\ ~s.stop /\ Ranking!Fits(Append(s.blocks, Ranking!CutBlock(0)), budget)
            /\ t.blocks = Append(s.blocks, Cut(results[n], s.blocks, budget))
            /\ t.stop /\ t.partial /\ Cut(results[n], s.blocks, budget) \in Nat
         \/ /\ ~s.stop /\ t.blocks = s.blocks /\ t.stop /\ t.partial = s.partial
  BY <1>1, <1>2, <1>3, AddBlockIs
<1>5. ~s.stop => ~s.partial /\ s.blocks = Wholes(results, n - 1)
  BY DEF Shown
<1>6. CASE s.stop /\ t = s
  BY <1>1, <1>3, <1>6 DEF Shown
<1>7. CASE /\ ~s.stop /\ t.blocks = whole /\ ~t.stop /\ t.partial = s.partial
           /\ Ranking!Fits(whole, budget)
  <2>1. Ranking!WholeBlock(results[n]) \in Nat
    BY <1>2, TrimmedFacts, ContextAssumption DEF Ranking!WholeBlock
  <2>2. Len(s.blocks) = n - 1
    BY <1>1, <1>5, <1>7 DEF Wholes
  <2>3. whole = Wholes(results, n)
    <3>1. whole \in Seq(Nat) /\ Len(whole) = n /\ whole[n] = Ranking!WholeBlock(results[n])
          /\ \A i \in 1..(n - 1) : whole[i] = s.blocks[i]
      BY <1>1, <2>1, <2>2
    <3>2. \A i \in 1..(n - 1) : s.blocks[i] = Ranking!WholeBlock(results[i])
      BY <1>5, <1>7 DEF Wholes
    <3>. HIDE DEF whole
    <3>3. whole = [i \in 1..n |-> whole[i]]
      BY <3>1
    <3>4. \A i \in 1..n : whole[i] = Ranking!WholeBlock(results[i])
      BY <1>1, <3>1, <3>2
    <3>. QED
      BY <3>3, <3>4 DEF Wholes
  <2>4. Len(whole) = n
    BY <1>1, <2>1, <2>2
  <2>. HIDE DEF whole
  <2>. QED
    BY <1>1, <1>3, <1>4, <1>5, <1>7, <2>3, <2>4 DEF Shown
<1>8. CASE /\ ~s.stop /\ Ranking!Fits(Append(s.blocks, Ranking!CutBlock(0)), budget)
           /\ t.blocks = Append(s.blocks, Cut(results[n], s.blocks, budget))
           /\ t.stop /\ t.partial /\ Cut(results[n], s.blocks, budget) \in Nat
  <2>1. Len(s.blocks) = n - 1
    BY <1>1, <1>5, <1>8 DEF Wholes
  <2>2. Len(t.blocks) = n /\ t.blocks # <<>>
    <3>1. PICK x \in Nat : x = Cut(results[n], s.blocks, budget)
      BY <1>8
    <3>2. t.blocks = Append(s.blocks, x)
      BY <1>8, <3>1
    <3>. QED
      BY <1>1, <2>1, <3>2
  <2>3. CutAt(t.blocks, n, results, budget)
    BY <1>1, <1>8, <2>1 DEF CutAt
  <2>4. Ranking!Fits(t.blocks, budget)
    BY <1>1, <1>2, <1>8, LongestCutFits DEF Cut
  <2>. QED
    BY <1>1, <1>3, <1>4, <1>8, <2>2, <2>3, <2>4 DEF Shown
<1>9. CASE ~s.stop /\ t.blocks = s.blocks /\ t.stop /\ t.partial = s.partial
  <2>1. s.blocks # <<>> => Ranking!Fits(s.blocks, budget)
    BY DEF Shown
  <2>. QED
    BY <1>1, <1>3, <1>4, <1>5, <1>9, <2>1 DEF Shown
<1>. QED
  BY <1>4, <1>6, <1>7, <1>8, <1>9

LEMMA BlocksFacts ==
    ASSUME NEW results, Readable(results), NEW budget \in Nat
    PROVE  Shown(Ranking!Blocks(results, budget), Len(results), results, budget)
<1>1. PICK k : k = Len(results)
  OBVIOUS
<1>2. k \in Nat
  BY <1>1 DEF Readable
<1>3. PICK f : /\ Ranking!Blocks(results, budget) = f[k]
               /\ f[0] = FirstShow
               /\ \A n \in 1..k : f[n] = Ranking!AddBlock(f[n - 1], results[n], budget)
  BY <1>1, BlocksAre
<1>. DEFINE T == {n \in 0..k : Shown(f[n], n, results, budget)}
<1>4. 0 \in T
  <2>1. Wholes(results, 0) = <<>>
    BY DEF Wholes
  <2>2. Shown(FirstShow, 0, results, budget)
    BY <2>1 DEF Shown, FirstShow, Shows
  <2>. QED
    BY <1>2, <1>3, <2>2
<1>5. ASSUME NEW n \in 1..k, n - 1 \in T PROVE n \in T
  <2>1. Shown(f[n - 1], n - 1, results, budget)
    BY <1>5
  <2>2. Shown(f[n], n, results, budget)
    BY <1>1, <1>3, <2>1, AddBlockShows
  <2>. QED
    BY <1>2, <2>2
<1>. HIDE DEF T
<1>6. k \in T
  BY <1>2, <1>4, <1>5, UpToAtEnd
<1>. QED
  BY <1>1, <1>3, <1>6 DEF T

(* The limited results of a call, and the blocks shown of them.            *)
LimitedOf(one) == Ranking!Limit(one.results, one.maxResults, one.perSource)
ShownOf(one) == Ranking!Blocks(LimitedOf(one), one.maxTokens)
ContextOf(one) ==
    Ranking!Context(one.results, one.maxTokens, one.maxResults, one.perSource)

LEMMA ShownFacts ==
    ASSUME NEW one \in ContextCalls
    PROVE  /\ one.results \in Seq(Range(one.results)) /\ one.maxTokens \in Nat
           /\ LimitedOf(one) \in Seq(Range(one.results))
           /\ Len(LimitedOf(one)) \in 0..Len(one.results)
           /\ Len(LimitedOf(one)) = Len(one.results) => LimitedOf(one) = one.results
           /\ Readable(LimitedOf(one))
           /\ Shown(ShownOf(one), Len(LimitedOf(one)), LimitedOf(one), one.maxTokens)
<1>1. /\ one.results \in Seq(Range(one.results)) /\ one.maxTokens \in Nat
      /\ \A r \in Range(one.results) : Len(r.text) \in Nat
  <2>1. \A r \in Range(one.results) : r.text \in Seq(Range(r.text))
    BY ContextAssumption
  <2>. QED
    BY <2>1, ContextAssumption
<1>2. /\ LimitedOf(one) \in Seq(Range(one.results))
      /\ Len(LimitedOf(one)) \in 0..Len(one.results)
      /\ Len(LimitedOf(one)) = Len(one.results) => LimitedOf(one) = one.results
  BY <1>1, LimitFacts DEF LimitedOf
<1>3. PICK limited : limited = LimitedOf(one)
  OBVIOUS
<1>4. Readable(limited)
  <2>1. limited \in Seq(Range(one.results))
    BY <1>2, <1>3
  <2>2. \A i \in 1..Len(limited) : limited[i] \in Range(one.results)
    BY <2>1
  <2>3. limited \in Seq(Range(limited))
    BY <2>1 DEF Range
  <2>. QED
    BY <1>1, <2>2, <2>3 DEF Readable
<1>5. Shown(ShownOf(one), Len(limited), limited, one.maxTokens)
  BY <1>1, <1>3, <1>4, BlocksFacts DEF ShownOf
<1>. QED
  BY <1>1, <1>2, <1>3, <1>4, <1>5

LEMMA ContextFacts ==
    ASSUME NEW one \in ContextCalls
    PROVE  LET context == ContextOf(one)
               shown == ShownOf(one)
               total == Len(one.results)
           IN  /\ context.used \in Nat /\ context.tokens <= one.maxTokens
               /\ context.used + context.omitted = total
               /\ ~context.truncated => shown.blocks = Wholes(one.results, total)
               /\ context.used > 0 /\ shown.partial => context.truncated
<1>1. PICK limited : limited = LimitedOf(one)
  OBVIOUS
<1>2. PICK shown : shown = ShownOf(one)
  OBVIOUS
<1>3. PICK context : context = ContextOf(one)
  OBVIOUS
<1>4. PICK total : total = Len(one.results)
  OBVIOUS
<1>5. /\ one.maxTokens \in Nat /\ total \in Nat
      /\ Len(limited) \in 0..total
      /\ Len(limited) = total => limited = one.results
      /\ limited = <<>> <=> Len(limited) = 0
      /\ Shown(shown, Len(limited), limited, one.maxTokens)
  <2>1. limited \in Seq(Range(one.results))
    BY <1>1, ShownFacts
  <2>2. limited = <<>> <=> Len(limited) = 0
    BY <2>1
  <2>. QED
    BY <1>1, <1>2, <1>4, <2>2, ShownFacts
<1>6. /\ shown.blocks \in Seq(Nat) /\ Len(shown.blocks) \in Nat
      /\ Len(shown.blocks) <= Len(limited) /\ shown.partial \in BOOLEAN
      /\ shown.blocks = <<>> <=> Len(shown.blocks) = 0
  BY <1>5 DEF Shown, Shows
<1>7. CASE limited = <<>> \/ Ranking!Tokens(HeaderLen) > one.maxTokens
  <2>1. context = [tokens |-> 0, used |-> 0, omitted |-> total, truncated |-> total > 0]
    BY <1>1, <1>3, <1>4, <1>7 DEF ContextOf, LimitedOf, Ranking!Context
  <2>2. context.tokens = 0 /\ context.used = 0 /\ context.omitted = total
        /\ (context.truncated <=> total > 0)
    BY <2>1
  <2>3. total = 0 => shown.blocks = Wholes(one.results, total)
    <3>. SUFFICES ASSUME total = 0 PROVE shown.blocks = Wholes(one.results, total)
      OBVIOUS
    <3>1. Len(shown.blocks) = 0
      BY <1>5, <1>6
    <3>. QED
      BY <1>6, <3>1 DEF Wholes
  <2>. QED
    BY <1>2, <1>3, <1>4, <1>5, <2>2, <2>3
<1>8. CASE ~(limited = <<>> \/ Ranking!Tokens(HeaderLen) > one.maxTokens)
  <2>. DEFINE used == Len(shown.blocks)
  <2>1. context = [tokens |-> Ranking!Tokens(Ranking!ContextLen(shown.blocks)), used |-> used,
                   omitted |-> total - used, truncated |-> shown.partial \/ total - used > 0]
    BY <1>1, <1>2, <1>3, <1>4, <1>8 DEF ContextOf, LimitedOf, ShownOf, Ranking!Context
  <2>2. context.tokens = Ranking!Tokens(Ranking!ContextLen(shown.blocks))
        /\ context.used = used /\ context.omitted = total - used
        /\ (context.truncated <=> shown.partial \/ total - used > 0)
    BY <2>1
  <2>3. context.tokens <= one.maxTokens
    <3>1. CASE shown.blocks = <<>>
      <4>1. context.tokens = Ranking!Tokens(HeaderLen)
        BY <2>2, <3>1 DEF Ranking!ContextLen
      <4>2. Ranking!Tokens(HeaderLen) \in Int
        BY ContextAssumption DEF Ranking!Tokens
      <4>. QED
        BY <1>5, <1>8, <4>1, <4>2
    <3>2. CASE shown.blocks # <<>>
      BY <1>5, <2>2, <3>2 DEF Shown, Ranking!Fits
    <3>. QED
      BY <3>1, <3>2
  <2>4. ~context.truncated => shown.blocks = Wholes(one.results, total)
    <3>. SUFFICES ASSUME ~shown.partial, ~(total - used > 0)
                  PROVE  shown.blocks = Wholes(one.results, total)
      BY <2>2
    <3>1. used = Len(limited) /\ Len(limited) = total
      BY <1>5, <1>6
    <3>2. ~shown.stop
      BY <1>5, <1>6, <3>1 DEF Shown
    <3>. QED
      BY <1>5, <3>1, <3>2 DEF Shown
  <2>5. used \in Nat /\ used + (total - used) = total
    BY <1>5, <1>6
  <2>. HIDE DEF used
  <2>. QED
    BY <1>2, <1>3, <1>4, <2>2, <2>3, <2>4, <2>5
<1>. QED
  BY <1>7, <1>8

(* A text that was cut was cut as late as the budget allows.               *)
LEMMA CutIsLongest ==
    ASSUME NEW one \in ContextCalls, ShownOf(one).partial,
           NEW n, n \in 0..Len(LimitedOf(one)[Len(ShownOf(one).blocks)].text),
           Ranking!CutBlock(Ranking!Trimmed(LimitedOf(one)[Len(ShownOf(one).blocks)].text, n))
             > ShownOf(one).blocks[Len(ShownOf(one).blocks)]
    PROVE  ~Room(LimitedOf(one)[Len(ShownOf(one).blocks)].text, n,
                 Front(ShownOf(one).blocks), one.maxTokens)
<1>1. PICK limited : limited = LimitedOf(one)
  OBVIOUS
<1>2. PICK shown : shown = ShownOf(one)
  OBVIOUS
<1>3. PICK last : last = Len(shown.blocks)
  OBVIOUS
<1>4. PICK text : text = limited[last].text
  OBVIOUS
<1>5. /\ Shown(shown, Len(limited), limited, one.maxTokens) /\ shown.partial
      /\ one.maxTokens \in Nat /\ Readable(limited)
  BY <1>1, <1>2, ShownFacts
<1>6. last \in 1..Len(limited) /\ CutAt(shown.blocks, last, limited, one.maxTokens)
  <2>1. last \in 0..Len(limited) /\ last > 0
    BY <1>3, <1>5 DEF Shown
  <2>2. Len(limited) \in Nat
    BY <1>5 DEF Readable
  <2>. QED
    BY <1>3, <1>5, <2>1, <2>2 DEF Shown
<1>7. PICK front \in Seq(Nat) :
        /\ Len(front) = last - 1
        /\ Ranking!Fits(Append(front, Ranking!CutBlock(0)), one.maxTokens)
        /\ Cut(limited[last], front, one.maxTokens) \in Nat
        /\ shown.blocks = Append(front, Cut(limited[last], front, one.maxTokens))
  BY <1>6 DEF CutAt
<1>8. PICK best : best = Ranking!LongestCut(text, front, one.maxTokens)
  OBVIOUS
<1>9. Len(text) \in Nat
  BY <1>4, <1>5, <1>6 DEF Readable
<1>10. /\ best \in Nat
       /\ \A i \in 0..Len(text) :
            Ranking!Trimmed(text, i) > best => ~Room(text, i, front, one.maxTokens)
  BY <1>5, <1>7, <1>8, <1>9, LongestCutFits
<1>11. PICK x \in Nat : x = Ranking!CutBlock(best)
  BY <1>10, ContextAssumption DEF Ranking!CutBlock
<1>12. shown.blocks = Append(front, x)
  BY <1>4, <1>7, <1>8, <1>11 DEF Cut
<1>13. shown.blocks[last] = x /\ Front(shown.blocks) = front
  <2>1. last \in Nat
    BY <1>6
  <2>2. Len(Append(front, x)) = Len(front) + 1 /\ Append(front, x)[Len(front) + 1] = x
    OBVIOUS
  <2>3. SubSeq(Append(front, x), 1, Len(front)) = front
    BY AppendProperties, SubSeqProperties, SeqEqual
  <2>. QED
    BY <1>7, <1>12, <2>1, <2>2, <2>3 DEF Front
<1>14. Ranking!Trimmed(text, n) > best
  <2>1. n \in Nat /\ Ranking!Trimmed(text, n) \in Nat
    BY <1>1, <1>2, <1>3, <1>4, <1>9, TrimmedFacts
  <2>2. Ranking!CutBlock(Ranking!Trimmed(text, n)) > Ranking!CutBlock(best)
    BY <1>1, <1>2, <1>3, <1>4, <1>11, <1>13
  <2>. QED
    BY <1>10, <2>1, <2>2, ContextAssumption DEF Ranking!CutBlock
<1>. QED
  BY <1>1, <1>2, <1>3, <1>4, <1>10, <1>13, <1>14

(* The context text is within its budget, tells what is missing, and is no *)
(* shorter than it has to be.                                              *)
THEOREM ContextBudgets == TrialSpec => []ContextWithinBudget
<1>1. OneTrial => ContextWithinBudget
  <2>. SUFFICES ASSUME OneTrial, trial.of = "context" PROVE ContextWithinBudget
    BY DEF ContextWithinBudget
  <2>1. PICK one \in ContextCalls : one = trial.call
    BY CallsOf
  <2>2. DOMAIN one.results = 1..Len(one.results)
    BY ContextAssumption
  <2>3. /\ ContextOf(one).tokens <= one.maxTokens
        /\ ContextOf(one).used + ContextOf(one).omitted = Len(one.results)
        /\ ~ContextOf(one).truncated => ShownOf(one).blocks = Wholes(one.results, Len(one.results))
        /\ ContextOf(one).used > 0 /\ ShownOf(one).partial => ContextOf(one).truncated
    BY ContextFacts
  <2>4. ASSUME ShownOf(one).partial
        PROVE  LET last == Len(ShownOf(one).blocks)
                   text == LimitedOf(one)[last].text
               IN  \A length \in {Ranking!CutBlock(Ranking!Trimmed(text, n)) : n \in 0..Len(text)} :
                     length > ShownOf(one).blocks[last] =>
                       ~Ranking!Fits(Append(Front(ShownOf(one).blocks), length), one.maxTokens)
    BY <2>4, CutIsLongest DEF Room
  <2>. QED
    BY <2>1, <2>2, <2>3, <2>4 DEF ContextWithinBudget, ContextOf, ShownOf, LimitedOf, Wholes
<1>. QED
  BY <1>1, TrialsAreCalls, PTL

(* An answer passes for grounded only when it is.                          *)
THEOREM AnswersAreGrounded == TrialSpec => []AnswersGrounded
<1>1. OneTrial => AnswersGrounded
  <2>. SUFFICES ASSUME OneTrial PROVE AnswersGrounded
    OBVIOUS
  <2>1. ASSUME trial.of = "scope", ~Chat!Refused(trial.call), NEW field \in Chat!ScopeFields
        PROVE  LET o == trial.call
                   charged == Chat!CompletionScope(o.request, o.filter)
               IN  /\ o.filter[field] # NotSet => charged[field] = o.filter[field]
                   /\ field \in o.required /\ ~o.allowUnscoped => charged[field] \notin {NotSet, ""}
    BY <2>1 DEF Chat!Refused, Chat!ScopeGiven, Chat!ScopesAgree, Chat!CompletionScope
  <2>2. ASSUME trial.of = "context", NEW cited \in SUBSET Ordinals,
               NEW required \in BOOLEAN, NEW supported \in BOOLEAN
        PROVE  LET shown == ContextOf(trial.call).used
                   options == [requireCitations |-> required, onUngrounded |-> "fallback"]
                   outcome == Chat!Outcome(options, shown, [text |-> "answer", cited |-> cited],
                                           supported)
               IN  outcome.text = "answer" =>
                     /\ shown > 0 /\ supported
                     /\ cited \subseteq 1..shown
                     /\ required => cited # {}
    <3>1. PICK shown \in Nat : shown = ContextOf(trial.call).used
      BY <2>2, CallsOf, ContextFacts
    <3>2. cited \subseteq Int
      BY ContextAssumption
    <3>. DEFINE options == [requireCitations |-> required, onUngrounded |-> "fallback"]
                answer == [text |-> "answer", cited |-> cited]
                outcome == Chat!Outcome(options, shown, answer, supported)
    <3>3. ASSUME outcome.text = "answer"
          PROVE  shown # 0 /\ supported /\ Chat!CitationsValid(cited, shown, required)
      BY <3>3 DEF Chat!Outcome
    <3>4. ASSUME shown # 0, Chat!CitationsValid(cited, shown, required)
          PROVE  shown > 0 /\ cited \subseteq 1..shown /\ (required => cited # {})
      <4>1. shown > 0
        BY <3>4
      <4>2. Chat!InvalidOrdinals(cited, shown) = {}
        BY <3>4 DEF Chat!CitationsValid
      <4>3. cited \subseteq 1..shown
        BY <3>2, <4>2 DEF Chat!InvalidOrdinals
      <4>. QED
        BY <3>4, <4>1, <4>3 DEF Chat!CitationsValid
    <3>. HIDE DEF outcome
    <3>. QED
      BY <3>1, <3>3, <3>4 DEF outcome
  <2>. QED
    BY <2>1, <2>2 DEF AnswersGrounded, ContextOf
<1>. QED
  BY <1>1, TrialsAreCalls, PTL

-----------------------------------------------------------------------------
(* Chunks.                                                                 *)

LEMMA Extremes ==
    ASSUME NEW a \in Int, NEW b \in Int, NEW S \in SUBSET (a..b), S # {}
    PROVE  /\ \E x \in S : \A y \in S : x >= y
           /\ \E x \in S : \A y \in S : x <= y
<1>1. b - a \in Nat
  <2>1. PICK x \in S : x \in a..b
    OBVIOUS
  <2>. QED
    BY <2>1
<1>. DEFINE U == {m \in 0..(b - a) : (\E y \in S : y <= a + m) =>
                     \E x \in S : \A y \in S : y <= a + m => x >= y}
            D == {m \in 0..(b - a) : (\E y \in S : y >= b - m) =>
                     \E x \in S : \A y \in S : y >= b - m => x <= y}
<1>2. 0 \in U /\ 0 \in D
  <2>1. \A y \in S : y <= a + 0 => y = a
    OBVIOUS
  <2>2. \A y \in S : y >= b - 0 => y = b
    OBVIOUS
  <2>. QED
    BY <1>1, <2>1, <2>2
<1>3. ASSUME NEW m \in 1..(b - a), m - 1 \in U PROVE m \in U
  <2>1. CASE a + m \in S
    BY <2>1
  <2>2. CASE a + m \notin S
    <3>1. \A y \in S : y <= a + m <=> y <= a + (m - 1)
      BY <2>2
    <3>. QED
      BY <1>3, <3>1
  <2>. QED
    BY <2>1, <2>2
<1>4. ASSUME NEW m \in 1..(b - a), m - 1 \in D PROVE m \in D
  <2>1. CASE b - m \in S
    BY <2>1
  <2>2. CASE b - m \notin S
    <3>1. \A y \in S : y >= b - m <=> y >= b - (m - 1)
      BY <2>2
    <3>. QED
      BY <1>4, <3>1
  <2>. QED
    BY <2>1, <2>2
<1>. HIDE DEF U, D
<1>5. b - a \in U /\ b - a \in D
  BY <1>1, <1>2, <1>3, <1>4, UpToAtEnd
<1>6. (\E y \in S : y <= a + (b - a)) =>
          \E x \in S : \A y \in S : y <= a + (b - a) => x >= y
  BY <1>5 DEF U
<1>7. (\E y \in S : y >= b - (b - a)) =>
          \E x \in S : \A y \in S : y >= b - (b - a) => x <= y
  BY <1>5 DEF D
<1>8. \A y \in S : y <= a + (b - a) /\ y >= b - (b - a)
  OBVIOUS
<1>. QED
  BY <1>6, <1>7, <1>8

LEMMA LeastAndGreatest ==
    ASSUME NEW a \in Int, NEW b \in Int, NEW S \in SUBSET (a..b), S # {}
    PROVE  /\ Chunk!Max(S) \in S /\ \A y \in S : y <= Chunk!Max(S)
           /\ Chunk!Min(S) \in S /\ \A y \in S : Chunk!Min(S) <= y
<1>1. Chunk!Max(S) \in S /\ \A y \in S : Chunk!Max(S) >= y
  BY Extremes DEF Chunk!Max
<1>2. Chunk!Min(S) \in S /\ \A y \in S : Chunk!Min(S) <= y
  BY Extremes DEF Chunk!Min
<1>. QED
  BY <1>1, <1>2

-----------------------------------------------------------------------------
(* cleanText: the text a walk is about begins with a character.            *)

Tidy(text, chars) == text \in Seq(chars) /\ (text = <<>> \/ text[1] \notin Chunk!Whitespace)

LEMMA WithoutLastTidy ==
    ASSUME NEW chars, NEW text, Tidy(text, chars), NEW ends
    PROVE  Tidy(Chunk!WithoutLast(text, ends), chars)
<1>1. text \in Seq(chars)
  BY DEF Tidy
<1>2. CASE text = <<>>
  BY <1>2 DEF Tidy, Chunk!WithoutLast
<1>3. CASE text # <<>>
  <2>1. PICK front : front = Chunk!Front(text)
    OBVIOUS
  <2>2. front = SubSeq(text, 1, Len(text) - 1)
    BY <2>1 DEF Chunk!Front
  <2>3. Len(text) \in Nat \ {0}
    BY <1>1, <1>3
  <2>4. front \in Seq(chars) /\ Len(front) = Len(text) - 1 /\ (front # <<>> => front[1] = text[1])
    <3>1. PICK k \in Nat : k = Len(text)
      BY <2>3
    <3>2. k >= 1 /\ front = SubSeq(text, 1, k - 1)
      BY <2>2, <2>3, <3>1
    <3>3. front \in Seq(chars) /\ Len(front) = k - 1
      BY <1>1, <3>1, <3>2
    <3>4. k - 1 >= 1 => front[1] = text[1]
      BY <1>1, <3>1, <3>2
    <3>. QED
      BY <3>1, <3>2, <3>3, <3>4
  <2>5. Tidy(front, chars)
    BY <1>3, <2>4 DEF Tidy
  <2>. QED
    BY <2>1, <2>5 DEF Chunk!WithoutLast
<1>. QED
  BY <1>2, <1>3

LEMMA CleanTidy ==
    ASSUME NEW chars, {Chunk!Space, Chunk!Newline} \subseteq chars, NEW text, Tidy(text, chars), NEW c \in chars
    PROVE  Tidy(Chunk!Clean(text, c), chars)
<1>1. PICK line : line = Chunk!WithoutLast(text, {Chunk!Space})
  OBVIOUS
<1>2. Tidy(line, chars) /\ line \in Seq(chars) /\ text \in Seq(chars)
  BY <1>1, WithoutLastTidy DEF Tidy
<1>3. ASSUME NEW t, Tidy(t, chars), t # <<>>, NEW x \in chars PROVE Tidy(Append(t, x), chars)
  <2>1. t \in Seq(chars) /\ t[1] \notin Chunk!Whitespace
    BY <1>3 DEF Tidy
  <2>2. Append(t, x) \in Seq(chars) /\ Append(t, x)[1] = t[1]
    BY <1>3, <2>1
  <2>. QED
    BY <2>1, <2>2 DEF Tidy
<1>4. CASE c \notin Chunk!Whitespace
  <2>1. Chunk!Clean(text, c) = Append(text, c)
    BY <1>4 DEF Chunk!Clean, Chunk!Whitespace, Chunk!Space, Chunk!Newline
  <2>2. text = <<>> => Append(text, c) \in Seq(chars) /\ Append(text, c)[1] = c
    OBVIOUS
  <2>. QED
    BY <1>3, <1>4, <2>1, <2>2 DEF Tidy
<1>5. CASE c \in {Chunk!Space, "tab"}
  <2>1. Chunk!Clean(text, c) = IF text = <<>> \/ Chunk!Last(text) \in Chunk!Whitespace
                               THEN text ELSE Append(text, Chunk!Space)
    BY <1>5 DEF Chunk!Clean, Chunk!Whitespace, Chunk!Space, Chunk!Newline
  <2>. QED
    BY <1>3, <2>1
<1>6. CASE c = Chunk!Newline
  <2>1. Chunk!Clean(text, c) = IF line = <<>> \/ Chunk!EndsWith(line, <<Chunk!Newline, Chunk!Newline>>)
                               THEN line ELSE Append(line, Chunk!Newline)
    BY <1>1, <1>6 DEF Chunk!Clean, Chunk!Whitespace, Chunk!Space, Chunk!Newline
  <2>. QED
    BY <1>2, <1>3, <2>1
<1>. QED
  BY <1>4, <1>5, <1>6 DEF Chunk!Whitespace

Cleaning(f, input) ==
    f = [n \in 0..Len(input) |-> IF n = 0 THEN <<>> ELSE Chunk!Clean(f[n - 1], input[n])]

LEMMA CleanTextTidy ==
    ASSUME NEW input, input \in Seq(Range(input))
    PROVE  Tidy(Chunk!CleanText(input), Range(input) \union {Chunk!Space, Chunk!Newline})
<1>. DEFINE chars == Range(input) \union {Chunk!Space, Chunk!Newline}
            k == Len(input)
            S == {t \in Seq(chars) : Tidy(t, chars)}
<1>1. k \in Nat /\ {Chunk!Space, Chunk!Newline} \subseteq chars /\ \A n \in 1..k : input[n] \in chars
  BY DEF Range
<1>2. <<>> \in S
  BY DEF Tidy
<1>3. PICK F : F = [p \in S \X (1..k) |-> Chunk!Clean(p[1], input[p[2]])]
  OBVIOUS
<1>. HIDE DEF chars
<1>4. ASSUME NEW s \in S, NEW n \in 1..k
      PROVE  F[<<s, n>>] = Chunk!Clean(s, input[n]) /\ F[<<s, n>>] \in S
  <2>1. F[<<s, n>>] = Chunk!Clean(s, input[n])
    BY <1>3
  <2>2. Tidy(Chunk!Clean(s, input[n]), chars)
    BY <1>1, CleanTidy
  <2>. QED
    BY <2>1, <2>2 DEF Tidy
<1>. HIDE DEF S, k
<1>5. PICK f : Walked(f, F, S, <<>>, k)
  BY <1>1, <1>2, <1>4, Walks
<1>6. f \in [0..k -> S] /\ f[0] = <<>>
  BY <1>5 DEF Walked
<1>7. ASSUME NEW n \in 1..k PROVE f[n] = Chunk!Clean(f[n - 1], input[n])
  <2>1. f[n - 1] \in S /\ f[n] = F[<<f[n - 1], n>>]
    BY <1>1, <1>5, <1>6 DEF Walked
  <2>. QED
    BY <1>4, <2>1
<1>8. Cleaning(f, input)
  BY <1>1, <1>6, <1>7 DEF Cleaning, k
<1>9. \E g : /\ Cleaning(g, input)
             /\ Chunk!CleanText(input)
                  = Chunk!WithoutLast(Chunk!WithoutLast(g[Len(input)], {Chunk!Space, Chunk!Newline}), {Chunk!Newline})
  BY <1>8 DEF Cleaning, Chunk!CleanText, Chunk!Loop
<1>10. PICK g : /\ Cleaning(g, input)
                /\ Chunk!CleanText(input)
                     = Chunk!WithoutLast(Chunk!WithoutLast(g[k], {Chunk!Space, Chunk!Newline}), {Chunk!Newline})
  BY <1>9 DEF k
<1>11. g[0] = <<>> /\ \A n \in 1..k : g[n] = Chunk!Clean(g[n - 1], input[n])
  BY <1>1, <1>10 DEF Cleaning, k
<1>. DEFINE T == {n \in 0..k : Tidy(g[n], chars)}
<1>12. 0 \in T
  <2>1. Tidy(<<>>, chars)
    BY DEF Tidy
  <2>. QED
    BY <1>1, <1>11, <2>1
<1>13. ASSUME NEW n \in 1..k, n - 1 \in T PROVE n \in T
  <2>1. Tidy(g[n - 1], chars)
    BY <1>13
  <2>2. Tidy(g[n], chars)
    BY <1>1, <1>11, <2>1, CleanTidy
  <2>. QED
    BY <2>2
<1>. HIDE DEF T
<1>14. k \in T
  BY <1>1, <1>12, <1>13, UpToAtEnd
<1>15. Tidy(g[k], chars)
  BY <1>14 DEF T
<1>. QED
  BY <1>10, <1>15, WithoutLastTidy DEF chars

-----------------------------------------------------------------------------
(* findChunkBoundary and the loops over blanks.                            *)

LEMMA TwoNumbers ==
    ASSUME NEW a \in Int, NEW b \in Int
    PROVE  /\ Chunk!Min({a, b}) \in {a, b} /\ Chunk!Min({a, b}) <= a /\ Chunk!Min({a, b}) <= b
           /\ Chunk!Max({a, b}) \in {a, b} /\ a <= Chunk!Max({a, b}) /\ b <= Chunk!Max({a, b})
<1>1. CASE a <= b
  <2>1. {a, b} \in SUBSET (a..b) /\ {a, b} # {}
    BY <1>1
  <2>. QED
    BY <2>1, LeastAndGreatest
<1>2. CASE b <= a
  <2>1. {a, b} \in SUBSET (b..a) /\ {a, b} # {}
    BY <1>2
  <2>. QED
    BY <2>1, LeastAndGreatest
<1>. QED
  BY <1>1, <1>2

LEMMA LastIndexFacts ==
    ASSUME NEW text, NEW pattern, NEW from \in Nat
    PROVE  LET i == Chunk!LastIndexOf(text, pattern, from)
           IN  /\ i \in -1..from
               /\ i >= 0 => /\ i + Len(pattern) <= Len(text)
                            /\ SubSeq(text, i + 1, i + Len(pattern)) = pattern
<1>. DEFINE matches == {i \in 0..from :
                          /\ i + Len(pattern) <= Len(text)
                          /\ SubSeq(text, i + 1, i + Len(pattern)) = pattern}
            S == {-1} \union matches
<1>1. S \in SUBSET (-1..from) /\ S # {} /\ -1 \in Int /\ from \in Int
  OBVIOUS
<1>2. Chunk!LastIndexOf(text, pattern, from) = Chunk!Max(S)
  BY DEF Chunk!LastIndexOf
<1>. HIDE DEF S
<1>3. Chunk!Max(S) \in S
  BY <1>1, LeastAndGreatest
<1>4. Chunk!Max(S) \in -1..from /\ (Chunk!Max(S) >= 0 => Chunk!Max(S) \in matches)
  BY <1>1, <1>3 DEF S
<1>. QED
  BY <1>2, <1>4

BreakChars == {".", "!", "?"} \union Chunk!Whitespace

LEMMA BreakFacts ==
    /\ DOMAIN Chunk!Breaks = 1..6
    /\ \A b \in 1..6 : /\ Chunk!Breaks[b] \in Seq(BreakChars) /\ Len(Chunk!Breaks[b]) \in {1, 2}
                       /\ Len(Chunk!Breaks[b]) = 2 => Chunk!Breaks[b][2] \in Chunk!Whitespace
<1>1. PICK breaks : breaks = Chunk!Breaks
  OBVIOUS
<1>2. DOMAIN breaks = 1..6
  BY <1>1 DEF Chunk!Breaks
<1>3. /\ breaks[1] = <<Chunk!Newline, Chunk!Newline>> /\ breaks[2] = <<".", Chunk!Space>>
      /\ breaks[3] = <<"!", Chunk!Space>> /\ breaks[4] = <<"?", Chunk!Space>>
      /\ breaks[5] = <<Chunk!Newline>> /\ breaks[6] = <<Chunk!Space>>
  BY <1>1 DEF Chunk!Breaks
<1>4. /\ Chunk!Newline \in BreakChars /\ Chunk!Space \in BreakChars
      /\ Chunk!Newline \in Chunk!Whitespace /\ Chunk!Space \in Chunk!Whitespace
      /\ \A c \in {".", "!", "?"} : c \in BreakChars
  BY DEF Chunk!Whitespace, Chunk!Space, Chunk!Newline, BreakChars
<1>5. ASSUME NEW x \in BreakChars, NEW y \in BreakChars
      PROVE  /\ <<x>> \in Seq(BreakChars) /\ Len(<<x>>) = 1
             /\ <<x, y>> \in Seq(BreakChars) /\ Len(<<x, y>>) = 2 /\ <<x, y>>[2] = y
  OBVIOUS
<1>6. ASSUME NEW b \in 1..6
      PROVE  /\ breaks[b] \in Seq(BreakChars) /\ Len(breaks[b]) \in {1, 2}
             /\ Len(breaks[b]) = 2 => breaks[b][2] \in Chunk!Whitespace
  <2>1. CASE b \in {1, 2, 3, 4}
    <3>1. PICK x \in BreakChars, y \in BreakChars : y \in Chunk!Whitespace /\ breaks[b] = <<x, y>>
      BY <1>3, <1>4, <2>1
    <3>. QED
      BY <1>5, <3>1
  <2>2. CASE b \in {5, 6}
    <3>1. PICK x \in BreakChars : breaks[b] = <<x>>
      BY <1>3, <1>4, <2>2
    <3>. QED
      BY <1>5, <3>1
  <2>. QED
    BY <2>1, <2>2
<1>. QED
  BY <1>1, <1>2, <1>6

(* A boundary is after the minimum, and beyond the proposed end by no more *)
(* than one blank.                                                         *)
LEMMA BoundaryFacts ==
    ASSUME NEW chars, NEW text \in Seq(chars), NEW start \in Nat, NEW proposed \in Nat,
           start < proposed, proposed < Len(text), NEW least \in Nat, least >= 1
    PROVE  LET chosen == Chunk!Boundary(text, start, proposed, least)
           IN  /\ chosen \in (start + 1)..(proposed + 1) /\ chosen <= Len(text)
               /\ chosen = proposed + 1 => Chunk!BlankAt(text, proposed)
<1>. DEFINE minimum == Chunk!Min({start + least, proposed})
            index(b) == Chunk!LastIndexOf(text, Chunk!Breaks[b], proposed - 1)
            good == {b \in DOMAIN Chunk!Breaks : index(b) >= minimum}
<1>1. minimum \in Nat /\ minimum >= start + 1
  <2>1. PICK a \in Int : a = start + least /\ a \in Nat
    OBVIOUS
  <2>a. proposed \in Int
    OBVIOUS
  <2>2. Chunk!Min({a, proposed}) \in {a, proposed}
    BY <2>a, TwoNumbers
  <2>3. minimum \in {a, proposed}
    BY <2>1, <2>2
  <2>. HIDE DEF minimum
  <2>. QED
    BY <2>1, <2>3
<1>2. Chunk!Boundary(text, start, proposed, least) =
        IF good = {} THEN proposed
        ELSE index(Chunk!Min(good)) + Len(Chunk!Breaks[Chunk!Min(good)])
  BY DEF Chunk!Boundary
<1>3. CASE good = {}
  <2>1. Chunk!Boundary(text, start, proposed, least) = proposed
    BY <1>2, <1>3
  <2>2. Len(text) \in Nat
    OBVIOUS
  <2>. QED
    BY <2>1, <2>2
<1>4. CASE good # {}
  <2>1. good \in SUBSET (1..6)
    BY BreakFacts
  <2>a. Chunk!Min(good) \in good
    <3>1. 1 \in Int /\ 6 \in Int
      OBVIOUS
    <3>. HIDE DEF good
    <3>. QED
      BY <1>4, <2>1, <3>1, LeastAndGreatest
  <2>2. PICK b \in good : b = Chunk!Min(good)
    BY <2>a
  <2>3. PICK i \in Int : i = index(b)
    BY LastIndexFacts
  <2>4. PICK pattern \in Seq(BreakChars) : pattern = Chunk!Breaks[b]
    BY <2>1, BreakFacts
  <2>5. b \in 1..6 /\ i >= minimum
    BY <2>1, <2>2, <2>3
  <2>6. /\ i \in -1..(proposed - 1)
        /\ i >= 0 => /\ i + Len(pattern) <= Len(text)
                     /\ SubSeq(text, i + 1, i + Len(pattern)) = pattern
    BY <2>3, <2>4, LastIndexFacts
  <2>7. Len(pattern) \in {1, 2} /\ (Len(pattern) = 2 => pattern[2] \in Chunk!Whitespace)
    BY <2>4, <2>5, BreakFacts
  <2>8. Chunk!Boundary(text, start, proposed, least) = i + Len(pattern)
    BY <1>2, <1>4, <2>2, <2>3, <2>4
  <2>. HIDE DEF minimum, good, index
  <2>9. ASSUME i + Len(pattern) = proposed + 1 PROVE Chunk!BlankAt(text, proposed)
    <3>1. Len(pattern) = 2 /\ i + 2 = proposed + 1 /\ i >= 0
      BY <1>1, <2>5, <2>6, <2>7, <2>9
    <3>2. pattern = SubSeq(text, i + 1, i + 2)
      BY <2>6, <3>1
    <3>3. i + 2 <= Len(text) /\ Len(text) \in Nat
      BY <2>6, <3>1
    <3>4. SubSeq(text, i + 1, i + 2)[2] = text[i + 2]
      <4>1. PICK m \in Nat : m = i + 1
        BY <2>3, <3>1
      <4>2. i + 2 = m + 1 /\ m >= 1 /\ m + 1 <= Len(text)
        BY <2>3, <3>1, <3>3, <4>1
      <4>3. SubSeq(text, m, m + 1)[2] = text[m + 1]
        BY <4>2
      <4>. QED
        BY <4>1, <4>2, <4>3
    <3>. QED
      BY <2>7, <3>1, <3>2, <3>4 DEF Chunk!BlankAt
  <2>10. i + Len(pattern) \in (start + 1)..(proposed + 1) /\ i + Len(pattern) <= Len(text)
    BY <1>1, <2>5, <2>6, <2>7
  <2>. QED
    BY <2>8, <2>9, <2>10
<1>. QED
  BY <1>3, <1>4

LEMMA SkipFacts ==
    ASSUME NEW text, NEW from \in Nat, NEW to \in Nat, from <= to
    PROVE  LET next == Chunk!SkipBlank(text, from, to)
           IN  /\ next \in from..to
               /\ \A o \in from..(next - 1) : Chunk!BlankAt(text, o)
               /\ next < to => ~Chunk!BlankAt(text, next)
<1>. DEFINE S == {to} \union {i \in from..(to - 1) : ~Chunk!BlankAt(text, i)}
<1>1. S \in SUBSET (from..to) /\ S # {} /\ from \in Int /\ to \in Int
  OBVIOUS
<1>2. Chunk!SkipBlank(text, from, to) = Chunk!Min(S)
  BY DEF Chunk!SkipBlank
<1>3. \A i \in from..(to - 1) : ~Chunk!BlankAt(text, i) <=> i \in S
  OBVIOUS
<1>. HIDE DEF S
<1>a. Chunk!Min(S) \in S /\ \A y \in S : Chunk!Min(S) <= y
  BY <1>1, LeastAndGreatest
<1>4. PICK next \in S : next = Chunk!Min(S) /\ \A y \in S : next <= y
  BY <1>a
<1>5. next \in from..to
  BY <1>1
<1>6. ASSUME NEW o \in from..(next - 1) PROVE Chunk!BlankAt(text, o)
  BY <1>3, <1>4, <1>5
<1>. QED
  BY <1>2, <1>3, <1>4, <1>5, <1>6

LEMMA TrimFacts ==
    ASSUME NEW text, NEW from \in Nat, NEW to \in Nat, from <= to
    PROVE  LET last == Chunk!TrimEnd(text, from, to)
           IN  /\ last \in from..to
               /\ \A o \in last..(to - 1) : Chunk!BlankAt(text, o)
               /\ last > from => ~Chunk!BlankAt(text, last - 1)
<1>. DEFINE S == {from} \union {i \in (from + 1)..to : ~Chunk!BlankAt(text, i - 1)}
<1>1. S \in SUBSET (from..to) /\ S # {} /\ from \in Int /\ to \in Int
  OBVIOUS
<1>2. Chunk!TrimEnd(text, from, to) = Chunk!Max(S)
  BY DEF Chunk!TrimEnd
<1>3. \A i \in (from + 1)..to : ~Chunk!BlankAt(text, i - 1) <=> i \in S
  OBVIOUS
<1>. HIDE DEF S
<1>a. Chunk!Max(S) \in S /\ \A y \in S : y <= Chunk!Max(S)
  BY <1>1, LeastAndGreatest
<1>4. PICK last \in S : last = Chunk!Max(S) /\ \A y \in S : y <= last
  BY <1>a
<1>5. last \in from..to
  BY <1>1
<1>6. ASSUME NEW o \in last..(to - 1) PROVE Chunk!BlankAt(text, o)
  <2>1. o + 1 \in (from + 1)..to /\ (o + 1) - 1 = o /\ ~(o + 1 <= last)
    BY <1>5
  <2>. QED
    BY <1>3, <1>4, <2>1
<1>. QED
  BY <1>2, <1>3, <1>4, <1>5, <1>6

-----------------------------------------------------------------------------
(* chunkText.                                                              *)

Spans == [start : Nat, end : Nat]
ChunkWalks == [start : Nat, chunks : Seq(Spans)]

ChosenEnd(text, start, size, least) ==
    LET proposed == Chunk!Min({start + size, Len(text)})
    IN  IF proposed < Len(text) THEN Chunk!Boundary(text, start, proposed, least) ELSE proposed

LEMMA ChosenFacts ==
    ASSUME NEW chars, NEW text \in Seq(chars), NEW start \in Nat, start < Len(text),
           NEW size \in Nat, NEW least \in Nat, size >= 1, least >= 1
    PROVE  LET chosen == ChosenEnd(text, start, size, least)
           IN  /\ chosen \in (start + 1)..Len(text)
               /\ chosen - start > size =>
                     chosen - start = size + 1 /\ Chunk!BlankAt(text, chosen - 1)
<1>1. PICK length \in Int : length = Len(text) /\ length \in Nat
  OBVIOUS
<1>2. PICK sum \in Int : sum = start + size
  OBVIOUS
<1>3. PICK proposed : proposed = Chunk!Min({sum, length})
  OBVIOUS
<1>4. proposed \in Nat /\ start < proposed /\ proposed <= length /\ proposed <= sum
      /\ (proposed = sum \/ proposed = length)
  <2>1. proposed \in {sum, length} /\ proposed <= sum /\ proposed <= length
    BY <1>1, <1>2, <1>3, TwoNumbers
  <2>. QED
    BY <1>1, <1>2, <2>1
<1>5. PICK chosen : chosen = ChosenEnd(text, start, size, least)
  OBVIOUS
<1>6. chosen = IF proposed < length THEN Chunk!Boundary(text, start, proposed, least)
               ELSE proposed
  BY <1>1, <1>2, <1>3, <1>5 DEF ChosenEnd
<1>7. CASE proposed < length
  <2>1. /\ chosen \in (start + 1)..(proposed + 1) /\ chosen <= length
        /\ chosen = proposed + 1 => Chunk!BlankAt(text, proposed)
    BY <1>1, <1>4, <1>6, <1>7, BoundaryFacts
  <2>2. proposed = sum
    BY <1>4, <1>7
  <2>3. chosen = proposed + 1 => chosen - 1 = proposed
    BY <1>4
  <2>4. chosen = proposed + 1 => Chunk!BlankAt(text, chosen - 1)
    BY <2>1, <2>3
  <2>. QED
    BY <1>1, <1>2, <1>4, <1>5, <2>1, <2>2, <2>4
<1>8. CASE ~(proposed < length)
  BY <1>1, <1>2, <1>4, <1>5, <1>6, <1>8
<1>. QED
  BY <1>7, <1>8

(* A round that begins at a character adds the chunk from there, and goes  *)
(* on to a later character with nothing but blanks between.                *)
LEMMA AdvanceIs ==
    ASSUME NEW chars, NEW text \in Seq(chars), NEW walk \in ChunkWalks,
           walk.start < Len(text), ~Chunk!BlankAt(text, walk.start),
           NEW size \in Nat, NEW least \in Nat, NEW overlap \in Nat, size >= 1, least >= 1
    PROVE  \E last \in Nat, next \in Nat :
             /\ Chunk!Advance(walk, text, size, least, overlap)
                  = [start |-> next,
                     chunks |-> Append(walk.chunks, [start |-> walk.start, end |-> last])]
             /\ last \in (walk.start + 1)..Len(text) /\ last - walk.start <= size
             /\ ~Chunk!BlankAt(text, last - 1)
             /\ next \in (walk.start + 1)..Len(text)
             /\ \A o \in last..(next - 1) : Chunk!BlankAt(text, o)
             /\ next < Len(text) => ~Chunk!BlankAt(text, next)
<1>1. PICK length \in Nat : length = Len(text)
  OBVIOUS
<1>2. PICK start \in Nat : start = walk.start
  BY DEF ChunkWalks
<1>3. start < length /\ ~Chunk!BlankAt(text, start)
  BY <1>1, <1>2
<1>4. PICK chosen : chosen = ChosenEnd(text, start, size, least)
  OBVIOUS
<1>5. /\ chosen \in (start + 1)..length /\ chosen \in Nat
      /\ chosen - start > size =>
            chosen - start = size + 1 /\ Chunk!BlankAt(text, chosen - 1)
  <2>1. start < Len(text)
    BY <1>1, <1>3
  <2>2. /\ chosen \in (start + 1)..Len(text)
        /\ chosen - start > size =>
              chosen - start = size + 1 /\ Chunk!BlankAt(text, chosen - 1)
    BY <1>4, <2>1, ChosenFacts
  <2>. QED
    BY <1>1, <2>2
<1>6. Chunk!SkipBlank(text, start, chosen) = start
  <2>1. PICK first : first = Chunk!SkipBlank(text, start, chosen)
    OBVIOUS
  <2>2. first \in start..chosen /\ \A o \in start..(first - 1) : Chunk!BlankAt(text, o)
    BY <1>5, <2>1, SkipFacts
  <2>3. first > start => start \in start..(first - 1)
    BY <1>5, <2>2
  <2>. QED
    BY <1>3, <1>5, <2>1, <2>2, <2>3
<1>7. PICK last : last = Chunk!TrimEnd(text, start, chosen)
  OBVIOUS
<1>8. /\ last \in start..chosen /\ last \in Nat
      /\ \A o \in last..(chosen - 1) : Chunk!BlankAt(text, o)
      /\ last > start => ~Chunk!BlankAt(text, last - 1)
  BY <1>5, <1>7, TrimFacts
<1>9. last > start
  <2>1. last = start => start \in last..(chosen - 1)
    BY <1>5, <1>8
  <2>. QED
    BY <1>3, <1>8, <2>1
<1>10. last - start <= size
  <2>1. last = chosen => ~Chunk!BlankAt(text, chosen - 1)
    BY <1>8, <1>9
  <2>. QED
    BY <1>5, <1>8, <2>1
<1>11. PICK shared \in Int : shared = chosen - overlap
  BY <1>5
<1>12. PICK after \in Int : after = start + 1
  OBVIOUS
<1>13. PICK base : base = Chunk!Max({shared, after})
  OBVIOUS
<1>14. base \in Nat /\ base \in (start + 1)..chosen
  <2>1. base \in {shared, after} /\ shared <= base /\ after <= base
    BY <1>13, TwoNumbers
  <2>. QED
    BY <1>5, <1>11, <1>12, <2>1
<1>15. PICK skipped : skipped = Chunk!SkipBlank(text, base, length)
  OBVIOUS
<1>16. /\ skipped \in base..length
       /\ \A o \in base..(skipped - 1) : Chunk!BlankAt(text, o)
       /\ skipped < length => ~Chunk!BlankAt(text, skipped)
  BY <1>5, <1>14, <1>15, SkipFacts
<1>17. PICK next : next = IF chosen >= length THEN length ELSE skipped
  OBVIOUS
<1>18. next \in Nat /\ next \in (start + 1)..length
  BY <1>3, <1>14, <1>16, <1>17
<1>19. ASSUME NEW o \in last..(next - 1) PROVE Chunk!BlankAt(text, o)
  <2>1. CASE o < chosen
    BY <1>5, <1>8, <1>18, <2>1
  <2>2. CASE o >= chosen
    <3>1. next = skipped /\ o \in base..(skipped - 1)
      BY <1>5, <1>8, <1>14, <1>16, <1>17, <1>18, <2>2
    <3>. QED
      BY <1>16, <3>1
  <2>. QED
    BY <1>5, <1>8, <2>1, <2>2
<1>20. next < length => ~Chunk!BlankAt(text, next)
  BY <1>16, <1>17
<1>21. Chunk!Advance(walk, text, size, least, overlap)
         = [start |-> next, chunks |-> Append(walk.chunks, [start |-> start, end |-> last])]
  <2>1. ~(start >= length) /\ ~(start >= last)
    BY <1>3, <1>8, <1>9
  <2>. QED
    BY <1>1, <1>2, <1>4, <1>6, <1>7, <1>11, <1>12, <1>13, <1>15, <1>17, <2>1
    DEF Chunk!Advance, ChosenEnd
<1>22. /\ last \in (start + 1)..length /\ ~Chunk!BlankAt(text, last - 1)
  BY <1>5, <1>8, <1>9
<1>. QED
  BY <1>1, <1>2, <1>8, <1>10, <1>18, <1>19, <1>20, <1>21, <1>22

WellCut(chunk, text, size) ==
    /\ chunk.start < chunk.end /\ chunk.end - chunk.start <= size
    /\ ~Chunk!BlankAt(text, chunk.start) /\ ~Chunk!BlankAt(text, chunk.end - 1)

HeldIn(parts, offset) ==
    \E i \in 1..Len(parts) : parts[i].start <= offset /\ offset < parts[i].end

(* A walk after n rounds.                                                  *)
OnWay(walk, n, text, size) ==
    /\ walk \in ChunkWalks /\ walk.start \in 0..Len(text)
    /\ n <= walk.start \/ walk.start = Len(text)
    /\ walk.start < Len(text) => ~Chunk!BlankAt(text, walk.start)
    /\ \A o \in 0..(walk.start - 1) : Chunk!BlankAt(text, o) \/ HeldIn(walk.chunks, o)
    /\ \A i \in 1..Len(walk.chunks) :
          WellCut(walk.chunks[i], text, size) /\ walk.chunks[i].start < walk.start
    /\ \A i, j \in 1..Len(walk.chunks) :
          i < j => walk.chunks[i].start < walk.chunks[j].start

LEMMA AdvanceKeeps ==
    ASSUME NEW chars, NEW text \in Seq(chars), NEW n \in Nat, NEW size \in Nat,
           NEW walk, OnWay(walk, n, text, size),
           NEW least \in Nat, NEW overlap \in Nat, size >= 1, least >= 1
    PROVE  OnWay(Chunk!Advance(walk, text, size, least, overlap), n + 1, text, size)
<1>1. walk \in ChunkWalks /\ walk.start \in 0..Len(text)
      /\ walk.start \in Nat /\ walk.chunks \in Seq(Spans)
  BY DEF OnWay, ChunkWalks
<1>2. CASE walk.start >= Len(text)
  <2>1. Chunk!Advance(walk, text, size, least, overlap) = walk
    BY <1>2 DEF Chunk!Advance
  <2>2. walk.start = Len(text)
    BY <1>1, <1>2
  <2>. QED
    BY <2>1, <2>2 DEF OnWay
<1>3. CASE walk.start < Len(text)
  <2>1. ~Chunk!BlankAt(text, walk.start) /\ n <= walk.start
    BY <1>1, <1>3 DEF OnWay
  <2>2. PICK last \in Nat, next \in Nat :
             /\ Chunk!Advance(walk, text, size, least, overlap)
                  = [start |-> next,
                     chunks |-> Append(walk.chunks, [start |-> walk.start, end |-> last])]
             /\ last \in (walk.start + 1)..Len(text) /\ last - walk.start <= size
             /\ ~Chunk!BlankAt(text, last - 1)
             /\ next \in (walk.start + 1)..Len(text)
             /\ \A o \in last..(next - 1) : Chunk!BlankAt(text, o)
             /\ next < Len(text) => ~Chunk!BlankAt(text, next)
    BY <1>1, <1>3, <2>1, AdvanceIs
  <2>3. PICK start \in Nat : start = walk.start
    BY <1>1
  <2>4. PICK old \in Seq(Spans) : old = walk.chunks
    BY <1>1
  <2>5. PICK k \in Nat : k = Len(old)
    OBVIOUS
  <2>6. PICK chunk \in Spans : chunk = [start |-> start, end |-> last]
    BY DEF Spans
  <2>7. PICK longer : longer = Append(old, chunk)
    OBVIOUS
  <2>8. /\ longer \in Seq(Spans) /\ Len(longer) = k + 1 /\ longer[k + 1] = chunk
        /\ \A i \in 1..k : longer[i] = old[i]
    BY <2>5, <2>7
  <2>9. chunk.start = start /\ chunk.end = last
    BY <2>6
  <2>10. PICK walk2 : walk2 = [start |-> next, chunks |-> longer]
    OBVIOUS
  <2>11. /\ walk2 \in ChunkWalks /\ walk2.start = next /\ walk2.chunks = longer
    BY <2>8, <2>10 DEF ChunkWalks
  <2>12. ASSUME NEW o \in 0..(next - 1) PROVE Chunk!BlankAt(text, o) \/ HeldIn(longer, o)
    <3>1. CASE o < start
      <4>1. o \in 0..(start - 1)
        BY <3>1
      <4>2. Chunk!BlankAt(text, o) \/ HeldIn(old, o)
        BY <2>3, <2>4, <4>1 DEF OnWay
      <4>3. HeldIn(old, o) => HeldIn(longer, o)
        BY <2>5, <2>8 DEF HeldIn
      <4>. QED
        BY <4>2, <4>3
    <3>2. CASE start <= o /\ o < last
      BY <2>8, <2>9, <3>2 DEF HeldIn
    <3>3. CASE last <= o
      BY <2>2, <3>3
    <3>. QED
      BY <3>1, <3>2, <3>3
  <2>13. ASSUME NEW i \in 1..(k + 1)
         PROVE  WellCut(longer[i], text, size) /\ longer[i].start < next
    <3>1. CASE i = k + 1
      <4>1. longer[i] = chunk
        BY <2>8, <3>1
      <4>2. WellCut(chunk, text, size)
        BY <2>1, <2>2, <2>3, <2>9 DEF WellCut
      <4>. QED
        BY <2>2, <2>3, <2>9, <4>1, <4>2
    <3>2. CASE i \in 1..k
      <4>1. longer[i] = old[i] /\ old[i] \in Spans
        BY <2>5, <2>8, <3>2
      <4>2. WellCut(old[i], text, size) /\ old[i].start < start
        BY <2>3, <2>4, <2>5, <3>2 DEF OnWay
      <4>3. old[i].start \in Nat
        BY <4>1 DEF Spans
      <4>4. old[i].start < next
        <5>1. next \in (start + 1)..Len(text) /\ Len(text) \in Nat
          BY <2>2, <2>3
        <5>2. start < next
          BY <5>1
        <5>3. old[i].start < start
          BY <4>2
        <5>. QED
          BY <4>3, <5>2, <5>3
      <4>. QED
        BY <4>1, <4>2, <4>4
    <3>. QED
      BY <3>1, <3>2
  <2>14. ASSUME NEW i \in 1..(k + 1), NEW j \in 1..(k + 1), i < j
         PROVE  longer[i].start < longer[j].start
    <3>1. i \in 1..k /\ longer[i] = old[i]
      BY <2>8, <2>14
    <3>2. CASE j = k + 1
      <4>1. longer[j].start = start
        BY <2>8, <2>9, <3>2
      <4>2. old[i].start < start
        BY <2>3, <2>4, <2>5, <3>1 DEF OnWay
      <4>. QED
        BY <3>1, <4>1, <4>2
    <3>3. CASE j \in 1..k
      <4>1. old[i].start < old[j].start
        BY <2>4, <2>5, <2>14, <3>1, <3>3 DEF OnWay
      <4>. QED
        BY <2>8, <3>1, <3>3, <4>1
    <3>. QED
      BY <3>2, <3>3
  <2>15. /\ next \in 0..Len(text) /\ n + 1 <= next
         /\ next < Len(text) => ~Chunk!BlankAt(text, next)
    BY <2>1, <2>2, <2>3
  <2>16. OnWay(walk2, n + 1, text, size)
    BY <2>8, <2>11, <2>12, <2>13, <2>14, <2>15 DEF OnWay
  <2>. QED
    BY <2>2, <2>3, <2>4, <2>6, <2>7, <2>10, <2>16
<1>. QED
  BY <1>1, <1>2, <1>3

FirstWalk == [start |-> 0, chunks |-> <<>>]
Walking(f, text, size, least, overlap) ==
    f = [n \in 0..Len(text) |->
           IF n = 0 THEN FirstWalk ELSE Chunk!Advance(f[n - 1], text, size, least, overlap)]

LEMMA FirstIsOnWay ==
    ASSUME NEW chars, NEW text, Tidy(text, chars), NEW size
    PROVE  OnWay(FirstWalk, 0, text, size)
<1>1. text \in Seq(chars) /\ Len(text) \in Nat
  BY DEF Tidy
<1>2. FirstWalk \in ChunkWalks /\ FirstWalk.start = 0 /\ FirstWalk.chunks = <<>>
  BY DEF FirstWalk, ChunkWalks
<1>3. 0 < Len(text) => ~Chunk!BlankAt(text, 0)
  BY <1>1 DEF Tidy, Chunk!BlankAt
<1>4. Len(FirstWalk.chunks) = 0
  BY <1>2
<1>. QED
  BY <1>1, <1>2, <1>3, <1>4 DEF OnWay

LEMMA ChunksAre ==
    ASSUME NEW chars, NEW text \in Seq(chars), Tidy(text, chars), NEW size \in Nat,
           NEW least \in Nat, NEW overlap \in Nat, size >= 1, least >= 1
    PROVE  \E walk : /\ Chunk!Chunks(text, size, least, overlap) = walk.chunks
                    /\ OnWay(walk, Len(text), text, size)
<1>. DEFINE k == Len(text)
            S == {w \in ChunkWalks : OnWay(w, 0, text, size)}
<1>1. k \in Nat
  OBVIOUS
<1>2. FirstWalk \in S
  BY FirstIsOnWay DEF OnWay
<1>3. PICK F : F = [p \in S \X (1..k) |-> Chunk!Advance(p[1], text, size, least, overlap)]
  OBVIOUS
<1>4. ASSUME NEW w \in S, NEW n \in 1..k
      PROVE  F[<<w, n>>] = Chunk!Advance(w, text, size, least, overlap) /\ F[<<w, n>>] \in S
  <2>1. F[<<w, n>>] = Chunk!Advance(w, text, size, least, overlap)
    BY <1>3
  <2>2. PICK v : v = Chunk!Advance(w, text, size, least, overlap)
    OBVIOUS
  <2>3. OnWay(v, 0 + 1, text, size)
    BY <2>2, AdvanceKeeps
  <2>4. OnWay(v, 0, text, size)
    BY <2>3 DEF OnWay, ChunkWalks
  <2>5. v \in S
    BY <2>4 DEF OnWay
  <2>. QED
    BY <2>1, <2>2, <2>5
<1>. HIDE DEF S, k
<1>5. PICK f : Walked(f, F, S, FirstWalk, k)
  BY <1>1, <1>2, <1>4, Walks
<1>6. f \in [0..k -> S] /\ f[0] = FirstWalk
  BY <1>5 DEF Walked
<1>7. ASSUME NEW n \in 1..k PROVE f[n] = Chunk!Advance(f[n - 1], text, size, least, overlap)
  <2>1. f[n - 1] \in S /\ f[n] = F[<<f[n - 1], n>>]
    BY <1>1, <1>5, <1>6 DEF Walked
  <2>. QED
    BY <1>4, <2>1
<1>8. Walking(f, text, size, least, overlap)
  BY <1>1, <1>6, <1>7 DEF Walking, k
<1>9. \E g : /\ Walking(g, text, size, least, overlap)
             /\ Chunk!Chunks(text, size, least, overlap) = g[Len(text)].chunks
  BY <1>8 DEF Walking, FirstWalk, Chunk!Chunks, Chunk!Loop
<1>10. PICK g : /\ Walking(g, text, size, least, overlap)
                /\ Chunk!Chunks(text, size, least, overlap) = g[k].chunks
  BY <1>9 DEF k
<1>11. /\ g[0] = FirstWalk
       /\ \A n \in 1..k : g[n] = Chunk!Advance(g[n - 1], text, size, least, overlap)
  BY <1>1, <1>10 DEF Walking, k
<1>. DEFINE T == {n \in 0..k : OnWay(g[n], n, text, size)}
<1>12. 0 \in T
  BY <1>1, <1>11, FirstIsOnWay
<1>13. ASSUME NEW n \in 1..k, n - 1 \in T PROVE n \in T
  <2>1. OnWay(g[n - 1], n - 1, text, size) /\ n - 1 \in Nat
    BY <1>13
  <2>2. OnWay(g[n], (n - 1) + 1, text, size)
    BY <1>11, <2>1, AdvanceKeeps
  <2>3. (n - 1) + 1 = n
    OBVIOUS
  <2>. QED
    BY <2>2, <2>3
<1>. HIDE DEF T
<1>14. k \in T
  BY <1>1, <1>12, <1>13, UpToAtEnd
<1>15. OnWay(g[k], k, text, size)
  BY <1>14 DEF T
<1>. QED
  BY <1>10, <1>15 DEF k

(* Every round begins at a character, ends its chunk at one, and skips only *)
(* blanks before the next, so that none is lost; that first character is    *)
(* what cleanText leaves at the front.                                      *)
THEOREM ChunksCover == TrialSpec => []ChunksCoverText
<1>1. OneTrial => ChunksCoverText
  <2>. SUFFICES ASSUME OneTrial, trial.of = "chunks" PROVE ChunksCoverText
    BY DEF ChunksCoverText
  <2>1. PICK one \in ChunkCalls : one = trial.call
    BY CallsOf
  <2>2. /\ one.text \in Seq(Range(one.text)) /\ one.size \in Nat /\ one.minimum \in Nat
        /\ one.overlap \in Nat /\ one.size >= 1 /\ one.minimum >= 1
    BY ChunkAssumption DEF Chunk!ValidOptions
  <2>3. PICK chars : chars = Range(one.text) \union {Chunk!Space, Chunk!Newline}
    OBVIOUS
  <2>4. PICK text : text = Chunk!CleanText(one.text)
    OBVIOUS
  <2>5. Tidy(text, chars) /\ text \in Seq(chars)
    BY <2>2, <2>3, <2>4, CleanTextTidy DEF Tidy
  <2>6. PICK walk : /\ Chunk!Chunks(text, one.size, one.minimum, one.overlap) = walk.chunks
                    /\ OnWay(walk, Len(text), text, one.size)
    BY <2>2, <2>5, ChunksAre
  <2>7. PICK parts : parts = walk.chunks
    OBVIOUS
  <2>8. parts \in Seq(Spans) /\ walk.start = Len(text) /\ Len(text) \in Nat
    BY <2>5, <2>6, <2>7 DEF OnWay, ChunkWalks
  <2>9. DOMAIN parts = 1..Len(parts)
    BY <2>8
  <2>. DEFINE held == UNION {Chunk!Offsets(parts[i]) : i \in DOMAIN parts}
  <2>10. ASSUME NEW o \in 0..(Len(text) - 1), ~Chunk!BlankAt(text, o) PROVE o \in held
    <3>1. PICK i \in DOMAIN parts : parts[i].start <= o /\ o < parts[i].end
      BY <2>6, <2>7, <2>8, <2>9, <2>10 DEF OnWay, HeldIn
    <3>a. parts[i] \in Spans
      BY <2>8, <2>9
    <3>2. parts[i].start \in Nat /\ parts[i].end \in Nat
      BY <3>a DEF Spans
    <3>3. o \in Chunk!Offsets(parts[i])
      BY <3>1, <3>2 DEF Chunk!Offsets
    <3>. QED
      BY <3>3
  <2>11. ASSUME NEW i \in DOMAIN parts
         PROVE  /\ parts[i].start < parts[i].end
                /\ parts[i].end - parts[i].start <= one.size
                /\ ~Chunk!BlankAt(text, parts[i].start)
                /\ ~Chunk!BlankAt(text, parts[i].end - 1)
    BY <2>6, <2>7, <2>9 DEF OnWay, WellCut
  <2>12. \A i, j \in DOMAIN parts : i < j => parts[i].start < parts[j].start
    BY <2>6, <2>7, <2>9 DEF OnWay
  <2>13. {o \in 0..(Len(text) - 1) : ~Chunk!BlankAt(text, o)} \subseteq held
    BY <2>10
  <2>. QED
    BY <2>1, <2>4, <2>6, <2>7, <2>11, <2>12, <2>13 DEF ChunksCoverText
<1>. QED
  BY <1>1, TrialsAreCalls, PTL

-----------------------------------------------------------------------------
(* applyReciprocalRankFusion.                                              *)

HitsFrom(C, S) == [chunk : C, source : S]
Entries(C, S) == [chunk : C, source : S, score : Int, by : SUBSET {"dense", "lexical"}]
HitOf(e) == [chunk |-> e.chunk, source |-> e.source]

KeysFrom(C, S) == {Ranking!Key(h) : h \in HitsFrom(C, S)}

LEMMA KeyOfEntry ==
    ASSUME NEW e
    PROVE  Ranking!Key(HitOf(e)) = Ranking!Key(e)
  BY DEF Ranking!Key, HitOf

Occurs(key, all, m) == \E j \in 1..m : Ranking!Key(all[j]) = key
Sooner(k, l, all) ==
    \E i \in 1..Len(all) : Ranking!Key(all[i]) = k /\ \A j \in 1..i : Ranking!Key(all[j]) # l
(* The first of the results that have its key, among the first m.          *)
First(h, all, m) ==
    \E j \in 1..m : all[j] = h /\ \A i \in 1..(j - 1) : Ranking!Key(all[i]) # Ranking!Key(h)

(* The entries are the keys met in the first m places, each once and in    *)
(* that order, as the first hit that has it, with what tally gives them.   *)
Tallied(e, m, all, tally, C, S) ==
    /\ e \in Seq(Entries(C, S)) /\ Len(e) <= m
    /\ \A i \in 1..Len(e) : First(HitOf(e[i]), all, m) /\ e[i].score = tally[Ranking!Key(e[i])]
    /\ \A j \in 1..m : \E i \in 1..Len(e) : Ranking!Key(e[i]) = Ranking!Key(all[j])
    /\ \A i, j \in 1..Len(e) : i < j => Sooner(Ranking!Key(e[i]), Ranking!Key(e[j]), all)

(* A hit with a new key is appended, an entry with its key is worth more.  *)
Credited(c, e, r, share) ==
    \/ /\ \A i \in 1..Len(e) : Ranking!Key(e[i]) # Ranking!Key(r) /\ c[i] = e[i]
       /\ Len(c) = Len(e) + 1
       /\ HitOf(c[Len(e) + 1]) = r /\ c[Len(e) + 1].score = share
    \/ /\ \E i \in 1..Len(e) : Ranking!Key(e[i]) = Ranking!Key(r)
       /\ Len(c) = Len(e)
       /\ \A i \in 1..Len(e) :
            /\ HitOf(c[i]) = HitOf(e[i])
            /\ c[i].score = IF Ranking!Key(e[i]) = Ranking!Key(r) THEN e[i].score + share
                            ELSE e[i].score

LEMMA CreditIs ==
    ASSUME NEW C, NEW S, NEW e \in Seq(Entries(C, S)), NEW r \in HitsFrom(C, S),
           NEW share \in Int, NEW strategy \in {"dense", "lexical"}
    PROVE  /\ Ranking!Credit(e, r, share, strategy) \in Seq(Entries(C, S))
           /\ Credited(Ranking!Credit(e, r, share, strategy), e, r, share)
<1>1. PICK k \in Nat : k = Len(e)
  OBVIOUS
<1>2. \A i \in 1..k : e[i] \in Entries(C, S)
  BY <1>1
<1>3. PICK credited : credited = Ranking!Credit(e, r, share, strategy)
  OBVIOUS
<1>. DEFINE old == {j \in DOMAIN e : Ranking!SameResult(e[j], r)}
<1>4. \A i \in 1..k : i \in old <=> Ranking!Key(e[i]) = Ranking!Key(r)
  BY <1>1 DEF Ranking!SameResult
<1>5. DOMAIN e = 1..k
  BY <1>1
<1>6. CASE old = {}
  <2>1. PICK new : new = [chunk |-> r.chunk, source |-> r.source,
                          score |-> share, by |-> {strategy}]
    OBVIOUS
  <2>2. new \in Entries(C, S) /\ HitOf(new) = r /\ new.score = share
    BY <2>1 DEF Entries, HitsFrom, HitOf
  <2>3. credited = Append(e, new)
    BY <1>3, <1>6, <2>1 DEF Ranking!Credit
  <2>4. /\ credited \in Seq(Entries(C, S)) /\ Len(credited) = k + 1
        /\ credited[k + 1] = new /\ \A i \in 1..k : credited[i] = e[i]
    BY <1>1, <2>2, <2>3
  <2>5. \A i \in 1..k : Ranking!Key(e[i]) # Ranking!Key(r)
    BY <1>4, <1>5, <1>6
  <2>6. Credited(credited, e, r, share)
    BY <1>1, <2>2, <2>4, <2>5 DEF Credited
  <2>. QED
    BY <1>3, <2>4, <2>6
<1>7. CASE old # {}
  <2>1. credited = [j \in DOMAIN e |->
                      IF j \in old THEN [e[j] EXCEPT !.score = @ + share,
                                                     !.by = @ \union {strategy}]
                      ELSE e[j]]
    BY <1>3, <1>7 DEF Ranking!Credit
  <2>2. \E i \in 1..k : Ranking!Key(e[i]) = Ranking!Key(r)
    BY <1>4, <1>5, <1>7
  <2>. HIDE DEF old
  <2>3. ASSUME NEW i \in 1..k
        PROVE  /\ credited[i] \in Entries(C, S) /\ HitOf(credited[i]) = HitOf(e[i])
               /\ credited[i].score = IF Ranking!Key(e[i]) = Ranking!Key(r)
                                      THEN e[i].score + share ELSE e[i].score
    <3>1. PICK x \in Entries(C, S) : x = e[i]
      BY <1>2
    <3>2. PICK y : y = [x EXCEPT !.score = @ + share, !.by = @ \union {strategy}]
      OBVIOUS
    <3>a. /\ x = [chunk |-> x.chunk, source |-> x.source, score |-> x.score, by |-> x.by]
          /\ x.chunk \in C /\ x.source \in S /\ x.score \in Int
          /\ x.by \in SUBSET {"dense", "lexical"}
      BY DEF Entries
    <3>b. PICK p, q, s, b : p = x.chunk /\ q = x.source /\ s = x.score /\ b = x.by
      OBVIOUS
    <3>c. y = [chunk |-> p, source |-> q, score |-> s + share, by |-> b \union {strategy}]
      BY <3>2, <3>a, <3>b
    <3>d. s + share \in Int /\ b \union {strategy} \in SUBSET {"dense", "lexical"}
      BY <3>a, <3>b
    <3>3. y \in Entries(C, S) /\ HitOf(y) = HitOf(x) /\ y.score = x.score + share
      BY <3>a, <3>b, <3>c, <3>d DEF Entries, HitOf
    <3>4. credited[i] = IF Ranking!Key(x) = Ranking!Key(r) THEN y ELSE x
      BY <1>4, <1>5, <2>1, <3>1, <3>2
    <3>. QED
      BY <3>1, <3>3, <3>4
  <2>4. credited \in Seq(Entries(C, S)) /\ Len(credited) = k
    <3>1. credited = [i \in 1..k |-> credited[i]]
      BY <1>5, <2>1
    <3>. QED
      BY <1>1, <2>3, <3>1
  <2>5. Credited(credited, e, r, share)
    BY <1>1, <2>2, <2>3, <2>4 DEF Credited
  <2>. QED
    BY <1>3, <2>4, <2>5
<1>. QED
  BY <1>6, <1>7

Raised(K, tally, key, share) ==
    [k \in K |-> IF k = key THEN tally[k] + share ELSE tally[k]]

LEMMA CreditTallies ==
    ASSUME NEW C, NEW S, NEW all \in Seq(HitsFrom(C, S)), NEW m \in 1..Len(all),
           NEW tally \in [KeysFrom(C, S) -> Int], NEW e, Tallied(e, m - 1, all, tally, C, S),
           NEW r, r = all[m], NEW key, key = Ranking!Key(r),
           ~Occurs(key, all, m - 1) => tally[key] = 0,
           NEW share \in Int, NEW strategy \in {"dense", "lexical"}
    PROVE  Tallied(Ranking!Credit(e, r, share, strategy), m, all,
                   Raised(KeysFrom(C, S), tally, key, share), C, S)
<1>1. /\ e \in Seq(Entries(C, S)) /\ Len(e) <= m - 1 /\ r \in HitsFrom(C, S) /\ m \in Nat
  BY DEF Tallied
<1>2. PICK k \in Nat : k = Len(e)
  BY <1>1
<1>3. PICK n \in Nat : n = m - 1 /\ m = n + 1 /\ k <= n
  BY <1>1, <1>2
<1>a. PICK t : t = Raised(KeysFrom(C, S), tally, key, share)
  OBVIOUS
<1>4. t = [h \in KeysFrom(C, S) |-> IF h = key THEN tally[h] + share ELSE tally[h]]
  BY <1>a DEF Raised
<1>b. key \in KeysFrom(C, S)
  BY <1>1 DEF KeysFrom
<1>5. PICK c : c = Ranking!Credit(e, r, share, strategy)
  OBVIOUS
<1>6. /\ c \in Seq(Entries(C, S))
      /\ \/ /\ \A i \in 1..k : Ranking!Key(e[i]) # key /\ c[i] = e[i]
            /\ Len(c) = k + 1 /\ HitOf(c[k + 1]) = r /\ c[k + 1].score = share
         \/ /\ \E i \in 1..k : Ranking!Key(e[i]) = key
            /\ Len(c) = k
            /\ \A i \in 1..k : /\ HitOf(c[i]) = HitOf(e[i])
                               /\ c[i].score = IF Ranking!Key(e[i]) = key THEN e[i].score + share
                                               ELSE e[i].score
  <2>1. c \in Seq(Entries(C, S)) /\ Credited(c, e, r, share)
    BY <1>1, <1>5, CreditIs
  <2>. QED
    BY <1>2, <2>1 DEF Credited
<1>7. /\ \A i \in 1..k : First(HitOf(e[i]), all, n) /\ e[i].score = tally[Ranking!Key(e[i])]
      /\ \A j \in 1..n : \E i \in 1..k : Ranking!Key(e[i]) = Ranking!Key(all[j])
      /\ \A i, j \in 1..k : i < j => Sooner(Ranking!Key(e[i]), Ranking!Key(e[j]), all)
  BY <1>2, <1>3 DEF Tallied
<1>8. ASSUME NEW i \in 1..k PROVE Ranking!Key(e[i]) \in KeysFrom(C, S)
  <2>1. PICK x \in Entries(C, S) : x = e[i]
    BY <1>1, <1>2
  <2>2. HitOf(x) \in HitsFrom(C, S)
    BY DEF Entries, HitsFrom, HitOf
  <2>3. Ranking!Key(HitOf(x)) = Ranking!Key(x)
    BY KeyOfEntry
  <2>. QED
    BY <2>1, <2>2, <2>3 DEF KeysFrom
<1>9. \A h : First(h, all, n) => First(h, all, m)
  BY <1>3 DEF First
<1>11. \A j \in 1..m : j = m \/ j \in 1..n
  BY <1>3
<1>12. CASE /\ \A i \in 1..k : Ranking!Key(e[i]) # key /\ c[i] = e[i]
            /\ Len(c) = k + 1 /\ HitOf(c[k + 1]) = r /\ c[k + 1].score = share
  <2>1. ~Occurs(key, all, n)
    BY <1>7, <1>12 DEF Occurs
  <2>2. t[key] = share
    BY <1>3, <1>4, <1>b, <2>1
  <2>a. Ranking!Key(c[k + 1]) = key
    <3>1. Ranking!Key(HitOf(c[k + 1])) = Ranking!Key(c[k + 1])
      BY KeyOfEntry
    <3>. QED
      BY <1>12, <3>1
  <2>b. First(r, all, m)
    BY <1>3, <2>1 DEF First, Occurs
  <2>3. ASSUME NEW i \in 1..k PROVE t[Ranking!Key(e[i])] = tally[Ranking!Key(e[i])]
    BY <1>4, <1>8, <1>12
  <2>4. ASSUME NEW i \in 1..(k + 1)
        PROVE  First(HitOf(c[i]), all, m) /\ c[i].score = t[Ranking!Key(c[i])]
    <3>1. CASE i = k + 1
      BY <1>12, <2>2, <2>a, <2>b, <3>1
    <3>2. CASE i \in 1..k
      BY <1>7, <1>9, <1>12, <2>3, <3>2
    <3>. QED
      BY <3>1, <3>2
  <2>5. ASSUME NEW j \in 1..m PROVE \E i \in 1..(k + 1) : Ranking!Key(c[i]) = Ranking!Key(all[j])
    <3>1. CASE j = m
      BY <2>a, <3>1
    <3>2. CASE j \in 1..n
      <4>1. PICK i \in 1..k : Ranking!Key(e[i]) = Ranking!Key(all[j])
        BY <1>7, <3>2
      <4>2. i \in 1..(k + 1) /\ c[i] = e[i]
        BY <1>12
      <4>. QED
        BY <4>1, <4>2
    <3>. QED
      BY <1>11, <3>1, <3>2
  <2>6. ASSUME NEW i \in 1..(k + 1), NEW j \in 1..(k + 1), i < j
        PROVE  Sooner(Ranking!Key(c[i]), Ranking!Key(c[j]), all)
    <3>1. i \in 1..k /\ c[i] = e[i]
      BY <1>12, <2>6
    <3>2. CASE j = k + 1
      <4>1. PICK p \in 1..n : all[p] = HitOf(e[i])
        BY <1>7, <3>1 DEF First
      <4>2. \A q \in 1..p : Ranking!Key(all[q]) # key
        BY <2>1 DEF Occurs
      <4>3. p \in 1..Len(all)
        BY <1>3
      <4>4. Ranking!Key(all[p]) = Ranking!Key(e[i])
        BY <4>1, KeyOfEntry
      <4>. QED
        BY <2>a, <3>1, <3>2, <4>2, <4>3, <4>4 DEF Sooner
    <3>3. CASE j \in 1..k
      BY <1>7, <1>12, <2>6, <3>1, <3>3
    <3>. QED
      BY <3>2, <3>3
  <2>7. Len(c) <= m
    BY <1>3, <1>12
  <2>. QED
    BY <1>a, <1>5, <1>6, <1>12, <2>4, <2>5, <2>6, <2>7 DEF Tallied
<1>13. CASE /\ \E i \in 1..k : Ranking!Key(e[i]) = key
            /\ Len(c) = k
            /\ \A i \in 1..k : /\ HitOf(c[i]) = HitOf(e[i])
                               /\ c[i].score = IF Ranking!Key(e[i]) = key THEN e[i].score + share
                                               ELSE e[i].score
  <2>a. ASSUME NEW i \in 1..k PROVE Ranking!Key(c[i]) = Ranking!Key(e[i])
    <3>1. /\ Ranking!Key(HitOf(c[i])) = Ranking!Key(c[i])
          /\ Ranking!Key(HitOf(e[i])) = Ranking!Key(e[i])
      BY KeyOfEntry
    <3>2. HitOf(c[i]) = HitOf(e[i])
      BY <1>13
    <3>. QED
      BY <3>1, <3>2
  <2>1. ASSUME NEW i \in 1..k
        PROVE  First(HitOf(c[i]), all, m) /\ c[i].score = t[Ranking!Key(c[i])]
    <3>1. PICK h \in KeysFrom(C, S) : h = Ranking!Key(e[i])
      BY <1>8
    <3>2. HitOf(c[i]) = HitOf(e[i]) /\ c[i].score = IF h = key THEN e[i].score + share
                                                    ELSE e[i].score
      BY <1>13, <3>1
    <3>3. First(HitOf(e[i]), all, m) /\ e[i].score = tally[h]
      BY <1>7, <1>9, <3>1
    <3>4. t[h] = IF h = key THEN tally[h] + share ELSE tally[h]
      BY <1>4
    <3>. QED
      BY <2>a, <3>1, <3>2, <3>3, <3>4
  <2>2. ASSUME NEW j \in 1..m PROVE \E i \in 1..k : Ranking!Key(c[i]) = Ranking!Key(all[j])
    <3>1. \E i \in 1..k : Ranking!Key(e[i]) = Ranking!Key(all[j])
      BY <1>7, <1>11, <1>13
    <3>. QED
      BY <2>a, <3>1
  <2>3. ASSUME NEW i \in 1..k, NEW j \in 1..k, i < j
        PROVE  Sooner(Ranking!Key(c[i]), Ranking!Key(c[j]), all)
    BY <1>7, <2>a, <2>3
  <2>4. c \in Seq(Entries(C, S)) /\ Len(c) = k /\ k <= m
    BY <1>3, <1>6, <1>13
  <2>5. Tallied(c, m, all, t, C, S)
    BY <2>1, <2>2, <2>3, <2>4 DEF Tallied
  <2>. QED
    BY <1>a, <1>5, <2>5
<1>. QED
  BY <1>6, <1>12, <1>13

LEMMA ShareIsNumber ==
    ASSUME NEW weight \in Nat, NEW rank \in Nat, rank >= 1
    PROVE  Ranking!Share(weight, rank) \in Int
<1>1. weight * Scale \in Int
  BY MergeAssumption
<1>2. FusionK + rank \in Int /\ FusionK + rank > 0
  BY MergeAssumption
<1>3. \A a, b \in Int : b > 0 => a \div b \in Int
  OBVIOUS
<1>. QED
  BY <1>1, <1>2, <1>3 DEF Ranking!Share

(* What a list is worth to a key, place after place.                       *)
Earned(sum, list, weight, key, n) ==
    IF Ranking!Key(list[n]) = key THEN sum + Ranking!Share(weight, n) ELSE sum

Earning(f, list, weight, key) ==
    /\ f \in [0..Len(list) -> Int] /\ f[0] = 0 /\ f[Len(list)] = Worth(list, weight, key)
    /\ \A n \in 1..Len(list) : f[n] = Earned(f[n - 1], list, weight, key, n)

LEMMA WorthIs ==
    ASSUME NEW H, NEW list \in Seq(H), NEW weight \in Nat, NEW key
    PROVE  \E f : Earning(f, list, weight, key)
<1>1. PICK k \in Nat : k = Len(list)
  OBVIOUS
<1>2. PICK F : F = [p \in Int \X (1..k) |-> Earned(p[1], list, weight, key, p[2])]
  OBVIOUS
<1>3. ASSUME NEW s \in Int, NEW n \in 1..k
      PROVE  F[<<s, n>>] = Earned(s, list, weight, key, n) /\ F[<<s, n>>] \in Int
  <2>1. F[<<s, n>>] = Earned(s, list, weight, key, n)
    BY <1>2
  <2>2. PICK share \in Int : share = Ranking!Share(weight, n)
    BY ShareIsNumber
  <2>3. Earned(s, list, weight, key, n) \in Int
    BY <2>2 DEF Earned
  <2>. QED
    BY <2>1, <2>3
<1>a. \A s \in Int, n \in 1..k : F[<<s, n>>] \in Int
  BY <1>3
<1>4. PICK f : Walked(f, F, Int, 0, k)
  <2>1. 0 \in Int
    OBVIOUS
  <2>. QED
    BY <1>1, <1>a, <2>1, Walks, Zenon
<1>5. /\ f = [n \in 0..k |-> f[n]] /\ f \in [0..k -> Int] /\ f[0] = 0
      /\ \A n \in 1..k : f[n] = Earned(f[n - 1], list, weight, key, n)
  <2>1. f \in [0..k -> Int] /\ f[0] = 0
    BY <1>4 DEF Walked
  <2>2. ASSUME NEW n \in 1..k PROVE f[n] = Earned(f[n - 1], list, weight, key, n)
    <3>1. n - 1 \in 0..k
      BY <1>1
    <3>2. f[n - 1] \in Int
      BY <2>1, <3>1
    <3>3. f[n] = F[<<f[n - 1], n>>]
      BY <1>4 DEF Walked
    <3>. QED
      BY <1>3, <3>2, <3>3
  <2>. QED
    BY <2>1, <2>2
<1>. DEFINE Summing(g) ==
       g = [n \in 0..k |-> IF n = 0 THEN 0 ELSE Earned(g[n - 1], list, weight, key, n)]
<1>6. Summing(f)
  <2>1. ASSUME NEW n \in 0..k
        PROVE  f[n] = IF n = 0 THEN 0 ELSE Earned(f[n - 1], list, weight, key, n)
    <3>1. n = 0 \/ n \in 1..k
      BY <1>1
    <3>. QED
      BY <1>5, <3>1
  <2>. QED
    BY <1>5, <2>1, Zenon
<1>7. \E g : Summing(g) /\ Worth(list, weight, key) = g[k]
  BY <1>1, <1>6 DEF Worth, Ranking!Loop, Earned
<1>8. PICK g : Summing(g) /\ Worth(list, weight, key) = g[k]
  BY <1>7
<1>9. /\ g[0] = 0
      /\ \A n \in 1..k : g[n] = Earned(g[n - 1], list, weight, key, n)
  BY <1>1, <1>8
<1>. DEFINE T == {n \in 0..k : g[n] = f[n]}
<1>10. k \in T
  <2>1. 0 \in T
    BY <1>1, <1>5, <1>9
  <2>2. ASSUME NEW n \in 1..k, n - 1 \in T PROVE n \in T
    <3>1. g[n - 1] = f[n - 1]
      BY <2>2
    <3>2. g[n] = f[n]
      BY <1>5, <1>9, <3>1, Zenon
    <3>3. n \in 0..k
      BY <1>1
    <3>. QED
      BY <3>2, <3>3
  <2>. HIDE DEF T
  <2>. QED
    BY <1>1, <2>1, <2>2, UpToAtEnd
<1>. QED
  BY <1>1, <1>5, <1>8, <1>10 DEF Earning

(* The same for all keys at once.                                           *)
EarnedBy(g, K, list, weight) ==
    \A key \in K : Earning(g[key], list, weight, key)

LEMMA WorthOfKeys ==
    ASSUME NEW H, NEW list \in Seq(H), NEW weight \in Nat, NEW K
    PROVE  \E g : EarnedBy(g, K, list, weight)
<1>1. PICK g : g = [key \in K |-> CHOOSE f : Earning(f, list, weight, key)]
  OBVIOUS
<1>2. ASSUME NEW key \in K PROVE Earning(g[key], list, weight, key)
  <2>1. \E f : Earning(f, list, weight, key)
    BY WorthIs
  <2>. QED
    BY <1>1, <2>1
<1>. QED
  BY <1>2 DEF EarnedBy

TallyAfter(K, base, g, n) == [key \in K |-> base[key] + g[key][n]]

Fusing(f, e, list, weight, strategy) ==
    f = [n \in 0..Len(list) |->
           IF n = 0 THEN e
           ELSE Ranking!Credit(f[n - 1], list[n], Ranking!Share(weight, n), strategy)]

Fused(f, e, list, weight, strategy) ==
    /\ f[0] = e
    /\ \A n \in 1..Len(list) :
         f[n] = Ranking!Credit(f[n - 1], list[n], Ranking!Share(weight, n), strategy)

FusedSomehow(e, list, weight, strategy) ==
    \E f : /\ Ranking!Fuse(e, list, weight, strategy) = f[Len(list)]
          /\ Fused(f, e, list, weight, strategy)

LEMMA FuseIs ==
    ASSUME NEW C, NEW S, NEW e \in Seq(Entries(C, S)), NEW list \in Seq(HitsFrom(C, S)),
           NEW weight \in Nat, NEW strategy \in {"dense", "lexical"}
    PROVE  FusedSomehow(e, list, weight, strategy)
<1>. DEFINE k == Len(list)
            R == Seq(Entries(C, S))
<1>1. k \in Nat /\ \A n \in 1..k : list[n] \in HitsFrom(C, S)
  OBVIOUS
<1>2. PICK F : F = [p \in R \X (1..k) |->
                      Ranking!Credit(p[1], list[p[2]], Ranking!Share(weight, p[2]), strategy)]
  OBVIOUS
<1>3. ASSUME NEW s \in R, NEW n \in 1..k
      PROVE  /\ F[<<s, n>>] = Ranking!Credit(s, list[n], Ranking!Share(weight, n), strategy)
             /\ F[<<s, n>>] \in R
  <2>1. F[<<s, n>>] = Ranking!Credit(s, list[n], Ranking!Share(weight, n), strategy)
    BY <1>2
  <2>2. PICK r \in HitsFrom(C, S) : r = list[n]
    BY <1>1
  <2>3. PICK share \in Int : share = Ranking!Share(weight, n)
    BY ShareIsNumber
  <2>4. Ranking!Credit(s, r, share, strategy) \in R
    BY CreditIs
  <2>. QED
    BY <2>1, <2>2, <2>3, <2>4
<1>. HIDE DEF k, R
<1>4. e \in R
  BY DEF R
<1>5. PICK f : Walked(f, F, R, e, k)
  BY <1>1, <1>3, <1>4, Walks
<1>6. f \in [0..k -> R] /\ f[0] = e
  BY <1>5 DEF Walked
<1>7. ASSUME NEW n \in 1..k
      PROVE  f[n] = Ranking!Credit(f[n - 1], list[n], Ranking!Share(weight, n), strategy)
  <2>1. f[n - 1] \in R /\ f[n] = F[<<f[n - 1], n>>]
    BY <1>1, <1>5, <1>6 DEF Walked
  <2>. QED
    BY <1>3, <2>1
<1>8. Fusing(f, e, list, weight, strategy)
  BY <1>1, <1>6, <1>7 DEF Fusing, k
<1>9. \E g : /\ Fusing(g, e, list, weight, strategy)
             /\ Ranking!Fuse(e, list, weight, strategy) = g[Len(list)]
  BY <1>8 DEF Fusing, Ranking!Fuse, Ranking!Loop
<1>10. PICK g : /\ Fusing(g, e, list, weight, strategy)
                /\ Ranking!Fuse(e, list, weight, strategy) = g[k]
  BY <1>9 DEF k
<1>11. /\ g[0] = e
       /\ \A n \in 1..k :
            g[n] = Ranking!Credit(g[n - 1], list[n], Ranking!Share(weight, n), strategy)
  BY <1>1, <1>10 DEF Fusing, k
<1>. QED
  BY <1>10, <1>11 DEF k, Fused, FusedSomehow

FusedWell(fused, m, all, base, g, n, C, S) ==
    /\ Tallied(fused, m, all, TallyAfter(KeysFrom(C, S), base, g, n), C, S)
    /\ \A key \in KeysFrom(C, S) : ~Occurs(key, all, m) => base[key] + g[key][n] = 0

(* A pass over a list that follows d places adds what it is worth.          *)
LEMMA FuseTallies ==
    ASSUME NEW C, NEW S, NEW all \in Seq(HitsFrom(C, S)), NEW d \in Nat,
           NEW list \in Seq(HitsFrom(C, S)), d + Len(list) <= Len(all),
           \A n \in 1..Len(list) : all[d + n] = list[n],
           NEW base \in [KeysFrom(C, S) -> Int], NEW e, Tallied(e, d, all, base, C, S),
           \A key \in KeysFrom(C, S) : ~Occurs(key, all, d) => base[key] = 0,
           NEW weight \in Nat, NEW strategy \in {"dense", "lexical"},
           NEW g, EarnedBy(g, KeysFrom(C, S), list, weight)
    PROVE  FusedWell(Ranking!Fuse(e, list, weight, strategy), d + Len(list), all, base, g,
                     Len(list), C, S)
<1>. DEFINE H == HitsFrom(C, S)
            K == KeysFrom(C, S)
            tally(n) == TallyAfter(K, base, g, n)
            Unmet(n) == \A key \in K : ~Occurs(key, all, d + n) => base[key] + g[key][n] = 0
<1>1. PICK k \in Nat : k = Len(list)
  OBVIOUS
<1>2. e \in Seq(Entries(C, S))
  BY DEF Tallied
<1>3. PICK f : /\ Ranking!Fuse(e, list, weight, strategy) = f[k]
               /\ f[0] = e
               /\ \A n \in 1..k :
                    f[n] = Ranking!Credit(f[n - 1], list[n], Ranking!Share(weight, n), strategy)
  <2>1. FusedSomehow(e, list, weight, strategy)
    BY <1>2, FuseIs
  <2>. QED
    BY <1>1, <2>1 DEF Fused, FusedSomehow
<1>4. /\ \A key \in K : g[key][0] = 0
      /\ \A key \in K, n \in 0..k : g[key][n] \in Int
      /\ \A key \in K, n \in 1..k :
           g[key][n] = Earned(g[key][n - 1], list, weight, key, n)
  BY <1>1 DEF EarnedBy, Earning
<1>5. \A n \in 1..k : list[n] \in H /\ all[d + n] = list[n]
  BY <1>1
<1>. DEFINE T == {n \in 0..k : Tallied(f[n], d + n, all, tally(n), C, S) /\ Unmet(n)}
<1>. HIDE DEF H, K
<1>6. 0 \in T
  <2>1. \A key \in K : base[key] \in Int
    BY DEF K
  <2>a. \A key \in K : base[key] + g[key][0] = base[key]
    BY <1>4, <2>1
  <2>2. tally(0) = base
    BY <2>a DEF TallyAfter, K
  <2>3. Tallied(f[0], d + 0, all, tally(0), C, S)
    BY <1>3, <2>2
  <2>4. Unmet(0)
    BY <2>a DEF K
  <2>. HIDE DEF tally, Unmet
  <2>. QED
    BY <1>1, <2>3, <2>4
<1>7. ASSUME NEW n \in 1..k, n - 1 \in T PROVE n \in T
  <2>a. ASSUME NEW key \in K PROVE base[key] \in Int /\ base[key] + g[key][n - 1] \in Int
    <3>1. base[key] \in Int /\ g[key][n - 1] \in Int
      BY <1>4 DEF K
    <3>. QED
      BY <3>1
  <2>b. tally(n - 1) \in [K -> Int]
    BY <2>a DEF TallyAfter
  <2>1. PICK before \in [K -> Int] : before = tally(n - 1)
    BY <2>b
  <2>2. PICK m \in 1..Len(all) : m = d + n
    BY <1>1
  <2>3. m - 1 = d + (n - 1)
    BY <2>2
  <2>4. Tallied(f[n - 1], m - 1, all, before, C, S)
    BY <1>7, <2>1, <2>3
  <2>5. PICK r \in H : r = list[n] /\ r = all[m]
    BY <1>5, <2>2
  <2>6. PICK share \in Int : share = Ranking!Share(weight, n)
    BY ShareIsNumber
  <2>7. PICK own \in K : own = Ranking!Key(r)
    BY DEF K, H, KeysFrom
  <2>8. ASSUME NEW key \in K
        PROVE  /\ before[key] = base[key] + g[key][n - 1]
               /\ tally(n)[key] = base[key] + g[key][n]
               /\ g[key][n] = IF key = own THEN g[key][n - 1] + share ELSE g[key][n - 1]
    <3>1. before[key] = base[key] + g[key][n - 1] /\ tally(n)[key] = base[key] + g[key][n]
      BY <2>1 DEF TallyAfter
    <3>2. g[key][n] = Earned(g[key][n - 1], list, weight, key, n)
      BY <1>4
    <3>3. g[key][n] = IF own = key THEN g[key][n - 1] + share ELSE g[key][n - 1]
      BY <2>5, <2>6, <2>7, <3>2 DEF Earned
    <3>. HIDE DEF tally
    <3>. QED
      BY <3>1, <3>3
  <2>9. ASSUME NEW key \in K, ~Occurs(key, all, m - 1) PROVE before[key] = 0
    <3>1. Unmet(n - 1)
      BY <1>7
    <3>2. base[key] + g[key][n - 1] = 0
      BY <2>3, <2>9, <3>1
    <3>. QED
      BY <2>8, <3>2
  <2>10. ASSUME NEW key \in K
         PROVE  tally(n)[key] = IF key = own THEN before[key] + share ELSE before[key]
    <3>a. n - 1 \in 0..k
      BY <1>1
    <3>b. base[key] \in Int /\ g[key][n - 1] \in Int
      BY <1>4, <2>a, <3>a
    <3>1. PICK x \in Int, y \in Int : x = base[key] /\ y = g[key][n - 1]
      BY <3>b
    <3>2. PICK z : z = tally(n)[key]
      OBVIOUS
    <3>3. /\ before[key] = x + y
          /\ z = x + IF key = own THEN y + share ELSE y
      BY <2>8, <3>1, <3>2
    <3>. HIDE DEF tally
    <3>4. CASE key = own
      <4>1. z = x + (y + share) /\ before[key] = x + y
        BY <3>3, <3>4
      <4>2. x + (y + share) = (x + y) + share
        BY <3>1, <2>6
      <4>. QED
        BY ZenonT(30), <3>2, <3>4, <4>1, <4>2
    <3>5. CASE key # own
      BY ZenonT(30), <3>2, <3>3, <3>5
    <3>. QED
      BY ZenonT(30), <3>4, <3>5
  <2>11. tally(n) = Raised(K, before, own, share)
    <3>1. tally(n) = [key \in K |-> tally(n)[key]]
      BY DEF TallyAfter
    <3>. HIDE DEF tally
    <3>. QED
      BY <2>10, <3>1 DEF Raised
  <2>12. f[n] = Ranking!Credit(f[n - 1], r, share, strategy)
    BY <1>3, <2>5, <2>6
  <2>13. Unmet(n)
    <3>1. ASSUME NEW key \in K, ~Occurs(key, all, d + n) PROVE base[key] + g[key][n] = 0
      <4>1. ~Occurs(key, all, m - 1) /\ key # own
        BY <2>2, <2>5, <2>7, <3>1 DEF Occurs
      <4>2. tally(n)[key] = before[key] /\ before[key] = 0
        BY <2>9, <2>10, <4>1
      <4>3. tally(n)[key] = base[key] + g[key][n]
        BY <2>8
      <4>. HIDE DEF tally
      <4>. QED
        BY <4>2, <4>3
    <3>. QED
      BY <3>1
  <2>. HIDE DEF tally, Unmet
  <2>14. Tallied(f[n], m, all, tally(n), C, S)
    <3>1. Tallied(Ranking!Credit(f[n - 1], r, share, strategy), m, all,
                  Raised(KeysFrom(C, S), before, own, share), C, S)
      BY <2>4, <2>5, <2>7, <2>9, CreditTallies, Zenon DEF H, K
    <3>. QED
      BY <2>11, <2>12, <3>1 DEF K
  <2>. QED
    BY <2>2, <2>13, <2>14
<1>. HIDE DEF T
<1>8. k \in T
  BY <1>1, <1>6, <1>7, UpToAtEnd
<1>9. Tallied(f[k], d + k, all, tally(k), C, S) /\ Unmet(k)
  BY <1>8 DEF T
<1>. QED
  BY <1>1, <1>3, <1>9 DEF K, FusedWell

-----------------------------------------------------------------------------
(* The sort, and the whole of mergeRetrievalCandidates.                    *)

(* The instance counts as everyone does.                                   *)
LEMMA RankingCounts ==
    ASSUME NEW S
    PROVE  Ranking!Cardinality(S) = Cardinality(S)
  BY DEF Ranking!Cardinality, Cardinality

Better(e, i) == {j \in DOMAIN e : Ranking!Before(e, j, i)}

(* p gives every place of the sorted entries the entry that goes there.     *)
Sorting(p, e) ==
    /\ p \in [1..Len(e) -> 1..Len(e)]
    /\ \A n \in 1..Len(e) : Ranking!Sorted(e)[n] = e[p[n]]
    /\ \A m, n \in 1..Len(e) : m < n => Ranking!Before(e, p[m], p[n])
    /\ \A i \in 1..Len(e) : \E n \in 1..Len(e) : p[n] = i

LEMMA SortedIs ==
    ASSUME NEW C, NEW S, NEW e \in Seq(Entries(C, S))
    PROVE  \E p : Sorting(p, e)
<1>1. PICK k \in Nat : k = Len(e) /\ DOMAIN e = 1..k
  OBVIOUS
<1>2. ASSUME NEW i \in 1..k PROVE e[i].score \in Int
  <2>1. PICK x \in Entries(C, S) : x = e[i]
    BY <1>1
  <2>. QED
    BY <2>1 DEF Entries
<1>3. \A i \in 1..k : ~Ranking!Before(e, i, i)
  BY <1>2 DEF Ranking!Before
<1>4. \A i, j, l \in 1..k : Ranking!Before(e, i, j) /\ Ranking!Before(e, j, l)
                               => Ranking!Before(e, i, l)
  BY <1>2 DEF Ranking!Before
<1>5. \A i, j \in 1..k : i = j \/ Ranking!Before(e, i, j) \/ Ranking!Before(e, j, i)
  BY <1>2 DEF Ranking!Before
<1>6. IsFiniteSet(1..k) /\ Cardinality(1..k) = k
  BY FS_Interval
<1>7. IsFiniteSet(0..(k - 1)) /\ Cardinality(0..(k - 1)) = k
  BY FS_Interval
<1>8. ASSUME NEW i \in 1..k
      PROVE  /\ IsFiniteSet(Better(e, i)) /\ Cardinality(Better(e, i)) \in 0..(k - 1)
  <2>1. Better(e, i) \in SUBSET (1..k) /\ i \notin Better(e, i)
    BY <1>1, <1>3 DEF Better
  <2>2. /\ IsFiniteSet(Better(e, i)) /\ Cardinality(Better(e, i)) <= k
        /\ Cardinality(Better(e, i)) = k => 1..k = Better(e, i)
    BY <1>6, <2>1, FS_Subset
  <2>3. Cardinality(Better(e, i)) \in Nat
    BY <2>2, FS_CardinalityType
  <2>. QED
    BY <2>1, <2>2, <2>3
<1>9. ASSUME NEW i \in 1..k, NEW j \in 1..k, Ranking!Before(e, j, i)
      PROVE  Cardinality(Better(e, j)) < Cardinality(Better(e, i))
  <2>1. Better(e, j) \in SUBSET Better(e, i)
    BY <1>1, <1>4, <1>9 DEF Better
  <2>2. j \in Better(e, i) /\ j \notin Better(e, j)
    BY <1>1, <1>3, <1>9 DEF Better
  <2>3. /\ Cardinality(Better(e, j)) <= Cardinality(Better(e, i))
        /\ Cardinality(Better(e, i)) = Cardinality(Better(e, j)) => Better(e, i) = Better(e, j)
    BY <1>8, <2>1, FS_Subset
  <2>. QED
    BY <1>8, <2>2, <2>3
<1>10. PICK rank : rank = [i \in 1..k |-> Cardinality(Better(e, i))]
  OBVIOUS
<1>11. \A i \in 1..k : rank[i] = Cardinality(Better(e, i)) /\ rank[i] \in 0..(k - 1)
  BY <1>8, <1>10
<1>12. ASSUME NEW i \in 1..k, NEW j \in 1..k, rank[i] = rank[j] PROVE i = j
  BY <1>5, <1>9, <1>11, <1>12
<1>13. rank \in Injection(1..k, 0..(k - 1))
  BY <1>10, <1>11, <1>12 DEF Injection, IsInjective
<1>14. rank \in Surjection(1..k, 0..(k - 1))
  BY <1>6, <1>7, <1>13, FS_Injection
<1>15. \A m \in 0..(k - 1) : \E i \in 1..k : rank[i] = m
  BY <1>14 DEF Surjection
<1>. DEFINE q(n) == CHOOSE i \in DOMAIN e : Cardinality(Better(e, i)) = n - 1
<1>16. ASSUME NEW n \in 1..k PROVE q(n) \in 1..k /\ rank[q(n)] = n - 1
  <2>1. \E i \in DOMAIN e : Cardinality(Better(e, i)) = n - 1
    <3>1. n - 1 \in 0..(k - 1)
      OBVIOUS
    <3>. QED
      BY <1>1, <1>11, <1>15, <3>1
  <2>2. q(n) \in DOMAIN e /\ Cardinality(Better(e, q(n))) = n - 1
    BY <2>1
  <2>. HIDE DEF q
  <2>. QED
    BY <1>1, <1>11, <2>2
<1>17. \A n \in 1..k : Ranking!Sorted(e)[n] = e[q(n)]
  <2>1. ASSUME NEW n \in 1..k
        PROVE  Ranking!Sorted(e)[n] = e[CHOOSE i \in DOMAIN e :
                                          Ranking!Cardinality(Better(e, i)) = n - 1]
    BY <1>1 DEF Ranking!Sorted, Better
  <2>2. \A i : Ranking!Cardinality(Better(e, i)) = Cardinality(Better(e, i))
    BY RankingCounts
  <2>. QED
    BY <2>1, <2>2
<1>. HIDE DEF q
<1>18. PICK p : p = [n \in 1..k |-> q(n)]
  OBVIOUS
<1>19. p \in [1..k -> 1..k] /\ \A n \in 1..k : rank[p[n]] = n - 1
  BY <1>16, <1>18
<1>20. ASSUME NEW m \in 1..k, NEW n \in 1..k, m < n PROVE Ranking!Before(e, p[m], p[n])
  <2>1. PICK i \in 1..k, j \in 1..k : i = p[m] /\ j = p[n]
    BY <1>19
  <2>2. rank[i] = m - 1 /\ rank[j] = n - 1
    BY <1>19, <2>1
  <2>3. ~Ranking!Before(e, j, i)
    <3>1. Ranking!Before(e, j, i) => rank[j] < rank[i]
      BY <1>9, <1>11
    <3>. QED
      BY <1>20, <2>2, <3>1
  <2>4. i # j
    BY <1>20, <2>2
  <2>. QED
    BY <1>5, <2>1, <2>3, <2>4
<1>21. ASSUME NEW i \in 1..k PROVE \E n \in 1..k : p[n] = i
  <2>1. PICK n \in 1..k : n = rank[i] + 1
    BY <1>11
  <2>2. rank[p[n]] = rank[i] /\ p[n] \in 1..k
    <3>1. rank[p[n]] = n - 1 /\ p[n] \in 1..k
      BY <1>19
    <3>2. rank[i] \in Int
      BY <1>11
    <3>. QED
      BY <2>1, <3>1, <3>2
  <2>. QED
    BY <1>12, <2>2
<1>. QED
  BY <1>1, <1>17, <1>18, <1>19, <1>20, <1>21 DEF Sorting

(* Room for all the results leaves all of them.                             *)
LEMMA LimitKeepsAll ==
    ASSUME NEW results, results \in Seq(Range(results)), NEW topK \in Nat,
           Len(results) <= topK
    PROVE  Ranking!Limit(results, topK, topK) = results
<1>. DEFINE k == Len(results)
<1>1. k \in Nat /\ \A n \in 1..k : results[n] \in Range(results)
  BY DEF Range
<1>2. PICK f : /\ Ranking!Limit(results, topK, topK) = f[k]
               /\ f[0] = <<>>
               /\ \A n \in 1..k : f[n] = Ranking!Keep(f[n - 1], results[n], topK, topK)
  BY LimitIs
<1>. DEFINE T == {n \in 0..k : f[n] \in Seq(Range(results)) /\ Len(f[n]) = n}
<1>3. 0 \in T
  <2>1. f[0] \in Seq(Range(results)) /\ Len(f[0]) = 0
    BY <1>2
  <2>. QED
    BY <1>1, <2>1
<1>4. ASSUME NEW n \in 1..k, n - 1 \in T PROVE n \in T
  <2>1. PICK kept \in Seq(Range(results)) : kept = f[n - 1]
    BY <1>4
  <2>2. Len(kept) = n - 1 /\ DOMAIN kept = 1..(n - 1)
    BY <1>4, <2>1
  <2>3. PICK same : same = {i \in DOMAIN kept : kept[i].source = results[n].source}
    OBVIOUS
  <2>4. Cardinality(same) < topK
    <3>1. same \in SUBSET (1..(n - 1))
      BY <2>2, <2>3
    <3>2. IsFiniteSet(1..(n - 1)) /\ Cardinality(1..(n - 1)) = n - 1
      BY FS_Interval
    <3>3. IsFiniteSet(same) /\ Cardinality(same) <= n - 1
      BY <3>1, <3>2, FS_Subset
    <3>4. Cardinality(same) \in Nat
      BY <3>3, FS_CardinalityType
    <3>. QED
      BY <1>1, <3>3, <3>4
  <2>5. Len(kept) < topK
    BY <1>1, <2>2
  <2>6. f[n] = Append(kept, results[n])
    <3>1. f[n] = Ranking!Keep(kept, results[n], topK, topK)
      BY <1>2, <2>1
    <3>2. Ranking!Cardinality(same) = Cardinality(same)
      BY RankingCounts
    <3>. QED
      BY <2>3, <2>4, <2>5, <3>1, <3>2 DEF Ranking!Keep
  <2>7. f[n] \in Seq(Range(results)) /\ Len(f[n]) = n
    BY <1>1, <2>2, <2>6
  <2>. QED
    BY <2>7
<1>. HIDE DEF T, k
<1>5. k \in T
  BY <1>1, <1>3, <1>4, UpToAtEnd
<1>6. Len(Ranking!Limit(results, topK, topK)) = Len(results)
  BY <1>2, <1>5 DEF T, k
<1>. QED
  BY <1>6, LimitFacts

(* The entries of both lists, with the worth of their keys in both.        *)
TalliedBy(fused, C, S, dense, lexical, w, v) ==
    \E tally \in [KeysFrom(C, S) -> Int] :
        /\ Tallied(fused, Len(dense \o lexical), dense \o lexical, tally, C, S)
        /\ \A key \in KeysFrom(C, S) :
             tally[key] = Worth(dense, w, key) + Worth(lexical, v, key)

(* What fusion makes of two lists, before the sort.                         *)
LEMMA FusionTallies ==
    ASSUME NEW C, NEW S, NEW dense \in Seq(HitsFrom(C, S)), NEW lexical \in Seq(HitsFrom(C, S)),
           NEW w \in Nat, NEW v \in Nat
    PROVE  TalliedBy(Ranking!Fuse(Ranking!Fuse(<<>>, dense, w, "dense"), lexical, v, "lexical"),
                     C, S, dense, lexical, w, v)
<1>. DEFINE H == HitsFrom(C, S)
            K == KeysFrom(C, S)
<1>1. PICK d \in Nat, l \in Nat : d = Len(dense) /\ l = Len(lexical)
  OBVIOUS
<1>2. PICK both \in Seq(H) : both = dense \o lexical
  <2>1. dense \in Seq(H) /\ lexical \in Seq(H)
    OBVIOUS
  <2>. HIDE DEF H
  <2>2. dense \o lexical \in Seq(H)
    BY <2>1
  <2>. QED
    BY <2>2
<1>3. /\ Len(both) = d + l
      /\ \A n \in 1..d : both[n] = dense[n]
      /\ \A n \in 1..l : both[d + n] = lexical[n]
  BY <1>1, <1>2
<1>. HIDE DEF H, K
<1>4. PICK zero \in [K -> Int] : zero = [key \in K |-> 0]
  <2>1. [key \in K |-> 0] \in [K -> Int]
    OBVIOUS
  <2>. QED
    BY <2>1
<1>5. Tallied(<<>>, 0, both, zero, C, S)
  BY DEF Tallied
<1>6. PICK first : first = Ranking!Fuse(<<>>, dense, w, "dense")
  OBVIOUS
<1>7. PICK g, f : EarnedBy(g, K, dense, w) /\ EarnedBy(f, K, lexical, v)
  BY WorthOfKeys
<1>8. ASSUME NEW key \in K
      PROVE  /\ g[key][d] = Worth(dense, w, key) /\ g[key][d] \in Int
             /\ f[key][l] = Worth(lexical, v, key) /\ f[key][l] \in Int
  <2>1. d \in 0..d /\ l \in 0..l
    BY <1>1
  <2>2. /\ g[key] \in [0..d -> Int] /\ g[key][d] = Worth(dense, w, key)
        /\ f[key] \in [0..l -> Int] /\ f[key][l] = Worth(lexical, v, key)
    BY <1>1, <1>7 DEF EarnedBy, Earning
  <2>3. g[key][d] \in Int /\ f[key][l] \in Int
    BY <2>1, <2>2
  <2>. QED
    BY <2>2, <2>3
<1>9. PICK once : once = TallyAfter(K, zero, g, d)
  OBVIOUS
<1>10. /\ once \in [K -> Int]
       /\ \A key \in K : once[key] = g[key][d]
  <2>1. ASSUME NEW key \in K PROVE zero[key] + g[key][d] = g[key][d] /\ g[key][d] \in Int
    <3>1. PICK x \in Int : x = g[key][d]
      BY <1>8
    <3>2. zero[key] = 0
      BY <1>4
    <3>. QED
      BY <3>1, <3>2
  <2>. QED
    BY <1>9, <2>1 DEF TallyAfter
<1>11. Tallied(first, d, both, once, C, S) /\ \A key \in K : ~Occurs(key, both, d) => once[key] = 0
  <2>1. \A n \in 1..Len(dense) : both[0 + n] = dense[n]
    BY <1>1, <1>3
  <2>2. 0 + Len(dense) <= Len(both) /\ 0 + Len(dense) = d /\ 0 \in Nat
    BY <1>1, <1>3
  <2>3. \A key \in K : ~Occurs(key, both, 0) => zero[key] = 0
    BY <1>4
  <2>4. /\ Tallied(Ranking!Fuse(<<>>, dense, w, "dense"), 0 + Len(dense), both,
                   TallyAfter(KeysFrom(C, S), zero, g, Len(dense)), C, S)
        /\ \A key \in KeysFrom(C, S) :
             ~Occurs(key, both, 0 + Len(dense)) => zero[key] + g[key][Len(dense)] = 0
    <3>1. /\ both \in Seq(HitsFrom(C, S)) /\ zero \in [KeysFrom(C, S) -> Int]
          /\ \A key \in KeysFrom(C, S) : ~Occurs(key, both, 0) => zero[key] = 0
          /\ EarnedBy(g, KeysFrom(C, S), dense, w)
      BY <1>7, <2>3 DEF H, K
    <3>. QED
      <4>1. "dense" \in {"dense", "lexical"}
        OBVIOUS
      <4>2. FusedWell(Ranking!Fuse(<<>>, dense, w, "dense"), 0 + Len(dense), both, zero, g,
                      Len(dense), C, S)
        BY <1>5, <2>1, <2>2, <3>1, <4>1, FuseTallies, Zenon
      <4>. QED
        BY <4>2, Zenon DEF FusedWell
  <2>5. ASSUME NEW key \in K, ~Occurs(key, both, d) PROVE once[key] = 0
    <3>1. zero[key] + g[key][d] = 0
      BY <1>1, <2>2, <2>4, <2>5 DEF K
    <3>2. once[key] = zero[key] + g[key][d]
      BY <1>9 DEF TallyAfter
    <3>. QED
      BY <3>1, <3>2
  <2>. QED
    BY <1>1, <1>6, <1>9, <2>2, <2>4, <2>5 DEF K
<1>12. PICK twice : twice = TallyAfter(K, once, f, l)
  OBVIOUS
<1>13. ASSUME NEW key \in K PROVE once[key] + f[key][l] \in Int
  <2>1. once[key] \in Int /\ f[key][l] \in Int
    BY <1>8, <1>10
  <2>. QED
    BY <2>1
<1>14. /\ twice \in [K -> Int]
       /\ \A key \in K : twice[key] = once[key] + f[key][l]
  BY <1>12, <1>13 DEF TallyAfter
<1>15. Tallied(Ranking!Fuse(first, lexical, v, "lexical"), d + l, both, twice, C, S)
  <2>1. \A n \in 1..Len(lexical) : both[d + n] = lexical[n]
    BY <1>1, <1>3
  <2>2. d + Len(lexical) <= Len(both)
    BY <1>1, <1>3
  <2>4. Tallied(Ranking!Fuse(first, lexical, v, "lexical"), d + Len(lexical), both,
                TallyAfter(KeysFrom(C, S), once, f, Len(lexical)), C, S)
    BY <1>7, <1>10, <1>11, <2>1, <2>2, FuseTallies DEF H, K, FusedWell
  <2>. QED
    BY <1>1, <1>12, <2>4 DEF K
<1>16. ASSUME NEW key \in K
       PROVE  twice[key] = Worth(dense, w, key) + Worth(lexical, v, key)
  BY <1>8, <1>10, <1>14
<1>. QED
  BY <1>2, <1>3, <1>6, <1>14, <1>15, <1>16 DEF K, TalliedBy

(* What FusionRanks says of a merged list.                                  *)
HitAt(merged, n) == [chunk |-> merged[n].chunk, source |-> merged[n].source]

Outranks(merged, both, m, n) ==
    /\ Ranking!Key(merged[m]) # Ranking!Key(merged[n])
    /\ \/ merged[m].score > merged[n].score
       \/ /\ merged[m].score = merged[n].score
          /\ \E i \in DOMAIN both :
               /\ Ranking!Key(both[i]) = Ranking!Key(merged[m])
               /\ \A j \in 1..i : Ranking!Key(both[j]) # Ranking!Key(merged[n])

MergedWell(merged, both, dense, lexical, w, v) ==
    /\ \A h \in Range(both) : \E n \in DOMAIN merged :
          Ranking!Key(merged[n]) = Ranking!Key(h)
    /\ \A n \in DOMAIN merged :
          /\ merged[n].score = Worth(dense, w, Ranking!Key(merged[n]))
                               + Worth(lexical, v, Ranking!Key(merged[n]))
          /\ \E i \in DOMAIN both :
               /\ both[i] = HitAt(merged, n)
               /\ \A j \in 1..(i - 1) : Ranking!Key(both[j]) # Ranking!Key(merged[n])
    /\ \A m, n \in DOMAIN merged : m < n => Outranks(merged, both, m, n)

(* The merged list, in full.                                                *)
LEMMA MergeIs ==
    ASSUME NEW C, NEW S, NEW dense \in Seq(HitsFrom(C, S)), NEW lexical \in Seq(HitsFrom(C, S)),
           NEW w \in Nat, NEW v \in Nat,
           NEW both, both = dense \o lexical,
           NEW merged, merged = Ranking!Merge(dense, lexical, w, v, Len(both), Len(both))
    PROVE  MergedWell(merged, both, dense, lexical, w, v)
<1>1. PICK e : e = Ranking!Fuse(Ranking!Fuse(<<>>, dense, w, "dense"), lexical, v, "lexical")
  OBVIOUS
<1>2. PICK tally \in [KeysFrom(C, S) -> Int] :
        /\ Tallied(e, Len(both), both, tally, C, S)
        /\ \A key \in KeysFrom(C, S) :
             tally[key] = Worth(dense, w, key) + Worth(lexical, v, key)
  <2>1. TalliedBy(e, C, S, dense, lexical, w, v)
    BY <1>1, FusionTallies
  <2>. QED
    BY <2>1 DEF TalliedBy
<1>3. both \in Seq(HitsFrom(C, S)) /\ Len(both) \in Nat /\ DOMAIN both = 1..Len(both)
  OBVIOUS
<1>4. e \in Seq(Entries(C, S)) /\ Len(e) <= Len(both)
  BY <1>2 DEF Tallied
<1>5. PICK k \in Nat : k = Len(e)
  BY <1>4
<1>6. PICK p : Sorting(p, e)
  BY <1>4, SortedIs
<1>7. PICK sorted : sorted = Ranking!Sorted(e)
  OBVIOUS
<1>8. /\ p \in [1..k -> 1..k] /\ \A n \in 1..k : sorted[n] = e[p[n]]
      /\ \A m, n \in 1..k : m < n => Ranking!Before(e, p[m], p[n])
      /\ \A i \in 1..k : \E n \in 1..k : p[n] = i
  BY <1>5, <1>6, <1>7 DEF Sorting
<1>9. DOMAIN sorted = 1..k /\ sorted = [n \in 1..k |-> sorted[n]]
  BY <1>4, <1>5, <1>7 DEF Ranking!Sorted
<1>10. sorted \in Seq(Range(sorted)) /\ Len(sorted) = k
  <2>1. PICK R : R = Range(sorted)
    OBVIOUS
  <2>2. \A n \in 1..k : sorted[n] \in R
    BY <1>9, <2>1 DEF Range
  <2>3. [n \in 1..k |-> sorted[n]] \in Seq(R) /\ Len([n \in 1..k |-> sorted[n]]) = k
    BY <1>5, <2>2
  <2>. QED
    BY <1>9, <2>1, <2>3
<1>11. merged = sorted
  <2>1. merged = Ranking!Limit(sorted, Len(both), Len(both))
    BY <1>1, <1>7 DEF Ranking!Merge
  <2>. QED
    BY <1>3, <1>4, <1>5, <1>10, <2>1, LimitKeepsAll
<1>12. \A i \in 1..k : e[i] \in Entries(C, S) /\ e[i].score \in Int
  <2>1. ASSUME NEW i \in 1..k PROVE e[i] \in Entries(C, S) /\ e[i].score \in Int
    <3>1. e[i] \in Entries(C, S)
      BY <1>4, <1>5
    <3>. QED
      BY <3>1 DEF Entries
  <2>. QED
    BY <2>1
<1>13. ASSUME NEW n \in 1..k
       PROVE  merged[n] = e[p[n]] /\ HitAt(merged, n) = HitOf(e[p[n]]) /\ p[n] \in 1..k
  BY <1>8, <1>11 DEF HitAt, HitOf
<1>14. ASSUME NEW i \in 1..k
       PROVE  /\ First(HitOf(e[i]), both, Len(both))
              /\ e[i].score = Worth(dense, w, Ranking!Key(e[i]))
                              + Worth(lexical, v, Ranking!Key(e[i]))
  <2>1. First(HitOf(e[i]), both, Len(both)) /\ e[i].score = tally[Ranking!Key(e[i])]
    BY <1>2, <1>5 DEF Tallied
  <2>2. PICK j \in 1..Len(both) : both[j] = HitOf(e[i])
    BY <2>1 DEF First
  <2>3. Ranking!Key(e[i]) \in KeysFrom(C, S)
    <3>1. PICK h \in HitsFrom(C, S) : h = HitOf(e[i])
      BY <1>3, <2>2
    <3>2. Ranking!Key(h) = Ranking!Key(e[i])
      BY <3>1, KeyOfEntry
    <3>. QED
      BY <3>2 DEF KeysFrom
  <2>. QED
    BY <1>2, <2>1, <2>3
<1>15. ASSUME NEW n \in 1..k
       PROVE  /\ merged[n].score = Worth(dense, w, Ranking!Key(merged[n]))
                                   + Worth(lexical, v, Ranking!Key(merged[n]))
              /\ \E i \in DOMAIN both :
                   /\ both[i] = HitAt(merged, n)
                   /\ \A j \in 1..(i - 1) : Ranking!Key(both[j]) # Ranking!Key(merged[n])
  <2>1. PICK i \in 1..k : i = p[n]
    BY <1>13
  <2>2. merged[n] = e[i] /\ HitAt(merged, n) = HitOf(e[i])
    BY <1>13, <2>1
  <2>3. PICK q \in DOMAIN both :
          /\ both[q] = HitOf(e[i])
          /\ \A j \in 1..(q - 1) : Ranking!Key(both[j]) # Ranking!Key(HitOf(e[i]))
    BY <1>3, <1>14 DEF First
  <2>4. Ranking!Key(HitOf(e[i])) = Ranking!Key(merged[n])
    BY <2>2, KeyOfEntry
  <2>5. /\ both[q] = HitAt(merged, n)
        /\ \A j \in 1..(q - 1) : Ranking!Key(both[j]) # Ranking!Key(merged[n])
    BY <2>2, <2>3, <2>4
  <2>. QED
    BY <1>14, <2>2, <2>5
<1>16. ASSUME NEW h \in Range(both)
       PROVE  \E n \in 1..k : Ranking!Key(merged[n]) = Ranking!Key(h)
  <2>1. PICK j \in 1..Len(both) : both[j] = h
    BY <1>3 DEF Range
  <2>2. PICK i \in 1..k : Ranking!Key(e[i]) = Ranking!Key(h)
    BY <1>2, <1>5, <2>1 DEF Tallied
  <2>3. PICK n \in 1..k : p[n] = i
    BY <1>8
  <2>. QED
    BY <1>13, <2>2, <2>3
<1>17. ASSUME NEW i \in 1..k, NEW j \in 1..k, i < j
       PROVE  /\ Sooner(Ranking!Key(e[i]), Ranking!Key(e[j]), both)
              /\ Ranking!Key(e[i]) # Ranking!Key(e[j])
  <2>1. Sooner(Ranking!Key(e[i]), Ranking!Key(e[j]), both)
    BY <1>2, <1>5, <1>17 DEF Tallied
  <2>2. PICK a \in 1..Len(both) : /\ Ranking!Key(both[a]) = Ranking!Key(e[i])
                                  /\ \A b \in 1..a : Ranking!Key(both[b]) # Ranking!Key(e[j])
    BY <2>1 DEF Sooner
  <2>. QED
    BY <1>3, <2>1, <2>2
<1>18. ASSUME NEW m \in 1..k, NEW n \in 1..k, m < n
       PROVE  Outranks(merged, both, m, n)
  <2>1. PICK i \in 1..k, j \in 1..k : i = p[m] /\ j = p[n]
    BY <1>8
  <2>2. Ranking!Before(e, i, j)
    BY <1>8, <1>18, <2>1
  <2>3. i # j
    BY <1>12, <2>2 DEF Ranking!Before
  <2>4. Ranking!Key(e[i]) # Ranking!Key(e[j])
    BY <1>17, <2>3
  <2>5. \/ e[i].score > e[j].score
        \/ e[i].score = e[j].score /\ Sooner(Ranking!Key(e[i]), Ranking!Key(e[j]), both)
    BY <1>17, <2>2 DEF Ranking!Before
  <2>6. merged[m] = e[i] /\ merged[n] = e[j]
    BY <1>13, <2>1
  <2>. QED
    BY <1>3, <2>4, <2>5, <2>6 DEF Sooner, Outranks
<1>19. DOMAIN merged = 1..k
  BY <1>9, <1>11
<1>20. \A n \in DOMAIN merged :
          /\ merged[n].score = Worth(dense, w, Ranking!Key(merged[n]))
                               + Worth(lexical, v, Ranking!Key(merged[n]))
          /\ \E i \in DOMAIN both :
               /\ both[i] = HitAt(merged, n)
               /\ \A j \in 1..(i - 1) : Ranking!Key(both[j]) # Ranking!Key(merged[n])
  BY <1>15, <1>19
<1>21. \A h \in Range(both) : \E n \in DOMAIN merged : Ranking!Key(merged[n]) = Ranking!Key(h)
  BY <1>16, <1>19
<1>22. \A m, n \in DOMAIN merged : m < n => Outranks(merged, both, m, n)
  BY <1>18, <1>19
<1>. QED
  BY <1>20, <1>21, <1>22, Zenon DEF MergedWell

(* FusionRanks of given lists.                                              *)
FusedAs(dense, lexical, w, v) ==
    LET both == dense \o lexical
    IN  MergedWell(Ranking!Merge(dense, lexical, w, v, Len(both), Len(both)),
                   both, dense, lexical, w, v)

(* The fused list is ranked by what both lists say.                         *)
THEOREM FusionIsRanked == TrialSpec => []FusionRanks
<1>1. OneTrial => FusionRanks
  <2>. SUFFICES ASSUME OneTrial, trial.of = "merge" PROVE FusionRanks
    BY DEF FusionRanks
  <2>1. PICK one \in MergeCalls : one = trial.call
    BY CallsOf
  <2>2. PICK dense, lexical, w, v :
          /\ dense = one.dense /\ lexical = one.lexical
          /\ w = one.weight /\ v = one.lexicalWeight
    OBVIOUS
  <2>3. /\ dense \in Seq(Range(dense)) /\ lexical \in Seq(Range(lexical))
        /\ w \in Nat /\ v \in Nat
        /\ \A hit \in Range(dense) \union Range(lexical) :
             hit = [chunk |-> hit.chunk, source |-> hit.source]
    BY <2>2, MergeAssumption
  <2>4. PICK all : all = Range(dense) \union Range(lexical)
    OBVIOUS
  <2>5. PICK C, S : C = {hit.chunk : hit \in all} /\ S = {hit.source : hit \in all}
    OBVIOUS
  <2>6. all \in SUBSET HitsFrom(C, S)
    <3>1. ASSUME NEW hit \in all PROVE hit \in HitsFrom(C, S)
      <4>1. hit.chunk \in C /\ hit.source \in S
        BY <2>5
      <4>2. hit = [chunk |-> hit.chunk, source |-> hit.source]
        BY <2>3, <2>4
      <4>. QED
        BY <4>1, <4>2 DEF HitsFrom
    <3>. QED
      BY <3>1
  <2>7. PICK H : H = HitsFrom(C, S)
    OBVIOUS
  <2>8. dense \in Seq(H) /\ lexical \in Seq(H)
    <3>1. PICK A, B : A = Range(dense) /\ B = Range(lexical)
      OBVIOUS
    <3>2. dense \in Seq(A) /\ lexical \in Seq(B) /\ A \in SUBSET H /\ B \in SUBSET H
      BY <2>3, <2>4, <2>6, <2>7, <3>1
    <3>. QED
      BY <3>2
  <2>9. FusedAs(dense, lexical, w, v)
    <3>1. PICK both : both = dense \o lexical
      OBVIOUS
    <3>2. PICK merged : merged = Ranking!Merge(dense, lexical, w, v, Len(both), Len(both))
      OBVIOUS
    <3>3. MergedWell(merged, both, dense, lexical, w, v)
      BY <2>3, <2>7, <2>8, <3>1, <3>2, MergeIs
    <3>. QED
      BY <3>1, <3>2, <3>3 DEF FusedAs
  <2>10. FusedAs(trial.call.dense, trial.call.lexical, trial.call.weight,
                 trial.call.lexicalWeight)
    <3>1. /\ dense = trial.call.dense /\ lexical = trial.call.lexical
          /\ w = trial.call.weight /\ v = trial.call.lexicalWeight
      BY <2>1, <2>2
    <3>. QED
      BY <2>9, <3>1
  <2>. QED
    BY <2>10, Zenon DEF FusionRanks, FusedAs, MergedWell, Outranks, HitAt
<1>. QED
  BY <1>1, TrialsAreCalls, PTL
=============================================================================
