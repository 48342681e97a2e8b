------------------------- MODULE SearchRetrieval_proofs -------------------------
(***************************************************************************)
(* The identity cache and the governed retrieval of SearchRetrieval, for   *)
(* any number of requests, documents and commits.  The cache is never      *)
(* stale because of what its key holds: two snapshots of one generation    *)
(* agree in all that the resolution reads, so an entry is right for every  *)
(* request that can find it, whoever built it and whatever was committed   *)
(* meanwhile.                                                              *)
(***************************************************************************)
EXTENDS SearchRetrieval, FiniteSetTheorems, TLAPS

\* Two catalogues that the resolution of an identity cannot tell apart.
Agree(d, e) ==
  /\ DOMAIN d = DOMAIN e
  /\ \A i \in DOMAIN d : d[i].rank = e[i].rank /\ d[i].inside = e[i].inside

\* What holds of a request by itself, at each label.
Governed(j) ==
  /\ j.calls <= 1 /\ Cardinality(j.ids) <= Primary /\ Cardinality(j.new) <= Extra /\ j.ids \cap j.new = {}
  /\ j.pc \in {"new", "enter", "wait", "resolve", "leave", "route", "scoped", "lexical", "vector"} => j.calls = 0
  /\ j.policy = "strict" =>
       j.calls = 0 /\ j.new = {} /\ j.pc \notin {"lexical", "vector", "modes", "seeded", "newdocs"}
  /\ j.new # {} => j.pc = "context" \/ (j.pc \in {"hits", "rows"} /\ j.back = "context")
  /\ j.pc = "route" => Cardinality(j.ids \cup j.todo) <= Primary
  /\ j.pc \in {"lexical", "vector"} => j.back \in {"seeded", "newdocs"}
Local(j) ==
  /\ j.claimed => j.pc \in {"resolve", "leave"}
  /\ j.pc \in {"hits", "rows"} => j.back \in {"decide", "alternate", "context", "present"}
  /\ j.pc = "modes" => j.back \in {"seeded", "newdocs"}
  /\ j.pc = "new" => j.kind = "ask" /\ j.ids = {} /\ j.new = {}
  /\ j.kind = "ask" => Governed(j)
LocalInv == \A r \in Requests : Local(job[r])

\* A result of the cache: at most as many documents as its key allows.
EntryInv == \A e \in results : Cardinality(e.ids) <= e.key.limit

\* What the generations say of the catalogues.
GenInv ==
  /\ \A e \in results : e.key.gen <= revision
  /\ \A r \in Requests : Resolving(job[r]) =>
       /\ job[r].gen <= revision
       /\ job[r].gen = revision => Agree(job[r].snap, docs)
  /\ \A r, q \in Requests :
       Resolving(job[r]) /\ Resolving(job[q]) /\ job[r].gen = job[q].gen => Agree(job[r].snap, job[q].snap)

CatalogueInv == docs \in Catalogues /\ writes \in 0 .. MaxWrites /\ revision \in 0 .. writes
ResultsInv ==
  /\ results \subseteq [key : Keys, ids : SUBSET Ids]
  /\ IsFiniteSet(results) /\ Cardinality(results) <= MaxEntries
  /\ \A d, e \in results : d.key = e.key => d = e
BuildingInv == building \subseteq Keys /\ IsFiniteSet(building) /\ Cardinality(building) <= MaxBuilding
JobInv == job \in [Requests -> Job]

IInv ==
  /\ CatalogueInv /\ ResultsInv /\ BuildingInv /\ JobInv
  /\ LocalInv /\ EntryInv /\ GenInv /\ CachedIsCurrent /\ BuildingIsOwned

---------------------------------------------------------------------------
\* Constants, catalogues and the sets that a search returns.

LEMMA Constants ==
  /\ MaxDocs \in Nat /\ MaxDocs >= 1 /\ MaxWrites \in Nat /\ MaxWrites >= 1
  /\ Primary \in Nat /\ Primary >= 1 /\ Extra \in Nat /\ Extra >= 1
  /\ Selected \in Nat /\ IdentityLimit \in Nat /\ MaxEntries \in Nat /\ MaxEntries >= 1
  /\ MaxBuilding \in Nat /\ MaxBuilding >= 1
  /\ Start \subseteq Catalogues /\ Metas \subseteq Meta
  /\ Shapes \in [Requests -> SUBSET Shape]
BY Bounds

LEMMA CatalogueShape ==
  ASSUME NEW d
  PROVE  d \in Catalogues <=> DOMAIN d \subseteq Ids /\ d \in [DOMAIN d -> Doc]
BY DEF Catalogues

LEMMA FiniteIds ==
  ASSUME NEW S \in SUBSET Ids
  PROVE  IsFiniteSet(S) /\ Cardinality(S) \in Nat
<1>1. IsFiniteSet(Ids)
  BY Constants, FS_Interval DEF Ids
<1> QED BY <1>1, FS_Subset, FS_CardinalityType

LEMMA FirstIsBounded ==
  ASSUME NEW S \in SUBSET Ids, NEW n \in Nat, NEW T \in First(S, n)
  PROVE  T \subseteq S /\ T \in SUBSET Ids /\ Cardinality(T) <= n /\ Cardinality(T) \in Nat
BY FiniteIds DEF First

LEMMA EmptyIsBounded == Cardinality({}) = 0
BY FS_EmptySet

\* The resolution names at most limit documents: a document of the result is
\* numbered by how many come before it, and no two have the same number.
LEMMA ResolveIsBounded ==
  ASSUME NEW d \in Catalogues, NEW scope, NEW limit \in Nat
  PROVE  Resolve(d, scope, limit) \in SUBSET Ids /\ Cardinality(Resolve(d, scope, limit)) <= limit
<1> DEFINE N == Named(d, scope)
           B(i) == {k \in N : Before(d, k, i)}
           R == Resolve(d, scope, limit)
           f == [i \in R |-> Cardinality(B(i))]
<1>1. N \in SUBSET Ids /\ \A i \in N : d[i].rank \in Nat /\ i \in Nat
  BY CatalogueShape, Constants DEF Named, Doc, Ids
<1>2. R \in SUBSET N /\ \A i \in R : B(i) \in SUBSET Ids /\ Cardinality(B(i)) < limit
  BY <1>1 DEF Resolve
<1>3. \A i \in R : f[i] \in 0 .. limit - 1
  BY <1>2, FiniteIds
<1>4. ASSUME NEW i \in N, NEW k \in N, Before(d, k, i)
      PROVE  Cardinality(B(k)) # Cardinality(B(i))
  <2>1. B(k) \in SUBSET B(i) /\ k \in B(i) /\ k \notin B(k)
    BY <1>1, <1>4 DEF Before
  <2>2. IsFiniteSet(B(i))
    BY <1>1, FiniteIds
  <2> QED BY <2>1, <2>2, FS_Subset
<1>5. \A i, k \in N : i # k => Before(d, k, i) \/ Before(d, i, k)
  BY <1>1 DEF Before
<1>6. f \in Injection(R, 0 .. limit - 1)
  <2> SUFFICES ASSUME NEW i \in R, NEW k \in R, i # k PROVE f[i] # f[k]
    BY <1>3 DEF Injection, IsInjective
  <2> QED BY <1>2, <1>4, <1>5
<1>7. IsFiniteSet(0 .. limit - 1) /\ Cardinality(0 .. limit - 1) = limit
  BY FS_Interval
<1> HIDE DEF R, f
<1>8. Cardinality(R) <= limit
  BY <1>6, <1>7, FS_Injection
<1> QED BY <1>1, <1>2, <1>8 DEF R

LEMMA AgreeResolve ==
  ASSUME NEW d, NEW e, Agree(d, e), NEW scope, NEW limit
  PROVE  Resolve(d, scope, limit) = Resolve(e, scope, limit)
<1>1. Named(d, scope) = Named(e, scope)
  BY DEF Agree, Named
<1>2. \A i, k \in Named(d, scope) : Before(d, k, i) <=> Before(e, k, i)
  BY DEF Agree, Named, Before
<1>3. \A i \in Named(d, scope) :
        {k \in Named(d, scope) : Before(d, k, i)} = {k \in Named(e, scope) : Before(e, k, i)}
  BY <1>1, <1>2
<1> QED BY <1>1, <1>3 DEF Resolve

---------------------------------------------------------------------------
\* Steps of one request: what it becomes, and that nothing else changes.

LEMMA OneRequest ==
  ASSUME JobInv, NEW r \in Requests, NEW j \in Job, Set(r, j)
  PROVE  JobInv' /\ job'[r] = j /\ \A q \in Requests : q # r => job'[q] = job[q]
BY DEF JobInv, Set

LEMMA NewJobIsJob == NewJob \in Job /\ ~NewJob.claimed /\ Local([NewJob EXCEPT !.pc = "done"])
<1>1. NoDocs \in Catalogues
  BY CatalogueShape DEF NoDocs
<1>2. NewJob \in Job /\ ~NewJob.claimed
  BY <1>1, Constants DEF NewJob, Job, Labels, Outcomes
<1>3. Local([NewJob EXCEPT !.pc = "done"])
  BY EmptyIsBounded, Constants DEF NewJob, Local, Governed
<1> QED BY <1>2, <1>3

\* A step of a request that neither is resolving its identity afterwards nor
\* had claimed a key.
LEMMA PlainStep ==
  ASSUME IInv, NEW r \in Requests, NEW j \in Job, Set(r, j), reading,
         ~job[r].claimed, ~j.claimed, ~Resolving(j), Local(j)
  PROVE  IInv'
<1> USE DEF reading, catalog, cache
<1>1. JobInv' /\ job'[r] = j /\ \A q \in Requests : q # r => job'[q] = job[q]
  BY OneRequest DEF IInv
<1>2. CatalogueInv' /\ ResultsInv' /\ BuildingInv' /\ EntryInv'
  BY DEF IInv, CatalogueInv, ResultsInv, BuildingInv, EntryInv
<1>3. LocalInv'
  BY <1>1 DEF IInv, LocalInv
<1>4. \A q \in Requests : Resolving(job'[q]) => q # r /\ job'[q] = job[q]
  BY <1>1
<1>5. GenInv' /\ CachedIsCurrent'
  BY <1>4 DEF IInv, GenInv, CachedIsCurrent
<1>6. \A q \in Requests : job'[q].claimed <=> job[q].claimed
  BY <1>1
<1>7. \A q \in Requests : job'[q].claimed => job'[q] = job[q]
  BY <1>1
<1>8. BuildingIsOwned'
  <2>1. \A r1, q \in Requests :
          r1 # q /\ job'[r1].claimed /\ job'[q].claimed => Key(job'[r1]) # Key(job'[q])
    BY <1>6, <1>7 DEF IInv, BuildingIsOwned
  <2>2. {Key(job'[q]) : q \in {q \in Requests : job'[q].claimed}}
          = {Key(job[q]) : q \in {q \in Requests : job[q].claimed}}
    BY <1>6, <1>7
  <2> QED BY <2>1, <2>2 DEF IInv, BuildingIsOwned, Key
<1> QED BY <1>1, <1>2, <1>3, <1>5, <1>8 DEF IInv

\* A request that ends without a key.
LEMMA FinishStep ==
  ASSUME IInv, NEW r \in Requests, NEW outcome \in Outcomes, NEW sources \in SUBSET Passage,
         Finish(r, outcome, sources), reading, ~job[r].claimed
  PROVE  IInv'
<1> DEFINE j == [NewJob EXCEPT !.pc = "done", !.kind = job[r].kind, !.outcome = outcome, !.sources = sources]
<1>1. job[r] \in Job
  BY DEF IInv, JobInv
<1>2. j \in Job
  BY ZenonT(40), <1>1, NewJobIsJob DEF Job, Labels
<1>5. ~j.claimed /\ ~Resolving(j)
  BY DEF NewJob, Resolving
<1>3. Local(j)
  BY EmptyIsBounded, Constants DEF NewJob, Local, Governed
<1>4. Set(r, j)
  BY DEF Finish
<1> HIDE DEF j
<1> QED BY <1>2, <1>3, <1>4, <1>5, PlainStep

LEMMA JobFacts ==
  ASSUME IInv, NEW r \in Requests
  PROVE  job[r] \in Job /\ Local(job[r]) /\ (job[r].pc \notin {"resolve", "leave"} => ~job[r].claimed)
BY DEF IInv, JobInv, LocalInv, Local

LEMMA BeginStep ==
  ASSUME IInv, NEW r \in Requests, Begin(r) PROVE IInv'
<1>1. PICK s \in Shapes[r] :
        Set(r, [job[r] EXCEPT !.kind = s.kind, !.policy = s.policy, !.depth = s.depth,
                              !.pc = IF s.kind = "search" THEN "lexical" ELSE "enter"])
  BY DEF Begin
<1> DEFINE j == [job[r] EXCEPT !.kind = s.kind, !.policy = s.policy, !.depth = s.depth,
                               !.pc = IF s.kind = "search" THEN "lexical" ELSE "enter"]
<1>2. s \in Shape
  BY Constants
<1>3. job[r] \in Job /\ Local(job[r]) /\ job[r].pc = "new" /\ ~job[r].claimed
  BY JobFacts DEF Begin, At
<1>4. j \in Job /\ ~j.claimed /\ ~Resolving(j)
  BY <1>2, <1>3 DEF Job, Shape, Labels, Resolving
<1>5. Local(j)
  BY <1>2, <1>3, EmptyIsBounded, Constants DEF Local, Governed, Job, Shape
<1> HIDE DEF j
<1> QED BY <1>1, <1>3, <1>4, <1>5, PlainStep DEF Begin, j

LEMMA LexicalStep ==
  ASSUME IInv, NEW r \in Requests, Lexical(r) PROVE IInv'
<1>1. job[r] \in Job /\ Local(job[r]) /\ job[r].pc = "lexical" /\ ~job[r].claimed
  BY JobFacts DEF Lexical, At
<1>2. PICK S \in SUBSET WithChunks : Set(r, [job[r] EXCEPT !.pc = "vector", !.found = S])
  BY DEF Lexical
<1>3. S \in SUBSET Ids
  BY CatalogueShape DEF WithChunks, IInv, CatalogueInv
<1> DEFINE j == [job[r] EXCEPT !.pc = "vector", !.found = S]
<1>4. j \in Job /\ ~j.claimed /\ ~Resolving(j)
  BY <1>1, <1>3 DEF Job, Labels, Resolving
<1>5. Local(j)
  BY <1>1, EmptyIsBounded, Constants DEF Local, Governed, Job
<1>6. Set(r, j) /\ reading
  BY <1>2 DEF Lexical
<1> HIDE DEF j
<1> QED BY <1>1, <1>4, <1>5, <1>6, PlainStep

LEMMA VectorStep ==
  ASSUME IInv, NEW r \in Requests, Vector(r) PROVE IInv'
<1>1. job[r] \in Job /\ Local(job[r]) /\ job[r].pc = "vector" /\ ~job[r].claimed
  BY JobFacts DEF Vector, At
<1>2. PICK S \in SUBSET WithChunks :
        Set(r, [job[r] EXCEPT !.found = @ \cup S, !.calls = @ + 1,
                              !.pc = IF job[r].kind = "search" THEN "enter" ELSE "modes"])
  BY DEF Vector
<1>3. S \in SUBSET Ids
  BY CatalogueShape DEF WithChunks, IInv, CatalogueInv
<1> DEFINE j == [job[r] EXCEPT !.found = @ \cup S, !.calls = @ + 1,
                               !.pc = IF job[r].kind = "search" THEN "enter" ELSE "modes"]
<1>7. job[r].found \cup S \in SUBSET Ids /\ job[r].calls + 1 \in Nat
  BY <1>1, <1>3 DEF Job
<1>8. j \in Job
  BY <1>1, <1>7 DEF Job, Labels
<1>4. j \in Job /\ ~j.claimed /\ ~Resolving(j)
  BY <1>1, <1>8 DEF Job, Resolving
<1>5. Local(j)
  BY <1>1, EmptyIsBounded, Constants DEF Local, Governed, Job
<1>6. Set(r, j) /\ reading
  BY <1>2 DEF Vector
<1> HIDE DEF j
<1> QED BY <1>1, <1>4, <1>5, <1>6, PlainStep

LEMMA KeepContentStep ==
  ASSUME IInv, NEW r \in Requests, KeepContent(r) PROVE IInv'
<1>1. job[r] \in Job /\ Local(job[r]) /\ job[r].pc = "modes" /\ ~job[r].claimed
  BY JobFacts DEF KeepContent, At
<1> DEFINE j == [job[r] EXCEPT !.pc = job[r].back,
                               !.found = {i \in @ : i \in DOMAIN docs => docs[i].mode = "content"}]
<1>4. j \in Job /\ ~j.claimed /\ ~Resolving(j)
  BY <1>1 DEF Job, Labels, Resolving, Local
<1>5. Local(j)
  BY <1>1, EmptyIsBounded, Constants DEF Local, Governed, Job
<1>6. Set(r, j) /\ reading
  BY DEF KeepContent
<1> HIDE DEF j
<1> QED BY <1>1, <1>4, <1>5, <1>6, PlainStep

LEMMA SearchScopedStep ==
  ASSUME IInv, NEW r \in Requests, SearchScoped(r) PROVE IInv'
<1>1. job[r] \in Job /\ Local(job[r]) /\ job[r].pc = "scoped" /\ ~job[r].claimed
  BY JobFacts DEF SearchScoped, At
<1>2. PICK S \in SUBSET {i \in WithChunks : docs[i].inside} :
        \E ids \in First(S, Primary) : Set(r, Drill([job[r] EXCEPT !.ids = ids], ids, "decide"))
  BY DEF SearchScoped
<1>8. PICK ids \in First(S, Primary) : Set(r, Drill([job[r] EXCEPT !.ids = ids], ids, "decide"))
  BY <1>2
<1>3. S \in SUBSET Ids
  BY CatalogueShape DEF WithChunks, IInv, CatalogueInv
<1>7. ids \in SUBSET Ids /\ Cardinality(ids) <= Primary
  BY <1>3, FirstIsBounded, Constants
<1> DEFINE j == Drill([job[r] EXCEPT !.ids = ids], ids, "decide")
<1>4. j \in Job /\ ~j.claimed /\ ~Resolving(j)
  BY <1>1, <1>7 DEF Job, Labels, Resolving, Drill
<1>5. Local(j)
  BY <1>1, <1>7, EmptyIsBounded, Constants DEF Local, Governed, Job, Drill
<1>6. Set(r, j) /\ reading
  BY <1>8 DEF SearchScoped
<1> HIDE DEF j
<1> QED BY <1>1, <1>4, <1>5, <1>6, PlainStep

LEMMA SeededStep ==
  ASSUME IInv, NEW r \in Requests, Seeded(r) PROVE IInv'
<1>1. job[r] \in Job /\ Local(job[r]) /\ job[r].pc = "seeded" /\ ~job[r].claimed
  BY JobFacts DEF Seeded, At
<1>2. PICK ids \in First(job[r].found, Primary) : Set(r, Drill([job[r] EXCEPT !.ids = ids], ids, "decide"))
  BY DEF Seeded
<1>7. ids \in SUBSET Ids /\ Cardinality(ids) <= Primary
  BY <1>1, FirstIsBounded, Constants DEF Job
<1> DEFINE j == Drill([job[r] EXCEPT !.ids = ids], ids, "decide")
<1>4. j \in Job /\ ~j.claimed /\ ~Resolving(j)
  BY <1>1, <1>7 DEF Job, Labels, Resolving, Drill
<1>5. Local(j)
  BY <1>1, <1>7, EmptyIsBounded, Constants DEF Local, Governed, Job, Drill
<1>6. Set(r, j) /\ reading
  BY <1>2 DEF Seeded
<1> HIDE DEF j
<1> QED BY <1>1, <1>4, <1>5, <1>6, PlainStep

LEMMA MetadataRowsStep ==
  ASSUME IInv, NEW r \in Requests, MetadataRows(r) PROVE IInv'
<1>1. job[r] \in Job /\ Local(job[r]) /\ job[r].pc = "metadata" /\ ~job[r].claimed
  BY JobFacts DEF MetadataRows, At
<1> DEFINE all == job[r].found \cup (job[r].ids \cap DOMAIN docs)
<1>2. PICK D \in First(all, Selected) : Set(r, Drill([job[r] EXCEPT !.found = all], D, "present"))
  BY DEF MetadataRows
<1>3. all \in SUBSET Ids
  BY <1>1 DEF Job
<1>7. D \in SUBSET Ids
  BY <1>3, FirstIsBounded, Constants
<1> HIDE DEF all
<1> DEFINE j == Drill([job[r] EXCEPT !.found = all], D, "present")
<1>4. j \in Job /\ ~j.claimed /\ ~Resolving(j)
  BY <1>1, <1>3, <1>7 DEF Job, Labels, Resolving, Drill
<1>5. Local(j)
  BY <1>1, EmptyIsBounded, Constants DEF Local, Governed, Job, Drill
<1>6. Set(r, j) /\ reading
  BY <1>2 DEF MetadataRows
<1> HIDE DEF j
<1> QED BY <1>1, <1>4, <1>5, <1>6, PlainStep

LEMMA DrillSearchStep ==
  ASSUME IInv, NEW r \in Requests, DrillSearch(r) PROVE IInv'
<1>1. job[r] \in Job /\ Local(job[r]) /\ job[r].pc = "hits" /\ ~job[r].claimed
  BY JobFacts DEF DrillSearch, At
<1>2. PICK H \in SUBSET {docs[i].chunk : i \in job[r].work \cap WithChunks} :
        Set(r, [job[r] EXCEPT !.pc = "rows", !.hits = H])
  BY DEF DrillSearch
<1>3. H \in SUBSET Chunks
  BY CatalogueShape DEF WithChunks, IInv, CatalogueInv, Doc
<1> DEFINE j == [job[r] EXCEPT !.pc = "rows", !.hits = H]
<1>4. j \in Job /\ ~j.claimed /\ ~Resolving(j)
  BY <1>1, <1>3 DEF Job, Labels, Resolving
<1>5. Local(j)
  BY <1>1, EmptyIsBounded, Constants DEF Local, Governed, Job
<1>6. Set(r, j) /\ reading
  BY <1>2 DEF DrillSearch
<1> HIDE DEF j
<1> QED BY <1>1, <1>4, <1>5, <1>6, PlainStep

LEMMA RouteStep ==
  ASSUME IInv, NEW r \in Requests, Route(r) PROVE IInv'
<1>1. job[r] \in Job /\ Local(job[r]) /\ job[r].pc = "route" /\ ~job[r].claimed
  BY JobFacts DEF Route, At
<1>2. PICK i \in job[r].todo :
        \E ids \in {job[r].ids, job[r].ids \cup {i}} : Set(r, [job[r] EXCEPT !.todo = @ \ {i}, !.ids = ids])
  BY <1>1 DEF Route, Job
<1>10. PICK ids \in {job[r].ids, job[r].ids \cup {i}} : Set(r, [job[r] EXCEPT !.todo = @ \ {i}, !.ids = ids])
  BY <1>2
<1> DEFINE j == [job[r] EXCEPT !.todo = @ \ {i}, !.ids = ids]
<1>3. /\ ids \in SUBSET Ids /\ ids \subseteq job[r].ids \cup job[r].todo
      /\ ids \cup (job[r].todo \ {i}) \subseteq job[r].ids \cup job[r].todo
      /\ job[r].ids \cup job[r].todo \in SUBSET Ids
  BY <1>1 DEF Job
<1>7. /\ Cardinality(ids) <= Cardinality(job[r].ids \cup job[r].todo)
      /\ Cardinality(ids \cup (job[r].todo \ {i})) <= Cardinality(job[r].ids \cup job[r].todo)
      /\ Cardinality(ids) \in Nat /\ Cardinality(ids \cup (job[r].todo \ {i})) \in Nat
      /\ Cardinality(job[r].ids \cup job[r].todo) \in Nat
  BY <1>3, FiniteIds, FS_Subset
<1>4. j \in Job /\ ~j.claimed /\ ~Resolving(j)
  BY <1>1, <1>3 DEF Job, Labels, Resolving
<1>8. j.ids = ids /\ j.todo = job[r].todo \ {i}
  BY <1>1 DEF Job
<1>9. j.kind = "ask" => job[r].kind = "ask" /\ job[r].new = {} /\ j.new = {}
  BY <1>1 DEF Job, Local, Governed
<1>5. Local(j)
  BY <1>1, <1>7, <1>8, <1>9, EmptyIsBounded, Constants DEF Local, Governed, Job
<1>6. Set(r, j) /\ reading
  BY <1>10 DEF Route
<1> HIDE DEF j
<1> QED BY <1>1, <1>4, <1>5, <1>6, PlainStep

LEMMA RoutedStep ==
  ASSUME IInv, NEW r \in Requests, Routed(r) PROVE IInv'
<1>1. job[r] \in Job /\ Local(job[r]) /\ job[r].pc = "route" /\ ~job[r].claimed
  BY JobFacts DEF Routed, At
<1>2. PICK best \in SUBSET job[r].ids :
        Set(r, IF best # {} THEN Drill([job[r] EXCEPT !.ids = best], best, "decide")
               ELSE IF Scope([job[r] EXCEPT !.ids = best]) = "inside"
                    THEN [job[r] EXCEPT !.ids = best, !.pc = "scoped"]
               ELSE [job[r] EXCEPT !.ids = best, !.pc = "lexical", !.back = "seeded"])
  BY DEF Routed, BestOf
<1> DEFINE k == [job[r] EXCEPT !.ids = best]
           j == IF best # {} THEN Drill(k, best, "decide")
                ELSE IF Scope(k) = "inside" THEN [k EXCEPT !.pc = "scoped"]
                ELSE [k EXCEPT !.pc = "lexical", !.back = "seeded"]
<1>3. job[r].ids \in SUBSET Ids /\ best \in SUBSET Ids
  BY <1>1 DEF Job
<1>7. Cardinality(best) <= Cardinality(job[r].ids)
      /\ Cardinality(best) \in Nat /\ Cardinality(job[r].ids) \in Nat
  BY <1>3, FiniteIds, FS_Subset
<1>8. k \in Job /\ ~k.claimed /\ k.ids = best /\ k.pc = "route"
  BY <1>1, <1>3 DEF Job
<1>9. Local(k)
  <2>1. k.todo = job[r].todo /\ k.new = job[r].new /\ k.kind = job[r].kind
        /\ k.policy = job[r].policy /\ k.calls = job[r].calls /\ k.back = job[r].back
    BY <1>1 DEF Job
  <2>2. k.todo = {}
    BY <2>1 DEF Routed
  <2>3. best \cup {} = best
    OBVIOUS
  <2> HIDE DEF k
  <2> QED BY <1>1, <1>3, <1>7, <1>8, <2>1, <2>2, <2>3, Constants DEF Local, Governed, Job
<1>6. Set(r, j) /\ reading
  BY <1>2 DEF Routed
<1> HIDE DEF k
<1>4. j \in Job /\ ~j.claimed /\ ~Resolving(j)
  BY ZenonT(40), <1>3, <1>8 DEF Job, Labels, Resolving, Drill
<1>5. Local(j)
  BY <1>8, <1>9 DEF Local, Governed, Job, Drill, Scope
<1> HIDE DEF j
<1> QED BY <1>1, <1>4, <1>5, <1>6, PlainStep

LEMMA DecideStep ==
  ASSUME IInv, NEW r \in Requests, Decide(r) PROVE IInv'
<1>1. job[r] \in Job /\ Local(job[r]) /\ job[r].pc = "decide" /\ ~job[r].claimed
  BY JobFacts DEF Decide, At
<1>2. PICK enough \in BOOLEAN :
        \/ Set(r, [job[r] EXCEPT !.enough = enough, !.pc = "expand"])
        \/ Set(r, [job[r] EXCEPT !.enough = enough, !.pc = "alternate", !.todo = job[r].ids])
  BY <1>1 DEF Decide, Sufficient, Job
<1>3. ASSUME Set(r, [job[r] EXCEPT !.enough = enough, !.pc = "expand"])
      PROVE  IInv'
  <2> DEFINE j == [job[r] EXCEPT !.enough = enough, !.pc = "expand"]
  <2>1. j \in Job /\ ~j.claimed /\ ~Resolving(j)
    BY <1>1 DEF Job, Labels, Resolving
  <2>2. Local(j)
    BY <1>1 DEF Local, Governed, Job
  <2>3. Set(r, j)
    BY <1>3
  <2> HIDE DEF j
  <2> QED BY <1>1, <2>1, <2>2, <2>3, PlainStep DEF Decide
<1>4. ASSUME Set(r, [job[r] EXCEPT !.enough = enough, !.pc = "alternate", !.todo = job[r].ids])
      PROVE  IInv'
  <2> DEFINE j == [job[r] EXCEPT !.enough = enough, !.pc = "alternate", !.todo = job[r].ids]
  <2>1. j \in Job /\ ~j.claimed /\ ~Resolving(j)
    BY <1>1 DEF Job, Labels, Resolving
  <2>2. Local(j)
    BY <1>1 DEF Local, Governed, Job
  <2>3. Set(r, j)
    BY <1>4
  <2> HIDE DEF j
  <2> QED BY <1>1, <2>1, <2>2, <2>3, PlainStep DEF Decide
<1> QED BY <1>2, <1>3, <1>4

LEMMA AlternateStep ==
  ASSUME IInv, NEW r \in Requests, Alternate(r) PROVE IInv'
<1>1. job[r] \in Job /\ Local(job[r]) /\ job[r].pc = "alternate" /\ ~job[r].claimed
  BY JobFacts DEF Alternate, At
<1>2. PICK i \in job[r].todo :
        \/ Finish(r, "failed", {})
        \/ Set(r, [job[r] EXCEPT !.todo = @ \ {i}])
        \/ Set(r, Drill([job[r] EXCEPT !.todo = @ \ {i}], {i}, "alternate"))
  BY DEF Alternate
<1>3. i \in Ids /\ job[r].todo \ {i} \in SUBSET Ids
  BY <1>1 DEF Job
<1>4. CASE Finish(r, "failed", {})
  BY <1>1, <1>4, FinishStep DEF Outcomes, Alternate
<1>5. ASSUME Set(r, [job[r] EXCEPT !.todo = @ \ {i}])
      PROVE  IInv'
  <2> DEFINE j == [job[r] EXCEPT !.todo = @ \ {i}]
  <2>1. j \in Job /\ ~j.claimed /\ ~Resolving(j)
    BY <1>1, <1>3 DEF Job, Labels, Resolving
  <2>2. Local(j)
    BY <1>1 DEF Local, Governed, Job
  <2>3. Set(r, j)
    BY <1>5
  <2> HIDE DEF j
  <2> QED BY <1>1, <2>1, <2>2, <2>3, PlainStep DEF Alternate
<1>6. ASSUME Set(r, Drill([job[r] EXCEPT !.todo = @ \ {i}], {i}, "alternate"))
      PROVE  IInv'
  <2> DEFINE j == Drill([job[r] EXCEPT !.todo = @ \ {i}], {i}, "alternate")
  <2>1. j \in Job /\ ~j.claimed /\ ~Resolving(j)
    BY ZenonT(40), <1>1, <1>3 DEF Job, Labels, Resolving, Drill
  <2>2. Local(j)
    BY <1>1 DEF Local, Governed, Job, Drill
  <2>3. Set(r, j)
    BY <1>6
  <2> HIDE DEF j
  <2> QED BY <1>1, <2>1, <2>2, <2>3, PlainStep DEF Alternate
<1> QED BY <1>2, <1>4, <1>5, <1>6

LEMMA AlternateEndsStep ==
  ASSUME IInv, NEW r \in Requests, AlternateEnds(r) PROVE IInv'
<1>1. job[r] \in Job /\ Local(job[r]) /\ job[r].pc = "alternate" /\ ~job[r].claimed
  BY JobFacts DEF AlternateEnds, At
<1>2. PICK enough \in BOOLEAN : Set(r, [job[r] EXCEPT !.pc = "expand", !.enough = enough, !.todo = {}])
  BY <1>1 DEF AlternateEnds, Sufficient
<1> DEFINE j == [job[r] EXCEPT !.pc = "expand", !.enough = enough, !.todo = {}]
<1>4. j \in Job /\ ~j.claimed /\ ~Resolving(j)
  BY <1>1 DEF Job, Labels, Resolving
<1>5. Local(j)
  BY <1>1 DEF Local, Governed, Job
<1> HIDE DEF j
<1> QED BY <1>1, <1>2, <1>4, <1>5, PlainStep DEF AlternateEnds, j

LEMMA ExpandStep ==
  ASSUME IInv, NEW r \in Requests, Expand(r) PROVE IInv'
<1>1. job[r] \in Job /\ Local(job[r]) /\ job[r].pc = "expand" /\ ~job[r].claimed
  BY JobFacts DEF Expand, At
<1>2. \/ Set(r, [job[r] EXCEPT !.pc = "context"])
      \/ job[r].policy # "strict" /\ job[r].calls = 0 /\ Set(r, [job[r] EXCEPT !.pc = "lexical", !.back = "newdocs"])
      \/ job[r].policy # "strict" /\ Set(r, [job[r] EXCEPT !.pc = "newdocs"])
  BY DEF Expand
<1>3. ASSUME Set(r, [job[r] EXCEPT !.pc = "context"])
      PROVE  IInv'
  <2> DEFINE j == [job[r] EXCEPT !.pc = "context"]
  <2>1. j \in Job /\ ~j.claimed /\ ~Resolving(j)
    BY <1>1 DEF Job, Labels, Resolving
  <2>2. Local(j)
    BY <1>1 DEF Local, Governed, Job
  <2>3. Set(r, j)
    BY <1>3
  <2> HIDE DEF j
  <2> QED BY <1>1, <2>1, <2>2, <2>3, PlainStep DEF Expand
<1>4. ASSUME job[r].policy # "strict", job[r].calls = 0,
             Set(r, [job[r] EXCEPT !.pc = "lexical", !.back = "newdocs"])
      PROVE  IInv'
  <2> DEFINE j == [job[r] EXCEPT !.pc = "lexical", !.back = "newdocs"]
  <2>1. j \in Job /\ ~j.claimed /\ ~Resolving(j)
    BY <1>1 DEF Job, Labels, Resolving
  <2>2. Local(j)
    BY <1>1, <1>4 DEF Local, Governed, Job
  <2>3. Set(r, j)
    BY <1>4
  <2> HIDE DEF j
  <2> QED BY <1>1, <2>1, <2>2, <2>3, PlainStep DEF Expand
<1>5. ASSUME job[r].policy # "strict",
             Set(r, [job[r] EXCEPT !.pc = "newdocs"])
      PROVE  IInv'
  <2> DEFINE j == [job[r] EXCEPT !.pc = "newdocs"]
  <2>1. j \in Job /\ ~j.claimed /\ ~Resolving(j)
    BY <1>1 DEF Job, Labels, Resolving
  <2>2. Local(j)
    BY <1>1, <1>5 DEF Local, Governed, Job
  <2>3. Set(r, j)
    BY <1>5
  <2> HIDE DEF j
  <2> QED BY <1>1, <2>1, <2>2, <2>3, PlainStep DEF Expand
<1> QED BY <1>2, <1>3, <1>4, <1>5

LEMMA NewDocumentsStep ==
  ASSUME IInv, NEW r \in Requests, NewDocuments(r) PROVE IInv'
<1>1. job[r] \in Job /\ Local(job[r]) /\ job[r].pc = "newdocs" /\ ~job[r].claimed
  BY JobFacts DEF NewDocuments, At
<1>2. CASE Set(r, [job[r] EXCEPT !.pc = "context"])
  <2> DEFINE j == [job[r] EXCEPT !.pc = "context"]
  <2>1. j \in Job /\ ~j.claimed /\ ~Resolving(j)
    BY <1>1 DEF Job, Labels, Resolving
  <2>2. Local(j)
    BY <1>1 DEF Local, Governed, Job
  <2> HIDE DEF j
  <2> QED BY <1>1, <1>2, <2>1, <2>2, PlainStep DEF NewDocuments, j
<1>3. ASSUME NEW new \in First(job[r].found \ job[r].ids, Extra),
             Set(r, Drill([job[r] EXCEPT !.new = new], new, "context"))
      PROVE  IInv'
  <2> DEFINE j == Drill([job[r] EXCEPT !.new = new], new, "context")
  <2>5. job[r].found \ job[r].ids \in SUBSET Ids
    BY <1>1 DEF Job
  <2>1. new \in SUBSET Ids /\ Cardinality(new) <= Extra /\ job[r].ids \cap new = {}
    BY <2>5, FirstIsBounded, Constants
  <2>2. j \in Job /\ ~j.claimed /\ ~Resolving(j)
    BY <1>1, <2>1 DEF Job, Labels, Resolving, Drill
  <2>3. Local(j)
    BY <1>1, <2>1 DEF Local, Governed, Job, Drill
  <2>4. Set(r, j)
    BY <1>3
  <2> HIDE DEF j
  <2> QED BY <1>1, <2>2, <2>3, <2>4, PlainStep DEF NewDocuments
<1> QED BY <1>2, <1>3 DEF NewDocuments

LEMMA BuildContextStep ==
  ASSUME IInv, NEW r \in Requests, BuildContext(r) PROVE IInv'
<1>1. job[r] \in Job /\ job[r].pc = "context" /\ ~job[r].claimed
  BY JobFacts DEF BuildContext, At
<1>2. CASE Finish(r, "refused", {})
  BY <1>1, <1>2, FinishStep DEF Outcomes, BuildContext
<1>3. ASSUME NEW D, Finish(r, "answered", {x \in job[r].rows : x.doc \in D \cap WithChunks}) PROVE IInv'
  <2>1. {x \in job[r].rows : x.doc \in D \cap WithChunks} \in SUBSET Passage
    BY <1>1 DEF Job
  <2> QED BY <1>1, <1>3, <2>1, FinishStep DEF Outcomes, BuildContext
<1> QED BY <1>2, <1>3 DEF BuildContext

LEMMA PassagesAreTyped ==
  ASSUME IInv, NEW work PROVE Passages(work) \in SUBSET Passage
BY CatalogueShape DEF Passages, Passage, WithChunks, IInv, CatalogueInv, Doc

LEMMA DrillRowsStep ==
  ASSUME IInv, NEW r \in Requests, DrillRows(r) PROVE IInv'
<1>1. job[r] \in Job /\ Local(job[r]) /\ job[r].pc = "rows" /\ ~job[r].claimed
  BY JobFacts DEF DrillRows, At
<1>2. \E rows \in SUBSET (job[r].rows \cup Passages(job[r].work)) :
        Set(r, [job[r] EXCEPT !.pc = job[r].back, !.work = {}, !.hits = {}, !.rows = rows])
  BY DEF DrillRows
<1>3. PICK rows \in SUBSET (job[r].rows \cup Passages(job[r].work)) :
        Set(r, [job[r] EXCEPT !.pc = job[r].back, !.work = {}, !.hits = {}, !.rows = rows])
  BY <1>2
<1>7. rows \in SUBSET Passage
  BY <1>1, PassagesAreTyped DEF Job
<1> DEFINE j == [job[r] EXCEPT !.pc = job[r].back, !.work = {}, !.hits = {}, !.rows = rows]
<1>4. j \in Job /\ ~j.claimed /\ ~Resolving(j)
  BY <1>1, <1>7 DEF Job, Labels, Resolving, Local
<1>5. Local(j)
  BY <1>1 DEF Local, Governed, Job
<1>6. Set(r, j) /\ reading
  BY <1>3 DEF DrillRows
<1> HIDE DEF j
<1> QED BY <1>1, <1>4, <1>5, <1>6, PlainStep

LEMMA DrillFailsStep ==
  ASSUME IInv, NEW r \in Requests, DrillFails(r) PROVE IInv'
BY JobFacts, FinishStep DEF DrillFails, At, Outcomes

LEMMA PresentStep ==
  ASSUME IInv, NEW r \in Requests, Present(r) PROVE IInv'
BY JobFacts, FinishStep DEF Present, At, Outcomes

---------------------------------------------------------------------------
\* Steps of a request that resolves its identity.

LEMMA AgreeIsEquivalence ==
  ASSUME NEW d, NEW e, NEW f
  PROVE  Agree(d, d) /\ (Agree(d, e) => Agree(e, d)) /\ (Agree(d, e) /\ Agree(e, f) => Agree(d, f))
BY DEF Agree

LEMMA CancelStep ==
  ASSUME IInv, NEW r \in Requests, Cancel(r) PROVE IInv'
<1> DEFINE j == [job[r] EXCEPT !.cancelled = TRUE]
<1>1. job[r] \in Job /\ Local(job[r])
  BY JobFacts
<1>2. /\ j \in Job /\ j.claimed = job[r].claimed /\ j.pc = job[r].pc /\ j.gen = job[r].gen
      /\ j.snap = job[r].snap /\ j.kind = job[r].kind /\ j.policy = job[r].policy
  BY <1>1 DEF Job
<1>3. Local(j)
  BY <1>1 DEF Local, Governed, Job
<1>4. Key(j) = Key(job[r]) /\ (Resolving(j) <=> Resolving(job[r]))
  BY <1>2 DEF Key, Scope, Limit, Resolving
<1>5. Set(r, j) /\ reading
  BY DEF Cancel
<1> HIDE DEF j
<1>6. JobInv' /\ job'[r] = j /\ \A q \in Requests : q # r => job'[q] = job[q]
  BY <1>2, <1>5, OneRequest DEF IInv
<1>7. \A q \in Requests :
        /\ job'[q].claimed = job[q].claimed /\ Key(job'[q]) = Key(job[q])
        /\ Resolving(job'[q]) <=> Resolving(job[q])
        /\ job'[q].gen = job[q].gen /\ job'[q].snap = job[q].snap
  BY <1>2, <1>4, <1>6
<1>8. LocalInv'
  BY <1>3, <1>6 DEF IInv, LocalInv
<1>9. CatalogueInv' /\ ResultsInv' /\ BuildingInv' /\ EntryInv'
  BY <1>5 DEF reading, catalog, cache, IInv, CatalogueInv, ResultsInv, BuildingInv, EntryInv
<1>10. GenInv' /\ CachedIsCurrent'
  BY <1>5, <1>7 DEF reading, catalog, cache, IInv, GenInv, CachedIsCurrent
<1>11. BuildingIsOwned'
  <2>1. {Key(job'[q]) : q \in {q \in Requests : job'[q].claimed}}
          = {Key(job[q]) : q \in {q \in Requests : job[q].claimed}}
    BY <1>7
  <2> QED BY ZenonT(40), <1>5, <1>7, <2>1 DEF reading, catalog, cache, IInv, BuildingIsOwned, Key
<1> QED BY <1>6, <1>8, <1>9, <1>10, <1>11 DEF IInv

\* The request gets its snapshot: it agrees with the catalogue, and so with
\* every other snapshot and entry of the present generation.
LEMMA IdentityEnterStep ==
  ASSUME IInv, NEW r \in Requests, IdentityEnter(r) PROVE IInv'
<1>1. PICK next \in {"wait", "resolve"} :
        Set(r, [job[r] EXCEPT !.pc = next, !.snap = docs, !.gen = revision])
  BY DEF IdentityEnter
<1> DEFINE j == [job[r] EXCEPT !.pc = next, !.snap = docs, !.gen = revision]
<1>2. job[r] \in Job /\ Local(job[r]) /\ job[r].pc = "enter" /\ ~job[r].claimed
  BY JobFacts DEF IdentityEnter, At
<1>3. docs \in Catalogues /\ revision \in 0 .. MaxWrites
  BY Constants DEF IInv, CatalogueInv
<1>4. j \in Job /\ ~j.claimed /\ j.snap = docs /\ j.gen = revision
  BY <1>2, <1>3 DEF Job, Labels
<1>5. Local(j)
  BY <1>2, EmptyIsBounded, Constants DEF Local, Governed, Job
<1>6. Set(r, j) /\ reading
  BY <1>1 DEF IdentityEnter
<1> HIDE DEF j
<1>7. JobInv' /\ job'[r] = j /\ \A q \in Requests : q # r => job'[q] = job[q]
  BY <1>4, <1>6, OneRequest DEF IInv
<1>8. LocalInv'
  BY <1>5, <1>7 DEF IInv, LocalInv
<1>9. CatalogueInv' /\ ResultsInv' /\ BuildingInv' /\ EntryInv'
  BY <1>6 DEF reading, catalog, cache, IInv, CatalogueInv, ResultsInv, BuildingInv, EntryInv
<1>10. docs' = docs /\ revision' = revision /\ results' = results /\ building' = building
  BY <1>6 DEF reading, catalog, cache
<1>11. GenInv'
  <2>1. \A q \in Requests : Resolving(job'[q]) =>
          /\ job'[q].gen <= revision
          /\ job'[q].gen = revision => Agree(job'[q].snap, docs)
    BY <1>3, <1>4, <1>7, AgreeIsEquivalence DEF IInv, GenInv
  <2>2. \A p, q \in Requests :
          Resolving(job'[p]) /\ Resolving(job'[q]) /\ job'[p].gen = job'[q].gen => Agree(job'[p].snap, job'[q].snap)
    <3> SUFFICES ASSUME NEW p \in Requests, NEW q \in Requests,
                        Resolving(job'[p]), Resolving(job'[q]), job'[p].gen = job'[q].gen
                 PROVE  Agree(job'[p].snap, job'[q].snap)
      OBVIOUS
    <3>1. CASE p # r /\ q # r
      BY <1>7, <3>1 DEF IInv, GenInv
    <3>2. CASE p = r \/ q = r
      BY <1>4, <1>7, <2>1, <3>2, AgreeIsEquivalence
    <3> QED BY <3>1, <3>2
  <2> QED BY <1>10, <2>1, <2>2 DEF IInv, GenInv
<1>12. CachedIsCurrent'
  <2> SUFFICES ASSUME NEW e \in results, NEW q \in Requests, Resolving(job'[q]), e.key.gen = job'[q].gen
               PROVE  e.ids = Resolve(job'[q].snap, e.key.scope, e.key.limit)
    BY <1>10 DEF IInv, CachedIsCurrent
  <2>1. CASE q = r
    BY <1>4, <1>7, <2>1 DEF IInv, CachedIsCurrent
  <2>2. CASE q # r
    BY <1>7, <2>2 DEF IInv, CachedIsCurrent
  <2> QED BY <2>1, <2>2
<1>13. BuildingIsOwned'
  <2>1. \A q \in Requests : /\ job'[q].claimed <=> job[q].claimed
                            /\ job'[q].claimed => job'[q] = job[q]
    BY <1>2, <1>4, <1>7
  <2>2. {Key(job'[q]) : q \in {q \in Requests : job'[q].claimed}}
          = {Key(job[q]) : q \in {q \in Requests : job[q].claimed}}
    BY <2>1
  <2> QED BY <1>10, <2>1, <2>2 DEF IInv, BuildingIsOwned, Key
<1> QED BY <1>7, <1>8, <1>9, <1>11, <1>12, <1>13 DEF IInv

\* A request that goes on with its snapshot, or drops it, disturbs neither the
\* generations nor the entries.
LEMMA SnapshotKept ==
  ASSUME IInv, NEW r \in Requests, NEW j \in Job, Set(r, j), UNCHANGED catalog, results' = results, Local(j),
         Resolving(j) => Resolving(job[r]) /\ j.gen = job[r].gen /\ j.snap = job[r].snap
  PROVE  /\ CatalogueInv' /\ ResultsInv' /\ JobInv' /\ LocalInv' /\ EntryInv' /\ GenInv' /\ CachedIsCurrent'
         /\ job'[r] = j /\ \A q \in Requests : q # r => job'[q] = job[q]
<1> USE DEF catalog
<1>1. JobInv' /\ job'[r] = j /\ \A q \in Requests : q # r => job'[q] = job[q]
  BY OneRequest DEF IInv
<1>2. \A q \in Requests : Resolving(job'[q]) =>
        Resolving(job[q]) /\ job'[q].gen = job[q].gen /\ job'[q].snap = job[q].snap
  BY <1>1
<1>3. LocalInv'
  BY <1>1 DEF IInv, LocalInv
<1>4. CatalogueInv' /\ ResultsInv' /\ EntryInv'
  BY DEF IInv, CatalogueInv, ResultsInv, EntryInv
<1>5. GenInv' /\ CachedIsCurrent'
  BY <1>2 DEF IInv, GenInv, CachedIsCurrent
<1> QED BY <1>1, <1>3, <1>4, <1>5

LEMMA KeyIsKey ==
  ASSUME NEW j \in Job
  PROVE  Key(j) \in Keys /\ Key(j).gen = j.gen /\ Key(j).scope = Scope(j) /\ Key(j).limit = Limit(j)
BY DEF Job, Key, Keys, Scope, Limit

LEMMA IdentityHitStep ==
  ASSUME IInv, NEW r \in Requests, IdentityHit(r) PROVE IInv'
<1>1. PICK e \in results : e.key = Key(job[r]) /\ Set(r, [job[r] EXCEPT !.pc = "leave", !.ids = e.ids])
  BY DEF IdentityHit
<1> DEFINE j == [job[r] EXCEPT !.pc = "leave", !.ids = e.ids]
<1>2. job[r] \in Job /\ Local(job[r]) /\ job[r].pc = "wait" /\ ~job[r].claimed
  BY JobFacts DEF IdentityHit, At
<1>3. e.ids \in SUBSET Ids /\ Cardinality(e.ids) <= Limit(job[r])
  BY <1>1, <1>2, KeyIsKey DEF IInv, ResultsInv, EntryInv
<1>4. j \in Job /\ ~j.claimed /\ j.gen = job[r].gen /\ j.snap = job[r].snap
  BY <1>2, <1>3 DEF Job, Labels
<1>5. Local(j)
  BY <1>2, <1>3 DEF Local, Governed, Job, Limit
<1>6. Set(r, j) /\ reading
  BY <1>1 DEF IdentityHit
<1>7. Resolving(job[r])
  BY <1>2 DEF Resolving
<1> HIDE DEF j
<1>8. /\ CatalogueInv' /\ ResultsInv' /\ JobInv' /\ LocalInv' /\ EntryInv' /\ GenInv' /\ CachedIsCurrent'
      /\ job'[r] = j /\ \A q \in Requests : q # r => job'[q] = job[q]
  BY <1>4, <1>5, <1>6, <1>7, SnapshotKept DEF reading, cache
<1>9. \A q \in Requests : /\ job'[q].claimed <=> job[q].claimed
                          /\ job'[q].claimed => job'[q] = job[q]
  BY <1>2, <1>4, <1>8
<1>10. {Key(job'[q]) : q \in {q \in Requests : job'[q].claimed}}
         = {Key(job[q]) : q \in {q \in Requests : job[q].claimed}}
  BY <1>9
<1>11. BuildingIsOwned' /\ BuildingInv'
  BY <1>6, <1>9, <1>10 DEF reading, cache, IInv, BuildingIsOwned, BuildingInv, Key
<1> QED BY <1>8, <1>11 DEF IInv

\* A miss: the key was not being built, so the request owns it alone.
LEMMA IdentityMissStep ==
  ASSUME IInv, NEW r \in Requests, IdentityMiss(r) PROVE IInv'
<1> DEFINE claimed == Cardinality(building) < MaxBuilding
           j == [job[r] EXCEPT !.pc = "resolve", !.claimed = claimed]
<1>1. job[r] \in Job /\ Local(job[r]) /\ job[r].pc = "wait" /\ ~job[r].claimed
  BY JobFacts DEF IdentityMiss, At
<1>2. /\ Set(r, j) /\ UNCHANGED catalog /\ results' = results
      /\ building' = IF claimed THEN building \cup {Key(job[r])} ELSE building
      /\ Key(job[r]) \notin building
  BY DEF IdentityMiss
<1>10. claimed \in BOOLEAN
  OBVIOUS
<1> HIDE DEF claimed
<1>3. /\ j \in Job /\ j.claimed = claimed /\ j.gen = job[r].gen /\ j.snap = job[r].snap
      /\ j.kind = job[r].kind /\ j.policy = job[r].policy
  BY <1>1, <1>10 DEF Job, Labels
<1>4. Local(j)
  BY <1>1 DEF Local, Governed, Job
<1>5. Resolving(job[r])
  BY <1>1 DEF Resolving
<1> HIDE DEF j
<1>6. /\ CatalogueInv' /\ ResultsInv' /\ JobInv' /\ LocalInv' /\ EntryInv' /\ GenInv' /\ CachedIsCurrent'
      /\ job'[r] = j /\ \A q \in Requests : q # r => job'[q] = job[q]
  BY <1>2, <1>3, <1>4, <1>5, SnapshotKept
<1>7. Key(j) = Key(job[r]) /\ Key(job[r]) \in Keys
  BY <1>1, <1>3, KeyIsKey DEF Key, Scope, Limit
<1>8. BuildingInv'
  <2>1. IsFiniteSet(building) /\ Cardinality(building) \in Nat /\ building \subseteq Keys
    BY FS_CardinalityType DEF IInv, BuildingInv
  <2>2. /\ IsFiniteSet(building \cup {Key(job[r])})
        /\ Cardinality(building \cup {Key(job[r])}) = Cardinality(building) + 1
    BY <1>2, <2>1, FS_AddElement
  <2>3. CASE claimed
    <3>1. Cardinality(building) < MaxBuilding
      BY <2>3 DEF claimed
    <3> QED BY <1>2, <1>7, <2>1, <2>2, <2>3, <3>1, Constants DEF BuildingInv
  <2>4. CASE ~claimed
    BY <1>2, <2>4 DEF IInv, BuildingInv
  <2> QED BY <2>3, <2>4
<1>9. BuildingIsOwned'
  <2>1. building' = {Key(job'[q]) : q \in {q \in Requests : job'[q].claimed}}
    <3>1. \A q \in Requests : q # r => (job'[q].claimed <=> job[q].claimed) /\ Key(job'[q]) = Key(job[q])
      BY <1>6
    <3>2. (job'[r].claimed <=> claimed) /\ Key(job'[r]) = Key(job[r])
      BY <1>3, <1>6, <1>7
    <3>3. building = {Key(job[q]) : q \in {q \in Requests : job[q].claimed}}
      BY DEF IInv, BuildingIsOwned
    <3>4. \A x \in building' : \E q \in Requests : job'[q].claimed /\ x = Key(job'[q])
      BY <1>1, <1>2, <3>1, <3>2, <3>3
    <3>5. \A q \in Requests : job'[q].claimed => Key(job'[q]) \in building'
      BY <1>1, <1>2, <3>1, <3>2, <3>3
    <3> QED BY <3>4, <3>5
  <2>2. \A p, q \in Requests :
          p # q /\ job'[p].claimed /\ job'[q].claimed => Key(job'[p]) # Key(job'[q])
    BY <1>2, <1>6, <1>7 DEF IInv, BuildingIsOwned
  <2> QED BY <2>1, <2>2 DEF BuildingIsOwned, Key
<1> QED BY <1>6, <1>8, <1>9 DEF IInv

\* The key is given back by the request that owned it.
LEMMA GivenBackStep ==
  ASSUME IInv, NEW r \in Requests, NEW j \in Job, Set(r, j), ~j.claimed,
         building' = GivenBack(job[r])
  PROVE  BuildingInv' /\ BuildingIsOwned'
<1>1. job'[r] = j /\ \A q \in Requests : q # r => job'[q] = job[q]
  BY OneRequest DEF IInv
<1>2. building' \subseteq building /\ BuildingInv'
  BY FS_Subset, FS_CardinalityType, Constants DEF GivenBack, IInv, BuildingInv
<1>3. building = {Key(job[q]) : q \in {q \in Requests : job[q].claimed}}
  BY DEF IInv, BuildingIsOwned
<1>4. \A q \in Requests : job'[q].claimed => q # r /\ job'[q] = job[q]
  BY <1>1
<1>5. \A p, q \in Requests : p # q /\ job'[p].claimed /\ job'[q].claimed => Key(job'[p]) # Key(job'[q])
  BY <1>4 DEF IInv, BuildingIsOwned
<1>6. \A x \in building' : \E q \in Requests : job'[q].claimed /\ x = Key(job'[q])
  BY <1>1, <1>3 DEF GivenBack
<1>7. \A q \in Requests : job'[q].claimed => Key(job'[q]) \in building'
  BY <1>3, <1>4 DEF GivenBack, IInv, BuildingIsOwned
<1>8. BuildingIsOwned'
  BY <1>5, <1>6, <1>7 DEF BuildingIsOwned, Key
<1> QED BY <1>2, <1>8

LEMMA IdentityLeaveStep ==
  ASSUME IInv, NEW r \in Requests, IdentityLeave(r) PROVE IInv'
<1> DEFINE k == [job[r] EXCEPT !.snap = NoDocs, !.gen = 0, !.claimed = FALSE]
           j == IF k.kind = "search" THEN [k EXCEPT !.pc = "metadata"]
                ELSE [k EXCEPT !.pc = "route", !.todo = k.ids, !.ids = {}]
<1>1. job[r] \in Job /\ Local(job[r]) /\ job[r].pc = "leave"
  BY JobFacts DEF IdentityLeave, At
<1>2. NoDocs \in Catalogues
  BY CatalogueShape DEF NoDocs
<1>3. k \in Job
  <2>1. 0 \in 0 .. MaxWrites
    BY Constants
  <2> QED BY <1>1, <1>2, <2>1 DEF Job
<1>4. j \in Job
  BY ZenonT(40), <1>3 DEF Job, Labels
<1>5. ~j.claimed /\ ~Resolving(j)
  BY <1>1 DEF Job, Resolving
<1>6. Local(j)
  <2>1. j.kind = job[r].kind /\ j.policy = job[r].policy /\ j.calls = job[r].calls /\ j.new = job[r].new
    BY <1>1 DEF Job
  <2>2. j.kind = "ask" => j.pc = "route" /\ j.ids = {} /\ j.todo = job[r].ids
    BY <1>1 DEF Job
  <2>3. j.pc \in {"route", "metadata"}
    BY <1>1 DEF Job
  <2>4. j.kind = "ask" => j.ids \cup j.todo = job[r].ids /\ j.ids \cap j.new = {}
    BY <2>2
  <2>5. j.kind = "ask" => Governed(job[r]) /\ job[r].new = {} /\ job[r].calls = 0
    BY <1>1, <2>1 DEF Local, Governed
  <2> HIDE DEF j, k
  <2>6. j.kind = "ask" => Cardinality(j.ids) <= Primary /\ Cardinality(j.ids \cup j.todo) <= Primary
    <3> SUFFICES ASSUME j.kind = "ask"
                 PROVE  Cardinality(j.ids) <= Primary /\ Cardinality(j.ids \cup j.todo) <= Primary
      OBVIOUS
    <3>1. Cardinality(job[r].ids) <= Primary
      BY <2>5 DEF Governed
    <3>2. j.ids = {}
      BY <2>2
    <3>3. j.ids \cup j.todo = job[r].ids
      BY <2>4
    <3>4. Cardinality(j.ids) <= Primary
      BY <3>2, EmptyIsBounded, Constants
    <3> QED BY <3>1, <3>3, <3>4
  <2>7. ASSUME j.kind = "ask" PROVE Governed(j)
    BY <2>1, <2>2, <2>4, <2>5, <2>6, <2>7 DEF Governed
  <2> QED BY <1>5, <2>3, <2>7 DEF Local
<1>7. Set(r, j) /\ building' = GivenBack(job[r]) /\ UNCHANGED catalog /\ results' = results
  BY DEF IdentityLeave
<1> HIDE DEF j, k
<1>8. BuildingInv' /\ BuildingIsOwned'
  BY <1>4, <1>5, <1>7, GivenBackStep
<1> QED BY <1>4, <1>5, <1>6, <1>7, <1>8, SnapshotKept DEF IInv

LEMMA InterruptedStep ==
  ASSUME IInv, NEW r \in Requests, Interrupted(r) PROVE IInv'
<1> DEFINE j == [NewJob EXCEPT !.pc = "done", !.kind = job[r].kind, !.outcome = "cancelled", !.sources = {}]
<1>1. job[r] \in Job
  BY JobFacts
<1>7. "cancelled" \in Outcomes /\ {} \in SUBSET Passage
  BY DEF Outcomes
<1>2. j \in Job
  BY ZenonT(40), <1>1, <1>7, NewJobIsJob DEF Job, Labels
<1>3. ~j.claimed /\ ~Resolving(j)
  BY DEF NewJob, Resolving
<1>4. Local(j)
  BY EmptyIsBounded, Constants DEF NewJob, Local, Governed
<1>5. Set(r, j) /\ building' = GivenBack(job[r]) /\ UNCHANGED catalog /\ results' = results
  BY DEF Interrupted, Finish
<1> HIDE DEF j
<1>6. BuildingInv' /\ BuildingIsOwned'
  BY <1>2, <1>3, <1>5, GivenBackStep
<1> QED BY <1>2, <1>3, <1>4, <1>5, <1>6, SnapshotKept DEF IInv

\* The bound of the cache holds when a result is put into it.
LEMMA PutKeepsBounds ==
  ASSUME ResultsInv, NEW e \in [key : Keys, ids : SUBSET Ids], NEW R \in Put(e)
  PROVE  R \subseteq {x \in results : x.key # e.key} \cup {e} /\ IsFiniteSet(R) /\ Cardinality(R) <= MaxEntries
<1> DEFINE others == {x \in results : x.key # e.key}
           all == others \cup {e}
<1>1. /\ IsFiniteSet(results) /\ Cardinality(results) \in Nat /\ Cardinality(results) <= MaxEntries
      /\ others \in SUBSET results /\ MaxEntries \in Nat
  BY FS_CardinalityType, Constants DEF ResultsInv
<1>2. IsFiniteSet(others) /\ Cardinality(others) \in Nat /\ Cardinality(others) <= MaxEntries
  BY <1>1, FS_Subset, FS_CardinalityType
<1>3. IsFiniteSet(all) /\ Cardinality(all) \in Nat /\ Cardinality(all) <= MaxEntries + 1
  <2> HIDE DEF others
  <2>1. /\ IsFiniteSet(all)
        /\ Cardinality(all) = IF e \in others THEN Cardinality(others) ELSE Cardinality(others) + 1
    BY <1>2, FS_AddElement
  <2> QED BY <1>1, <1>2, <2>1
<1>4. CASE Cardinality(all) > MaxEntries
  <2>1. PICK x \in all \ {e} : R = all \ {x}
    BY <1>4 DEF Put
  <2>2. IsFiniteSet(R) /\ Cardinality(R) = Cardinality(all) - 1
    BY <1>3, <2>1, FS_RemoveElement
  <2> QED BY <1>1, <1>3, <2>1, <2>2
<1>5. CASE ~ (Cardinality(all) > MaxEntries)
  <2>1. R = all
    BY <1>5 DEF Put
  <2> QED BY <1>1, <1>3, <1>5, <2>1
<1> QED BY <1>4, <1>5

\* The entry is what the request read; all that can find it read the same.
LEMMA IdentityResolveStep ==
  ASSUME IInv, NEW r \in Requests, IdentityResolve(r) PROVE IInv'
<1> DEFINE ids == Resolve(job[r].snap, Scope(job[r]), Limit(job[r]))
           e == [key |-> Key(job[r]), ids |-> ids]
           j == [job[r] EXCEPT !.pc = "leave", !.ids = ids]
<1>1. job[r] \in Job /\ Local(job[r]) /\ job[r].pc = "resolve"
  BY JobFacts DEF IdentityResolve, At
<1>2. Resolving(job[r]) /\ job[r].snap \in Catalogues /\ Limit(job[r]) \in Nat
  BY <1>1, Constants DEF Resolving, Job, Limit
<1>3. ids \in SUBSET Ids /\ Cardinality(ids) <= Limit(job[r])
  BY <1>2, ResolveIsBounded
<1>4. /\ Set(r, j) /\ UNCHANGED <<catalog, building>>
      /\ results' = results \/ results' \in Put(e)
  BY DEF IdentityResolve
<1> HIDE DEF ids
<1>5. /\ j \in Job /\ j.claimed = job[r].claimed /\ j.gen = job[r].gen /\ j.snap = job[r].snap
      /\ j.kind = job[r].kind /\ j.policy = job[r].policy
  BY <1>1, <1>3 DEF Job, Labels
<1>6. Local(j)
  BY <1>1, <1>3 DEF Local, Governed, Job, Limit
<1>7. e \in [key : Keys, ids : SUBSET Ids] /\ e.ids = ids
      /\ e.key = Key(job[r]) /\ e.key.gen = job[r].gen /\ e.key.scope = Scope(job[r]) /\ e.key.limit = Limit(job[r])
  BY <1>1, <1>3, KeyIsKey
<1> HIDE DEF j, e
<1>8. JobInv' /\ job'[r] = j /\ \A q \in Requests : q # r => job'[q] = job[q]
  BY <1>4, <1>5, OneRequest DEF IInv
<1>9. \A q \in Requests : /\ Resolving(job'[q]) => Resolving(job[q])
                          /\ job'[q].gen = job[q].gen /\ job'[q].snap = job[q].snap
                          /\ job'[q].claimed = job[q].claimed /\ Key(job'[q]) = Key(job[q])
  BY <1>2, <1>5, <1>8 DEF Key, Scope, Limit
<1>10. ResultsInv' /\ results' \subseteq results \cup {e}
  <2>1. CASE results' = results
    BY <2>1 DEF IInv, ResultsInv
  <2>2. CASE results' \in Put(e)
    <3>1. /\ results' \subseteq {x \in results : x.key # e.key} \cup {e}
          /\ IsFiniteSet(results') /\ Cardinality(results') <= MaxEntries
      BY <1>7, <2>2, PutKeepsBounds DEF IInv
    <3>2. results' \subseteq [key : Keys, ids : SUBSET Ids]
      BY <1>7, <3>1 DEF IInv, ResultsInv
    <3>3. \A x, y \in results' : x.key = y.key => x = y
      BY <3>1 DEF IInv, ResultsInv
    <3> QED BY <3>1, <3>2, <3>3 DEF ResultsInv
  <2> QED BY <1>4, <2>1, <2>2
<1>11. docs' = docs /\ revision' = revision /\ writes' = writes /\ building' = building
  BY <1>4 DEF catalog
<1>12. CatalogueInv' /\ BuildingInv'
  BY <1>11 DEF IInv, CatalogueInv, BuildingInv
<1>13. LocalInv'
  BY <1>6, <1>8 DEF IInv, LocalInv
<1>14. EntryInv'
  BY <1>3, <1>7, <1>10 DEF IInv, EntryInv
<1>15. GenInv'
  <2>1. \A x \in results' : x.key.gen <= revision
    BY <1>2, <1>7, <1>10 DEF IInv, GenInv
  <2> QED BY <1>9, <1>11, <2>1 DEF IInv, GenInv
<1>16. CachedIsCurrent'
  <2>1. \A x \in results' : x.key.gen = revision => x.ids = Resolve(docs, x.key.scope, x.key.limit)
    <3>1. e.key.gen = revision => Agree(job[r].snap, docs)
      BY <1>2, <1>7 DEF IInv, GenInv
    <3>2. e.key.gen = revision => e.ids = Resolve(docs, e.key.scope, e.key.limit)
      BY <1>7, <3>1, AgreeResolve DEF ids
    <3> QED BY <1>10, <3>2 DEF IInv, CachedIsCurrent
  <2>2. \A x \in results', q \in Requests :
          Resolving(job'[q]) /\ x.key.gen = job'[q].gen => x.ids = Resolve(job'[q].snap, x.key.scope, x.key.limit)
    <3> SUFFICES ASSUME NEW x \in results', NEW q \in Requests, Resolving(job'[q]), x.key.gen = job'[q].gen
                 PROVE  x.ids = Resolve(job'[q].snap, x.key.scope, x.key.limit)
      OBVIOUS
    <3>1. Resolving(job[q]) /\ job'[q].gen = job[q].gen /\ job'[q].snap = job[q].snap
      BY <1>9
    <3>2. CASE x \in results
      BY <3>1, <3>2 DEF IInv, CachedIsCurrent
    <3>3. CASE x = e
      <4>1. Agree(job[r].snap, job[q].snap)
        BY <1>2, <1>7, <3>1, <3>3 DEF IInv, GenInv
      <4> QED BY <1>7, <3>1, <3>3, <4>1, AgreeResolve DEF ids
    <3> QED BY <1>10, <3>2, <3>3
  <2> QED BY <1>11, <2>1, <2>2 DEF CachedIsCurrent
<1>17. BuildingIsOwned'
  <2>1. {Key(job'[q]) : q \in {q \in Requests : job'[q].claimed}}
          = {Key(job[q]) : q \in {q \in Requests : job[q].claimed}}
    BY <1>9
  <2> QED BY ZenonT(40), <1>9, <1>11, <2>1 DEF IInv, BuildingIsOwned, Key
<1> QED BY <1>8, <1>10, <1>12, <1>13, <1>14, <1>15, <1>16, <1>17 DEF IInv

---------------------------------------------------------------------------
\* A commit of the indexer: it changes what the resolution reads, or not, and
\* then the generation stays.

LEMMA WriteChangesTheGeneration ==
  ASSUME IInv, Write
  PROVE  docs' \in Catalogues /\ (revision' = revision + 1 \/ (revision' = revision /\ Agree(docs, docs')))
<1>1. DOMAIN docs \subseteq Ids /\ docs \in [DOMAIN docs -> Doc] /\ revision \in Nat
  BY CatalogueShape, Constants DEF IInv, CatalogueInv
<1>2. ASSUME NEW m \in Metas, NEW c \in Chunks \cup {0} PROVE Row(m, c) \in Doc
  BY Constants DEF Row, Doc, Meta
<1>3. CASE InsertDocument
  <2>1. PICK i \in Ids, m \in Metas, c \in Chunks \cup {0} :
          docs' = [k \in DOMAIN docs \cup {i} |-> IF k = i THEN Row(m, c) ELSE docs[k]]
    BY <1>3 DEF InsertDocument
  <2>2. DOMAIN docs' \subseteq Ids /\ docs' \in [DOMAIN docs' -> Doc]
    BY <1>1, <1>2, <2>1
  <2> QED BY <1>3, <2>2, CatalogueShape DEF InsertDocument
<1>4. CASE UpdateDocument
  <2>1. PICK i \in DOMAIN docs, m \in Metas, c \in Chunks \cup {0}, touched \in BOOLEAN :
          docs' = [docs EXCEPT ![i] = Row(m, c)] /\ revision' = Bump(docs[i], Row(m, c), touched)
    BY <1>4 DEF UpdateDocument
  <2>2. DOMAIN docs' \subseteq Ids /\ docs' \in [DOMAIN docs' -> Doc]
    BY <1>1, <1>2, <2>1
  <2>3. revision' = revision + 1 \/ (revision' = revision /\ Agree(docs, docs'))
    BY <1>1, <2>1 DEF Bump, Agree
  <2> QED BY <2>2, <2>3, CatalogueShape
<1>5. CASE DeleteDocument
  <2>1. PICK i \in DOMAIN docs : docs' = [k \in DOMAIN docs \ {i} |-> docs[k]]
    BY <1>5 DEF DeleteDocument, Without
  <2>2. DOMAIN docs' \subseteq Ids /\ docs' \in [DOMAIN docs' -> Doc]
    BY <1>1, <2>1
  <2> QED BY <1>5, <2>2, CatalogueShape DEF DeleteDocument
<1> QED BY <1>3, <1>4, <1>5 DEF Write

LEMMA WriteStep ==
  ASSUME IInv, Write PROVE IInv'
<1>1. docs' \in Catalogues /\ (revision' = revision + 1 \/ (revision' = revision /\ Agree(docs, docs')))
  BY WriteChangesTheGeneration
<1>2. writes < MaxWrites /\ writes' = writes + 1 /\ results' = results /\ building' = building /\ job' = job
  BY DEF Write
<1>3. CatalogueInv'
  BY <1>1, <1>2, Constants DEF IInv, CatalogueInv
<1>4. ResultsInv' /\ BuildingInv' /\ JobInv' /\ LocalInv' /\ EntryInv' /\ BuildingIsOwned'
  BY <1>2 DEF IInv, ResultsInv, BuildingInv, JobInv, LocalInv, EntryInv, BuildingIsOwned, Key
<1>5. /\ \A e \in results : e.key.gen \in Nat /\ e.key.gen <= revision
      /\ \A r \in Requests : Resolving(job[r]) => job[r].gen \in Nat /\ job[r].gen <= revision
      /\ revision \in Nat
  <2>1. revision \in Nat
    BY Constants DEF IInv, CatalogueInv
  <2>2. \A e \in results : e.key.gen \in Nat
    BY Constants DEF IInv, ResultsInv, Keys
  <2>3. \A r \in Requests : job[r].gen \in Nat
    BY Constants DEF IInv, JobInv, Job
  <2> QED BY <2>1, <2>2, <2>3 DEF IInv, GenInv
<1>6. CASE revision' = revision + 1
  <2>1. /\ \A e \in results : e.key.gen <= revision' /\ e.key.gen # revision'
        /\ \A r \in Requests : Resolving(job[r]) => job[r].gen <= revision' /\ job[r].gen # revision'
    BY <1>5, <1>6
  <2>2. GenInv' /\ CachedIsCurrent'
    BY <1>2, <2>1 DEF IInv, GenInv, CachedIsCurrent
  <2> QED BY <1>3, <1>4, <2>2 DEF IInv
<1>7. CASE revision' = revision /\ Agree(docs, docs')
  <2>1. GenInv'
    BY <1>2, <1>7, AgreeIsEquivalence DEF IInv, GenInv
  <2>2. CachedIsCurrent'
    BY <1>2, <1>7, AgreeResolve DEF IInv, CachedIsCurrent
  <2> QED BY <1>3, <1>4, <2>1, <2>2 DEF IInv
<1> QED BY <1>1, <1>6, <1>7

---------------------------------------------------------------------------
\* The theorems.

LEMMA Initially ==
  ASSUME Init PROVE IInv
<1> USE DEF Init
<1>1. CatalogueInv
  BY Constants DEF CatalogueInv
<1>2. ResultsInv /\ BuildingInv /\ EntryInv
  BY FS_EmptySet, Constants DEF ResultsInv, BuildingInv, EntryInv
<1>3. JobInv
  BY NewJobIsJob DEF JobInv
<1>4. \A r \in Requests : ~job[r].claimed /\ ~Resolving(job[r])
  BY DEF NewJob, Resolving
<1>5. LocalInv
  <2>1. /\ NewJob.pc = "new" /\ NewJob.kind = "ask" /\ ~NewJob.claimed /\ NewJob.policy = "default"
        /\ NewJob.ids = {} /\ NewJob.new = {} /\ NewJob.calls = 0
    BY DEF NewJob
  <2>2. Local(NewJob)
    BY <2>1, EmptyIsBounded, Constants DEF Local, Governed
  <2> QED BY <2>2 DEF LocalInv
<1>6. GenInv /\ CachedIsCurrent /\ BuildingIsOwned
  BY <1>4 DEF GenInv, CachedIsCurrent, BuildingIsOwned
<1> QED BY <1>1, <1>2, <1>3, <1>5, <1>6 DEF IInv

LEMMA StutterStep ==
  ASSUME IInv, UNCHANGED vars PROVE IInv'
BY DEF vars, IInv, CatalogueInv, ResultsInv, BuildingInv, JobInv, LocalInv, EntryInv, GenInv, CachedIsCurrent,
       BuildingIsOwned, Key

LEMMA StepKeepsInvariant ==
  ASSUME IInv, [Next]_vars PROVE IInv'
<1>1. ASSUME NEW r \in Requests, Identity(r) PROVE IInv'
  BY <1>1, IdentityEnterStep, IdentityHitStep, IdentityMissStep, IdentityResolveStep, IdentityLeaveStep DEF Identity
<1>2. ASSUME NEW r \in Requests, Question(r) PROVE IInv'
  BY <1>2, RouteStep, RoutedStep, SearchScopedStep, KeepContentStep, SeededStep, DecideStep, AlternateStep,
     AlternateEndsStep, ExpandStep, NewDocumentsStep, BuildContextStep DEF Question
<1>3. ASSUME NEW r \in Requests, Search(r) PROVE IInv'
  BY <1>3, LexicalStep, VectorStep, DrillSearchStep, DrillFailsStep, DrillRowsStep, MetadataRowsStep, PresentStep
     DEF Search
<1>4. ASSUME NEW r \in Requests, Step(r) \/ Cancel(r) PROVE IInv'
  BY <1>1, <1>2, <1>3, <1>4, BeginStep, InterruptedStep, CancelStep DEF Step
<1>5. CASE UNCHANGED vars
  BY <1>5, StutterStep
<1> QED BY <1>4, <1>5, WriteStep DEF Next, Done

\* IInv is an inductive invariant.
THEOREM InvariantHolds == Spec => []IInv
<1>1. Init => IInv
  BY Initially
<1>2. IInv /\ [Next]_vars => IInv'
  BY StepKeepsInvariant
<1> QED BY <1>1, <1>2, PTL DEF Spec

\* Every variable has its shape, the cache its bound and its unique keys, and
\* no more resolutions are in flight than MaxBuilding (identity_cache.py).
THEOREM TypeCorrect == Spec => []TypeOK
<1>1. IInv => TypeOK
  BY DEF IInv, CatalogueInv, ResultsInv, BuildingInv, JobInv, TypeOK
<1> QED BY <1>1, InvariantHolds, PTL

\* An entry that a request may take, or of the present generation, is what the
\* resolution itself would return: the cache is never a stale catalogue.
THEOREM CacheIsCurrent == Spec => []CachedIsCurrent
<1>1. IInv => CachedIsCurrent
  BY DEF IInv
<1> QED BY <1>1, InvariantHolds, PTL

\* A key in building has exactly one owner, which still resolves it: no order
\* of cancellations, hits and commits leaves the others waiting for nobody.
THEOREM SingleFlight == Spec => []BuildingIsOwned
<1>1. IInv => BuildingIsOwned
  BY DEF IInv
<1> QED BY <1>1, InvariantHolds, PTL

\* Whatever way a question is routed and expanded, it searches everything at
\* most once, never in a strict scope, and stays within its documents.
THEOREM RetrievalIsGoverned == Spec => []RetrievalIsBounded
<1>1. IInv => RetrievalIsBounded
  BY DEF IInv, LocalInv, Local, Governed, RetrievalIsBounded
<1> QED BY <1>1, InvariantHolds, PTL
===========================================================================
