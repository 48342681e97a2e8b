---------------------------- MODULE SearchRetrieval ----------------------------
(* Reading the catalogue while the indexer writes it: the document search of   *)
(* the HTTP server and the retrieval of a question, with the identity cache    *)
(* that both share.                                                            *)
(*                                                                             *)
(* A connection is outside a transaction, so every SELECT sees the commits     *)
(* before it; only the resolution of the identity, in its savepoint, reads one *)
(* snapshot. A label of a request is the next statement or the next critical   *)
(* section of its thread. All requests ask the same question, the case in      *)
(* which they meet in the cache; what its words match is in the documents      *)
(* (rank) or left open: which chunks a search finds, whether the evidence is   *)
(* enough, whether a time budget is spent, how documents rank.                 *)
EXTENDS Naturals, FiniteSets, TLC

CONSTANTS
    Requests,      \* the requests, each served once
    Shapes,        \* what each of them may ask: sets of Shape
    Start,         \* the catalogues at the beginning
    Metas,         \* what the indexer may make of a document
    MaxDocs,       \* bound: document ids
    MaxWrites,     \* bound: commits of the indexer
    Primary,       \* RAG_PRIMARY_DOCUMENTS and RAG_FAST_IDENTITY_MAX_DOCUMENTS
    Extra,         \* RAG_EXPANSION_MAX_NEW_DOCUMENTS
    Selected,      \* documents presented with passages, or put in the prompt
    IdentityLimit, \* METADATA_IDENTITY_CANDIDATES
    MaxEntries,    \* MAX_ENTRIES of the cache
    MaxBuilding    \* resolutions that claim their key at a time

VARIABLES docs, revision, writes, results, building, job

vars == <<docs, revision, writes, results, building, job>>
catalog == <<docs, revision, writes>>
cache == <<results, building>>

(* A document: how strongly its metadata names what the question names (0 not, *)
(* 1 in part, 2 with authority), whether it lies in the scope of the skill,    *)
(* how it was ingested, and its chunk (0: the extraction failed, none).        *)
Ids == 1 .. MaxDocs
Chunks == 1 .. MaxDocs + MaxWrites
Modes == {"content", "metadata"}
Doc == [rank : 0 .. 2, inside : BOOLEAN, mode : Modes, chunk : Chunks \cup {0}]
Meta == [rank : 0 .. 2, inside : BOOLEAN, mode : Modes]
Catalogues == UNION {[D -> Doc] : D \in SUBSET Ids}

Shape == [kind : {"search", "ask"}, policy : {"default", "prefer", "strict"}, depth : BOOLEAN]

ASSUME Bounds ==
    /\ {MaxDocs, MaxWrites, Primary, Extra, Selected, IdentityLimit, MaxEntries, MaxBuilding} \subseteq Nat \ {0}
    /\ Start \subseteq Catalogues /\ Metas \subseteq Meta
    /\ Shapes \in [Requests -> SUBSET Shape]

NoDocs == [i \in {} |-> 0]
NewJob == [pc |-> "new", kind |-> "ask", policy |-> "default", depth |-> FALSE, cancelled |-> FALSE,
           snap |-> NoDocs, gen |-> 0, claimed |-> FALSE, ids |-> {}, todo |-> {}, work |-> {},
           back |-> "none", hits |-> {}, rows |-> {}, found |-> {}, calls |-> 0, new |-> {},
           enough |-> FALSE, sources |-> {}, outcome |-> "none"]

Init ==
    /\ docs \in Start /\ revision = 0 /\ writes = 0
    /\ results = {} /\ building = {}
    /\ job = [r \in Requests |-> NewJob]

(* ---- the indexer: one committed transaction each ---- *)

(* Rowids of documents and chunks are given anew: one more than the greatest. *)
IsNext(n, S) == (\A k \in S : k < n) /\ (n > 1 => n - 1 \in S)
ChunksBut(i) == {docs[k].chunk : k \in DOMAIN docs \ {i}} \ {0}
Without(i) == [k \in DOMAIN docs \ {i} |-> docs[k]]

(* Faulty variant: a document that moves does not bump the revision. *)
BumpWithoutPath(old, new, touched) ==
    IF touched \/ old.rank # new.rank THEN revision + 1 ELSE revision

(* The triggers: an insert, a delete, or an update of a field that identity    *)
(* reads. The modification time is one of them; it seldom stays the same.      *)
Bump(old, new, touched) ==
    IF touched \/ old.rank # new.rank \/ old.inside # new.inside THEN revision + 1 ELSE revision

(* A document with a new chunk; a failed extraction leaves it without any. *)
Indexed(i, m, c) ==
    /\ c = 0 => m.mode = "metadata"
    /\ c # 0 => IsNext(c, ChunksBut(i))
Row(m, c) == [rank |-> m.rank, inside |-> m.inside, mode |-> m.mode, chunk |-> c]

InsertDocument ==
    \E i \in Ids, m \in Metas, c \in Chunks \cup {0} :
        /\ IsNext(i, DOMAIN docs) /\ Indexed(i, m, c)
        /\ docs' = [k \in DOMAIN docs \cup {i} |-> IF k = i THEN Row(m, c) ELSE docs[k]]
        /\ revision' = revision + 1

UpdateDocument ==
    \E i \in DOMAIN docs, m \in Metas, c \in Chunks \cup {0}, touched \in BOOLEAN :
        /\ Indexed(i, m, c)
        /\ docs' = [docs EXCEPT ![i] = Row(m, c)]
        /\ revision' = Bump(docs[i], Row(m, c), touched)

DeleteDocument ==
    \E i \in DOMAIN docs : docs' = Without(i) /\ revision' = revision + 1

Write ==
    /\ writes < MaxWrites /\ writes' = writes + 1
    /\ InsertDocument \/ UpdateDocument \/ DeleteDocument
    /\ UNCHANGED <<results, building, job>>

(* ---- requests ---- *)

At(r, label) == job[r].pc = label
Set(r, j) == job' = [job EXCEPT ![r] = j]
reading == UNCHANGED <<catalog, cache>>

(* What a finished request is remembered for. *)
Finish(r, outcome, sources) ==
    Set(r, [NewJob EXCEPT !.pc = "done", !.kind = job[r].kind, !.outcome = outcome, !.sources = sources])

(* The n documents a search names first, in any order of relevance. *)
First(S, n) == {T \in SUBSET S : Cardinality(T) = IF Cardinality(S) < n THEN Cardinality(S) ELSE n}
WithChunks == {i \in DOMAIN docs : docs[i].chunk # 0}
Scope(j) == IF j.policy = "default" THEN "all" ELSE "inside"

(* Handler.handle_search, or RetrievalCoordinator.retrieve: a search begins    *)
(* with its global search, a question with its identity.                       *)
Begin(r) ==
    /\ At(r, "new")
    /\ \E s \in Shapes[r] :
           Set(r, [job[r] EXCEPT !.kind = s.kind, !.policy = s.policy, !.depth = s.depth,
                                 !.pc = IF s.kind = "search" THEN "lexical" ELSE "enter"])
    /\ reading

(* ---- the identity and its cache ---- *)

Limit(j) == IF j.kind = "search" THEN IdentityLimit ELSE Primary
Key(j) == [gen |-> j.gen, scope |-> Scope(j), limit |-> Limit(j)]

(* The documents that the question names, the authoritative first, then the    *)
(* older: at most limit of them.                                               *)
Named(d, scope) == {i \in DOMAIN d : d[i].rank > 0 /\ (scope = "inside" => d[i].inside)}
Before(d, k, i) == d[k].rank > d[i].rank \/ (d[k].rank = d[i].rank /\ k < i)
Resolve(d, scope, limit) ==
    {i \in Named(d, scope) : Cardinality({k \in Named(d, scope) : Before(d, k, i)}) < limit}

(* Faulty variant: nothing is evicted. *)
PutUnbounded(e) == {{x \in results : x.key # e.key} \cup {e}}

(* A result replaces that of its key; beyond MaxEntries another one goes. (The *)
(* code evicts the least recently used; here it may be any.)                   *)
Put(e) ==
    LET all == {x \in results : x.key # e.key} \cup {e}
    IN  IF Cardinality(all) > MaxEntries THEN {all \ {x} : x \in all \ {e}} ELSE {all}

(* The savepoint opens the snapshot; generation and catalogue are of one time. *)
(* A catalogue without the table, or a key too long, resolves without a cache. *)
IdentityEnter(r) ==
    /\ At(r, "enter")
    /\ \E next \in {"wait", "resolve"} :
           Set(r, [job[r] EXCEPT !.pc = next, !.snap = docs, !.gen = revision])
    /\ reading

(* Under the condition: while another builds this key, wait; then a hit ends   *)
(* it, and a miss claims the key unless too many are being built.              *)
IdentityHit(r) ==
    /\ At(r, "wait") /\ Key(job[r]) \notin building
    /\ \E e \in results : e.key = Key(job[r]) /\ Set(r, [job[r] EXCEPT !.pc = "leave", !.ids = e.ids])
    /\ reading
IdentityMiss(r) ==
    LET claimed == Cardinality(building) < MaxBuilding IN
    /\ At(r, "wait") /\ Key(job[r]) \notin building
    /\ \A e \in results : e.key # Key(job[r])
    /\ building' = IF claimed THEN building \cup {Key(job[r])} ELSE building
    /\ Set(r, [job[r] EXCEPT !.pc = "resolve", !.claimed = claimed])
    /\ UNCHANGED <<catalog, results>>

(* resolve_identity_documents in the snapshot; publish does nothing without a claim. *)
IdentityResolve(r) ==
    LET j == job[r] ids == Resolve(j.snap, Scope(j), Limit(j)) IN
    /\ At(r, "resolve")
    /\ Set(r, [j EXCEPT !.pc = "leave", !.ids = ids])
    /\ IF j.claimed THEN results' \in Put([key |-> Key(j), ids |-> ids]) ELSE results' = results
    /\ UNCHANGED <<catalog, building>>

(* Faulty variant: the key is given back by those that did not claim it. *)
GivenBackOnHit(j) == IF ~j.claimed THEN building \ {Key(j)} ELSE building

(* The finally: give the key back, release the savepoint. *)
GivenBack(j) == IF j.claimed THEN building \ {Key(j)} ELSE building
IdentityLeave(r) ==
    LET j == [job[r] EXCEPT !.snap = NoDocs, !.gen = 0, !.claimed = FALSE] IN
    /\ At(r, "leave")
    /\ building' = GivenBack(job[r])
    /\ Set(r, IF j.kind = "search" THEN [j EXCEPT !.pc = "metadata"]
              ELSE [j EXCEPT !.pc = "route", !.todo = j.ids, !.ids = {}])
    /\ UNCHANGED <<catalog, results>>

(* RetrievalCoordinator._identity hydrates one document per statement: one     *)
(* that is gone is passed over, one named in part only is not kept.            *)
Route(r) ==
    /\ At(r, "route")
    /\ \E i \in job[r].todo :
           LET strong == i \in DOMAIN docs /\ docs[i].rank = 2 IN
           Set(r, [job[r] EXCEPT !.todo = @ \ {i}, !.ids = IF strong THEN @ \cup {i} ELSE @])
    /\ reading

(* ---- searching chunks ---- *)

(* retrieve_document_passages begins: without documents there is nothing to do. *)
Drill(j, work, back) == [j EXCEPT !.pc = IF work = {} THEN back ELSE "hits", !.work = work, !.back = back]

(* Of the documents that the question names exactly, those of the best         *)
(* priority are kept, at least one of them.                                    *)
BestOf(ids) == {best \in SUBSET ids : best = {} => ids = {}}

(* Routed documents are drilled; else the scope is searched, or everything is. *)
Routed(r) ==
    /\ At(r, "route") /\ job[r].todo = {}
    /\ \E best \in BestOf(job[r].ids) :
           LET j == [job[r] EXCEPT !.ids = best] IN
           Set(r, IF best # {} THEN Drill(j, best, "decide")
                  ELSE IF Scope(j) = "inside" THEN [j EXCEPT !.pc = "scoped"]
                  ELSE [j EXCEPT !.pc = "lexical", !.back = "seeded"])
    /\ reading

SearchScoped(r) ==
    /\ At(r, "scoped")
    /\ \E S \in SUBSET {i \in WithChunks : docs[i].inside} : \E ids \in First(S, Primary) :
           Set(r, Drill([job[r] EXCEPT !.ids = ids], ids, "decide"))
    /\ reading

(* The global search: a lexical and a vector statement, whose rows are merged. *)
Lexical(r) ==
    /\ At(r, "lexical")
    /\ \E S \in SUBSET WithChunks : Set(r, [job[r] EXCEPT !.pc = "vector", !.found = S])
    /\ reading
Vector(r) ==
    /\ At(r, "vector")
    /\ \E S \in SUBSET WithChunks :
           Set(r, [job[r] EXCEPT !.found = @ \cup S, !.calls = @ + 1,
                                 !.pc = IF job[r].kind = "search" THEN "enter" ELSE "modes"])
    /\ reading

(* retrieve_rag_candidates keeps what is content in a statement of its own; a  *)
(* document that is gone by then counts as content.                            *)
KeepContent(r) ==
    /\ At(r, "modes")
    /\ Set(r, [job[r] EXCEPT !.pc = job[r].back,
                             !.found = {i \in @ : i \in DOMAIN docs => docs[i].mode = "content"}])
    /\ reading

Seeded(r) ==
    /\ At(r, "seeded")
    /\ \E ids \in First(job[r].found, Primary) : Set(r, Drill([job[r] EXCEPT !.ids = ids], ids, "decide"))
    /\ reading

(* ---- the drill: first what matches, then the rows of every chunk ---- *)

(* The lexical and vector statements of all documents are one step: what they  *)
(* find may be partial, and no commit falls between them.                      *)

DrillSearch(r) ==
    /\ At(r, "hits")
    /\ \E H \in SUBSET {docs[i].chunk : i \in job[r].work \cap WithChunks} :
           Set(r, [job[r] EXCEPT !.pc = "rows", !.hits = H])
    /\ reading

Passage == [doc : Ids, chunk : Chunks, mode : Modes]
Passages(work) == {[doc |-> i, chunk |-> docs[i].chunk, mode |-> docs[i].mode] : i \in work \cap WithChunks}

(* A hit whose chunk has no row any more is a KeyError. *)
DrillFails(r) ==
    /\ At(r, "rows") /\ ~ (job[r].hits \subseteq {x.chunk : x \in Passages(job[r].work)})
    /\ Finish(r, "failed", {})
    /\ reading

(* Passages of a second query replace those of the same chunk when they score  *)
(* higher; all others are added.                                               *)
DrillRows(r) ==
    LET j == job[r]
        fresh == Passages(j.work)
        again == {x.chunk : x \in j.rows} \cap {x.chunk : x \in fresh}
    IN
    /\ At(r, "rows") /\ j.hits \subseteq {x.chunk : x \in fresh}
    /\ \E worse \in SUBSET again :
           LET kept == IF j.back = "alternate" THEN {x \in j.rows : x.chunk \notin worse} ELSE j.rows
               added == IF j.back = "alternate" THEN {x \in fresh : x.chunk \notin again \ worse} ELSE fresh
           IN  Set(r, [j EXCEPT !.pc = j.back, !.work = {}, !.hits = {}, !.rows = kept \cup added])
    /\ reading

(* ---- the question: governed expansion ---- *)

Sufficient(j) == IF j.rows = {} THEN {FALSE} ELSE BOOLEAN

(* Weak evidence, or a wish for more, asks each document again in other words, *)
(* while the primary budget lasts.                                             *)
Decide(r) ==
    /\ At(r, "decide")
    /\ \E enough \in Sufficient(job[r]) :
           LET j == [job[r] EXCEPT !.enough = enough] IN
           \/ Set(r, [j EXCEPT !.pc = "expand"])
           \/ (~enough \/ j.depth) /\ Set(r, [j EXCEPT !.pc = "alternate", !.todo = j.ids])
    /\ reading

(* The row is read again for its name: of a document that is gone it is None,  *)
(* and its fields are asked for all the same. Words that say nothing new skip. *)
Alternate(r) ==
    /\ At(r, "alternate")
    /\ \E i \in job[r].todo :
           LET j == [job[r] EXCEPT !.todo = @ \ {i}] IN
           IF i \notin DOMAIN docs THEN Finish(r, "failed", {})
           ELSE Set(r, j) \/ Set(r, Drill(j, {i}, "alternate"))
    /\ reading
AlternateEnds(r) ==
    /\ At(r, "alternate")
    /\ \E enough \in Sufficient(job[r]) :
           Set(r, [job[r] EXCEPT !.pc = "expand", !.enough = enough, !.todo = {}])
    /\ reading

(* Faulty variant: the expansion does not see that a seed exists. *)
ExpandSearchingAgain(r) ==
    LET j == job[r] IN
    /\ At(r, "expand")
    /\ \/ Set(r, [j EXCEPT !.pc = "context"])
       \/ /\ ~j.enough \/ j.depth
          /\ j.policy # "strict"
          /\ Set(r, [j EXCEPT !.pc = "lexical", !.back = "newdocs"])
    /\ reading

(* At most one global search: the seed of the discovery is used again. *)
Expand(r) ==
    LET j == job[r] IN
    /\ At(r, "expand")
    /\ \/ Set(r, [j EXCEPT !.pc = "context"])
       \/ /\ ~j.enough \/ j.depth
          /\ j.policy # "strict"
          /\ Set(r, IF j.calls = 0 THEN [j EXCEPT !.pc = "lexical", !.back = "newdocs"]
                    ELSE [j EXCEPT !.pc = "newdocs"])
    /\ reading
NewDocuments(r) ==
    /\ At(r, "newdocs")
    /\ \/ Set(r, [job[r] EXCEPT !.pc = "context"])
       \/ \E new \in First(job[r].found \ job[r].ids, Extra) :
              Set(r, Drill([job[r] EXCEPT !.new = new], new, "context"))
    /\ reading

(* build_context reads the seeds of the eligible documents again, and leaves   *)
(* out those that are gone; without a block, or when the evidence does not     *)
(* answer, the question is refused. An answer rests on the passages as drilled.*)
BuildContext(r) ==
    /\ At(r, "context")
    /\ \/ Finish(r, "refused", {})
       \/ \E D \in First({x.doc : x \in job[r].rows}, Selected) :
              /\ D \cap WithChunks # {}
              /\ Finish(r, "answered", {x \in job[r].rows : x.doc \in D \cap WithChunks})
    /\ reading

(* ---- the search: presentation ---- *)

(* Candidates by name are presented with their first chunk, or without any;    *)
(* the best documents are drilled.                                             *)
MetadataRows(r) ==
    LET all == job[r].found \cup (job[r].ids \cap DOMAIN docs) IN
    /\ At(r, "metadata")
    /\ \E D \in First(all, Selected) : Set(r, Drill([job[r] EXCEPT !.found = all], D, "present"))
    /\ reading

(* One representative of each document, and trace.check. *)
Present(r) ==
    /\ At(r, "present")
    /\ Finish(r, IF job[r].cancelled THEN "cancelled" ELSE "completed", {})
    /\ reading

(* POST /api/search/cancel; a question is not in the registry. *)
Cancel(r) ==
    /\ job[r].kind = "search" /\ job[r].pc \notin {"new", "done"} /\ ~job[r].cancelled
    /\ Set(r, [job[r] EXCEPT !.cancelled = TRUE])
    /\ reading

Interruptible == {"lexical", "vector", "wait", "resolve", "metadata", "hits", "rows"}

(* Faulty variant: a cancelled resolution keeps its key. *)
InterruptedKeepingKey(r) ==
    /\ job[r].cancelled /\ job[r].pc \in Interruptible
    /\ Finish(r, "cancelled", {})
    /\ reading

(* The progress handler interrupts a statement, or a check raises. *)
Interrupted(r) ==
    /\ job[r].cancelled /\ job[r].pc \in Interruptible
    /\ building' = GivenBack(job[r])
    /\ Finish(r, "cancelled", {})
    /\ UNCHANGED <<catalog, results>>

(* ---- specification ---- *)

Identity(r) == IdentityEnter(r) \/ IdentityHit(r) \/ IdentityMiss(r) \/ IdentityResolve(r) \/ IdentityLeave(r)
Question(r) ==
    \/ Route(r) \/ Routed(r) \/ SearchScoped(r) \/ KeepContent(r) \/ Seeded(r) \/ Decide(r) \/ Alternate(r)
    \/ AlternateEnds(r) \/ Expand(r) \/ NewDocuments(r) \/ BuildContext(r)
Search(r) ==
    Lexical(r) \/ Vector(r) \/ DrillSearch(r) \/ DrillFails(r) \/ DrillRows(r) \/ MetadataRows(r) \/ Present(r)
Step(r) == Begin(r) \/ Identity(r) \/ Question(r) \/ Search(r) \/ Interrupted(r)

Done == (\A r \in Requests : At(r, "done")) /\ UNCHANGED vars
Next == Write \/ (\E r \in Requests : Step(r) \/ Cancel(r)) \/ Done

Spec == Init /\ [][Next]_vars
FairSpec == Spec /\ \A r \in Requests : WF_vars(Step(r))

(* ---- properties ---- *)

Labels == {"new", "enter", "wait", "resolve", "leave", "route", "scoped", "lexical", "vector", "modes",
           "seeded", "hits", "rows", "decide", "alternate", "expand", "newdocs", "context", "metadata",
           "present", "done"}
Outcomes == {"none", "answered", "refused", "completed", "cancelled", "failed"}
Keys == [gen : 0 .. MaxWrites, scope : {"all", "inside"}, limit : {IdentityLimit, Primary}]
Job == [pc : Labels, kind : {"search", "ask"}, policy : {"default", "prefer", "strict"}, depth : BOOLEAN,
        cancelled : BOOLEAN, snap : Catalogues, gen : 0 .. MaxWrites, claimed : BOOLEAN, ids : SUBSET Ids,
        todo : SUBSET Ids, work : SUBSET Ids, back : Labels \cup {"none"}, hits : SUBSET Chunks,
        rows : SUBSET Passage, found : SUBSET Ids, calls : Nat, new : SUBSET Ids, enough : BOOLEAN,
        sources : SUBSET Passage, outcome : Outcomes]

(* Every variable has its shape; the cache keeps at most MaxEntries entries,   *)
(* one of a key, and at most MaxBuilding keys are being built.                 *)
TypeOK ==
    /\ docs \in Catalogues /\ revision \in 0 .. writes /\ writes \in 0 .. MaxWrites
    /\ results \subseteq [key : Keys, ids : SUBSET Ids] /\ building \subseteq Keys
    /\ job \in [Requests -> Job]
    /\ IsFiniteSet(results) /\ Cardinality(results) <= MaxEntries
    /\ \A d, e \in results : d.key = e.key => d = e
    /\ IsFiniteSet(building) /\ Cardinality(building) <= MaxBuilding

Resolving(j) == j.pc \in {"wait", "resolve", "leave"}

(* The cache is never a stale catalogue: whatever commits happen between the   *)
(* snapshot of the request that built an entry and its use, an entry of the    *)
(* present generation is what the present catalogue resolves to, and an entry  *)
(* of the generation a request read is what that request would resolve itself. *)
CachedIsCurrent ==
    /\ \A e \in results : e.key.gen = revision => e.ids = Resolve(docs, e.key.scope, e.key.limit)
    /\ \A e \in results, r \in Requests :
           Resolving(job[r]) /\ e.key.gen = job[r].gen => e.ids = Resolve(job[r].snap, e.key.scope, e.key.limit)

(* Single flight: a key that is being built belongs to exactly one request     *)
(* that still resolves it, in any order of cancellations, hits and commits. A  *)
(* key that nobody owns would keep every later request of it waiting.          *)
BuildingIsOwned ==
    /\ building = {Key(job[r]) : r \in {q \in Requests : job[q].claimed}}
    /\ \A r, q \in Requests : r # q /\ job[r].claimed /\ job[q].claimed => Key(job[r]) # Key(job[q])

(* The retrieval of a question is governed as a whole: one global search at    *)
(* most, whichever way it was routed and expanded, none in a strict scope; at  *)
(* most Primary documents and Extra new ones, none of them drilled as both.    *)
RetrievalIsBounded ==
    \A r \in Requests : LET j == job[r] IN
        j.kind = "ask" =>
            /\ j.calls <= 1 /\ (j.policy = "strict" => j.calls = 0 /\ j.new = {})
            /\ Cardinality(j.ids) <= Primary /\ Cardinality(j.new) <= Extra /\ j.ids \cap j.new = {}

(* Every request that has begun ends, also the one that waits for another's    *)
(* resolution while that one is cancelled or fails.                            *)
RequestsEnd == \A r \in Requests : ~At(r, "new") ~> At(r, "done")

(* docs/rag.md:5: RAG uses content-only evidence; a document of which only     *)
(* metadata is indexed never justifies an answer by itself. The drill of a     *)
(* routed or scoped document does not look at how it was ingested.             *)
EvidenceIsContent ==
    \A r \in Requests : job[r].outcome = "answered" => \E x \in job[r].sources : x.mode = "content"
=============================================================================
