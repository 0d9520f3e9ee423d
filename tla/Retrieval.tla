----------------------------- MODULE Retrieval -----------------------------
(***************************************************************************)
(* EKRSRetriever.retrieve, retrieval/retriever.py, with the fusion of      *)
(* rank_fusion.py and the two searches it gathers: Qdrant and, in a        *)
(* thread, the FTS database, which is read by two statements.  Meanwhile a *)
(* worker process re-ingests the document: the four writes Step5 orders,   *)
(* each a step here.                                                       *)
(*                                                                         *)
(* Chunk ids are made of the document and the position, so the chunks at   *)
(* one position of two versions share their id.  What a chunk says is      *)
(* reduced to the three things the retriever looks at.                     *)
(*                                                                         *)
(* A definition marked Faulty is a plausible mistake in the one below it,  *)
(* and no behaviour uses it.                                               *)
(***************************************************************************)
EXTENDS Naturals, Sequences, FiniteSets, SequencesExt, FiniteSetsExt, Selection

CONSTANTS ChunkCount,  \* how many chunks the document has
          ScopeOf,     \* scope_path of each chunk
          HasQuery,    \* the chunks whose text contains the query
          WeightOf,    \* _scope_priority of each chunk, in percent
          Scopes,      \* active scopes a request may name
          NoScope,
          RrfK,        \* the k of reciprocal rank fusion
          TopK         \* top_k, the vector hits at most

ChunkIds == 1 .. ChunkCount

DocVersions == {1, 2}

Points == [id : ChunkIds, version : DocVersions]

ASSUME RetrievalAssumption ==
    /\ ChunkCount \in Nat
    /\ ScopeOf \in [Points -> Seq(STRING)]
    /\ HasQuery \subseteq Points
    /\ WeightOf \in [Points -> 0 .. 100]
    /\ NoScope \notin Scopes
    /\ RrfK \in Nat \ {0} /\ TopK \in Nat \ {0}

VARIABLES
    qdrant,     \* the points stored
    rows,       \* the FTS rows, in rowid order
    writer,     \* how far the re-ingest is (see WriterStages)
    bothKept,   \* history: the cleanup of the old version failed
    request,    \* [scope, fts] of the retrieval under way
    vectorHits, \* its Qdrant hits, best first
    ftsIds,     \* the ids its first FTS statement matched
    ftsHits,    \* the rows its second one returned
    got,        \* which of the three reads it has made
    phase,      \* of the two searches: "idle", "running", "answered"
    overlapped, \* history: it ran in the middle of the re-ingest
    answer      \* the chunks returned, best first

retrievalVars == <<qdrant, rows, writer, bothKept, request, vectorHits, ftsIds,
                   ftsHits, got, phase, overlapped, answer>>

WriterStages == {"before", "upserted", "cleaned", "wiped", "after"}

(* A hit from Qdrant carries the chunk; replace_doc stores only the ids in *)
(* payload_json, so a chunk built from an FTS row is blank.                *)
Hits == [id : ChunkIds, version : DocVersions, blank : BOOLEAN]

Reads == {"vector", "ids", "rows"}

AtVersion(v) == {p \in Points : p.version = v}

(* The rows of a version, in the order of their positions.                 *)
RowsOf(v) == [i \in ChunkIds |-> [id |-> i, version |-> v]]

RetrievalTypeOK ==
    /\ qdrant \subseteq Points
    /\ rows \in Seq(Points)
    /\ writer \in WriterStages
    /\ bothKept \in BOOLEAN /\ overlapped \in BOOLEAN
    /\ request \in [scope : Scopes \cup {NoScope}, fts : BOOLEAN]
    /\ vectorHits \in Seq(Hits) /\ ftsHits \in Seq(Hits)
    /\ ftsIds \subseteq ChunkIds
    /\ got \subseteq Reads
    /\ phase \in {"idle", "running", "answered"}
    /\ answer \in Seq(Hits)

RetrievalInit ==
    /\ qdrant = AtVersion(1)
    /\ rows = RowsOf(1)
    /\ writer = "before"
    /\ bothKept = FALSE
    /\ request = [scope |-> NoScope, fts |-> FALSE]
    /\ vectorHits = <<>> /\ ftsIds = {} /\ ftsHits = <<>> /\ got = {}
    /\ phase = "idle"
    /\ overlapped = FALSE
    /\ answer = <<>>
-----------------------------------------------------------------------------
(* The re-ingest                                                           *)

(* Bound: one retrieval is observed, what is written after it is of no use.*)
Stage(from, to) ==
    /\ phase # "answered"
    /\ writer = from /\ writer' = to
    /\ overlapped' = (overlapped \/ phase = "running")
    /\ UNCHANGED <<request, vectorHits, ftsIds, ftsHits, got, phase, answer>>

(* upsert_chunks: the point ids contain the version, nothing is replaced.  *)
UpsertNew ==
    /\ Stage("before", "upserted")
    /\ qdrant' = qdrant \cup AtVersion(2)
    /\ UNCHANGED <<rows, bothKept>>

(* Faulty: deletes the version just written.                               *)
CleanOld_Wrong ==
    /\ Stage("upserted", "cleaned")
    /\ qdrant' = {p \in qdrant : p.id # 1 \/ p.version = 1}
    /\ UNCHANGED <<rows, bothKept>>

(* delete_old_versions, whose failure is only logged.                      *)
CleanOld ==
    /\ Stage("upserted", "cleaned")
    /\ \/ qdrant' = AtVersion(2) /\ UNCHANGED bothKept
       \/ bothKept' = TRUE /\ UNCHANGED qdrant
    /\ UNCHANGED rows

(* replace_doc: delete_by_doc commits by itself, then the new rows.        *)
WipeRows ==
    /\ Stage("cleaned", "wiped")
    /\ rows' = <<>>
    /\ UNCHANGED <<qdrant, bothKept>>

(* A second worker may have inserted the rows as well (see Step5).         *)
InsertRows ==
    /\ Stage("wiped", "after")
    /\ rows' \in {RowsOf(2), RowsOf(2) \o RowsOf(2)}
    /\ UNCHANGED <<qdrant, bothKept>>

Write == UpsertNew \/ CleanOld \/ WipeRows \/ InsertRows
-----------------------------------------------------------------------------
(* The two searches                                                        *)

Search(scope, fts) ==
    /\ phase = "idle"
    /\ phase' = "running"
    /\ request' = [scope |-> scope, fts |-> fts]
    /\ overlapped' = (writer \notin {"before", "after"})
    /\ UNCHANGED <<qdrant, rows, writer, bothKept, vectorHits, ftsIds, ftsHits,
                   got, answer>>

Read(what, before) ==
    /\ phase = "running" /\ before \subseteq got /\ what \notin got
    /\ got' = got \cup {what}
    /\ UNCHANGED <<qdrant, rows, writer, bothKept, request, phase, overlapped, answer>>

(* Qdrant ranks as it likes; in dummy mode, and when it fails while FTS is *)
(* configured, there are no hits.  Without FTS its failure is the caller's.*)
VectorSearch ==
    /\ Read("vector", {})
    /\ \E stored \in UNION {[1 .. n -> qdrant] : n \in 0 .. TopK} :
          /\ IsInjective(stored)
          /\ vectorHits' = [k \in DOMAIN stored |->
                 [id |-> stored[k].id, version |-> stored[k].version, blank |-> FALSE]]
    /\ UNCHANGED <<ftsIds, ftsHits>>

(* FTSManager.search: the ids of the rows that match.                      *)
FtsMatch ==
    /\ request.fts /\ Read("ids", {})
    /\ ftsIds' \in SUBSET {rows[k].id : k \in DOMAIN rows}
    /\ UNCHANGED <<vectorHits, ftsHits>>

(* The second statement of search_with_payload selects by id, without the  *)
(* ORDER BY of the first: in rowid order, every row of a matched id.       *)
FtsPayload ==
    LET found == Selected(rows, {p \in Points : p.id \in ftsIds}) IN
    /\ Read("rows", {"ids"})
    /\ ftsHits' = [k \in DOMAIN found |->
           [id |-> found[k].id, version |-> found[k].version, blank |-> TRUE]]
    /\ UNCHANGED <<vectorHits, ftsIds>>
-----------------------------------------------------------------------------
(* From the hits to the answer                                             *)

(* The items of s at the positions ks.                                     *)
Pick(s, ks) ==
    LET at == Selected([i \in DOMAIN s |-> i], ks) IN [k \in DOMAIN at |-> s[at[k]]]

(* Faulty: FTS first.                                                      *)
Unioned_FtsFirst(vec, fts) ==
    LET s == fts \o vec IN Pick(s, {k \in DOMAIN s : \A j \in 1 .. k - 1 : s[j].id # s[k].id})

(* The union by _chunk_key: vector hits first, the first of an id stays.   *)
Unioned(vec, fts) ==
    LET s == vec \o fts IN Pick(s, {k \in DOMAIN s : \A j \in 1 .. k - 1 : s[j].id # s[k].id})

RanksOf(id, s) == {k \in DOMAIN s : s[k].id = id}

(* A common multiple of the denominators k + rank.                         *)
Scale == LET product[n \in 0 .. 2 * ChunkCount] ==
                 IF n = 0 THEN 1 ELSE (RrfK + n) * product[n - 1]
         IN product[2 * ChunkCount]

(* 1 / (k + rank) for the best rank of the id in the list.                 *)
ListScore(id, s) ==
    IF RanksOf(id, s) = {} THEN 0 ELSE Scale \div (RrfK + Min(RanksOf(id, s)))

(* Best score first; of equal scores, the earlier item first: item i comes *)
(* at place k if k - 1 items come before it.                               *)
Better(score, i) ==
    {j \in DOMAIN score : score[j] > score[i] \/ (score[j] = score[i] /\ j < i)}

SortByScore(s, score) ==
    LET order == [k \in DOMAIN s |->
                     CHOOSE i \in DOMAIN s : Cardinality(Better(score, i)) = k - 1]
    IN [item |-> [k \in DOMAIN s |-> s[order[k]]],
        score |-> [k \in DOMAIN s |-> score[order[k]]]]

(* reciprocal_rank_fusion of the two lists.                                *)
Fused(vec, fts) ==
    LET union == Unioned(vec, fts)
    IN SortByScore(union, [k \in DOMAIN union |->
           ListScore(union[k].id, vec) + ListScore(union[k].id, fts)])

AsPoint(hit) == [id |-> hit.id, version |-> hit.version]

(* _is_exact_match: a blank text contains no query.                        *)
IsExact(hit) == ~hit.blank /\ AsPoint(hit) \in HasQuery

(* Fused, or the exact matches with score 1.0; without FTS, Qdrant's own   *)
(* scores, which decrease.                                                 *)
Candidates ==
    LET union == Unioned(vectorHits, ftsHits)
        exact == Selected(union, {hit \in Hits : IsExact(hit)})
    IN IF ~request.fts
       THEN [item |-> vectorHits, score |-> [k \in DOMAIN vectorHits |-> Scale \div k]]
       ELSE IF exact # <<>>
            THEN [item |-> exact, score |-> [k \in DOMAIN exact |-> Scale]]
            ELSE Fused(vectorHits, ftsHits)

(* _scope_matches, and a chunk without a scope is never in one.            *)
InScope(hit) ==
    \/ request.scope = NoScope
    \/ ~hit.blank /\ ScopeOf[AsPoint(hit)] # <<>> /\ IsPrefix(request.scope, ScopeOf[AsPoint(hit)])

ScopeWeight(hit) == IF hit.blank THEN 0 ELSE WeightOf[AsPoint(hit)]

(* The scope filter and _rank_by_scope: score * (1 + priority).            *)
Ranked(c) ==
    LET kept == {k \in DOMAIN c.item : InScope(c.item[k])}
        items == Pick(c.item, kept)
        scores == Pick(c.score, kept)
    IN SortByScore(items, [k \in DOMAIN items |-> scores[k] * (100 + ScopeWeight(items[k]))]).item

(* gather has both results.                                                *)
Answer ==
    /\ phase = "running"
    /\ got = IF request.fts THEN Reads ELSE {"vector"}
    /\ phase' = "answered"
    /\ answer' = Ranked(Candidates)
    /\ UNCHANGED <<qdrant, rows, writer, bothKept, request, vectorHits, ftsIds,
                   ftsHits, got, overlapped>>

RetrievalNext ==
    \/ Write
    \/ \E scope \in Scopes \cup {NoScope}, fts \in BOOLEAN : Search(scope, fts)
    \/ VectorSearch \/ FtsMatch \/ FtsPayload \/ Answer

RetrievalSpec == RetrievalInit /\ [][RetrievalNext]_retrievalVars
-----------------------------------------------------------------------------
(***************************************************************************)
(* Correctness                                                             *)
(***************************************************************************)

(* A blank chunk, one known from FTS alone, never takes the place of one   *)
(* that Qdrant has, and never gets into an answer for a scope.             *)
BlankOnlyWhenUnknown ==
    phase = "answered" =>
        \A i \in DOMAIN answer : answer[i].blank =>
            /\ RanksOf(answer[i].id, vectorHits) = {}
            /\ request.scope = NoScope

(* A retrieval that no write of a re-ingest overlaps, before or after it,  *)
(* returns chunks of one version, unless the cleanup had failed.           *)
QuietAnswerHasOneVersion ==
    phase = "answered" /\ ~overlapped /\ ~bothKept =>
        \A i, j \in DOMAIN answer : answer[i].version = answer[j].version
=============================================================================
