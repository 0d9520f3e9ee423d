--------------------------- MODULE ConstraintQuery ---------------------------
(***************************************************************************)
(* POST /v1/constraints, api/routes/constraints.py: the three gates of     *)
(* evaluate_constraints around the retrieval, the evidence and the solver, *)
(* and the replay of an earlier solve, which is found in the audit log by  *)
(* its trace id.  A retrieval is awaited: other requests and re-ingests go *)
(* on between the start of a request and its end.                          *)
(*                                                                         *)
(* A chunk stands for the constraints its text yields (EvidenceBuilder);   *)
(* the order of the chunks is the ranking, which is that of the index as   *)
(* long as nothing is written.                                             *)
(***************************************************************************)
EXTENDS IntervalSolver

CONSTANTS Chunks,      \* what may be stored: [rank, scope, rules]
          Requests,    \* requests in flight
          Traces,      \* trace ids, which clients may use again
          QueryScopes, \* scope paths a query may name, None among them
          TopKs,       \* values of top_k
          MaxChanges,  \* bound on re-ingests
          MaxQueries   \* bound on queries

ASSUME QueryAssumption ==
    /\ IsFiniteSet(Chunks) /\ None \notin Seq(STRING)
    /\ \A c \in Chunks :
          /\ c.rank \in Nat /\ c.scope \in Seq(STRING) /\ c.rules \in Seq(ToSet(c.rules))
          /\ \A k \in DOMAIN c.rules :
                LET rule == c.rules[k] IN
                /\ rule.scope = c.scope /\ rule.level \in Nat /\ rule.conf \in Nat
                /\ rule.interval = None \/ rule.interval \in IntervalDicts
    /\ \A c, d \in Chunks : c.rank = d.rank => c = d
    /\ QueryScopes \subseteq Seq(STRING) \cup {None}
    /\ TopKs \subseteq Nat

VARIABLES
    stored,   \* the chunks in the index
    changes,  \* how often the index has changed
    log,      \* the audit events of this route
    asked,    \* what each request asks, None while it is free
    reply     \* what the last finished request was told

queryVars == <<stored, changes, log, asked, reply>>

Asks == [kind : {"query", "replay"}, trace : Traces, scope : QueryScopes, topK : TopKs]

QueryInit ==
    /\ stored = {}
    /\ changes = 0
    /\ log = <<>>
    /\ asked = [r \in Requests |-> None]
    /\ reply = [status |-> "none"]

QueryTypeOK ==
    /\ stored \subseteq Chunks
    /\ changes \in 0 .. MaxChanges
    /\ \A k \in DOMAIN log : log[k].event \in {"started", "solved", "failed"} /\ log[k].trace \in Traces
    /\ asked \in [Requests -> Asks \cup {None}]
    /\ reply.status \in {"none", "success", "replayed", "insufficient_recall",
                         "no_constraints_extracted", "conflict", "no_prior_solve",
                         "incomplete_prior_solve"}
-----------------------------------------------------------------------------
BetterThan(c, chunks) == {d \in chunks : d.rank < c.rank}

InOrder(chunks) ==
    [n \in 1 .. Cardinality(chunks) |-> CHOOSE c \in chunks : Cardinality(BetterThan(c, chunks)) = n - 1]

Best(index, topK) == {c \in index : Cardinality(BetterThan(c, index)) < topK}

(* _apply_scope_filter: a scope that begins with the query's, not an empty *)
(* one.                                                                    *)
PassesFilter(c, scope) == scope = None \/ (c.scope # <<>> /\ IsPrefix(scope, c.scope))

(* retrieve: the best top_k chunks, of which the filter keeps some.        *)
Retrieved(index, scope, topK) == InOrder({c \in Best(index, topK) : PassesFilter(c, scope)})

Evidence(chunks) == Deduplicated(FlattenSeq([k \in DOMAIN chunks |-> chunks[k].rules]))

BranchNames(result) == {cell[1] : cell \in DOMAIN result.ranges}

(* The gates of evaluate_constraints.  No constraint is ever inferred, so  *)
(* strict refuses none.  EMPTY, when no constraint applies, is a success.  *)
Verdict(chunks, evidence, result) ==
    IF chunks = <<>> THEN "insufficient_recall"
    ELSE IF evidence = <<>> THEN "no_constraints_extracted"
    ELSE IF result.status = "CONFLICT" THEN "conflict" ELSE "success"
-----------------------------------------------------------------------------
Finish(r, answer) == /\ asked' = [asked EXCEPT ![r] = None]
                     /\ reply' = answer

(* A query: the started event, then the retrieval is awaited.              *)
StartQuery(r) ==
    /\ asked[r] = None
    /\ Cardinality({k \in DOMAIN log : log[k].event = "started"}) < MaxQueries
    /\ \E a \in Asks :
          /\ a.kind = "query"
          /\ asked' = [asked EXCEPT ![r] = a]
          /\ log' = Append(log, [event |-> "started", trace |-> a.trace, scope |-> a.scope,
                                topK |-> a.topK, changes |-> changes])
    /\ UNCHANGED <<stored, changes, reply>>

FinishQuery(r) ==
    /\ asked[r] # None /\ asked[r].kind = "query"
    /\ LET a == asked[r] IN
       \E chunks \in {Retrieved(stored, a.scope, a.topK)} :
       \E evidence \in {Evidence(chunks)} : \E result \in {Solve(evidence, a.scope)} :
          LET status == Verdict(chunks, evidence, result) IN
          /\ Finish(r, [status |-> status, scope |-> a.scope, ranges |-> result.ranges,
                        index |-> stored, topK |-> a.topK])
          /\ log' = Append(log, IF status = "success"
                                THEN [event |-> "solved", trace |-> a.trace, changes |-> changes,
                                      branches |-> Cardinality(BranchNames(result))]
                                ELSE [event |-> "failed", trace |-> a.trace])
    /\ UNCHANGED <<stored, changes>>

EventsOf(event, trace) == {k \in DOMAIN log : log[k].event = event /\ log[k].trace = trace}

First(ks) == log[CHOOSE k \in ks : \A j \in ks : k <= j]

(* The first such event of the trace id, of whichever request.             *)
Prior(event, trace) == First(EventsOf(event, trace))

(* A replay is refused before the retrieval, or awaits it.                 *)
StartReplay(r) ==
    /\ asked[r] = None
    /\ \E a \in Asks :
          /\ a.kind = "replay" /\ a.scope = None
          /\ LET started == EventsOf("started", a.trace)
                 solved == EventsOf("solved", a.trace)
             IN \/ /\ started # {} /\ solved # {}
                   /\ asked' = [asked EXCEPT ![r] = [a EXCEPT !.scope = Prior("started", a.trace).scope]]
                   /\ UNCHANGED reply
                \/ /\ started = {} \/ solved = {}
                   /\ reply' = [status |-> IF started \cup solved \cup EventsOf("failed", a.trace) = {}
                                           THEN "no_prior_solve" ELSE "incomplete_prior_solve"]
                   /\ UNCHANGED asked
    /\ UNCHANGED <<stored, changes, log>>

(* Faulty: the scope of the first request is not applied again.            *)
FinishReplay_Unscoped(r) ==
    /\ asked[r] # None /\ asked[r].kind = "replay"
    /\ LET a == asked[r] before == Prior("solved", a.trace) IN
       \E evidence \in {Evidence(Retrieved(stored, None, a.topK))} : \E now \in {Solve(evidence, None)} :
          Finish(r, [status |-> "replayed", trace |-> a.trace, topK |-> a.topK,
                     match |-> Cardinality(BranchNames(now)) = before.branches,
                     changes |-> changes])
    /\ UNCHANGED <<stored, changes, log>>

(* Its solve passes no gate, and only the number of branches is compared,  *)
(* with the replay's own top_k.                                            *)
FinishReplay(r) ==
    /\ asked[r] # None /\ asked[r].kind = "replay"
    /\ LET a == asked[r] before == Prior("solved", a.trace) IN
       \E evidence \in {Evidence(Retrieved(stored, a.scope, a.topK))} : \E now \in {Solve(evidence, a.scope)} :
          Finish(r, [status |-> "replayed", trace |-> a.trace, topK |-> a.topK,
                     match |-> Cardinality(BranchNames(now)) = before.branches,
                     changes |-> changes])
    /\ UNCHANGED <<stored, changes, log>>

(* A re-ingest replaces what the index holds.                              *)
ChangeIndex ==
    /\ changes < MaxChanges
    /\ changes' = changes + 1
    /\ \E new \in SUBSET Chunks : stored' = new
    /\ UNCHANGED <<log, asked, reply>>

QueryNext ==
    \/ ChangeIndex
    \/ \E r \in Requests : StartQuery(r) \/ FinishQuery(r) \/ StartReplay(r) \/ FinishReplay(r)

QuerySpec == QueryInit /\ [][QueryNext]_queryVars
-----------------------------------------------------------------------------
(***************************************************************************)
(* Correctness                                                             *)
(***************************************************************************)

(* The replay of a solve matches it if its trace id belongs to that solve  *)
(* alone, the index is what it was, and the replay asks for the same       *)
(* top_k: requests in between, failed ones too, make no difference.        *)
ReplayOfUnchangedMatches ==
    reply.status = "replayed" =>
        LET solved == EventsOf("solved", reply.trace)
            started == EventsOf("started", reply.trace)
        IN /\ Cardinality(started) = 1
           /\ First(started).topK = reply.topK
           /\ First(solved).changes = reply.changes
           => reply.match

RulesOf(chunks) == UNION {ToSet(c.rules) : c \in chunks}

Retrievable == {c \in Best(reply.index, reply.topK) : PassesFilter(c, reply.scope)}

(* The rules that the answer to a query for a scope has to come from: those*)
(* of the scope itself, in the best chunks stored when it was answered.    *)
RulesOfTheScope ==
    {r \in RulesOf({c \in Retrievable : c.scope = reply.scope}) : r.interval # None}

(* Of these, the ones the deduplication cannot take away: whatever has the *)
(* same key is of the same scope and branch and says the same.  Elsewhere  *)
(* a chunk of a narrower scope that repeats a rule may outrank it, and the *)
(* solver then drops the winner for its scope.                             *)
UndisputedRules ==
    {r \in RulesOfTheScope :
        \A d \in RulesOf(Retrievable) :
            KeyOf(d) = KeyOf(r) => /\ d.scope = r.scope /\ d.branch = r.branch
                                   /\ d.interval = r.interval}

Of(rules, cell) == {r \in rules : <<r.branch, r.param>> = cell}

(* A query for a scope is answered from the rules stored under exactly     *)
(* that scope, and from all of them that are undisputed: these have their  *)
(* parameters answered and no bound beyond them, and no answer is narrower *)
(* than what the rules of the scope leave.  The retriever drops what is    *)
(* wider and the solver what is narrower; wider rules, which the docstring *)
(* of _scope_matches has apply to the query, never do.                     *)
OnlyTheScopeItselfCounts ==
    reply.status = "success" /\ reply.scope # None =>
        /\ \A r \in UndisputedRules : <<r.branch, r.param>> \in DOMAIN reply.ranges
        /\ \A cell \in DOMAIN reply.ranges :
              LET lower == reply.ranges[cell].lower upper == reply.ranges[cell].upper IN
              /\ Of(RulesOfTheScope, cell) # {}
              /\ \A x \in Grid : (\A r \in Of(RulesOfTheScope, cell) : Keeps(x, r)) =>
                    (lower # None => 2 * lower <= x) /\ (upper # None => x <= 2 * upper)
              /\ \A r \in Of(UndisputedRules, cell) :
                    (lower # None => Keeps(2 * lower, r)) /\ (upper # None => Keeps(2 * upper, r))
=============================================================================
