------------------------------ MODULE MCQuery ------------------------------
(***************************************************************************)
(* Instances of the modules of the query side.  They share no state, so    *)
(* each behaviour is one of one part, and the states of the parts add up.  *)
(***************************************************************************)
EXTENDS Retrieval, SolverRequests, EvidenceBuilder, ConstraintQuery, EmbeddingCache, RateLimit

VARIABLE part

queryParts == <<retrievalVars, solverVars, evidenceVars, queryVars, cacheVars, rateVars>>

SideInit ==
    /\ part \in {"retrieval", "solver", "evidence", "query", "cache", "rate"}
    /\ RetrievalInit /\ SolverInit /\ EvidenceInit /\ QueryInit /\ CacheInit /\ RateInit

SideNext ==
    /\ UNCHANGED part
    /\ \/ /\ part = "retrieval" /\ RetrievalNext
          /\ UNCHANGED <<solverVars, evidenceVars, queryVars, cacheVars, rateVars>>
       \/ /\ part = "solver" /\ SolverNext
          /\ UNCHANGED <<retrievalVars, evidenceVars, queryVars, cacheVars, rateVars>>
       \/ /\ part = "evidence" /\ EvidenceNext
          /\ UNCHANGED <<retrievalVars, solverVars, queryVars, cacheVars, rateVars>>
       \/ /\ part = "query" /\ QueryNext
          /\ UNCHANGED <<retrievalVars, solverVars, evidenceVars, cacheVars, rateVars>>
       \/ /\ part = "cache" /\ CacheNext
          /\ UNCHANGED <<retrievalVars, solverVars, evidenceVars, queryVars, rateVars>>
       \/ /\ part = "rate" /\ RateNext
          /\ UNCHANGED <<retrievalVars, solverVars, evidenceVars, queryVars, cacheVars>>

SideSpec == SideInit /\ [][SideNext]_<<part, queryParts>>
-----------------------------------------------------------------------------
(* Retrieval: a document of three chunks, one without a scope, the second  *)
(* of which contains the query in its new version only.                    *)
MCScopeOf == [p \in Points |-> IF p.id = 1 THEN <<"a">> ELSE IF p.id = 2 THEN <<"a", "b">> ELSE <<>>]

MCHasQuery == {[id |-> 2, version |-> 2]}

MCWeightOf == [p \in Points |-> IF p.id = 1 THEN 40 ELSE 90]

MCScopes == {<<"a">>}

(* Solver: overlapping, touching and contradicting intervals, open and     *)
(* closed, of two branches, and a scalar.                                  *)
Iv(l, u, li, ui) == [lower |-> l, upper |-> u, lowerInc |-> li, upperInc |-> ui]

Given(p, level, scope, branch, unit, i) ==
    [param |-> p, level |-> level, conf |-> 1, scope |-> scope, branch |-> branch,
     unit |-> unit, interval |-> i]

MCEvidenceRules ==
    {Given("p", 40, <<"a">>, "general", "C", i) :
        i \in {Iv(1, None, FALSE, TRUE), Iv(None, 1, TRUE, TRUE), Iv(0, 2, TRUE, TRUE), None}}
    \cup {Given("p", 100, scope, "hot", "MPa", i) :
        scope \in {<<"a", "b">>, None}, i \in {Iv(None, 1, TRUE, FALSE), Iv(1, 2, TRUE, TRUE)}}
    \cup {Given("q", 100, <<"a">>, "general", "MPa", Iv(2, 1, TRUE, TRUE))}

Sent(p, level, unit, op, value) ==
    [param |-> p, level |-> level, conf |-> 1, scope |-> None, unit |-> unit,
     op |-> op, value |-> value, upper |-> 2]

MCDirectRules ==
    {Sent("p", level, unit, op, 1) : level \in {20, 40}, unit \in {"C", "K"}, op \in {"<=", ">", "range"}}
    \cup {Sent("q", level, "C", op, 2) : level \in {20, 40}, op \in {"==", "<"}}

MCActiveScopes == {<<"a">>}

(* Evidence: numbers of two units of temperature, of a pressure, without a *)
(* unit; each kind of operator; one word of each other kind.               *)
Number(v, u, c) == [kind |-> "number", value |-> v, unit |-> u, category |-> c]

MCTokens ==
    {Number(1, "C", "temperature"), Number(3, "K", "temperature"), Number(2, "kPa", "pressure"),
     Number(1, None, None), [kind |-> "param", word |-> "diameter"], [kind |-> "verb"],
     [kind |-> "condition", of |-> "environment", value |-> "hot"],
     [kind |-> "condition", of |-> "condition", value |-> "wet"]}
    \cup {[kind |-> "operator", phrase |-> p] : p \in {"to", "is", "at most", "over"}}

MCOperators == <<[phrase |-> "to", op |-> "range"], [phrase |-> "at most", op |-> "<="],
                 [phrase |-> "is", op |-> "=="], [phrase |-> "over", op |-> ">"]>>

MCCategories == <<"temperature", "pressure">>

MCParamWords == <<"diameter">>

MCLevelOf == [national |-> 100, reference |-> 20]

MCScopeChoices == {<< <<"national">>, <<"reference">> >>, << <<>>, <<"national">> >>}

MCBaseValue == [u \in {"C", "K", "kPa"} |->
                   [v \in 1 .. 3 |-> IF u = "K" THEN v - 2 ELSE IF u = "kPa" THEN 10 * v ELSE v]]

MCBaseUnit == [u \in {"C", "K", "kPa"} |-> IF u = "kPa" THEN "Pa" ELSE "C"]

(* Query: a rule of the scope, a contradicting one of a narrower scope, a  *)
(* rule of the scope that a narrower one repeats at a higher level, a chunk*)
(* without rules.                                                          *)
Closed(l, u) == Iv(l, u, TRUE, TRUE)

MCChunks ==
    {[rank |-> 1, scope |-> <<"a">>,
      rules |-> <<Given("p", 40, <<"a">>, "general", "C", Closed(0, 1)),
                  Given("q", 20, <<"a">>, "general", "C", Closed(0, 1))>>],
     [rank |-> 2, scope |-> <<"a", "b">>,
      rules |-> <<Given("q", 40, <<"a", "b">>, "hot", "C", Closed(0, 1)),
                  Given("p", 40, <<"a", "b">>, "general", "C", Closed(2, 3))>>],
     [rank |-> 3, scope |-> <<"a">>, rules |-> <<>>]}

MCQueryScopes == {None, <<"a">>}

MCBatches == {<<"u">>, <<"u", "v">>, <<"v", "w">>}
=============================================================================
