--------------------------- MODULE EvidenceBuilder ---------------------------
(***************************************************************************)
(* How the text of retrieved chunks becomes constraints:                   *)
(* ingestion/numeric_hint_extractor.py, constraint_engine/parser.py and    *)
(* evidence_builder.py.  A text is a sequence of tokens, and the regular   *)
(* expressions are the kinds of tokens: a number with a unit, a number     *)
(* without, an operator phrase, a parameter word, a measuring verb, a      *)
(* condition.  The windows of 50 and 20 characters are windows of tokens.  *)
(***************************************************************************)
EXTENDS Integers, EvidenceKeys

CONSTANTS TextTokens,   \* the tokens a text may have
          Operators,    \* _OPERATOR_PATTERNS: [phrase, op], in order
          Categories,   \* _NUMERIC_UNIT_PATTERNS: the unit categories, in order
          ParamWords,   \* _PARAM_CONTEXT_PATTERNS: the parameter words, in order
          LevelOf,      \* _SCOPE_PRIORITY_MAP, by the first element of a scope
          ScopeChoices, \* scope paths of the chunks of a request
          BaseValue,    \* BaseValue[unit][value]: normalize_constraint_hint
          BaseUnit,     \* its unit
          ContextRadius, ParamRadius,
          MaxTextLength  \* bound on the length of a text

ASSUME EvidenceAssumption ==
    /\ \A t \in TextTokens : /\ t.kind \in {"number", "operator", "param", "verb", "condition"}
                             /\ t.kind = "number" => t.value \in Int
                             /\ t.kind = "condition" => t.of \in {"environment", "condition"}
    /\ Operators \in Seq([phrase : STRING, op : {"range", "==", "<=", ">=", "<", ">"}])
    /\ ContextRadius \in Nat /\ ParamRadius \in Nat /\ MaxTextLength \in Nat
    /\ Categories \in Seq(STRING)
    /\ ScopeChoices \subseteq Seq(Seq(STRING)) \ {<<>>}
    /\ \A s \in DOMAIN LevelOf : LevelOf[s] \in Nat

VARIABLES
    text,     \* the text of the chunks of the request
    scopes,   \* their scope paths: one chunk each
    evidence  \* what build returned

evidenceVars == <<text, scopes, evidence>>
-----------------------------------------------------------------------------
(* Hints                                                                   *)

IsHint(t) == t.kind = "number" /\ t.unit # None

(* A parameter word directly before a number, both within the window       *)
(* before the hint; the first word of the list that has one.  The number   *)
(* of the hint itself is not in that window.                               *)
ParamContext(txt, pos) ==
    LET near == (pos - ParamRadius) .. (pos - 1) \cap DOMAIN txt
        found == {w \in DOMAIN ParamWords : \E k \in near :
                      /\ txt[k].kind = "param" /\ txt[k].word = ParamWords[w]
                      /\ k + 1 \in near /\ txt[k + 1].kind = "number"}
    IN IF found = {} THEN None
       ELSE ParamWords[CHOOSE w \in found : \A v \in found : w <= v]

Hint(txt, pos) ==
    [pos |-> pos, value |-> txt[pos].value, unit |-> txt[pos].unit,
     param |-> IF ParamContext(txt, pos) # None THEN ParamContext(txt, pos) ELSE txt[pos].category]

(* extract_hints: category by category, each in the order of the text.     *)
Hints(txt) ==
    LET places(c) == {k \in DOMAIN txt : IsHint(txt[k]) /\ txt[k].category = Categories[c]}
        inOrder(c) == LET at == Selected([k \in DOMAIN txt |-> k], places(c)) IN [k \in DOMAIN at |-> Hint(txt, at[k])]
    IN FlattenSeq([c \in DOMAIN Categories |-> inOrder(c)])
-----------------------------------------------------------------------------
(* The operator of a hint                                                  *)

Abs(n) == IF n < 0 THEN -n ELSE n

Context(txt, h) == SubSeq(txt, IF h.pos > ContextRadius THEN h.pos - ContextRadius ELSE 1,
                          IF h.pos + ContextRadius < Len(txt) THEN h.pos + ContextRadius ELSE Len(txt))

NumbersIn(ctx, ks) == {ctx[k].value : k \in {j \in ks \cap DOMAIN ctx : ctx[j].kind = "number"}}

(* The number closest to the hint's in value, the smaller of two.          *)
Closest(values, v) ==
    CHOOSE x \in values : \A y \in values :
        Abs(x - v) < Abs(y - v) \/ (Abs(x - v) = Abs(y - v) /\ x <= y)

PhrasesOf(op) == {Operators[o].phrase : o \in {p \in DOMAIN Operators : Operators[p].op = op}}

(* _find_range_in_context: around the first range phrase with numbers on   *)
(* both sides, on each side the number closest to the hint's.              *)
RangeAround(ctx, v) ==
    LET around == {k \in DOMAIN ctx :
                      /\ ctx[k].kind = "operator" /\ ctx[k].phrase \in PhrasesOf("range")
                      /\ NumbersIn(ctx, 1 .. k - 1) # {} /\ NumbersIn(ctx, k + 1 .. Len(ctx)) # {}}
        k == CHOOSE j \in around : \A i \in around : j <= i
    IN IF around = {} THEN None
       ELSE [lower |-> Closest(NumbersIn(ctx, 1 .. k - 1), v),
             upper |-> Closest(NumbersIn(ctx, k + 1 .. Len(ctx)), v)]

PlacesOf(ctx, phrase) == {k \in DOMAIN ctx : ctx[k].kind = "operator" /\ ctx[k].phrase = phrase}

FirstOf(ks) == CHOOSE k \in ks : \A j \in ks : k <= j

(* "==" counts before the first number equal to the hint's, and not after  *)
(* a measuring verb that opens the context and at most one more token.     *)
IsEquality(ctx, k, v) ==
    /\ \A j \in 1 .. k - 1 : ~(ctx[j].kind = "number" /\ ctx[j].value = v)
    /\ ~(ctx[1].kind = "verb" /\ k <= 3)

(* _find_operator_in_context: the first phrase of the list, not the        *)
(* nearest one, wherever it stands in the context.                         *)
OperatorOf(ctx, v) ==
    LET fits(o) ==
            LET places == PlacesOf(ctx, Operators[o].phrase) IN
            /\ places # {}
            /\ Operators[o].op = "range" => RangeAround(ctx, v) # None
            /\ Operators[o].op = "==" => IsEquality(ctx, FirstOf(places), v)
        fitting == {o \in DOMAIN Operators : fits(o)}
    IN IF fitting = {} THEN None ELSE Operators[FirstOf(fitting)].op
-----------------------------------------------------------------------------
(* Intervals                                                               *)

IsTemperature(unit) == BaseUnit[unit] = "C"

(* _operator_to_interval.                                                  *)
ToInterval(op, ends) ==
    [lower |-> IF op \in {"range", "==", ">=", ">"} THEN ends.lower ELSE None,
     upper |-> IF op \in {"range", "==", "<=", "<"} THEN ends.upper ELSE None,
     lowerInc |-> op # ">", upperInc |-> op # "<"]

(* The interval of one hint: the hint's number in its base unit, or the    *)
(* two ends of a range, which are converted only if it is a temperature.   *)
IntervalOf(txt, h) ==
    LET ctx == Context(txt, h)
        base(v) == BaseValue[h.unit][v]
        range == RangeAround(ctx, h.value)
        ofRange == IF ~IsTemperature(h.unit) THEN range
                   ELSE [lower |-> base(range.lower), upper |-> base(range.upper)]
        single == [lower |-> base(h.value), upper |-> base(h.value)]
        forOperator == [op \in {Operators[o].op : o \in DOMAIN Operators} \cup {None} |->
                           IF op = None THEN None
                           ELSE ToInterval(op, IF op = "range" THEN ofRange ELSE single)]
    IN forOperator[OperatorOf(ctx, h.value)]

(* One more interval: nothing without an operator, and each but once for a *)
(* parameter and a unit.                                                   *)
AddOnce(found, new) ==
    LET repeated == \E k \in DOMAIN found :
                       /\ found[k].param = new.param /\ found[k].unit = new.unit
                       /\ found[k].interval.lower = new.interval.lower
                       /\ found[k].interval.upper = new.interval.upper
    IN IF new.interval = None THEN found ELSE IF repeated THEN found ELSE Append(found, new)

AddInterval(txt, found, h) ==
    AddOnce(found, [param |-> h.param, unit |-> BaseUnit[h.unit], interval |-> IntervalOf(txt, h)])

(* parse_interval: the intervals of the hints of a text.                   *)
ParseIntervals(txt) ==
    LET hints == Hints(txt)
        found[k \in 0 .. Len(hints)] ==
            IF k = 0 THEN <<>> ELSE AddInterval(txt, found[k - 1], hints[k])
        all == found[Len(hints)]
    IN [k \in DOMAIN all |-> all[k].interval]
-----------------------------------------------------------------------------
(* Constraints                                                             *)

(* _extract_conditions and _get_branch_key: the first "in the environment  *)
(* of", and only without one the first "under the condition of".           *)
BranchOf(txt) ==
    LET at(of) == {k \in DOMAIN txt : txt[k].kind = "condition" /\ txt[k].of = of}
    IN IF at("environment") # {} THEN txt[FirstOf(at("environment"))].value
       ELSE IF at("condition") # {} THEN txt[FirstOf(at("condition"))].value
       ELSE "general"

(* _priority_from_scope_path: PROJECT unless the scope says otherwise.     *)
ScopeLevel(scope) == IF scope # <<>> /\ scope[1] \in DOMAIN LevelOf THEN LevelOf[scope[1]] ELSE 40

IsScalar(i) == i.lower = i.upper /\ i.lowerInc /\ i.upperInc

(* A constraint with the parameter of one hint and some interval; a       *)
(* scalar has a value in place of the interval.                            *)
Constraint(txt, scope, h, i) ==
    [param |-> h.param, unit |-> BaseUnit[h.unit], level |-> ScopeLevel(scope),
     conf |-> 1, scope |-> scope, branch |-> BranchOf(txt),
     interval |-> IF IsScalar(i) THEN None ELSE i,
     value |-> IF IsScalar(i) THEN i.lower ELSE None]

(* Faulty: pairs from the end.                                             *)
ChunkConstraints_Reversed(txt, scope) ==
    LET hs == Reverse(Hints(txt)) intervals == ParseIntervals(txt) IN
    [k \in DOMAIN intervals |-> Constraint(txt, scope, hs[k], intervals[k])]

(* One chunk: the k-th interval with the k-th hint, although hints may     *)
(* have given none.                                                        *)
ChunkConstraints(txt, scope) ==
    LET hs == Hints(txt) intervals == ParseIntervals(txt) IN
    [k \in DOMAIN intervals |-> Constraint(txt, scope, hs[k], intervals[k])]

AllConstraints(under) == FlattenSeq([k \in DOMAIN under |-> ChunkConstraints(text, under[k])])
-----------------------------------------------------------------------------
EvidenceInit == text = <<>> /\ scopes = <<>> /\ evidence = <<>>

AddToken ==
    /\ scopes = <<>> /\ Len(text) < MaxTextLength
    /\ \E t \in TextTokens : text' = Append(text, t)
    /\ UNCHANGED <<scopes, evidence>>

(* EvidenceBuilder.build on chunks that say the same under several scopes. *)
Build ==
    /\ scopes = <<>>
    /\ \E under \in ScopeChoices :
          /\ scopes' = under
          /\ evidence' = Deduplicated(AllConstraints(under))
    /\ UNCHANGED text

EvidenceNext == AddToken \/ Build

EvidenceSpec == EvidenceInit /\ [][EvidenceNext]_evidenceVars

EvidenceTypeOK ==
    /\ text \in Seq(TextTokens) /\ Len(text) <= MaxTextLength
    /\ scopes = <<>> \/ scopes \in ScopeChoices
    /\ \A k \in DOMAIN evidence : evidence[k].level \in Nat
-----------------------------------------------------------------------------
(***************************************************************************)
(* Correctness                                                             *)
(***************************************************************************)

(* The pairing by place is safe: every hint has given an interval, or all  *)
(* hints are of one parameter and unit, as the two of a range usually are. *)
InStep ==
    LET hs == Hints(text) IN
    \/ Len(ParseIntervals(text)) = Len(hs)
    \/ \A g, h \in ToSet(hs) : g.param = h.param /\ g.unit = h.unit

LowerEnd(c) == IF c.interval = None THEN c.value ELSE c.interval.lower

UpperEnd(c) == IF c.interval = None THEN c.value ELSE c.interval.upper

(* The bounds are the number at pos, in its base unit.                     *)
BoundedBy(c, pos) ==
    LET bounds == {LowerEnd(c), UpperEnd(c)} base == BaseValue[text[pos].unit][text[pos].value]
    IN base \in bounds /\ bounds \subseteq {base, None}

(* The bounds are two numbers on either side of a range phrase near pos,   *)
(* which become base units if the number at pos is a temperature.          *)
RangesAround(c, pos) ==
    LET near == (pos - ContextRadius) .. (pos + ContextRadius) \cap DOMAIN text
        unit == text[pos].unit
        asRead(k) == IF IsTemperature(unit) THEN BaseValue[unit][text[k].value] ELSE text[k].value
    IN \E l, m, u \in near :
          /\ l < m /\ m < u
          /\ text[l].kind = "number" /\ text[u].kind = "number"
          /\ text[m].kind = "operator" /\ text[m].phrase \in PhrasesOf("range")
          /\ LowerEnd(c) = asRead(l) /\ UpperEnd(c) = asRead(u)

(* Of every constraint the parameter and the unit are those of a number of *)
(* the text whose bounds it has: itself, or the ends of a range around it. *)
(* It holds while the pairing by place is safe: elsewhere one number that  *)
(* gives no interval is enough to hand the later ones to other parameters. *)
(* The ends of a range that is no temperature stay as written beside the   *)
(* base unit: the handbook has pressures in Pa (TC-BUILDER-07).            *)
BoundsBelongToTheirParameter ==
    InStep =>
        \A c \in ToSet(evidence) : \E pos \in DOMAIN text :
            /\ IsHint(text[pos])
            /\ c.param = Hint(text, pos).param /\ c.unit = BaseUnit[text[pos].unit]
            /\ BoundedBy(c, pos) \/ RangesAround(c, pos)

(* Of several chunks that say the same, the constraint of the highest      *)
(* level stays, in whatever order the retrieval ranked them, and nothing   *)
(* they say is lost but what the key leaves out: the value of a scalar,    *)
(* whether a bound belongs to the interval, the scope and the branch; of   *)
(* constraints that differ in these alone one stands for all               *)
(* (evidence_builder.py:273-303).                                          *)
StrongestSourceStays ==
    scopes # <<>> =>
        \A c \in ToSet(AllConstraints(scopes)) :
            LET same == {e \in DOMAIN evidence : KeyOf(evidence[e]) = KeyOf(c)}
            IN Cardinality(same) = 1 /\ \A e \in same : evidence[e].level >= c.level
=============================================================================
