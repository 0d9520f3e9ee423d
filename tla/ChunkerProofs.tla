--------------------------- MODULE ChunkerProofs ----------------------------
(***************************************************************************)
(* Proofs about Chunker: whatever the blocks are, of whatever characters,  *)
(* and in whatever order they come, the chunks and the open group hold     *)
(* every visible character of their texts (of a table split by its rows,   *)
(* that of the rows, with the header where it fits), once and in order,    *)
(* and a chunk exceeds the budget by less than a token for each of its     *)
(* pieces.                                                                 *)
(*                                                                         *)
(* The ink of a text is what is to be seen of it. Each function of the     *)
(* model that takes a text apart or puts texts together is followed        *)
(* through its recursion: the lines, the cut, the merge, the rows of a     *)
(* table. For each of them one lemma says that the recursion has a         *)
(* solution (from Iterates), one what a step does to the ink and the       *)
(* lengths, and one what has been done after the last step.                *)
(***************************************************************************)
EXTENDS Chunker, DataProofs

-----------------------------------------------------------------------------
(* Numbers.                                                                *)

(* A set of numbers below a bound has a least and a greatest one.          *)
LEMMA MinMax ==
    ASSUME NEW n \in Nat, NEW S \in SUBSET (0 .. n), S # {}
    PROVE  /\ Min(S) \in S /\ \A x \in S : Min(S) <= x
           /\ Max(S) \in S /\ \A x \in S : x <= Max(S)
<1>1. \E x \in S : \A y \in S : x <= y
  BY LeastNumber
<1>2. \E x \in S : \A y \in S : y <= x
  <2> DEFINE R == {n - x : x \in S}
  <2>1. R \in SUBSET Nat /\ R # {}
    <3>1. \A x \in S : n - x \in Nat
      OBVIOUS
    <3>2. PICK x \in S : TRUE
      OBVIOUS
    <3>3. n - x \in R
      OBVIOUS
    <3> QED BY <3>1, <3>3
  <2>2. PICK r \in R : \A y \in R : r <= y
    <3> HIDE DEF R
    <3> QED BY <2>1, LeastNumber
  <2>3. PICK x \in S : r = n - x
    BY <2>2
  <2>4. ASSUME NEW y \in S PROVE y <= x
    <3>1. n - y \in R
      OBVIOUS
    <3> HIDE DEF R
    <3>2. n - x <= n - y /\ x \in Nat /\ y \in Nat
      BY <2>2, <2>3, <3>1
    <3> QED BY <3>2
  <2> QED BY <2>4
<1>3. Min(S) \in S /\ \A x \in S : Min(S) <= x
  BY <1>1 DEF Min
<1>4. Max(S) \in S /\ \A x \in S : x <= Max(S)
  BY <1>2 DEF Max
<1> QED BY <1>3, <1>4

(* A piece of a sequence.                                                  *)
LEMMA PieceFacts ==
    ASSUME NEW T, NEW s \in Seq(T), NEW m \in 1 .. Len(s) + 1, NEW n \in m - 1 .. Len(s)
    PROVE  /\ SubSeq(s, m, n) \in Seq(T) /\ Len(SubSeq(s, m, n)) = n - m + 1
           /\ \A i \in 1 .. n - m + 1 : SubSeq(s, m, n)[i] = s[m + i - 1]
<1>1. m \in Nat /\ n \in Nat /\ Len(s) \in Nat /\ m - 1 <= n /\ n <= Len(s) /\ 1 <= m
  OBVIOUS
<1>2. \A i \in m .. n : s[i] \in T
  BY <1>1
<1>3. SubSeq(s, m, n) \in Seq(T)
  BY <1>1, <1>2, SubSeqProperties
<1>4. Len(SubSeq(s, m, n)) = n - m + 1
  BY <1>1
<1>5. \A i \in 1 .. n - m + 1 : SubSeq(s, m, n)[i] = s[m + i - 1]
  BY <1>1
<1> QED BY <1>3, <1>4, <1>5

(* Dividing by a positive number rounds down.                              *)
LEMMA Quotient ==
    ASSUME NEW n \in Nat, NEW d \in Nat \ {0}
    PROVE  /\ n \div d \in Nat
           /\ (n \div d) * d <= n /\ n < (n \div d + 1) * d
OBVIOUS

(* A larger multiple has a larger factor.                                  *)
LEMMA FactorsCompare ==
    ASSUME NEW a \in Nat, NEW b \in Nat, NEW d \in Nat \ {0}, a * d < b * d
    PROVE  a < b
OBVIOUS

(* An estimate is at least one, and falls short of the length by less than *)
(* one token.                                                              *)
LEMMA EstimateFacts ==
    ASSUME NEW text \in CharSeqs
    PROVE  /\ estimate_tokens(text) \in Nat \ {0}
           /\ Len(text) + 1 <= (estimate_tokens(text) + 1) * CharsPerToken
           /\ \A m \in Nat \ {0} : Len(text) + 1 <= (m + 1) * CharsPerToken => estimate_tokens(text) <= m
<1> DEFINE n == Len(text)
           q == n \div CharsPerToken
           e == estimate_tokens(text)
<1>1. n \in Nat /\ CharsPerToken \in Nat \ {0}
  BY ChunkerAssumption DEF CharSeqs
<1> HIDE DEF n
<1>2. q \in Nat /\ q * CharsPerToken <= n /\ n < (q + 1) * CharsPerToken
  BY <1>1, Quotient
<1>3. e = Max({1, q})
  BY DEF estimate_tokens, n
<1> HIDE DEF q, e
<1>4. e \in {1, q} /\ 1 <= e /\ q <= e
  <2>1. {1, q} \in SUBSET (0 .. q + 1) /\ {1, q} # {} /\ q + 1 \in Nat
    BY <1>2
  <2> QED BY <1>3, <2>1, MinMax
<1>5. e \in Nat \ {0}
  BY <1>2, <1>4
<1>6. n + 1 <= (e + 1) * CharsPerToken
  <2>1. (q + 1) * CharsPerToken <= (e + 1) * CharsPerToken
    BY <1>1, <1>2, <1>4, <1>5
  <2>2. (q + 1) * CharsPerToken \in Nat /\ (e + 1) * CharsPerToken \in Nat
    BY <1>1, <1>2, <1>5
  <2> QED BY <1>1, <1>2, <2>1, <2>2
<1>7. ASSUME NEW m \in Nat \ {0}, n + 1 <= (m + 1) * CharsPerToken PROVE e <= m
  <2>1. q * CharsPerToken < (m + 1) * CharsPerToken
    <3>1. q * CharsPerToken \in Nat /\ (m + 1) * CharsPerToken \in Nat
      BY <1>1, <1>2
    <3> QED BY <1>1, <1>2, <1>7, <3>1
  <2>2. q < m + 1
    BY <1>1, <1>2, <2>1, FactorsCompare
  <2> QED BY <1>2, <1>4, <2>2
<1> QED BY <1>5, <1>6, <1>7 DEF n, e
-----------------------------------------------------------------------------
(* What is to be seen of a text.                                           *)

Visible == CharClasses \ {" ", "n", "h"}

(* Of two texts the ink of each.                                           *)
LEMMA InkConcat ==
    ASSUME NEW s \in CharSeqs, NEW t \in CharSeqs
    PROVE  s \o t \in CharSeqs /\ Ink(s) \in CharSeqs /\ Ink(s \o t) = Ink(s) \o Ink(t)
<1>1. s \o t \in Seq(CharClasses)
  BY ConcatProperties DEF CharSeqs
<1>2. Selected(s, Visible) \in Seq(CharClasses)
  BY SelectedPlaces DEF CharSeqs
<1>3. Selected(s \o t, Visible) = Selected(s, Visible) \o Selected(t, Visible)
  BY SelectedConcat DEF CharSeqs
<1> QED BY <1>1, <1>2, <1>3 DEF Ink, Visible, CharSeqs

(* Blanks, newlines and headers have none.                                 *)
LEMMA NoInk ==
    ASSUME NEW s \in CharSeqs, \A i \in 1 .. Len(s) : s[i] \in {" ", "n", "h"}
    PROVE  Ink(s) = <<>>
<1>1. \A i \in 1 .. Len(s) : s[i] \notin Visible
  BY DEF Visible
<1>2. Selected(s, Visible) = <<>>
  BY <1>1, SelectedNone DEF CharSeqs
<1> QED BY <1>2 DEF Ink, Visible

(* A blank text has no ink.                                                *)
LEMMA InkOfBlank ==
    ASSUME NEW s \in CharSeqs, Blank(s)
    PROVE  Ink(s) = <<>>
<1>1. \A i \in 1 .. Len(s) : s[i] \in {" ", "n", "h"}
  <2> TAKE i \in 1 .. Len(s)
  <2>1. i \in DOMAIN s
    BY DEF CharSeqs
  <2>2. s[i] \in {" ", "n"}
    BY <2>1 DEF Blank, ToSet
  <2> QED BY <2>2
<1> QED BY <1>1, NoInk

(* Neither has the empty text, nor a line break.                           *)
LEMMA InkOfNothing == Ink(<<>>) = <<>> /\ Ink(<<"n">>) = <<>>
<1>1. <<>> \in CharSeqs /\ <<"n">> \in CharSeqs
  BY DEF CharSeqs, CharClasses
<1>2. Ink(<<>>) = <<>>
  <2> DEFINE s == <<>>
  <2>1. s \in CharSeqs /\ \A i \in 1 .. Len(s) : s[i] \in {" ", "n", "h"}
    BY <1>1
  <2> HIDE DEF s
  <2>2. Ink(s) = <<>>
    BY <2>1, NoInk
  <2> QED BY <2>2 DEF s
<1>3. Ink(<<"n">>) = <<>>
  <2> DEFINE s == <<"n">>
  <2>1. s \in CharSeqs /\ \A i \in 1 .. Len(s) : s[i] \in {" ", "n", "h"}
    <3>1. Len(s) = 1 /\ s[1] = "n"
      OBVIOUS
    <3>2. s \in CharSeqs
      BY <1>1
    <3> HIDE DEF s
    <3>3. \A i \in 1 .. Len(s) : s[i] = "n"
      BY <3>1
    <3> QED BY <3>2, <3>3
  <2> HIDE DEF s
  <2>2. Ink(s) = <<>>
    BY <2>1, NoInk
  <2> QED BY <2>2 DEF s
<1> QED BY <1>2, <1>3

(* Stripping takes blanks only.                                            *)
LEMMA StripKeeps ==
    ASSUME NEW t \in CharSeqs
    PROVE  Strip(t) \in CharSeqs /\ Len(Strip(t)) <= Len(t) /\ Ink(Strip(t)) = Ink(t)
<1> DEFINE n == Len(t)
           S == {i \in 1 .. n : t[i] \notin {" ", "n"}}
           a == Min(S)
           b == Max(S)
<1>1. t \in Seq(CharClasses) /\ n \in Nat /\ DOMAIN t = 1 .. n /\ \A i \in 1 .. n : t[i] \in CharClasses
  BY DEF CharSeqs
<1>2. Strip(t) = IF S = {} THEN <<>> ELSE SubSeq(t, a, b)
  BY <1>1 DEF Strip
<1>3. CASE S = {}
  <2>1. \A i \in 1 .. Len(t) : t[i] \in {" ", "n", "h"}
    BY <1>3
  <2>2. Ink(t) = <<>>
    BY <2>1, NoInk
  <2>3. <<>> \in CharSeqs /\ Len(<<>>) = 0
    BY DEF CharSeqs
  <2>4. Strip(t) = <<>>
    <3> HIDE DEF S, a, b
    <3> QED BY <1>2, <1>3
  <2> QED BY <1>1, <2>2, <2>3, <2>4, InkOfNothing
<1>4. CASE S # {}
  <2>1. S \in SUBSET (0 .. n)
    <3>1. 1 .. n \subseteq 0 .. n
      BY <1>1
    <3> HIDE DEF n
    <3> QED BY <3>1
  <2>2. a \in S /\ b \in S /\ \A x \in S : a <= x /\ x <= b
    <3> HIDE DEF S
    <3> QED BY <1>1, <1>4, <2>1, MinMax
  <2>3. a \in 1 .. n /\ b \in 1 .. n /\ a <= b
    BY <2>2
  <2>4. \A i \in 1 .. n : i < a \/ b < i => t[i] \in {" ", "n"}
    <3> TAKE i \in 1 .. n
    <3> HAVE i < a \/ b < i
    <3>1. i \notin S
      <4> HIDE DEF S, a, b
      <4> QED BY <1>1, <2>2, <2>3
    <3> QED BY <3>1
  <2> DEFINE u == SubSeq(t, 1, a - 1)
             m == SubSeq(t, a, b)
             v == SubSeq(t, b + 1, n)
             w == SubSeq(t, a, n)
  <2> HIDE DEF S, a, b
  <2>5. /\ u \in Seq(CharClasses) /\ Len(u) = a - 1 /\ \A i \in 1 .. a - 1 : u[i] = t[i]
        /\ m \in Seq(CharClasses) /\ Len(m) = b - a + 1
        /\ v \in Seq(CharClasses) /\ Len(v) = n - b /\ \A i \in 1 .. n - b : v[i] = t[b + i]
        /\ w \in Seq(CharClasses)
    <3>1. /\ 1 \in 1 .. Len(t) + 1 /\ a - 1 \in 1 - 1 .. Len(t) /\ (a - 1) - 1 + 1 = a - 1
          /\ a \in 1 .. Len(t) + 1 /\ b \in a - 1 .. Len(t)
          /\ b + 1 \in 1 .. Len(t) + 1 /\ n \in (b + 1) - 1 .. Len(t) /\ n - (b + 1) + 1 = n - b
          /\ n \in a - 1 .. Len(t)
          /\ \A i \in 1 .. a - 1 : 1 + i - 1 = i
          /\ \A i \in 1 .. n - b : (b + 1) + i - 1 = b + i
      BY <1>1, <2>3
    <3>2. u \in Seq(CharClasses) /\ Len(u) = a - 1 /\ \A i \in 1 .. a - 1 : u[i] = t[i]
      BY <1>1, <3>1, PieceFacts
    <3>3. m \in Seq(CharClasses) /\ Len(m) = b - a + 1
      BY <1>1, <3>1, PieceFacts
    <3>4. v \in Seq(CharClasses) /\ Len(v) = n - b /\ \A i \in 1 .. n - b : v[i] = t[b + i]
      <4>1. /\ v \in Seq(CharClasses) /\ Len(v) = n - (b + 1) + 1
            /\ \A i \in 1 .. n - (b + 1) + 1 : v[i] = t[(b + 1) + i - 1]
        <5>1. PICK c \in Nat : c = b + 1
          BY <2>3
        <5>2. v = SubSeq(t, c, n) /\ c \in 1 .. Len(t) + 1 /\ n \in c - 1 .. Len(t)
          BY <3>1, <5>1
        <5> HIDE DEF v
        <5>3. v \in Seq(CharClasses) /\ Len(v) = n - c + 1 /\ \A i \in 1 .. n - c + 1 : v[i] = t[c + i - 1]
          BY <1>1, <5>2, PieceFacts
        <5> QED BY <5>1, <5>3
      <4> HIDE DEF v
      <4> QED BY <3>1, <4>1
    <3>5. w \in Seq(CharClasses)
      BY <1>1, <3>1, PieceFacts
    <3> QED BY <3>2, <3>3, <3>4, <3>5
  <2>6. t = u \o w
    <3>1. a - 1 \in 0 .. Len(t) /\ (a - 1) + 1 = a
      BY <1>1, <2>3
    <3> QED BY <1>1, <3>1, SplitAt
  <2>7. w = m \o v
    <3>1. a \in 1 .. Len(t) + 1 /\ b \in a - 1 .. Len(t) /\ n \in b .. Len(t)
      BY <1>1, <2>3
    <3> QED BY <1>1, <3>1, ConcatAdjacentSubSeq
  <2> HIDE DEF u, m, v, w
  <2>8. Ink(u) = <<>>
    <3>1. ASSUME NEW i \in 1 .. Len(u) PROVE u[i] \in {" ", "n", "h"}
      <4>1. i \in 1 .. n /\ i < a /\ i \in 1 .. a - 1
        BY <1>1, <2>3, <2>5
      <4>2. u[i] = t[i] /\ t[i] \in {" ", "n"}
        BY <2>4, <2>5, <4>1
      <4> QED BY <4>2
    <3> QED BY <2>5, <3>1, NoInk DEF CharSeqs
  <2>9. Ink(v) = <<>>
    <3>1. ASSUME NEW i \in 1 .. Len(v) PROVE v[i] \in {" ", "n", "h"}
      <4>1. b + i \in 1 .. n /\ b < b + i
        BY <1>1, <2>3, <2>5
      <4> QED BY <2>4, <2>5, <4>1
    <3> QED BY <2>5, <3>1, NoInk DEF CharSeqs
  <2>10. u \in CharSeqs /\ m \in CharSeqs /\ v \in CharSeqs /\ w \in CharSeqs
    BY <2>5 DEF CharSeqs
  <2>11. Ink(t) = Ink(u) \o (Ink(m) \o Ink(v))
    <3>1. Ink(t) = Ink(u) \o Ink(w)
      BY <2>6, <2>10, InkConcat
    <3>2. Ink(w) = Ink(m) \o Ink(v)
      BY <2>7, <2>10, InkConcat
    <3> QED BY <3>1, <3>2
  <2>12. Ink(m) \o <<>> = Ink(m) /\ <<>> \o Ink(m) = Ink(m)
    BY <2>10, InkConcat, ConcatEmptySeq DEF CharSeqs
  <2>13. Ink(m) = Ink(t)
    BY <2>8, <2>9, <2>11, <2>12
  <2>14. Strip(t) = m /\ Len(m) <= Len(t)
    BY <1>1, <1>2, <1>4, <2>3, <2>5 DEF m
  <2> QED BY <2>10, <2>13, <2>14
<1> QED BY <1>3, <1>4
-----------------------------------------------------------------------------
(* Texts one after another.                                                *)

(* A line break is a text of one character.                                *)
LEMMA Newline == <<"n">> \in CharSeqs /\ <<>> \in CharSeqs /\ Len(<<"n">>) = 1
<1>1. "n" \in CharClasses
  BY DEF CharClasses
<1> HIDE DEF CharClasses
<1> QED BY <1>1 DEF CharSeqs

(* The ink of texts is that of one after the other.                        *)
InksOf(ts) == FlattenSeq([i \in 1 .. Len(ts) |-> Ink(ts[i])])

(* One text more adds its ink.                                             *)
LEMMA InksAppend ==
    ASSUME NEW ts \in Seq(CharSeqs), NEW t \in CharSeqs
    PROVE  /\ InksOf(ts) \in CharSeqs
           /\ InksOf(Append(ts, t)) = InksOf(ts) \o Ink(t)
<1> DEFINE n == Len(ts)
           old == [i \in 1 .. n |-> Ink(ts[i])]
           rs == Append(ts, t)
           new == [i \in 1 .. Len(rs) |-> Ink(rs[i])]
<1>1. n \in Nat /\ \A i \in 1 .. n : ts[i] \in CharSeqs
  OBVIOUS
<1>2. \A x \in CharSeqs : Ink(x) \in CharSeqs
  BY InkConcat
<1>3. old \in Seq(CharSeqs)
  <2>1. \A i \in 1 .. n : Ink(ts[i]) \in CharSeqs
    BY <1>1, <1>2
  <2> HIDE DEF n
  <2> QED BY <1>1, <2>1
<1>4. Len(rs) = n + 1 /\ rs[n + 1] = t /\ \A i \in 1 .. n : rs[i] = ts[i]
  OBVIOUS
<1>5. new = Append(old, Ink(t))
  <2> HIDE DEF rs
  <2>1. DOMAIN new = 1 .. n + 1 /\ new[n + 1] = Ink(t) /\ \A i \in 1 .. n : new[i] = old[i]
    BY <1>1, <1>4
  <2>2. Len(old) = n
    BY <1>1
  <2>3. new \in Seq(CharSeqs) /\ Len(new) = n + 1
    <3>1. \A i \in 1 .. n + 1 : Ink(rs[i]) \in CharSeqs
      BY <1>1, <1>2, <1>4
    <3>2. new = [i \in 1 .. n + 1 |-> Ink(rs[i])] /\ n + 1 \in Nat
      BY <1>1, <1>4
    <3> HIDE DEF n, new
    <3> QED BY <3>1, <3>2
  <2> HIDE DEF new, n, old
  <2>4. PICK c : c = Ink(t)
    OBVIOUS
  <2>5. /\ Append(old, c) \in Seq(CharSeqs) /\ Len(Append(old, c)) = n + 1
        /\ Append(old, c)[n + 1] = c /\ \A i \in 1 .. n : Append(old, c)[i] = old[i]
    <3>1. c \in CharSeqs
      BY <1>2, <2>4
    <3> QED BY <1>1, <1>3, <2>2, <3>1, AppendProperties
  <2>6. \A i \in 1 .. Len(new) : new[i] = Append(old, c)[i]
    <3>1. \A i \in 1 .. n + 1 : i = n + 1 \/ i \in 1 .. n
      BY <1>1
    <3> QED BY <2>1, <2>3, <2>4, <2>5, <3>1
  <2>7. new = Append(old, c)
    BY <2>3, <2>5, <2>6, SeqEqual
  <2> QED BY <2>4, <2>7
<1> HIDE DEF old, new, rs
<1>6. FlattenSeq(Append(old, Ink(t))) = FlattenSeq(old) \o Ink(t)
  BY <1>2, <1>3, FlattenAppend DEF CharSeqs
<1>7. FlattenSeq(old) \in CharSeqs
  BY <1>3, FlattenFacts DEF IsFlattening, CharSeqs
<1>8. InksOf(ts) = FlattenSeq(old) /\ InksOf(rs) = FlattenSeq(new)
  BY DEF InksOf, old, new, n
<1> QED BY <1>5, <1>6, <1>7, <1>8 DEF rs

(* No texts have no ink.                                                   *)
LEMMA InksOfNone == InksOf(<<>>) = <<>>
<1>1. [i \in 1 .. Len(<<>>) |-> Ink(<<>>[i])] = <<>>
  OBVIOUS
<1>2. FlattenSeq(<<>>) = <<>>
  <2>1. <<>> \in Seq({})
    OBVIOUS
  <2> QED BY <2>1, FlattenFew
<1> QED BY <1>1, <1>2 DEF InksOf

(* Of two sequences of texts the ink of each.                              *)
LEMMA InksConcat ==
    ASSUME NEW rs \in Seq(CharSeqs), NEW ts \in Seq(CharSeqs)
    PROVE  InksOf(rs \o ts) = InksOf(rs) \o InksOf(ts)
<1> DEFINE pre(k) == SubSeq(ts, 1, k)
           before == InksOf(rs)
           P == {k \in 0 .. Len(ts) : InksOf(rs \o pre(k)) = before \o InksOf(pre(k))}
<1>0. Len(ts) \in Nat /\ before \in CharSeqs
  <2>1. <<>> \in CharSeqs
    BY DEF CharSeqs
  <2> QED BY <2>1, InksAppend
<1>1. 0 \in P
  <2>1. pre(0) = <<>> /\ rs \o <<>> = rs
    OBVIOUS
  <2> HIDE DEF before, pre
  <2>2. InksOf(<<>>) = <<>> /\ before \o <<>> = before
    BY <1>0, InksOfNone, ConcatEmptySeq DEF CharSeqs
  <2>3. InksOf(rs \o pre(0)) = before \o InksOf(pre(0))
    BY <2>1, <2>2 DEF before
  <2> QED BY <1>0, <2>3
<1>2. ASSUME NEW k \in 1 .. Len(ts), k - 1 \in P PROVE k \in P
  <2> DEFINE p == pre(k - 1)
             e == ts[k]
             r == InksOf(p)
             i == Ink(e)
  <2>1. p \in Seq(CharSeqs) /\ e \in CharSeqs /\ pre(k) = Append(p, e)
    BY PrefixGrows
  <2>2. InksOf(rs \o p) = before \o r
    BY <1>2
  <2> HIDE DEF p, e, pre, before, P
  <2>3. r \in CharSeqs /\ i \in CharSeqs /\ before \in CharSeqs
    <3>1. r \in CharSeqs
      BY <2>1, InksAppend
    <3>2. i \in CharSeqs
      BY <2>1, InkConcat
    <3> QED BY <1>0, <3>1, <3>2
  <2> HIDE DEF r, i
  <2>4. rs \o Append(p, e) = Append(rs \o p, e) /\ rs \o p \in Seq(CharSeqs)
    <3>1. p \in Seq(CharSeqs) /\ e \in CharSeqs /\ rs \in Seq(CharSeqs)
      BY <2>1
    <3> QED BY <3>1, ConcatAppend
  <2>5. InksOf(Append(rs \o p, e)) = InksOf(rs \o p) \o i
    BY <2>1, <2>4, InksAppend DEF i
  <2>6. InksOf(Append(p, e)) = r \o i
    BY <2>1, InksAppend DEF r, i
  <2>7. (before \o r) \o i = before \o (r \o i)
    <3>1. IsGrouped(CharClasses)
      BY Grouping
    <3> QED BY <2>3, <3>1, Zenon DEF IsGrouped, CharSeqs
  <2>8. InksOf(rs \o pre(k)) = before \o InksOf(pre(k))
    BY <2>1, <2>2, <2>4, <2>5, <2>6, <2>7
  <2> QED BY <2>8 DEF P
<1> HIDE DEF P
<1>3. Len(ts) \in P
  <2>1. \A k \in 0 .. Len(ts) : k \in P
    BY <1>0, <1>1, <1>2, Induction
  <2> QED BY <1>0, <2>1
<1>4. pre(Len(ts)) = ts
  OBVIOUS
<1> QED BY <1>3, <1>4 DEF P

(* What is joined after each part.                                         *)
IsJoin(f, parts) ==
    /\ f[0] = <<>> /\ \A k \in 0 .. Len(parts) : f[k] \in CharSeqs
    /\ \A k \in 1 .. Len(parts) : f[k] = JoinLine(f[k - 1], parts[k])

(* The parts are joined one by one.                                        *)
LEMMA JoinRuns ==
    ASSUME NEW parts \in Seq(CharSeqs)
    PROVE  \E f : IsJoin(f, parts) /\ JoinLines(parts) = f[Len(parts)]
<1> DEFINE n == Len(parts)
           V == CharSeqs
           base == <<>>
           Step(k, q) == JoinLine(q, parts[k])
           Runs(f) == [k \in 0 .. n |-> IF k = 0 THEN base ELSE Step(k, f[k - 1])]
           run == CHOOSE f : f = Runs(f)
           G == [k \in 1 .. n |-> [q \in V |-> Step(k, q)]]
<1>1. n \in Nat /\ base \in V /\ \A k \in 1 .. n, q \in V : Step(k, q) \in V
  <2>1. \A k \in 1 .. n : parts[k] \in CharSeqs
    OBVIOUS
  <2>2. <<>> \in CharSeqs /\ <<"n">> \in CharSeqs
    BY Newline
  <2>3. ASSUME NEW q \in CharSeqs, NEW p \in CharSeqs PROVE JoinLine(q, p) \in CharSeqs
    BY <2>2, InkConcat DEF JoinLine
  <2> QED BY <2>1, <2>2, <2>3
<1>2. JoinLines(parts) = run[n]
  BY DEF JoinLines
<1> HIDE DEF n, V, base, Step
<1>3. G \in [1 .. n -> [V -> V]] /\ \A k \in 1 .. n, q \in V : G[k][q] = Step(k, q)
  BY <1>1
<1>4. \E f : f = Runs(f)
  <2> HIDE DEF G
  <2>1. PICK f : IsIteration(f, G, base, n, V)
    BY <1>1, <1>3, Iterates
  <2>2. f \in [0 .. n -> V] /\ f[0] = base /\ \A k \in 1 .. n : f[k] = G[k][f[k - 1]]
    BY <2>1 DEF IsIteration
  <2>3. \A k \in 1 .. n : f[k] = Step(k, f[k - 1])
    <3> TAKE k \in 1 .. n
    <3>1. f[k - 1] \in V
      BY <1>1, <2>2
    <3> QED BY <1>3, <2>2, <3>1
  <2>4. f = Runs(f)
    BY <2>2, <2>3
  <2> QED BY <2>4
<1>5. run = Runs(run)
  BY <1>4
<1> HIDE DEF run, G
<1>6. run[0] = base /\ \A k \in 1 .. n : run[k] = Step(k, run[k - 1])
  BY <1>1, <1>5
<1>7. \A k \in 0 .. n : run[k] \in V
  <2>1. run[0] \in V /\ \A k \in 1 .. n : run[k - 1] \in V => run[k] \in V
    BY <1>1, <1>6
  <2> QED BY <1>1, <2>1, ValuesIn
<1>8. IsJoin(run, parts)
  BY <1>6, <1>7 DEF IsJoin, n, V, base, Step
<1> QED BY <1>2, <1>8 DEF n

(* The join of one part more is one step of the loop.                      *)
LEMMA JoinGrows ==
    ASSUME NEW ps \in Seq(CharSeqs), NEW p \in CharSeqs
    PROVE  /\ JoinLines(ps) \in CharSeqs
           /\ JoinLines(Append(ps, p)) = JoinLine(JoinLines(ps), p)
<1> DEFINE qs == Append(ps, p)
           m == Len(ps)
<1>1. /\ qs \in Seq(CharSeqs) /\ m \in Nat /\ Len(qs) = m + 1 /\ qs[m + 1] = p
      /\ \A i \in 1 .. m : qs[i] = ps[i]
  OBVIOUS
<1> HIDE DEF qs
<1>2. PICK f : IsJoin(f, ps) /\ JoinLines(ps) = f[Len(ps)]
  BY JoinRuns
<1>3. PICK g : IsJoin(g, qs) /\ JoinLines(qs) = g[Len(qs)]
  BY <1>1, JoinRuns
<1>4. g[m] = f[m]
  <2> DEFINE P == {i \in 0 .. m : g[i] = f[i]}
  <2>1. 0 \in P
    BY <1>1, <1>2, <1>3 DEF IsJoin
  <2>2. ASSUME NEW i \in 1 .. m, i - 1 \in P PROVE i \in P
    <3>1. f[i] = JoinLine(f[i - 1], ps[i]) /\ g[i] = JoinLine(g[i - 1], qs[i]) /\ qs[i] = ps[i]
      <4>1. i \in 1 .. Len(qs)
        BY <1>1
      <4> QED BY <1>1, <1>2, <1>3, <4>1 DEF IsJoin
    <3>2. g[i - 1] = f[i - 1]
      BY <2>2
    <3>3. g[i] = f[i]
      BY <3>1, <3>2
    <3> QED BY <3>3
  <2> HIDE DEF P
  <2>3. \A i \in 0 .. m : i \in P
    BY <1>1, <2>1, <2>2, Induction
  <2> QED BY <1>1, <2>3 DEF P
<1>5. g[m + 1] = JoinLine(g[m], p)
  <2>1. m + 1 \in 1 .. Len(qs) /\ (m + 1) - 1 = m
    BY <1>1
  <2>2. g[m + 1] = JoinLine(g[(m + 1) - 1], qs[m + 1])
    BY <1>3, <2>1 DEF IsJoin
  <2> QED BY <1>1, <2>1, <2>2
<1>6. f[m] \in CharSeqs
  BY <1>1, <1>2 DEF IsJoin
<1> QED BY <1>1, <1>2, <1>3, <1>4, <1>5, <1>6 DEF qs

(* The join of no parts is empty.                                          *)
LEMMA JoinOfNone == JoinLines(<<>>) = <<>>
<1>1. <<>> \in Seq(CharSeqs) /\ Len(<<>>) = 0
  OBVIOUS
<1> DEFINE s == <<>>
<1> HIDE DEF s
<1>2. PICK f : IsJoin(f, s) /\ JoinLines(s) = f[Len(s)]
  BY <1>1, JoinRuns DEF s
<1> QED BY <1>1, <1>2 DEF IsJoin, s

(* A line more adds its ink, and a newline to the length.                  *)
LEMMA JoinLineFacts ==
    ASSUME NEW q \in CharSeqs, NEW p \in CharSeqs
    PROVE  /\ Ink(JoinLine(q, p)) = Ink(q) \o Ink(p)
           /\ Len(JoinLine(q, p)) <= Len(q) + 1 + Len(p)
<1> DEFINE newline == <<"n">>
<1>1. newline \in CharSeqs /\ Len(newline) = 1
  BY Newline
<1>2. Ink(newline) = <<>>
  BY InkOfNothing
<1> HIDE DEF newline
<1>3. Ink(q) \in CharSeqs /\ Ink(p) \in CharSeqs
  BY InkConcat
<1>4. CASE q = <<>>
  <2>1. Ink(q) = <<>> /\ <<>> \o Ink(p) = Ink(p) /\ Len(q) = 0 /\ Len(p) \in Nat
    BY <1>3, <1>4, InkOfNothing, ConcatEmptySeq DEF CharSeqs
  <2>2. JoinLine(q, p) = p
    BY <1>4 DEF JoinLine
  <2> QED BY <2>1, <2>2
<1>5. CASE q # <<>>
  <2>1. JoinLine(q, p) = (q \o newline) \o p
    <3>1. IsGrouped(CharClasses)
      BY Grouping
    <3>2. q \o (newline \o p) = (q \o newline) \o p
      BY <1>1, <3>1, Zenon DEF IsGrouped, CharSeqs
    <3>3. JoinLine(q, p) = q \o newline \o p
      BY <1>5 DEF JoinLine, newline
    <3> QED BY <3>3
  <2>2. q \o newline \in CharSeqs /\ Ink(q \o newline) = Ink(q) \o <<>>
    <3>1. q \o newline \in CharSeqs /\ Ink(q \o newline) = Ink(q) \o Ink(newline)
      BY <1>1, InkConcat
    <3> QED BY <1>2, <3>1
  <2>3. Ink(q) \o <<>> = Ink(q)
    BY <1>3, ConcatEmptySeq DEF CharSeqs
  <2>4. Ink((q \o newline) \o p) = Ink(q \o newline) \o Ink(p)
    BY <2>2, InkConcat
  <2>5. Len((q \o newline) \o p) = Len(q) + 1 + Len(p)
    BY SMTT(30), <1>1, <2>2, ConcatProperties DEF CharSeqs
  <2>6. Len(q) \in Nat /\ Len(p) \in Nat
    BY DEF CharSeqs
  <2> QED BY <2>1, <2>2, <2>3, <2>4, <2>5, <2>6
<1> QED BY <1>4, <1>5

(* The ink of lines joined is that of the lines.                           *)
LEMMA InkOfJoined ==
    ASSUME NEW ps \in Seq(CharSeqs)
    PROVE  Ink(JoinLines(ps)) = InksOf(ps)
<1> DEFINE pre(k) == SubSeq(ps, 1, k)
           P == {k \in 0 .. Len(ps) : Ink(JoinLines(pre(k))) = InksOf(pre(k))}
<1>0. Len(ps) \in Nat
  OBVIOUS
<1>1. 0 \in P
  <2>1. pre(0) = <<>>
    OBVIOUS
  <2> HIDE DEF pre
  <2> QED BY <1>0, <2>1, JoinOfNone, InksOfNone, InkOfNothing
<1>2. ASSUME NEW k \in 1 .. Len(ps), k - 1 \in P PROVE k \in P
  <2> DEFINE p == pre(k - 1)
             e == ps[k]
  <2>1. p \in Seq(CharSeqs) /\ e \in CharSeqs /\ pre(k) = Append(p, e)
    BY PrefixGrows
  <2>2. Ink(JoinLines(p)) = InksOf(p)
    BY <1>2
  <2> HIDE DEF p, e, pre
  <2>3. Ink(JoinLines(Append(p, e))) = Ink(JoinLines(p)) \o Ink(e)
    BY <2>1, JoinGrows, JoinLineFacts
  <2>4. InksOf(Append(p, e)) = InksOf(p) \o Ink(e)
    BY <2>1, InksAppend
  <2>5. Ink(JoinLines(pre(k))) = InksOf(pre(k))
    BY <2>1, <2>2, <2>3, <2>4
  <2> QED BY <2>5
<1> HIDE DEF P
<1>3. Len(ps) \in P
  <2>1. \A k \in 0 .. Len(ps) : k \in P
    BY <1>0, <1>1, <1>2, Induction
  <2> QED BY <1>0, <2>1
<1>4. pre(Len(ps)) = ps
  OBVIOUS
<1> QED BY <1>3, <1>4 DEF P
-----------------------------------------------------------------------------
(* Lines and pieces.                                                       *)

(* A sequence is what is before its last element, and that element.        *)
LEMMA FrontLast ==
    ASSUME NEW T, NEW s \in Seq(T), s # <<>>
    PROVE  /\ Front(s) \in Seq(T) /\ Last(s) \in T /\ Len(s) \in Nat \ {0}
           /\ s = Append(Front(s), Last(s)) /\ Last(s) = s[Len(s)]
           /\ \A x \in T : [s EXCEPT ![Len(s)] = x] = Append(Front(s), x)
<1> DEFINE n == Len(s)
           q == SubSeq(s, 1, n - 1)
<1>1. n \in Nat \ {0} /\ (\A i \in 1 .. n : s[i] \in T) /\ DOMAIN s = 1 .. n /\ s = [i \in 1 .. n |-> s[i]]
  OBVIOUS
<1>2. Front(s) = q /\ Last(s) = s[n]
  BY DEF Front, Last
<1>3. q \in Seq(T) /\ Len(q) = n - 1 /\ \A i \in 1 .. n - 1 : q[i] = s[i]
  <2>1. 1 \in 1 .. Len(s) + 1 /\ n - 1 \in 1 - 1 .. Len(s)
    BY <1>1
  <2>2. \A i \in 1 .. n - 1 : 1 + i - 1 = i
    BY <1>1
  <2>3. (n - 1) - 1 + 1 = n - 1
    BY <1>1
  <2>4. /\ SubSeq(s, 1, n - 1) \in Seq(T) /\ Len(SubSeq(s, 1, n - 1)) = (n - 1) - 1 + 1
        /\ \A i \in 1 .. (n - 1) - 1 + 1 : SubSeq(s, 1, n - 1)[i] = s[1 + i - 1]
    BY <2>1, PieceFacts
  <2> QED BY <2>2, <2>3, <2>4
<1> HIDE DEF q
<1>4. ASSUME NEW x \in T PROVE [s EXCEPT ![n] = x] = Append(q, x)
  <2> DEFINE e == [s EXCEPT ![n] = x]
  <2>1. e = [i \in 1 .. n |-> IF i = n THEN x ELSE s[i]]
    BY <1>1
  <2>2. e \in Seq(T) /\ Len(e) = n
    <3>1. \A i \in 1 .. n : (IF i = n THEN x ELSE s[i]) \in T
      BY <1>1
    <3> HIDE DEF n, e
    <3> QED BY <1>1, <2>1, <3>1
  <2>3. Append(q, x) \in Seq(T) /\ Len(Append(q, x)) = n /\ Append(q, x)[n] = x
        /\ \A i \in 1 .. n - 1 : Append(q, x)[i] = q[i]
    <3>1. /\ Append(q, x) \in Seq(T) /\ Len(Append(q, x)) = Len(q) + 1
          /\ Append(q, x)[Len(q) + 1] = x /\ \A i \in 1 .. Len(q) : Append(q, x)[i] = q[i]
      BY <1>3, AppendProperties
    <3>2. Len(q) + 1 = n
      BY <1>1, <1>3
    <3> QED BY <1>3, <3>1, <3>2
  <2>4. \A i \in 1 .. Len(e) : e[i] = Append(q, x)[i]
    <3>1. \A i \in 1 .. n : i = n \/ i \in 1 .. n - 1
      BY <1>1
    <3>2. \A i \in 1 .. n : e[i] = IF i = n THEN x ELSE s[i]
      BY <2>1
    <3> HIDE DEF n, e
    <3> QED BY <1>3, <2>2, <2>3, <3>1, <3>2
  <2> HIDE DEF e
  <2>5. e = Append(q, x)
    BY <2>2, <2>3, <2>4, SeqEqual
  <2> QED BY <2>5 DEF e
<1>5. s = Append(q, s[n])
  <2>1. s = [s EXCEPT ![n] = s[n]] /\ s[n] \in T
    BY <1>1
  <2> QED BY <1>4, <2>1
<1>6. Last(s) \in T
  BY <1>1, <1>2
<1> QED BY <1>1, <1>2, <1>3, <1>4, <1>5, <1>6

(* A character more adds its ink.                                          *)
LEMMA InkAppend ==
    ASSUME NEW t \in CharSeqs, NEW c \in CharClasses
    PROVE  /\ <<c>> \in CharSeqs /\ Append(t, c) \in CharSeqs
           /\ Ink(<<c>>) \in CharSeqs /\ Ink(Append(t, c)) = Ink(t) \o Ink(<<c>>)
<1>1. <<c>> \in CharSeqs /\ Append(t, c) = t \o <<c>>
  <2> HIDE DEF CharClasses
  <2> QED BY DEF CharSeqs
<1> QED BY <1>1, InkConcat

(* The ink of a prefix grows by that of its last character.                *)
LEMMA PrefixInk ==
    ASSUME NEW t \in CharSeqs, NEW k \in 1 .. Len(t)
    PROVE  /\ t[k] \in CharClasses /\ SubSeq(t, 1, k - 1) \in CharSeqs
           /\ Ink(SubSeq(t, 1, k)) = Ink(SubSeq(t, 1, k - 1)) \o Ink(<<t[k]>>)
<1>1. t \in Seq(CharClasses)
  BY DEF CharSeqs
<1>2. /\ SubSeq(t, 1, k - 1) \in Seq(CharClasses) /\ t[k] \in CharClasses
      /\ SubSeq(t, 1, k) = Append(SubSeq(t, 1, k - 1), t[k])
  BY <1>1, PrefixGrows
<1>3. SubSeq(t, 1, k - 1) \in CharSeqs
  BY <1>2 DEF CharSeqs
<1> QED BY <1>2, <1>3, InkAppend

(* The last of the lines takes the character, or a new line begins.        *)
LEMMA AddCharFacts ==
    ASSUME NEW ls \in Seq(CharSeqs), ls # <<>>, NEW c \in CharClasses
    PROVE  /\ AddChar(ls, c) \in Seq(CharSeqs) /\ AddChar(ls, c) # <<>>
           /\ InksOf(AddChar(ls, c)) = InksOf(ls) \o Ink(<<c>>)
<1>1. InksOf(ls) \in CharSeqs
  <2>1. <<>> \in CharSeqs
    BY Newline
  <2> QED BY <2>1, InksAppend
<1>2. CASE c = "n"
  <2>1. AddChar(ls, c) = Append(ls, <<>>)
    BY <1>2 DEF AddChar
  <2>2. Append(ls, <<>>) \in Seq(CharSeqs) /\ Append(ls, <<>>) # <<>>
    BY Newline, AppendProperties
  <2>3. InksOf(Append(ls, <<>>)) = InksOf(ls) \o Ink(<<>>)
    BY Newline, InksAppend
  <2>4. Ink(<<>>) = Ink(<<c>>)
    BY <1>2, InkOfNothing
  <2> QED BY <2>1, <2>2, <2>3, <2>4
<1>3. CASE c # "n"
  <2> DEFINE f == Front(ls)
             l == Last(ls)
             m == Append(l, c)
  <2>1. f \in Seq(CharSeqs) /\ l \in CharSeqs /\ ls = Append(f, l) /\ l = ls[Len(ls)]
        /\ \A x \in CharSeqs : [ls EXCEPT ![Len(ls)] = x] = Append(f, x)
    BY FrontLast
  <2>2. m \in CharSeqs /\ Ink(m) = Ink(l) \o Ink(<<c>>) /\ Ink(<<c>>) \in CharSeqs
    BY <2>1, InkAppend
  <2>3. AddChar(ls, c) = Append(f, m)
    <3>1. AddChar(ls, c) = [ls EXCEPT ![Len(ls)] = m]
      BY <1>3, <2>1 DEF AddChar
    <3> HIDE DEF m, f, l
    <3> QED BY <2>1, <2>2, <3>1
  <2> HIDE DEF m, f, l
  <2>4. Append(f, m) \in Seq(CharSeqs) /\ Append(f, m) # <<>>
    BY <2>1, <2>2, AppendProperties
  <2>5. InksOf(f) \in CharSeqs /\ InksOf(Append(f, m)) = InksOf(f) \o Ink(m)
    BY <2>1, <2>2, InksAppend
  <2>6. InksOf(ls) = InksOf(f) \o Ink(l) /\ Ink(l) \in CharSeqs
    BY <2>1, InksAppend, InkConcat
  <2>7. InksOf(f) \o (Ink(l) \o Ink(<<c>>)) = (InksOf(f) \o Ink(l)) \o Ink(<<c>>)
    <3>1. IsGrouped(CharClasses)
      BY Grouping
    <3> QED BY <2>2, <2>5, <2>6, <3>1, Zenon DEF IsGrouped, CharSeqs
  <2> QED BY <2>2, <2>3, <2>4, <2>5, <2>6, <2>7
<1> QED BY <1>2, <1>3

(* The lines after each character.                                         *)
IsLining(f, text) ==
    /\ f[0] = << <<>> >> /\ \A k \in 0 .. Len(text) : f[k] \in Seq(CharSeqs) \ {<<>>}
    /\ \A k \in 1 .. Len(text) : f[k] = AddChar(f[k - 1], text[k])

(* The characters are put into lines one by one.                           *)
LEMMA LineRuns ==
    ASSUME NEW text \in CharSeqs
    PROVE  \E f : IsLining(f, text) /\ LinesOf(text) = f[Len(text)]
<1> DEFINE n == Len(text)
           V == Seq(CharSeqs) \ {<<>>}
           base == << <<>> >>
           Step(k, q) == AddChar(q, text[k])
           Runs(f) == [k \in 0 .. n |-> IF k = 0 THEN base ELSE Step(k, f[k - 1])]
           run == CHOOSE f : f = Runs(f)
           G == [k \in 1 .. n |-> [q \in V |-> Step(k, q)]]
<1>1. n \in Nat /\ base \in V /\ \A k \in 1 .. n, q \in V : Step(k, q) \in V
  <2>1. n \in Nat /\ \A k \in 1 .. n : text[k] \in CharClasses
    BY DEF CharSeqs
  <2>2. base \in V
    <3>1. <<>> \in CharSeqs
      BY Newline
    <3> QED BY <3>1
  <2> QED BY <2>1, <2>2, AddCharFacts
<1>2. LinesOf(text) = run[n]
  BY DEF LinesOf
<1> HIDE DEF n, V, base, Step
<1>3. G \in [1 .. n -> [V -> V]] /\ \A k \in 1 .. n, q \in V : G[k][q] = Step(k, q)
  BY <1>1
<1>4. \E f : f = Runs(f)
  <2> HIDE DEF G
  <2>1. PICK f : IsIteration(f, G, base, n, V)
    BY <1>1, <1>3, Iterates
  <2>2. f \in [0 .. n -> V] /\ f[0] = base /\ \A k \in 1 .. n : f[k] = G[k][f[k - 1]]
    BY <2>1 DEF IsIteration
  <2>3. \A k \in 1 .. n : f[k] = Step(k, f[k - 1])
    <3> TAKE k \in 1 .. n
    <3>1. f[k - 1] \in V
      BY <1>1, <2>2
    <3> QED BY <1>3, <2>2, <3>1
  <2>4. f = Runs(f)
    BY <2>2, <2>3
  <2> QED BY <2>4
<1>5. run = Runs(run)
  BY <1>4
<1> HIDE DEF run, G
<1>6. run[0] = base /\ \A k \in 1 .. n : run[k] = Step(k, run[k - 1])
  BY <1>1, <1>5
<1>7. \A k \in 0 .. n : run[k] \in V
  <2>1. run[0] \in V /\ \A k \in 1 .. n : run[k - 1] \in V => run[k] \in V
    BY <1>1, <1>6
  <2> QED BY <1>1, <2>1, ValuesIn
<1>8. IsLining(run, text)
  BY <1>6, <1>7 DEF IsLining, n, V, base, Step
<1> QED BY <1>2, <1>8 DEF n

(* Splitting a text into lines loses none of its ink.                      *)
LEMMA LinesKeep ==
    ASSUME NEW text \in CharSeqs
    PROVE  LinesOf(text) \in Seq(CharSeqs) /\ InksOf(LinesOf(text)) = Ink(text)
<1> DEFINE n == Len(text)
           pre(k) == SubSeq(text, 1, k)
<1>1. n \in Nat /\ text \in Seq(CharClasses)
  BY DEF CharSeqs
<1>2. PICK f : IsLining(f, text) /\ LinesOf(text) = f[Len(text)]
  BY LineRuns
<1> DEFINE P == {k \in 0 .. n : InksOf(f[k]) = Ink(pre(k))}
<1>3. 0 \in P
  <2>1. pre(0) = <<>>
    BY <1>1
  <2>2. f[0] = Append(<<>>, <<>>)
    BY <1>2 DEF IsLining
  <2>3. InksOf(Append(<<>>, <<>>)) = InksOf(<<>>) \o Ink(<<>>)
    <3>1. <<>> \in Seq(CharSeqs) /\ <<>> \in CharSeqs
      BY Newline
    <3> QED BY <3>1, InksAppend
  <2>4. InksOf(<<>>) \o Ink(<<>>) = <<>>
    BY InksOfNone, InkOfNothing
  <2> HIDE DEF pre
  <2> QED BY SMTT(30), <1>1, <2>1, <2>2, <2>3, <2>4, InkOfNothing
<1>4. ASSUME NEW k \in 1 .. n, k - 1 \in P PROVE k \in P
  <2>1. k - 1 \in 0 .. Len(text) /\ k \in 1 .. Len(text)
    BY <1>1
  <2>2. f[k - 1] \in Seq(CharSeqs) /\ f[k - 1] # <<>> /\ f[k] = AddChar(f[k - 1], text[k])
    BY <1>2, <2>1 DEF IsLining
  <2>3. text[k] \in CharClasses /\ Ink(pre(k)) = Ink(pre(k - 1)) \o Ink(<<text[k]>>)
    BY <2>1, PrefixInk
  <2>4. InksOf(f[k - 1]) = Ink(pre(k - 1))
    BY <1>4
  <2> HIDE DEF pre
  <2>5. InksOf(f[k]) = InksOf(f[k - 1]) \o Ink(<<text[k]>>)
    BY <2>2, <2>3, AddCharFacts
  <2>6. InksOf(f[k]) = Ink(pre(k))
    BY <2>3, <2>4, <2>5
  <2> QED BY <2>6
<1> HIDE DEF P
<1>5. n \in P
  <2>1. \A k \in 0 .. n : k \in P
    <3> HIDE DEF n
    <3> QED BY <1>1, <1>3, <1>4, Induction
  <2> QED BY <1>1, <2>1
<1>6. pre(n) = text
  BY <1>1
<1>7. f[n] \in Seq(CharSeqs)
  BY <1>1, <1>2 DEF IsLining
<1> QED BY <1>2, <1>5, <1>6, <1>7 DEF P

(* A piece ends after its start, and within the budget.                    *)
LEMMA PieceEnds ==
    ASSUME NEW text \in CharSeqs, NEW start \in 0 .. Len(text), start # Len(text)
    PROVE  /\ PieceEnd(text, start) \in start + 1 .. Len(text)
           /\ PieceEnd(text, start) <= start + MaxTokens * CharsPerToken
<1> DEFINE n == Len(text)
           step == MaxTokens * CharsPerToken
           hard == Min({start + step, n})
           end == _find_safe_boundary(text, hard)
<1>1. n \in Nat /\ step \in Nat /\ 1 <= step /\ start \in Nat /\ start < n
  <2>1. MaxTokens \in Nat \ {0} /\ CharsPerToken \in Nat \ {0}
    BY ChunkerAssumption
  <2>2. step \in Nat \ {0}
    BY <2>1
  <2>3. n \in Nat
    BY DEF CharSeqs
  <2> HIDE DEF step, n
  <2> QED BY <2>2, <2>3 DEF n
<1> HIDE DEF step, n
<1>2. hard \in {start + step, n} /\ hard <= start + step /\ hard <= n
  <2>1. start + step \in Nat /\ {start + step, n} # {}
    BY <1>1
  <2>2. {start + step, n} \in SUBSET (0 .. start + step + n) /\ start + step + n \in Nat
    BY <1>1
  <2> QED BY <2>1, <2>2, MinMax
<1>3. hard \in start + 1 .. n /\ hard <= start + step
  BY <1>1, <1>2
<1> HIDE DEF hard
<1>4. end \in Int /\ end <= hard
  <2> DEFINE from == WindowStart(hard)
             cluster == Max({from} \cup {i \in from + 1 .. hard - 1 : text[i + 1] \notin {"1", "."}})
             safe == {i \in from .. hard - 1 : SafeChar(text[i + 1])}
  <2>1. from \in 0 .. hard
    <3> DEFINE q == hard \div LookbackDivisor
               back == Max({MinLookback, q})
    <3>1. hard \in Nat /\ MinLookback \in Nat /\ LookbackDivisor \in Nat \ {0}
      BY <1>1, <1>3, ChunkerAssumption
    <3>2. q \in Nat
      BY <3>1, Quotient
    <3> HIDE DEF q
    <3>3. back \in Nat
      <4>1. {MinLookback, q} \in SUBSET (0 .. MinLookback + q) /\ {MinLookback, q} # {} /\ MinLookback + q \in Nat
        BY <3>1, <3>2
      <4> QED BY <3>1, <3>2, <4>1, MinMax
    <3>4. from = Max({0, hard - back})
      BY DEF WindowStart, q
    <3> HIDE DEF back, from
    <3>5. CASE back <= hard
      <4>1. {0, hard - back} \in SUBSET (0 .. hard) /\ {0, hard - back} # {}
        BY <3>1, <3>3, <3>5
      <4>2. Max({0, hard - back}) \in {0, hard - back}
        BY <3>1, <4>1, MinMax
      <4> QED BY <3>1, <3>4, <4>1, <4>2
    <3>6. CASE hard < back
      <4>1. hard - back \in Int /\ hard - back < 0
        BY <3>1, <3>3, <3>6
      <4>2. Max({0, hard - back}) = 0
        BY <4>1 DEF Max
      <4> QED BY <3>1, <3>4, <4>2
    <3> QED BY <3>1, <3>3, <3>5, <3>6
  <2>2. end = CASE hard <= 0 \/ hard >= Len(text) -> hard
                [] hard \in 1 .. Len(text) - 1 /\ cluster + 1 < hard /\ SafeChar(text[cluster + 1])
                      -> cluster + 1
                [] OTHER -> IF safe = {} THEN hard ELSE Max(safe) + 1
    BY DEF _find_safe_boundary
  <2>3. cluster \in Nat
    <3> DEFINE S == {from} \cup {i \in from + 1 .. hard - 1 : text[i + 1] \notin {"1", "."}}
    <3>1. S \in SUBSET (0 .. hard) /\ S # {}
      <4> HIDE DEF from
      <4>1. {i \in from + 1 .. hard - 1 : text[i + 1] \notin {"1", "."}} \subseteq 0 .. hard
        BY <1>1, <1>3, <2>1
      <4> QED BY <2>1, <4>1
    <3> HIDE DEF S
    <3>2. hard \in Nat /\ Max(S) \in S
      BY <1>1, <1>3, <3>1, MinMax
    <3>3. Max(S) \in Nat
      <4>1. Max(S) \in 0 .. hard
        BY <3>1, <3>2
      <4> QED BY <3>2, <4>1
    <3> QED BY <3>3 DEF S
  <2>4. safe # {} => Max(safe) \in from .. hard - 1
    <3>1. safe \in SUBSET (0 .. hard)
      <4> HIDE DEF from
      <4> QED BY <1>1, <1>3, <2>1
    <3>2. \A i \in safe : i \in from .. hard - 1
      OBVIOUS
    <3> HIDE DEF safe, from
    <3>3. ASSUME safe # {} PROVE Max(safe) \in safe
      <4>1. hard \in Nat
        BY <1>1, <1>3
      <4> QED BY <3>1, <3>3, <4>1, MinMax
    <3> QED BY <3>2, <3>3
  <2> HIDE DEF end, cluster, safe, from
  <2>5. CASE hard <= 0 \/ hard >= Len(text)
    BY <1>1, <1>3, <2>2, <2>5
  <2>6. CASE /\ ~(hard <= 0 \/ hard >= Len(text))
             /\ hard \in 1 .. Len(text) - 1 /\ cluster + 1 < hard /\ SafeChar(text[cluster + 1])
    <3>1. end = cluster + 1
      BY <2>2, <2>6
    <3> QED BY <1>1, <1>3, <2>3, <2>6, <3>1
  <2>7. CASE /\ ~(hard <= 0 \/ hard >= Len(text))
             /\ ~(hard \in 1 .. Len(text) - 1 /\ cluster + 1 < hard /\ SafeChar(text[cluster + 1]))
    <3>1. end = IF safe = {} THEN hard ELSE Max(safe) + 1
      BY <2>2, <2>7
    <3> QED BY <1>1, <1>3, <2>1, <2>4, <3>1
  <2> QED BY <2>5, <2>6, <2>7
<1>5. PieceEnd(text, start) = end \/ PieceEnd(text, start) = hard
  BY DEF PieceEnd, hard, step, n
<1>6. PieceEnd(text, start) = end => end > start \/ end = hard
  BY DEF PieceEnd, hard, step, n
<1> HIDE DEF end
<1>7. PieceEnd(text, start) \in start + 1 .. n /\ PieceEnd(text, start) <= start + step
  BY <1>1, <1>3, <1>4, <1>5, <1>6
<1> QED BY <1>7 DEF n, step

(* Texts put together in either order.                                     *)
LEMMA Glue ==
    ASSUME NEW a \in CharSeqs, NEW b \in CharSeqs, NEW c \in CharSeqs
    PROVE  /\ a \o b \in CharSeqs /\ (a \o b) \o c = a \o (b \o c)
           /\ a \o <<>> = a /\ <<>> \o a = a
<1>1. a \in Seq(CharClasses) /\ b \in Seq(CharClasses) /\ c \in Seq(CharClasses)
  BY DEF CharSeqs
<1>2. IsGrouped(CharClasses)
  BY Grouping
<1>3. (a \o b) \o c = a \o (b \o c)
  BY <1>1, <1>2, Zenon DEF IsGrouped
<1>4. a \o <<>> = a /\ <<>> \o a = a
  BY <1>1, ConcatEmptySeq
<1>5. a \o b \in CharSeqs
  BY InkConcat
<1> QED BY <1>3, <1>4, <1>5

(* The ink of one text is its own.                                         *)
LEMMA InksOne ==
    ASSUME NEW t \in CharSeqs
    PROVE  <<t>> \in Seq(CharSeqs) /\ InksOf(<<t>>) = Ink(t)
<1> DEFINE none == <<>>
<1>1. none \in Seq(CharSeqs) /\ Append(none, t) = <<t>> /\ <<t>> \in Seq(CharSeqs)
  OBVIOUS
<1>2. InksOf(none) = <<>>
  BY InksOfNone
<1> HIDE DEF none
<1>3. InksOf(Append(none, t)) = InksOf(none) \o Ink(t)
  BY <1>1, InksAppend
<1>4. <<>> \o Ink(t) = Ink(t)
  <2>1. Ink(t) \in CharSeqs
    BY InkConcat
  <2> QED BY <2>1, Glue
<1> QED BY <1>1, <1>2, <1>3, <1>4

Budget == MaxTokens * CharsPerToken

(* What the cut has done of a text: everything before `start' is in the    *)
(* pieces, and each of them is within the budget.                          *)
Cuts(text) ==
    {c \in [start : 0 .. Len(text), pieces : Seq(CharSeqs)] :
        /\ InksOf(c.pieces) = Ink(SubSeq(text, 1, c.start))
        /\ \A i \in 1 .. Len(c.pieces) : Len(c.pieces[i]) <= Budget}

(* A cut begins with nothing cut off.                                      *)
LEMMA CutStart ==
    ASSUME NEW text \in CharSeqs
    PROVE  [start |-> 0, pieces |-> <<>>] \in Cuts(text)
<1>1. SubSeq(text, 1, 0) = <<>> /\ Len(text) \in Nat
  BY DEF CharSeqs
<1>2. InksOf(<<>>) = Ink(<<>>)
  BY InksOfNone, InkOfNothing
<1>3. <<>> \in Seq(CharSeqs) /\ Len(<<>>) = 0
  OBVIOUS
<1> DEFINE c == [start |-> 0, pieces |-> <<>>]
<1>4. c.start = 0 /\ c.pieces = <<>> /\ c \in [start : 0 .. Len(text), pieces : Seq(CharSeqs)]
  BY <1>1, <1>3
<1> HIDE DEF c
<1>5. c \in Cuts(text)
  <2>1. InksOf(c.pieces) = Ink(SubSeq(text, 1, c.start))
    BY <1>1, <1>2, <1>4
  <2>2. \A i \in 1 .. Len(c.pieces) : Len(c.pieces[i]) <= Budget
    <3>1. Len(c.pieces) = 0
      BY <1>3, <1>4
    <3>2. 1 .. 0 = {}
      OBVIOUS
    <3> QED BY <3>1, <3>2
  <2> QED BY <1>4, <2>1, <2>2 DEF Cuts
<1> QED BY <1>5 DEF c

(* A step of the cut takes one piece off the rest, and stops at the end of *)
(* the text.                                                               *)
LEMMA CutOneFacts ==
    ASSUME NEW text \in CharSeqs, NEW c \in Cuts(text)
    PROVE  /\ CutOne(text, c) \in Cuts(text)
           /\ c.start # Len(text) => CutOne(text, c).start > c.start
           /\ c.start = Len(text) => CutOne(text, c) = c
<1> DEFINE start == c.start
           end == PieceEnd(text, start)
           piece == SubSeq(text, start + 1, end)
           d == CutOne(text, c)
           n == Len(text)
<1>1. /\ start \in 0 .. n /\ c.pieces \in Seq(CharSeqs) /\ n \in Nat /\ text \in Seq(CharClasses)
      /\ InksOf(c.pieces) = Ink(SubSeq(text, 1, start))
      /\ \A i \in 1 .. Len(c.pieces) : Len(c.pieces[i]) <= Budget
  BY DEF Cuts, CharSeqs
<1>2. CASE start = n
  <2>1. d = c
    BY <1>2 DEF CutOne
  <2> QED BY <1>2, <2>1
<1>3. CASE start # n
  <2>1. d = [start |-> end, pieces |-> IF Blank(piece) THEN c.pieces ELSE Append(c.pieces, piece)]
    BY <1>3 DEF CutOne
  <2>2. end \in start + 1 .. n /\ end <= start + Budget
    BY <1>1, <1>3, PieceEnds DEF Budget
  <2> HIDE DEF start, end, n, d
  <2>3. piece \in CharSeqs /\ Len(piece) <= Budget
    <3>1. PICK m \in Nat : m = start + 1
      BY <1>1
    <3>2. m \in 1 .. Len(text) + 1 /\ end \in m - 1 .. Len(text) /\ piece = SubSeq(text, m, end)
      BY <1>1, <2>2, <3>1 DEF n
    <3> HIDE DEF piece
    <3>3. piece \in Seq(CharClasses) /\ Len(piece) = end - m + 1
      BY <1>1, <3>2, PieceFacts
    <3>4. Budget \in Nat
      BY ChunkerAssumption DEF Budget
    <3> QED BY <1>1, <2>2, <3>1, <3>3, <3>4 DEF CharSeqs
  <2> HIDE DEF piece
  <2>4. Ink(SubSeq(text, 1, end)) = Ink(SubSeq(text, 1, start)) \o Ink(piece)
    <3>1. 1 \in 1 .. Len(text) + 1 /\ start \in 1 - 1 .. Len(text) /\ end \in start .. Len(text)
      BY <1>1, <2>2 DEF n
    <3>2. SubSeq(text, 1, start) \o SubSeq(text, start + 1, end) = SubSeq(text, 1, end)
      BY <1>1, <3>1, ConcatAdjacentSubSeq
    <3>3. SubSeq(text, 1, start) \in CharSeqs
      BY <1>1, <3>1, PieceFacts DEF CharSeqs
    <3> QED BY <2>3, <3>2, <3>3, InkConcat DEF piece
  <2> DEFINE ps == IF Blank(piece) THEN c.pieces ELSE Append(c.pieces, piece)
  <2>5. ps \in Seq(CharSeqs) /\ InksOf(ps) = InksOf(c.pieces) \o Ink(piece)
        /\ \A i \in 1 .. Len(ps) : Len(ps[i]) <= Budget
    <3>1. CASE Blank(piece)
      <4>1. Ink(piece) = <<>>
        BY <2>3, <3>1, InkOfBlank
      <4>2. InksOf(c.pieces) \in CharSeqs
        BY <1>1, <2>3, InksAppend
      <4>3. InksOf(c.pieces) \o <<>> = InksOf(c.pieces)
        BY <4>2, Glue
      <4>4. ps = c.pieces
        BY <3>1
      <4> HIDE DEF ps
      <4> QED BY <1>1, <4>1, <4>3, <4>4
    <3>2. CASE ~Blank(piece)
      <4>1. ps = Append(c.pieces, piece)
        BY <3>2
      <4> HIDE DEF ps
      <4>2. /\ ps \in Seq(CharSeqs) /\ Len(ps) = Len(c.pieces) + 1 /\ ps[Len(c.pieces) + 1] = piece
            /\ \A i \in 1 .. Len(c.pieces) : ps[i] = c.pieces[i]
        BY <1>1, <2>3, <4>1, AppendProperties
      <4>3. \A i \in 1 .. Len(ps) : i = Len(c.pieces) + 1 \/ i \in 1 .. Len(c.pieces)
        <5>1. Len(c.pieces) \in Nat
          BY <1>1
        <5> QED BY <4>2, <5>1
      <4>4. \A i \in 1 .. Len(ps) : Len(ps[i]) <= Budget
        <5> TAKE i \in 1 .. Len(ps)
        <5>1. CASE i = Len(c.pieces) + 1
          BY <2>3, <4>2, <5>1
        <5>2. CASE i \in 1 .. Len(c.pieces)
          BY <1>1, <4>2, <5>2
        <5> QED BY <4>3, <5>1, <5>2
      <4>5. InksOf(ps) = InksOf(c.pieces) \o Ink(piece)
        BY <1>1, <2>3, <4>1, InksAppend
      <4> QED BY <4>2, <4>4, <4>5
    <3> QED BY <3>1, <3>2
  <2> HIDE DEF ps
  <2>6. d = [start |-> end, pieces |-> ps]
    BY <2>1 DEF ps
  <2>7. d.start = end /\ d.pieces = ps /\ end \in 0 .. n
    BY <1>1, <2>2, <2>6
  <2>8. InksOf(d.pieces) = Ink(SubSeq(text, 1, d.start))
    BY <1>1, <2>4, <2>5, <2>7
  <2>9. d \in [start : 0 .. Len(text), pieces : Seq(CharSeqs)]
    BY <2>5, <2>6, <2>7 DEF n
  <2>10. d \in Cuts(text)
    BY <2>5, <2>7, <2>8, <2>9 DEF Cuts
  <2>11. end > start
    BY <1>1, <2>2
  <2> QED BY <1>3, <2>7, <2>10, <2>11 DEF d, start, n
<1> QED BY <1>2, <1>3

(* What is cut after each turn.                                            *)
IsCutting(f, text) ==
    /\ f[0] = [start |-> 0, pieces |-> <<>>] /\ \A k \in 0 .. Len(text) : f[k] \in Cuts(text)
    /\ \A k \in 1 .. Len(text) : f[k] = CutOne(text, f[k - 1])

(* The loop cuts piece after piece.                                        *)
LEMMA CutRuns ==
    ASSUME NEW text \in CharSeqs, Len(text) > MaxTokens * CharsPerToken
    PROVE  \E f : IsCutting(f, text) /\ _hard_cut(text) = f[Len(text)].pieces
<1> DEFINE n == Len(text)
           V == Cuts(text)
           base == [start |-> 0, pieces |-> <<>>]
           Step(k, q) == CutOne(text, q)
           Runs(f) == [k \in 0 .. n |-> IF k = 0 THEN base ELSE Step(k, f[k - 1])]
           run == CHOOSE f : f = Runs(f)
           G == [k \in 1 .. n |-> [q \in V |-> Step(k, q)]]
<1>1. n \in Nat /\ base \in V /\ \A k \in 1 .. n, q \in V : Step(k, q) \in V
  <2>1. n \in Nat
    BY DEF CharSeqs
  <2> QED BY <2>1, CutStart, CutOneFacts
<1>2. _hard_cut(text) = run[n].pieces
  <2>1. MaxTokens * CharsPerToken \in Nat /\ n \in Nat
    BY ChunkerAssumption DEF CharSeqs
  <2>2. ~(n <= MaxTokens * CharsPerToken)
    BY <2>1
  <2> QED BY <2>2 DEF _hard_cut
<1> HIDE DEF n, V, base, Step
<1>3. G \in [1 .. n -> [V -> V]] /\ \A k \in 1 .. n, q \in V : G[k][q] = Step(k, q)
  BY <1>1
<1>4. \E f : f = Runs(f)
  <2> HIDE DEF G
  <2>1. PICK f : IsIteration(f, G, base, n, V)
    BY <1>1, <1>3, Iterates
  <2>2. f \in [0 .. n -> V] /\ f[0] = base /\ \A k \in 1 .. n : f[k] = G[k][f[k - 1]]
    BY <2>1 DEF IsIteration
  <2>3. \A k \in 1 .. n : f[k] = Step(k, f[k - 1])
    <3> TAKE k \in 1 .. n
    <3>1. f[k - 1] \in V
      BY <1>1, <2>2
    <3> QED BY <1>3, <2>2, <3>1
  <2>4. f = Runs(f)
    BY <2>2, <2>3
  <2> QED BY <2>4
<1>5. run = Runs(run)
  BY <1>4
<1> HIDE DEF run, G
<1>6. run[0] = base /\ \A k \in 1 .. n : run[k] = Step(k, run[k - 1])
  BY <1>1, <1>5
<1>7. \A k \in 0 .. n : run[k] \in V
  <2>1. run[0] \in V /\ \A k \in 1 .. n : run[k - 1] \in V => run[k] \in V
    BY <1>1, <1>6
  <2> QED BY <1>1, <2>1, ValuesIn
<1>8. IsCutting(run, text)
  BY <1>6, <1>7 DEF IsCutting, n, V, base, Step
<1> QED BY <1>2, <1>8 DEF n

(* The pieces of a text keep its ink, each within the budget.              *)
LEMMA HardCut ==
    ASSUME NEW text \in CharSeqs
    PROVE  /\ _hard_cut(text) \in Seq(CharSeqs) /\ InksOf(_hard_cut(text)) = Ink(text)
           /\ \A i \in 1 .. Len(_hard_cut(text)) : Len(_hard_cut(text)[i]) <= Budget
<1> DEFINE n == Len(text)
<1>1. n \in Nat /\ Budget \in Nat
  BY ChunkerAssumption DEF CharSeqs, Budget
<1>2. CASE n <= Budget
  <2>1. _hard_cut(text) = <<text>>
    BY <1>2 DEF _hard_cut, Budget
  <2>2. <<text>> \in Seq(CharSeqs) /\ InksOf(<<text>>) = Ink(text)
    BY InksOne
  <2>3. Len(<<text>>) = 1 /\ <<text>>[1] = text
    OBVIOUS
  <2>4. \A i \in 1 .. 1 : i = 1
    OBVIOUS
  <2>5. \A i \in 1 .. Len(<<text>>) : Len(<<text>>[i]) <= Budget
    BY <1>2, <2>3, <2>4
  <2> QED BY <2>1, <2>2, <2>5
<1>3. CASE n > Budget
  <2>1. PICK f : IsCutting(f, text) /\ _hard_cut(text) = f[Len(text)].pieces
    BY <1>3, CutRuns DEF Budget
  <2>2. \A k \in 0 .. n : f[k] \in Cuts(text)
    BY <2>1 DEF IsCutting
  <2> DEFINE P == {k \in 0 .. n : k <= f[k].start}
  <2>3. 0 \in P
    <3>1. f[0] = [start |-> 0, pieces |-> <<>>]
      BY <2>1 DEF IsCutting
    <3> QED BY <1>1, <3>1
  <2>4. ASSUME NEW k \in 1 .. n, k - 1 \in P PROVE k \in P
    <3>1. k - 1 \in 0 .. n /\ k \in 0 .. n /\ k - 1 <= f[k - 1].start
      BY <1>1, <2>4
    <3>2. f[k - 1] \in Cuts(text) /\ f[k] \in Cuts(text) /\ f[k] = CutOne(text, f[k - 1])
      BY <2>1, <2>2, <3>1 DEF IsCutting
    <3>3. f[k - 1].start \in 0 .. n /\ f[k].start \in 0 .. n
      BY <3>2 DEF Cuts
    <3>4. f[k - 1].start # n => f[k].start > f[k - 1].start
      BY <3>2, CutOneFacts
    <3>5. f[k - 1].start = n => f[k] = f[k - 1]
      BY <3>2, CutOneFacts
    <3>6. k <= f[k].start
      <4>1. k \in Nat /\ k <= n
        BY <1>1
      <4> QED BY <1>1, <3>1, <3>3, <3>4, <3>5, <4>1
    <3> QED BY <3>1, <3>6
  <2>5. n \in P
    <3> HIDE DEF P, n
    <3>1. \A k \in 0 .. n : k \in P
      BY <1>1, <2>3, <2>4, Induction
    <3> QED BY <1>1, <3>1
  <2>6. f[n] \in Cuts(text) /\ n <= f[n].start
    BY <1>1, <2>2, <2>5
  <2>7. f[n].start = n
    <3>1. f[n].start \in 0 .. n
      BY <2>6 DEF Cuts
    <3> QED BY <1>1, <2>6, <3>1
  <2>8. /\ f[n].pieces \in Seq(CharSeqs) /\ InksOf(f[n].pieces) = Ink(SubSeq(text, 1, n))
        /\ \A i \in 1 .. Len(f[n].pieces) : Len(f[n].pieces[i]) <= Budget
    BY <2>6, <2>7 DEF Cuts
  <2>9. SubSeq(text, 1, n) = text
    BY DEF CharSeqs
  <2> QED BY <2>1, <2>8, <2>9
<1> QED BY <1>1, <1>2, <1>3
-----------------------------------------------------------------------------
(* Chunks.                                                                 *)

(* Records with a text: fragments put together, and chunks.                *)
TextsOf(cs) == [i \in 1 .. Len(cs) |-> cs[i].text]

(* The texts of chunks, and their ink.                                     *)
LEMMA TextsFacts ==
    ASSUME NEW R, \A r \in R : r.text \in CharSeqs, NEW cs \in Seq(R)
    PROVE  /\ TextsOf(cs) \in Seq(CharSeqs) /\ Len(TextsOf(cs)) = Len(cs)
           /\ \A i \in 1 .. Len(cs) : TextsOf(cs)[i] = cs[i].text
           /\ InkOfChunks(cs) = InksOf(TextsOf(cs)) /\ InkOfChunks(cs) \in CharSeqs
<1> DEFINE n == Len(cs)
           ts == TextsOf(cs)
<1>1. n \in Nat /\ \A i \in 1 .. n : cs[i] \in R
  OBVIOUS
<1>2. \A i \in 1 .. n : cs[i].text \in CharSeqs
  BY <1>1
<1>3. ts \in Seq(CharSeqs) /\ Len(ts) = n /\ \A i \in 1 .. n : ts[i] = cs[i].text
  <2>1. ts = [i \in 1 .. n |-> cs[i].text]
    BY DEF TextsOf
  <2> HIDE DEF n, ts
  <2> QED BY <1>1, <1>2, <2>1
<1> HIDE DEF ts
<1>4. [i \in 1 .. n |-> Ink(cs[i].text)] = [i \in 1 .. Len(ts) |-> Ink(ts[i])]
  BY <1>1, <1>3
<1>5. InkOfChunks(cs) = InksOf(ts)
  BY <1>4 DEF InkOfChunks, InksOf
<1>6. InksOf(ts) \in CharSeqs
  BY <1>3, InksAppend, Newline
<1> QED BY <1>3, <1>5, <1>6 DEF ts

(* One chunk more adds the ink of its text.                                *)
LEMMA ChunksAppend ==
    ASSUME NEW R, \A r \in R : r.text \in CharSeqs, NEW cs \in Seq(R), NEW c \in R
    PROVE  InkOfChunks(Append(cs, c)) = InkOfChunks(cs) \o Ink(c.text)
<1> DEFINE ds == Append(cs, c)
           n == Len(cs)
           ts == TextsOf(cs)
           us == TextsOf(ds)
           x == c.text
<1>1. ds \in Seq(R) /\ n \in Nat /\ Len(ds) = n + 1 /\ ds[n + 1] = c /\ \A i \in 1 .. n : ds[i] = cs[i]
  BY AppendProperties
<1> HIDE DEF ds
<1>2. x \in CharSeqs
  OBVIOUS
<1>3. ts \in Seq(CharSeqs) /\ Len(ts) = n /\ InkOfChunks(cs) = InksOf(ts)
      /\ \A i \in 1 .. n : ts[i] = cs[i].text
  BY TextsFacts
<1>4. us \in Seq(CharSeqs) /\ Len(us) = n + 1 /\ InkOfChunks(ds) = InksOf(us)
      /\ \A i \in 1 .. n + 1 : us[i] = ds[i].text
  BY <1>1, TextsFacts
<1>5. us = Append(ts, x)
  <2>1. \A i \in 1 .. n + 1 : i = n + 1 \/ i \in 1 .. n
    BY <1>1
  <2>2. us[n + 1] = x /\ \A i \in 1 .. n : us[i] = ts[i]
    <3>1. n + 1 \in 1 .. n + 1 /\ \A i \in 1 .. n : i \in 1 .. n + 1
      BY <1>1
    <3> QED BY <1>1, <1>3, <1>4, <3>1
  <2> HIDE DEF us, ts, x, n
  <2>3. Append(ts, x) \in Seq(CharSeqs) /\ Len(Append(ts, x)) = Len(ts) + 1
        /\ Append(ts, x)[Len(ts) + 1] = x /\ \A i \in 1 .. Len(ts) : Append(ts, x)[i] = ts[i]
    BY <1>2, <1>3, AppendProperties
  <2>4. \A i \in 1 .. Len(us) : us[i] = Append(ts, x)[i]
    BY <1>3, <1>4, <2>1, <2>2, <2>3
  <2> QED BY <1>3, <1>4, <2>3, <2>4, SeqEqual
<1>6. InksOf(Append(ts, x)) = InksOf(ts) \o Ink(x)
  BY <1>2, <1>3, InksAppend
<1> QED BY <1>3, <1>4, <1>5, <1>6 DEF ds

(* No chunks have no ink.                                                  *)
LEMMA ChunksOfNone == InkOfChunks(<<>>) = <<>>
<1>1. [i \in 1 .. Len(<<>>) |-> Ink(<<>>[i].text)] = <<>>
  OBVIOUS
<1>2. FlattenSeq(<<>>) = <<>>
  <2>1. <<>> \in Seq({})
    OBVIOUS
  <2> QED BY <2>1, FlattenFew
<1> QED BY <1>1, <1>2 DEF InkOfChunks

(* The ink of one chunk is that of its text.                               *)
LEMMA ChunksOne ==
    ASSUME NEW R, \A r \in R : r.text \in CharSeqs, NEW c \in R
    PROVE  <<c>> \in Seq(R) /\ InkOfChunks(<<c>>) = Ink(c.text)
<1> DEFINE none == <<>>
<1>1. none \in Seq(R) /\ Append(none, c) = <<c>> /\ <<c>> \in Seq(R)
  OBVIOUS
<1>2. InkOfChunks(none) = <<>>
  BY ChunksOfNone
<1> HIDE DEF none
<1>3. InkOfChunks(Append(none, c)) = InkOfChunks(none) \o Ink(c.text)
  BY <1>1, ChunksAppend
<1>4. <<>> \o Ink(c.text) = Ink(c.text)
  <2>1. c.text \in CharSeqs
    OBVIOUS
  <2>2. Ink(c.text) \in CharSeqs
    BY <2>1, InkConcat
  <2> QED BY <2>2, Glue
<1> QED BY <1>1, <1>2, <1>3, <1>4

(* The ink of chunks after chunks is the one ink after the other.          *)
LEMMA ChunksConcat ==
    ASSUME NEW R, \A r \in R : r.text \in CharSeqs, NEW cs \in Seq(R), NEW ds \in Seq(R)
    PROVE  cs \o ds \in Seq(R) /\ InkOfChunks(cs \o ds) = InkOfChunks(cs) \o InkOfChunks(ds)
<1> DEFINE es == cs \o ds
           ts == TextsOf(cs)
           us == TextsOf(ds)
           vs == TextsOf(es)
<1>1. /\ es \in Seq(R) /\ Len(es) = Len(cs) + Len(ds)
      /\ \A i \in 1 .. Len(cs) : es[i] = cs[i]
      /\ \A i \in 1 .. Len(ds) : es[Len(cs) + i] = ds[i]
      /\ \A k \in 1 .. Len(cs) + Len(ds) : k \in 1 .. Len(cs) \/ \E i \in 1 .. Len(ds) : k = Len(cs) + i
  BY Concatenation
<1> HIDE DEF es
<1>2. ts \in Seq(CharSeqs) /\ Len(ts) = Len(cs) /\ InkOfChunks(cs) = InksOf(ts)
      /\ \A i \in 1 .. Len(cs) : ts[i] = cs[i].text
  BY TextsFacts
<1>3. us \in Seq(CharSeqs) /\ Len(us) = Len(ds) /\ InkOfChunks(ds) = InksOf(us)
      /\ \A i \in 1 .. Len(ds) : us[i] = ds[i].text
  BY TextsFacts
<1>4. vs \in Seq(CharSeqs) /\ Len(vs) = Len(es) /\ InkOfChunks(es) = InksOf(vs)
      /\ \A i \in 1 .. Len(es) : vs[i] = es[i].text
  BY <1>1, TextsFacts
<1> HIDE DEF ts, us, vs
<1>5. vs = ts \o us
  <2>1. /\ ts \o us \in Seq(CharSeqs) /\ Len(ts \o us) = Len(ts) + Len(us)
        /\ \A i \in 1 .. Len(ts) : (ts \o us)[i] = ts[i]
        /\ \A i \in 1 .. Len(us) : (ts \o us)[Len(ts) + i] = us[i]
    <3>1. ts \in Seq(CharSeqs) /\ us \in Seq(CharSeqs)
      BY <1>2, <1>3
    <3>2. ts \o us \in Seq(CharSeqs) /\ Len(ts \o us) = Len(ts) + Len(us)
      BY <3>1, Concatenation
    <3>3. \A i \in 1 .. Len(ts) : (ts \o us)[i] = ts[i]
      BY <3>1, Concatenation
    <3>4. \A i \in 1 .. Len(us) : (ts \o us)[Len(ts) + i] = us[i]
      BY <3>1, Concatenation
    <3> QED BY <3>2, <3>3, <3>4
  <2>2. ASSUME NEW k \in 1 .. Len(vs) PROVE vs[k] = (ts \o us)[k]
    <3>0. Len(cs) \in Nat /\ Len(ds) \in Nat /\ k \in 1 .. Len(es) /\ k \in 1 .. Len(cs) + Len(ds)
      BY <1>1, <1>4
    <3>1. CASE k \in 1 .. Len(cs)
      <4>1. vs[k] = cs[k].text
        BY <1>1, <1>4, <3>0, <3>1
      <4>2. (ts \o us)[k] = cs[k].text
        BY <1>2, <2>1, <3>1
      <4> QED BY <4>1, <4>2
    <3>2. CASE \E i \in 1 .. Len(ds) : k = Len(cs) + i
      <4>1. PICK i \in 1 .. Len(ds) : k = Len(cs) + i
        BY <3>2
      <4>2. vs[k] = ds[i].text
        BY <1>1, <1>4, <3>0, <4>1
      <4>3. (ts \o us)[k] = ds[i].text
        BY <1>2, <1>3, <2>1, <4>1
      <4> QED BY <4>2, <4>3
    <3> QED BY <1>1, <3>0, <3>1, <3>2
  <2>3. Len(vs) = Len(ts \o us)
    BY <1>1, <1>2, <1>3, <1>4, <2>1
  <2> QED BY <1>4, <2>1, <2>2, <2>3, SeqEqual
<1>6. InksOf(ts \o us) = InksOf(ts) \o InksOf(us)
  BY <1>2, <1>3, InksConcat
<1> QED BY <1>1, <1>2, <1>3, <1>4, <1>5, <1>6 DEF es

(* Chunks made of text after text have the ink of the texts.               *)
LEMMA ChunksOfAll ==
    ASSUME NEW R, \A r \in R : r.text \in CharSeqs,
           NEW ss \in Seq(Seq(R)), NEW ts \in Seq(CharSeqs), Len(ss) = Len(ts),
           \A i \in 1 .. Len(ts) : InkOfChunks(ss[i]) = Ink(ts[i])
    PROVE  FlattenSeq(ss) \in Seq(R) /\ InkOfChunks(FlattenSeq(ss)) = InksOf(ts)
<1> DEFINE n == Len(ts)
           sp(k) == SubSeq(ss, 1, k)
           tp(k) == SubSeq(ts, 1, k)
           P == {k \in 0 .. n : InkOfChunks(FlattenSeq(sp(k))) = InksOf(tp(k))}
<1>0. n \in Nat
  OBVIOUS
<1>1. 0 \in P
  <2>1. sp(0) = <<>> /\ tp(0) = <<>>
    OBVIOUS
  <2>2. FlattenSeq(<<>>) = <<>>
    <3>1. <<>> \in Seq({})
      OBVIOUS
    <3> QED BY <3>1, FlattenFew
  <2> HIDE DEF sp, tp
  <2>3. InkOfChunks(FlattenSeq(sp(0))) = InksOf(tp(0))
    BY <2>1, <2>2, ChunksOfNone, InksOfNone
  <2> QED BY <1>0, <2>3
<1>2. ASSUME NEW k \in 1 .. n, k - 1 \in P PROVE k \in P
  <2> DEFINE sq == sp(k - 1)
             tq == tp(k - 1)
             s == ss[k]
             t == ts[k]
             flat == FlattenSeq(sq)
  <2>1. tq \in Seq(CharSeqs) /\ t \in CharSeqs /\ tp(k) = Append(tq, t)
    BY PrefixGrows
  <2>2. sq \in Seq(Seq(R)) /\ s \in Seq(R) /\ sp(k) = Append(sq, s)
    <3>1. k \in 1 .. Len(ss)
      OBVIOUS
    <3> QED BY <3>1, PrefixGrows
  <2>3. InkOfChunks(flat) = InksOf(tq)
    BY <1>2
  <2>4. InkOfChunks(s) = Ink(t)
    OBVIOUS
  <2> HIDE DEF sq, tq, s, t, sp, tp
  <2>5. flat \in Seq(R) /\ FlattenSeq(Append(sq, s)) = flat \o s
    BY <2>2, FlattenAppend, FlattenFacts DEF IsFlattening
  <2> HIDE DEF flat
  <2>6. InkOfChunks(flat \o s) = InkOfChunks(flat) \o InkOfChunks(s)
    BY <2>2, <2>5, ChunksConcat
  <2>7. InksOf(Append(tq, t)) = InksOf(tq) \o Ink(t)
    BY <2>1, InksAppend
  <2>8. InkOfChunks(FlattenSeq(sp(k))) = InksOf(tp(k))
    BY <2>1, <2>2, <2>3, <2>4, <2>5, <2>6, <2>7
  <2> QED BY <2>8
<1> HIDE DEF P
<1>3. n \in P
  <2>1. \A k \in 0 .. n : k \in P
    <3> HIDE DEF n
    <3> QED BY <1>0, <1>1, <1>2, Induction
  <2> QED BY <1>0, <2>1
<1>4. sp(n) = ss /\ tp(n) = ts
  OBVIOUS
<1>5. FlattenSeq(ss) \in Seq(R)
  BY FlattenFacts DEF IsFlattening
<1>6. InkOfChunks(FlattenSeq(sp(n))) = InksOf(tp(n))
  BY <1>3 DEF P
<1> QED BY <1>4, <1>5, <1>6

-----------------------------------------------------------------------------
(* How large a chunk is.                                                   *)

(* Multiples add up, and compare as their factors do.                      *)
LEMMA Multiples ==
    ASSUME NEW a \in Nat, NEW b \in Nat, NEW c \in Nat
    PROVE  /\ a * c \in Nat /\ b * c \in Nat /\ (a + b) * c = a * c + b * c
           /\ a <= b => a * c <= b * c
OBVIOUS

(* A text of so many pieces hides less than a token for each.              *)
Fits(c) == Len(c.text) + 1 <= (MaxTokens + c.pieces) * CharsPerToken

Fragments == {r \in [text : CharSeqs, pieces : Nat \ {0}] : Fits(r)}

(* The last text of a merge is measured by the tokens counted for it.      *)
Merges ==
    {m \in [texts : Seq(Fragments), tokens : 0 .. MaxTokens] :
        m.texts # <<>> =>
            Len(Last(m.texts).text) + 1 <= (m.tokens + Last(m.texts).pieces) * CharsPerToken}

(* The parameters are positive numbers.                                    *)
LEMMA Numbers == MaxTokens \in Nat \ {0} /\ CharsPerToken \in Nat \ {0} /\ Budget \in Nat
BY ChunkerAssumption DEF Budget

(* A text within the budget is estimated within it.                        *)
LEMMA SmallText ==
    ASSUME NEW t \in CharSeqs, Len(t) <= Budget
    PROVE  estimate_tokens(t) <= MaxTokens
<1>1. Len(t) + 1 <= (MaxTokens + 1) * CharsPerToken
  <2>1. (MaxTokens + 1) * CharsPerToken = Budget + 1 * CharsPerToken
    BY Numbers, Multiples DEF Budget
  <2>2. Len(t) \in Nat
    BY DEF CharSeqs
  <2> QED BY Numbers, <2>1, <2>2
<1> QED BY <1>1, Numbers, EstimateFacts

(* An estimated text within the budget fits as one piece; with so many     *)
(* tokens before it, so many pieces and one more.                          *)
LEMMA EstimatesAdd ==
    ASSUME NEW t \in CharSeqs, NEW tokens \in Nat, NEW pieces \in Nat, NEW n \in Nat,
           n <= (tokens + pieces) * CharsPerToken
    PROVE  n + Len(t) + 1 <= ((tokens + estimate_tokens(t)) + (pieces + 1)) * CharsPerToken
<1> DEFINE e == estimate_tokens(t)
<1>1. e \in Nat /\ Len(t) + 1 <= (e + 1) * CharsPerToken
  BY EstimateFacts
<1> HIDE DEF e
<1>2. ((tokens + pieces) + (e + 1)) * CharsPerToken
        = (tokens + pieces) * CharsPerToken + (e + 1) * CharsPerToken
  <2>1. tokens + pieces \in Nat /\ e + 1 \in Nat /\ CharsPerToken \in Nat
    BY <1>1, Numbers
  <2> HIDE DEF e
  <2> QED BY <2>1, Multiples
<1>3. (tokens + pieces) + (e + 1) = (tokens + e) + (pieces + 1)
  BY <1>1
<1>4. Len(t) \in Nat
  BY DEF CharSeqs
<1>5. (tokens + pieces) * CharsPerToken \in Nat /\ (e + 1) * CharsPerToken \in Nat
  <2>1. tokens + pieces \in Nat /\ e + 1 \in Nat /\ CharsPerToken \in Nat
    BY <1>1, Numbers
  <2> QED BY <2>1, Multiples
<1> QED BY <1>1, <1>2, <1>3, <1>4, <1>5 DEF e

(* Fewer tokens allow fewer characters.                                    *)
LEMMA WithinBudget ==
    ASSUME NEW n \in Nat, NEW tokens \in 0 .. MaxTokens, NEW pieces \in Nat,
           n <= (tokens + pieces) * CharsPerToken
    PROVE  n <= (MaxTokens + pieces) * CharsPerToken
<1>1. tokens + pieces \in Nat /\ MaxTokens + pieces \in Nat /\ tokens + pieces <= MaxTokens + pieces
  BY Numbers
<1>2. (tokens + pieces) * CharsPerToken <= (MaxTokens + pieces) * CharsPerToken
  BY <1>1, Numbers, Multiples
<1>3. (tokens + pieces) * CharsPerToken \in Nat /\ (MaxTokens + pieces) * CharsPerToken \in Nat
  BY <1>1, Numbers, Multiples
<1> QED BY <1>2, <1>3

(* A merge takes a fragment into its last text, or begins a new one.       *)
LEMMA MergeOneFacts ==
    ASSUME NEW m \in Merges, NEW frag \in CharSeqs, Len(frag) <= Budget
    PROVE  /\ MergeOne(m, frag) \in Merges
           /\ InkOfChunks(MergeOne(m, frag).texts) = InkOfChunks(m.texts) \o Ink(frag)
<1> DEFINE e == estimate_tokens(frag)
           ts == m.texts
           l == Last(ts)
           f == Front(ts)
           d == MergeOne(m, frag)
           C == CharsPerToken
<1>1. ts \in Seq(Fragments) /\ m.tokens \in 0 .. MaxTokens
      /\ (ts # <<>> => Len(l.text) + 1 <= (m.tokens + l.pieces) * C)
  BY DEF Merges
<1>2. \A r \in Fragments : r.text \in CharSeqs /\ r.pieces \in Nat \ {0} /\ Fits(r)
  BY DEF Fragments
<1>3. e \in 1 .. MaxTokens
  BY SmallText, EstimateFacts, Numbers
<1>4. InkOfChunks(ts) \in CharSeqs /\ Ink(frag) \in CharSeqs
  BY <1>1, <1>2, TextsFacts, InkConcat
<1>5. CASE Blank(frag)
  <2>1. d = m
    BY <1>5 DEF MergeOne
  <2>2. Ink(frag) = <<>>
    BY <1>5, InkOfBlank
  <2>3. InkOfChunks(ts) \o <<>> = InkOfChunks(ts)
    BY <1>4, Glue
  <2> QED BY <2>1, <2>2, <2>3
<1>6. CASE ~Blank(frag) /\ ts # <<>> /\ _is_safe_join_boundary(l.text, frag) /\ m.tokens + e <= MaxTokens
  <2> DEFINE r == [text |-> l.text \o frag, pieces |-> l.pieces + 1]
             us == Append(f, r)
  <2>1. d = [texts |-> us, tokens |-> m.tokens + e]
    BY <1>6 DEF MergeOne
  <2>2. f \in Seq(Fragments) /\ l \in Fragments /\ ts = Append(f, l)
    BY <1>1, <1>6, FrontLast
  <2>3. l.text \in CharSeqs /\ l.pieces \in Nat \ {0}
    BY <1>2, <2>2
  <2> HIDE DEF e, ts, l, f, C, d
  <2>4. l.text \o frag \in CharSeqs /\ Ink(l.text \o frag) = Ink(l.text) \o Ink(frag)
        /\ Len(l.text \o frag) = Len(l.text) + Len(frag) /\ Ink(l.text) \in CharSeqs
    <3>1. Len(l.text \o frag) = Len(l.text) + Len(frag)
      BY <2>3, ConcatProperties DEF CharSeqs
    <3> QED BY <2>3, <3>1, InkConcat
  <2>5. m.tokens + e \in 0 .. MaxTokens
    BY <1>1, <1>3, <1>6
  <2>6. Len(r.text) + 1 <= ((m.tokens + e) + r.pieces) * C
    <3>1. Len(l.text) \in Nat /\ Len(frag) \in Nat
      BY <2>3 DEF CharSeqs
    <3>2. (Len(l.text) + 1) + Len(frag) + 1 <= ((m.tokens + e) + (l.pieces + 1)) * C
      <4>1. Len(l.text) + 1 \in Nat /\ m.tokens \in Nat /\ l.pieces \in Nat
        BY <1>1, <2>3, <3>1
      <4>2. Len(l.text) + 1 <= (m.tokens + l.pieces) * CharsPerToken
        BY <1>1, <1>6 DEF C
      <4> QED BY <4>1, <4>2, EstimatesAdd DEF e, C
    <3>3. ((m.tokens + e) + (l.pieces + 1)) * C \in Nat
      <4>1. (m.tokens + e) + (l.pieces + 1) \in Nat
        BY <1>1, <1>3, <2>3
      <4> QED BY <4>1, Numbers, Multiples DEF C
    <3>4. r.text = l.text \o frag /\ r.pieces = l.pieces + 1
      OBVIOUS
    <3> HIDE DEF r
    <3> QED BY <2>4, <3>1, <3>2, <3>3, <3>4
  <2>7. r \in Fragments
    <3>1. r \in [text : CharSeqs, pieces : Nat \ {0}] /\ r.pieces \in Nat
      <4>1. l.pieces + 1 \in Nat \ {0}
        BY <2>3
      <4> QED BY <2>4, <4>1
    <3>2. Len(r.text) + 1 \in Nat
      <4>1. r.text \in CharSeqs
        BY <3>1
      <4> QED BY <4>1 DEF CharSeqs
    <3> HIDE DEF r
    <3>3. Len(r.text) + 1 <= (MaxTokens + r.pieces) * CharsPerToken
      BY <2>5, <2>6, <3>1, <3>2, WithinBudget DEF C
    <3> QED BY <3>1, <3>3 DEF Fragments, Fits
  <2>8. r.text = l.text \o frag
    OBVIOUS
  <2> HIDE DEF r
  <2>9. us \in Seq(Fragments) /\ us # <<>> /\ Last(us) = r
    <3>1. us \in Seq(Fragments) /\ us # <<>> /\ Len(us) = Len(f) + 1 /\ us[Len(f) + 1] = r
      BY <2>2, <2>7, AppendProperties
    <3> QED BY <3>1 DEF Last
  <2>10. InkOfChunks(us) = InkOfChunks(ts) \o Ink(frag)
    <3>1. InkOfChunks(us) = InkOfChunks(f) \o Ink(r.text)
      BY <1>2, <2>2, <2>7, ChunksAppend
    <3>2. InkOfChunks(ts) = InkOfChunks(f) \o Ink(l.text)
      BY <1>2, <2>2, ChunksAppend
    <3>3. InkOfChunks(f) \in CharSeqs
      BY <1>2, <2>2, TextsFacts
    <3>4. InkOfChunks(f) \o (Ink(l.text) \o Ink(frag)) = (InkOfChunks(f) \o Ink(l.text)) \o Ink(frag)
      <4>1. Ink(l.text) \in CharSeqs /\ Ink(frag) \in CharSeqs
        BY <1>4, <2>4
      <4>2. IsGrouped(CharClasses)
        BY Grouping
      <4> QED BY <3>3, <4>1, <4>2, Zenon DEF IsGrouped, CharSeqs
    <3> QED BY <2>4, <2>8, <3>1, <3>2, <3>4
  <2> HIDE DEF us
  <2>11. d.texts = us /\ d.tokens = m.tokens + e /\ d \in [texts : Seq(Fragments), tokens : 0 .. MaxTokens]
    BY <2>1, <2>5, <2>9
  <2>12. d \in Merges
    BY <2>6, <2>9, <2>11 DEF Merges, C
  <2> QED BY <2>10, <2>11, <2>12 DEF d, ts
<1>7. CASE ~Blank(frag) /\ ~(ts # <<>> /\ _is_safe_join_boundary(l.text, frag) /\ m.tokens + e <= MaxTokens)
  <2> DEFINE r == [text |-> frag, pieces |-> 1]
             us == Append(ts, r)
  <2>1. d = [texts |-> us, tokens |-> e]
    BY <1>7 DEF MergeOne
  <2> HIDE DEF e, ts, l, f, d
  <2>2. r.text = frag /\ r.pieces = 1 /\ r \in [text : CharSeqs, pieces : Nat \ {0}]
    OBVIOUS
  <2> HIDE DEF r
  <2>3. Len(r.text) + 1 <= (e + r.pieces) * C
    BY <2>2, EstimateFacts DEF e
  <2>4. r \in Fragments
    <3>1. Len(r.text) + 1 \in Nat
      BY <2>2 DEF CharSeqs
    <3>2. e \in 0 .. MaxTokens /\ r.pieces \in Nat
      BY <1>3, <2>2
    <3>3. Len(r.text) + 1 <= (MaxTokens + r.pieces) * CharsPerToken
      BY <2>3, <3>1, <3>2, WithinBudget
    <3> QED BY <2>2, <3>3 DEF Fragments, Fits
  <2>5. us \in Seq(Fragments) /\ us # <<>> /\ Last(us) = r
    <3>1. us \in Seq(Fragments) /\ us # <<>> /\ Len(us) = Len(ts) + 1 /\ us[Len(ts) + 1] = r
      BY <1>1, <2>4, AppendProperties
    <3> QED BY <3>1 DEF Last
  <2>6. InkOfChunks(us) = InkOfChunks(ts) \o Ink(frag)
    BY <1>1, <1>2, <2>2, <2>4, ChunksAppend
  <2> HIDE DEF us
  <2>7. d.texts = us /\ d.tokens = e /\ d \in [texts : Seq(Fragments), tokens : 0 .. MaxTokens]
    <3>1. e \in 0 .. MaxTokens
      BY <1>3
    <3> QED BY <2>1, <2>5, <3>1
  <2>8. d \in Merges
    BY <2>3, <2>5, <2>7 DEF Merges
  <2> QED BY <2>6, <2>7, <2>8 DEF d, ts
<1> QED BY <1>5, <1>6, <1>7

(* What is merged after each fragment.                                     *)
IsMerging(f, frags) ==
    /\ f[0] = Merging /\ \A k \in 0 .. Len(frags) : f[k] \in Merges
    /\ \A k \in 1 .. Len(frags) : f[k] = MergeOne(f[k - 1], frags[k])

(* The fragments are merged one by one.                                    *)
LEMMA MergeRuns ==
    ASSUME NEW frags \in Seq(CharSeqs), \A i \in 1 .. Len(frags) : Len(frags[i]) <= Budget
    PROVE  \E f : IsMerging(f, frags) /\ _try_merge_fragments(frags) = f[Len(frags)].texts
<1> DEFINE n == Len(frags)
           V == Merges
           base == Merging
           Step(k, q) == MergeOne(q, frags[k])
           Runs(f) == [k \in 0 .. n |-> IF k = 0 THEN base ELSE Step(k, f[k - 1])]
           run == CHOOSE f : f = Runs(f)
           G == [k \in 1 .. n |-> [q \in V |-> Step(k, q)]]
<1>1. n \in Nat /\ base \in V /\ \A k \in 1 .. n, q \in V : Step(k, q) \in V
  <2>1. n \in Nat /\ \A k \in 1 .. n : frags[k] \in CharSeqs /\ Len(frags[k]) <= Budget
    OBVIOUS
  <2>2. base \in V
    <3>1. Merging.texts = <<>> /\ Merging.tokens = 0 /\ <<>> \in Seq(Fragments) /\ 0 \in 0 .. MaxTokens
      BY Numbers DEF Merging
    <3>2. Merging \in [texts : Seq(Fragments), tokens : 0 .. MaxTokens]
      BY <3>1 DEF Merging
    <3> QED BY <3>1, <3>2 DEF Merges
  <2>3. \A k \in 1 .. n, q \in Merges : MergeOne(q, frags[k]) \in Merges
    BY <2>1, MergeOneFacts
  <2> QED BY <2>1, <2>2, <2>3
<1>2. _try_merge_fragments(frags) = run[n].texts
  BY DEF _try_merge_fragments
<1> HIDE DEF n, V, base, Step
<1>3. G \in [1 .. n -> [V -> V]] /\ \A k \in 1 .. n, q \in V : G[k][q] = Step(k, q)
  BY <1>1
<1>4. \E f : f = Runs(f)
  <2> HIDE DEF G
  <2>1. PICK f : IsIteration(f, G, base, n, V)
    BY <1>1, <1>3, Iterates
  <2>2. f \in [0 .. n -> V] /\ f[0] = base /\ \A k \in 1 .. n : f[k] = G[k][f[k - 1]]
    BY <2>1 DEF IsIteration
  <2>3. \A k \in 1 .. n : f[k] = Step(k, f[k - 1])
    <3> TAKE k \in 1 .. n
    <3>1. f[k - 1] \in V
      BY <1>1, <2>2
    <3> QED BY <1>3, <2>2, <3>1
  <2>4. f = Runs(f)
    BY <2>2, <2>3
  <2> QED BY <2>4
<1>5. run = Runs(run)
  BY <1>4
<1> HIDE DEF run, G
<1>6. run[0] = base /\ \A k \in 1 .. n : run[k] = Step(k, run[k - 1])
  BY <1>1, <1>5
<1>7. \A k \in 0 .. n : run[k] \in V
  <2>1. run[0] \in V /\ \A k \in 1 .. n : run[k - 1] \in V => run[k] \in V
    BY <1>1, <1>6
  <2> QED BY <1>1, <2>1, ValuesIn
<1>8. IsMerging(run, frags)
  BY <1>6, <1>7 DEF IsMerging, n, V, base, Step
<1> QED BY <1>2, <1>8 DEF n

(* Merging fragments loses none of their ink, and hides less than a token  *)
(* for each.                                                               *)
LEMMA MergedFacts ==
    ASSUME NEW frags \in Seq(CharSeqs), \A i \in 1 .. Len(frags) : Len(frags[i]) <= Budget
    PROVE  /\ _try_merge_fragments(frags) \in Seq(Fragments)
           /\ InkOfChunks(_try_merge_fragments(frags)) = InksOf(frags)
<1> DEFINE n == Len(frags)
           pre(k) == SubSeq(frags, 1, k)
<1>0. n \in Nat
  OBVIOUS
<1>1. PICK f : IsMerging(f, frags) /\ _try_merge_fragments(frags) = f[Len(frags)].texts
  BY MergeRuns
<1> DEFINE P == {k \in 0 .. n : InkOfChunks(f[k].texts) = InksOf(pre(k))}
<1>2. 0 \in P
  <2>1. pre(0) = <<>>
    OBVIOUS
  <2>2. f[0].texts = <<>>
    BY <1>1 DEF IsMerging, Merging
  <2> HIDE DEF pre
  <2>3. InkOfChunks(f[0].texts) = InksOf(pre(0))
    BY <2>1, <2>2, ChunksOfNone, InksOfNone
  <2> QED BY <1>0, <2>3
<1>3. ASSUME NEW k \in 1 .. n, k - 1 \in P PROVE k \in P
  <2> DEFINE p == pre(k - 1)
             e == frags[k]
  <2>1. p \in Seq(CharSeqs) /\ e \in CharSeqs /\ pre(k) = Append(p, e) /\ Len(e) <= Budget
    BY PrefixGrows
  <2>2. f[k - 1] \in Merges /\ f[k] = MergeOne(f[k - 1], e)
    <3>1. k - 1 \in 0 .. n
      BY <1>0
    <3> QED BY <1>1, <3>1 DEF IsMerging
  <2>3. InkOfChunks(f[k - 1].texts) = InksOf(p)
    BY <1>3
  <2> HIDE DEF p, e, pre
  <2>4. InkOfChunks(f[k].texts) = InkOfChunks(f[k - 1].texts) \o Ink(e)
    BY <2>1, <2>2, MergeOneFacts
  <2>5. InksOf(Append(p, e)) = InksOf(p) \o Ink(e)
    BY <2>1, InksAppend
  <2>6. InkOfChunks(f[k].texts) = InksOf(pre(k))
    BY <2>1, <2>3, <2>4, <2>5
  <2> QED BY <2>6
<1> HIDE DEF P
<1>4. n \in P
  <2>1. \A k \in 0 .. n : k \in P
    <3> HIDE DEF n
    <3> QED BY <1>0, <1>2, <1>3, Induction
  <2> QED BY <1>0, <2>1
<1>5. pre(n) = frags
  OBVIOUS
<1>6. f[n].texts \in Seq(Fragments)
  <2>1. f[n] \in Merges
    BY <1>0, <1>1 DEF IsMerging
  <2> QED BY <2>1 DEF Merges
<1> QED BY <1>1, <1>4, <1>5, <1>6 DEF P
-----------------------------------------------------------------------------
(* What the chunks are made of.                                            *)

Scopes == {b.scope : b \in SourceBlocks} \cup {<<>>}
Ids == {b.id : b \in SourceBlocks}
Pages == {b.page : b \in SourceBlocks}
Forms == {b.form : b \in SourceBlocks} \cup {{}}

IsStamp(g) ==
    g.scope \in Scopes /\ g.blocks \in Seq(Ids) /\ g.pages \in SUBSET Pages /\ g.form \in Forms

(* The blocks are not one table whose header has to be repeated.           *)
IsMeta(g) == IsStamp(g) /\ \A b \in SourceBlocks : HeaderFits(b) => g.blocks # <<b.id>>

Begins(h, s) == Len(h) <= Len(s) /\ \A i \in 1 .. Len(h) : s[i] = h[i]

(* A chunk of such a table begins with the header.                         *)
Headed(c) == \A b \in SourceBlocks : HeaderFits(b) /\ c.blocks = <<b.id>> => Begins(b.header, c.text)

Chunks ==
    {c \in [text : CharSeqs, pieces : Nat \ {0}, scope : Scopes, blocks : Seq(Ids),
            pages : SUBSET Pages, form : Forms, quality_warning : BOOLEAN] : Fits(c) /\ Headed(c)}

(* What a chunk is.                                                        *)
LEMMA ChunkFacts == \A c \in Chunks : c.text \in CharSeqs /\ c.pieces \in Nat \ {0} /\ Fits(c)
BY DEF Chunks

(* A text that fits makes a chunk of that text, with the header of the     *)
(* table it is of, if any.                                                 *)
LEMMA StampedFacts ==
    ASSUME NEW s \in CharSeqs, NEW p \in Nat \ {0}, NEW g, IsStamp(g), NEW w \in BOOLEAN,
           Len(s) + 1 <= (MaxTokens + p) * CharsPerToken,
           \A b \in SourceBlocks : HeaderFits(b) /\ g.blocks = <<b.id>> => Begins(b.header, s)
    PROVE  ChunkOf(s, p, g, w) \in Chunks /\ ChunkOf(s, p, g, w).text = s
<1> DEFINE c == ChunkOf(s, p, g, w)
<1>1. c = [text |-> s, pieces |-> p, scope |-> g.scope, blocks |-> g.blocks,
           pages |-> g.pages, form |-> g.form, quality_warning |-> w]
  BY DEF ChunkOf
<1>2. c.text = s /\ c.pieces = p /\ c.blocks = g.blocks
  BY <1>1
<1>3. c \in [text : CharSeqs, pieces : Nat \ {0}, scope : Scopes, blocks : Seq(Ids),
             pages : SUBSET Pages, form : Forms, quality_warning : BOOLEAN]
  BY <1>1 DEF IsStamp
<1> HIDE DEF c
<1>4. Fits(c)
  BY <1>2 DEF Fits
<1>5. Headed(c)
  BY <1>2 DEF Headed
<1>6. c \in Chunks
  BY <1>3, <1>4, <1>5 DEF Chunks
<1> QED BY <1>2, <1>6 DEF c

(* A text of other blocks makes a chunk if it fits.                        *)
LEMMA ChunkOfFacts ==
    ASSUME NEW s \in CharSeqs, NEW p \in Nat \ {0}, NEW g, IsMeta(g), NEW w \in BOOLEAN,
           Len(s) + 1 <= (MaxTokens + p) * CharsPerToken
    PROVE  ChunkOf(s, p, g, w) \in Chunks /\ ChunkOf(s, p, g, w).text = s
<1>1. IsStamp(g) /\ \A b \in SourceBlocks : HeaderFits(b) => g.blocks # <<b.id>>
  BY DEF IsMeta
<1> QED BY <1>1, StampedFacts

(* The chunks of a line have its ink.                                      *)
LEMMA LineFacts ==
    ASSUME NEW line \in CharSeqs, NEW g, IsMeta(g), NEW w \in BOOLEAN
    PROVE  LineChunks(line, g, w) \in Seq(Chunks) /\ InkOfChunks(LineChunks(line, g, w)) = Ink(line)
<1>1. CASE Blank(line)
  <2>1. LineChunks(line, g, w) = <<>>
    BY <1>1 DEF LineChunks
  <2>2. Ink(line) = <<>> /\ <<>> \in Seq(Chunks)
    BY <1>1, InkOfBlank
  <2> QED BY <2>1, <2>2, ChunksOfNone
<1>2. CASE ~Blank(line)
  <2> DEFINE pieces == _hard_cut(line)
             merged == _try_merge_fragments(pieces)
             n == Len(merged)
             cs == [k \in 1 .. n |-> ChunkOf(merged[k].text, merged[k].pieces, g, w)]
  <2>1. pieces \in Seq(CharSeqs) /\ InksOf(pieces) = Ink(line) /\ \A i \in 1 .. Len(pieces) : Len(pieces[i]) <= Budget
    BY HardCut
  <2>2. LineChunks(line, g, w) = cs
    BY <1>2 DEF LineChunks
  <2> HIDE DEF pieces
  <2>3. merged \in Seq(Fragments) /\ InkOfChunks(merged) = InksOf(pieces)
    BY <2>1, MergedFacts
  <2> HIDE DEF merged
  <2>4. n \in Nat /\ \A k \in 1 .. n : merged[k] \in Fragments
    BY <2>3
  <2>5. ASSUME NEW k \in 1 .. n
        PROVE  ChunkOf(merged[k].text, merged[k].pieces, g, w) \in Chunks
               /\ ChunkOf(merged[k].text, merged[k].pieces, g, w).text = merged[k].text
    <3>1. merged[k].text \in CharSeqs /\ merged[k].pieces \in Nat \ {0}
          /\ Len(merged[k].text) + 1 <= (MaxTokens + merged[k].pieces) * CharsPerToken
      BY <2>4 DEF Fragments, Fits
    <3> QED BY <3>1, ChunkOfFacts
  <2>6. cs \in Seq(Chunks) /\ Len(cs) = n /\ \A k \in 1 .. n : cs[k].text = merged[k].text
    <3>1. cs = [k \in 1 .. n |-> ChunkOf(merged[k].text, merged[k].pieces, g, w)]
      OBVIOUS
    <3> HIDE DEF n
    <3> QED BY <2>4, <2>5, <3>1
  <2> HIDE DEF cs
  <2>7. [i \in 1 .. Len(cs) |-> Ink(cs[i].text)] = [i \in 1 .. Len(merged) |-> Ink(merged[i].text)]
    BY <2>6
  <2>8. InkOfChunks(cs) = InkOfChunks(merged)
    BY <2>7 DEF InkOfChunks
  <2> QED BY <2>1, <2>2, <2>3, <2>6, <2>8
<1> QED BY <1>1, <1>2

(* The chunks of a text, cut line by line, have its ink.                   *)
LEMMA SplitFacts ==
    ASSUME NEW text \in CharSeqs, NEW g, IsMeta(g), NEW w \in BOOLEAN
    PROVE  /\ _split_text_two_phase(text, g, w) \in Seq(Chunks)
           /\ InkOfChunks(_split_text_two_phase(text, g, w)) = Ink(text)
<1> DEFINE lines == LinesOf(text)
           n == Len(lines)
           ss == [i \in 1 .. n |-> LineChunks(lines[i], g, w)]
<1>1. lines \in Seq(CharSeqs) /\ InksOf(lines) = Ink(text)
  BY LinesKeep
<1>2. _split_text_two_phase(text, g, w) = FlattenSeq(ss)
  BY DEF _split_text_two_phase
<1> HIDE DEF lines
<1>3. n \in Nat /\ \A i \in 1 .. n : LineChunks(lines[i], g, w) \in Seq(Chunks)
                                  /\ InkOfChunks(LineChunks(lines[i], g, w)) = Ink(lines[i])
  <2>1. n \in Nat /\ \A i \in 1 .. n : lines[i] \in CharSeqs
    BY <1>1
  <2> QED BY <2>1, LineFacts
<1>4. ss \in Seq(Seq(Chunks)) /\ Len(ss) = n /\ \A i \in 1 .. n : InkOfChunks(ss[i]) = Ink(lines[i])
  <2>1. ss = [i \in 1 .. n |-> LineChunks(lines[i], g, w)]
    OBVIOUS
  <2> HIDE DEF n
  <2>2. ss \in Seq(Seq(Chunks)) /\ Len(ss) = n
    BY <1>3, <2>1
  <2>3. \A i \in 1 .. n : ss[i] = LineChunks(lines[i], g, w)
    BY <2>1
  <2> QED BY <1>3, <2>2, <2>3
<1> HIDE DEF ss
<1>5. FlattenSeq(ss) \in Seq(Chunks) /\ InkOfChunks(FlattenSeq(ss)) = InksOf(lines)
  BY <1>1, <1>4, ChunkFacts, ChunksOfAll
<1> QED BY <1>1, <1>2, <1>5

(* The parts of a group, with the tokens counted for them.                 *)
Measured(g) ==
    /\ g.parts \in Seq(CharSeqs) /\ g.tokens \in Nat
    /\ g.parts # <<>> => /\ g.tokens <= MaxTokens
                         /\ Len(JoinLines(g.parts)) + 1 <= (g.tokens + Len(g.parts)) * CharsPerToken

(* A flushed group becomes one chunk, or none if it has no ink.            *)
LEMMA FlushFacts ==
    ASSUME NEW g, IsMeta(g), Measured(g)
    PROVE  /\ _flush_chunk(g) \in Seq(Chunks)
           /\ InkOfChunks(_flush_chunk(g)) = Ink(JoinLines(g.parts))
<1> DEFINE joined == JoinLines(g.parts)
           text == Strip(joined)
           c == ChunkOf(text, Len(g.parts), g, FALSE)
<1>1. joined \in CharSeqs
  BY JoinGrows, Newline DEF Measured
<1>2. text \in CharSeqs /\ Len(text) <= Len(joined) /\ Ink(text) = Ink(joined)
  BY <1>1, StripKeeps
<1>3. _flush_chunk(g) = IF text = <<>> THEN <<>> ELSE <<c>>
  BY DEF _flush_chunk
<1>4. CASE text = <<>>
  <2>1. _flush_chunk(g) = <<>> /\ <<>> \in Seq(Chunks)
    BY <1>3, <1>4
  <2>2. Ink(joined) = <<>>
    BY <1>2, <1>4, InkOfNothing
  <2> QED BY <2>1, <2>2, ChunksOfNone
<1>5. CASE text # <<>>
  <2>1. g.parts # <<>>
    <3> SUFFICES ASSUME g.parts = <<>> PROVE FALSE
      OBVIOUS
    <3>1. joined = <<>>
      BY JoinOfNone
    <3> HIDE DEF joined, text
    <3>2. Len(text) <= 0
      BY <1>2, <3>1
    <3> QED BY <1>2, <1>5, <3>2 DEF CharSeqs
  <2>2. Len(g.parts) \in Nat \ {0} /\ g.tokens \in 0 .. MaxTokens
        /\ Len(joined) + 1 <= (g.tokens + Len(g.parts)) * CharsPerToken
    <3>1. g.parts \in Seq(CharSeqs) /\ g.tokens \in Nat /\ g.tokens <= MaxTokens
          /\ Len(joined) + 1 <= (g.tokens + Len(g.parts)) * CharsPerToken
      BY <2>1 DEF Measured
    <3> HIDE DEF joined
    <3> QED BY <2>1, <3>1
  <2> HIDE DEF joined, text
  <2>3. Len(text) \in Nat /\ Len(joined) \in Nat
    BY <1>1, <1>2 DEF CharSeqs
  <2>4. Len(joined) + 1 <= (MaxTokens + Len(g.parts)) * CharsPerToken
    <3>1. Len(joined) + 1 \in Nat /\ Len(g.parts) \in Nat
      BY <2>2, <2>3
    <3> QED BY <2>2, <3>1, WithinBudget
  <2>5. Len(text) + 1 <= (MaxTokens + Len(g.parts)) * CharsPerToken
    <3>1. (MaxTokens + Len(g.parts)) * CharsPerToken \in Nat
      <4>1. MaxTokens + Len(g.parts) \in Nat
        BY <2>2, Numbers
      <4> QED BY <4>1, Numbers, Multiples
    <3> QED BY <1>2, <2>3, <2>4, <3>1
  <2>6. c \in Chunks /\ c.text = text
    BY <1>2, <2>2, <2>5, ChunkOfFacts
  <2>7. _flush_chunk(g) = <<c>>
    BY <1>3, <1>5
  <2> HIDE DEF c
  <2>8. <<c>> \in Seq(Chunks) /\ InkOfChunks(<<c>>) = Ink(c.text)
    BY <2>6, ChunkFacts, ChunksOne
  <2> QED BY <1>2, <2>6, <2>7, <2>8 DEF joined
<1> QED BY <1>4, <1>5

(* Either way a group takes out of the chunker, its ink is in the chunks.  *)
LEMMA RouteFacts ==
    ASSUME NEW g, IsMeta(g), Measured(g)
    PROVE  /\ _route_accumulated_group(g) \in Seq(Chunks)
           /\ InkOfChunks(_route_accumulated_group(g)) = Ink(JoinLines(g.parts))
<1> DEFINE text == JoinLines(g.parts)
<1>1. text \in CharSeqs
  BY JoinGrows, Newline DEF Measured
<1>2. \/ _route_accumulated_group(g) = _split_text_two_phase(text, g, FALSE)
      \/ _route_accumulated_group(g) = _flush_chunk(g)
  BY DEF _route_accumulated_group
<1> HIDE DEF text
<1>3. /\ _split_text_two_phase(text, g, FALSE) \in Seq(Chunks)
      /\ InkOfChunks(_split_text_two_phase(text, g, FALSE)) = Ink(text)
  BY <1>1, SplitFacts
<1>4. _flush_chunk(g) \in Seq(Chunks) /\ InkOfChunks(_flush_chunk(g)) = Ink(text)
  BY FlushFacts DEF text
<1> QED BY <1>2, <1>3, <1>4 DEF text
-----------------------------------------------------------------------------
(* Large tables.                                                           *)

(* A sequence over a set is one over a larger set.                         *)
LEMMA SeqWiden ==
    ASSUME NEW S, NEW T, S \subseteq T, NEW s \in Seq(S)
    PROVE  s \in Seq(T)
OBVIOUS

(* What a block of a source is; the header a table repeats has no ink.     *)
LEMMA BlockFacts ==
    ASSUME NEW b \in SourceBlocks
    PROVE  /\ b.text \in CharSeqs /\ b.rows \in Seq(CharSeqs) /\ IsStamp(MetaOf(b))
           /\ ~HeaderFits(b) => IsMeta(MetaOf(b))
           /\ b.scope \in Scopes /\ b.id \in Ids /\ b.page \in Pages /\ b.form \in Forms
           /\ HeaderParts(b) \in Seq(CharSeqs) /\ InksOf(HeaderParts(b)) = <<>>
<1>1. b.text \in CharSeqs /\ b.rows \in Seq(CharSeqs) /\ b.header \in Seq({"h"})
  <2> DEFINE chars == CharClasses \ {"h"}
  <2>1. b.text \in Seq(chars) /\ b.rows \in Seq(Seq(chars)) /\ b.header \in Seq({"h"})
    BY ChunkerAssumption
  <2>2. chars \subseteq CharClasses
    OBVIOUS
  <2> HIDE DEF chars
  <2>3. Seq(chars) \subseteq CharSeqs
    BY <2>2, SeqWiden DEF CharSeqs
  <2> QED BY <2>1, <2>3, SeqWiden
<1>2. b.scope \in Scopes /\ b.id \in Ids /\ b.page \in Pages /\ b.form \in Forms
  BY DEF Scopes, Ids, Pages, Forms
<1>3. IsStamp(MetaOf(b)) /\ (~HeaderFits(b) => IsMeta(MetaOf(b)))
  <2> DEFINE m == MetaOf(b)
  <2>1. m.scope = b.scope /\ m.blocks = <<b.id>> /\ m.pages = {b.page} /\ m.form = b.form
    BY DEF MetaOf
  <2> HIDE DEF m
  <2>2. <<b.id>> \in Seq(Ids) /\ {b.page} \in SUBSET Pages
    BY <1>2
  <2>3. IsStamp(m)
    BY <1>2, <2>1, <2>2 DEF IsStamp
  <2>4. ASSUME ~HeaderFits(b), NEW d \in SourceBlocks, HeaderFits(d) PROVE m.blocks # <<d.id>>
    <3>1. <<b.id>> = <<d.id>> => b.id = d.id
      OBVIOUS
    <3>2. b.id = d.id => b = d
      BY ChunkerAssumption
    <3> QED BY <2>1, <2>4, <3>1, <3>2
  <2> QED BY <2>3, <2>4 DEF m, IsMeta
<1>4. HeaderParts(b) \in Seq(CharSeqs) /\ InksOf(HeaderParts(b)) = <<>>
  <2>1. CASE b.header = <<>>
    BY <2>1, InksOfNone DEF HeaderParts
  <2>2. CASE b.header # <<>>
    <3> DEFINE h == Append(b.header, "n")
    <3>1. h \in CharSeqs /\ \A i \in 1 .. Len(h) : h[i] \in {" ", "n", "h"}
      <4>1. h \in Seq({"n", "h"})
        <5>1. b.header \in Seq({"n", "h"})
          BY <1>1
        <5> QED BY <5>1
      <4> HIDE DEF h
      <4>2. h \in Seq(CharClasses)
        <5>1. {"n", "h"} \subseteq CharClasses
          BY DEF CharClasses
        <5> HIDE DEF CharClasses
        <5> QED BY <4>1, <5>1
      <4>3. \A i \in 1 .. Len(h) : h[i] \in {"n", "h"}
        BY <4>1
      <4> QED BY <4>2, <4>3 DEF CharSeqs
    <3>2. HeaderParts(b) = <<h>>
      BY <2>2 DEF HeaderParts
    <3> HIDE DEF h
    <3>3. Ink(h) = <<>>
      BY <3>1, NoInk
    <3> QED BY <3>1, <3>2, <3>3, InksOne
  <2> QED BY <2>1, <2>2
<1> QED BY <1>1, <1>2, <1>3, <1>4

(* Parts that are empty have no ink.                                       *)
LEMMA SelectedInks ==
    ASSUME NEW ps \in Seq(CharSeqs)
    PROVE  /\ Selected(ps, ToSet(ps) \ {<<>>}) \in Seq(CharSeqs)
           /\ InksOf(Selected(ps, ToSet(ps) \ {<<>>})) = InksOf(ps)
<1> DEFINE n == Len(ps)
           S == ToSet(ps) \ {<<>>}
           pre(k) == SubSeq(ps, 1, k)
           P == {k \in 0 .. n : InksOf(Selected(pre(k), S)) = InksOf(pre(k))}
<1>0. n \in Nat /\ \A i \in 1 .. n : ps[i] \in S <=> ps[i] # <<>>
  BY DEF ToSet
<1> HIDE DEF S
<1>1. 0 \in P
  <2>1. pre(0) = <<>>
    OBVIOUS
  <2> HIDE DEF pre
  <2>2. Selected(<<>>, S) = <<>>
    BY SelectedEmpty
  <2> QED BY <1>0, <2>1, <2>2
<1>2. ASSUME NEW k \in 1 .. n, k - 1 \in P PROVE k \in P
  <2> DEFINE p == pre(k - 1)
             e == ps[k]
             sel == Selected(p, S)
  <2>1. p \in Seq(CharSeqs) /\ e \in CharSeqs /\ pre(k) = Append(p, e)
    BY PrefixGrows
  <2>2. InksOf(sel) = InksOf(p)
    BY <1>2
  <2>3. e \in S <=> e # <<>>
    BY <1>0
  <2> HIDE DEF p, e, pre
  <2>4. Selected(Append(p, e), S) = IF e \in S THEN Append(sel, e) ELSE sel
    BY <2>1, SelectedAppend
  <2>5. sel \in Seq(CharSeqs)
    BY <2>1, SelectedPlaces
  <2> HIDE DEF sel
  <2>6. InksOf(Append(p, e)) = InksOf(p) \o Ink(e) /\ InksOf(p) \in CharSeqs
    BY <2>1, InksAppend
  <2>7. InksOf(Selected(pre(k), S)) = InksOf(pre(k))
    <3>1. CASE e \in S
      <4>1. InksOf(Append(sel, e)) = InksOf(sel) \o Ink(e)
        BY <2>1, <2>5, InksAppend
      <4> QED BY <2>1, <2>2, <2>4, <2>6, <3>1, <4>1
    <3>2. CASE e \notin S
      <4>1. Ink(e) = <<>> /\ InksOf(p) \o <<>> = InksOf(p)
        BY <2>3, <2>6, <3>2, InkOfNothing, Glue
      <4> QED BY <2>1, <2>2, <2>4, <2>6, <3>2, <4>1
    <3> QED BY <3>1, <3>2
  <2> QED BY <2>7
<1> HIDE DEF P
<1>3. n \in P
  <2>1. \A k \in 0 .. n : k \in P
    <3> HIDE DEF n
    <3> QED BY <1>0, <1>1, <1>2, Induction
  <2> QED BY <1>0, <2>1
<1>4. pre(n) = ps
  OBVIOUS
<1>5. Selected(ps, S) \in Seq(CharSeqs)
  BY SelectedPlaces
<1> QED BY <1>3, <1>4, <1>5 DEF P, S

(* What is left of a buffer when it is joined.                             *)
Held(ps) == JoinLines(Selected(ps, ToSet(ps) \ {<<>>}))

Room == (MaxTokens + 1) * CharsPerToken

Small(t) == Len(t) + 1 <= Room

(* A text that begins with the header of a table is not lost by stripping. *)
LEMMA HeaderStays ==
    ASSUME NEW b \in SourceBlocks, b.header # <<>>, NEW t \in CharSeqs, Begins(b.header, t)
    PROVE  Begins(b.header, Strip(t))
<1> DEFINE h == b.header
           n == Len(t)
           S == {i \in 1 .. n : t[i] \notin {" ", "n"}}
           m == Max(S)
<1>1. h \in Seq({"h"}) /\ Len(h) \in Nat \ {0} /\ \A i \in 1 .. Len(h) : h[i] = "h"
  <2>1. h \in Seq({"h"})
    BY ChunkerAssumption
  <2> HIDE DEF h
  <2> QED BY <2>1 DEF h
<1>2. n \in Nat /\ DOMAIN t = 1 .. n /\ t \in Seq(CharClasses)
  BY DEF CharSeqs
<1>3. Len(h) <= n /\ \A i \in 1 .. Len(h) : t[i] = h[i]
  BY DEF Begins
<1>4. Strip(t) = IF S = {} THEN <<>> ELSE SubSeq(t, Min(S), m)
  BY <1>2 DEF Strip
<1> HIDE DEF h
<1>5. \A i \in 1 .. Len(h) : i \in 1 .. n /\ t[i] \notin {" ", "n"}
  <2>1. \A i \in 1 .. Len(h) : t[i] = "h"
    BY <1>1, <1>3
  <2>2. \A i \in 1 .. Len(h) : i \in 1 .. n
    <3> HIDE DEF n
    <3> QED BY <1>1, <1>2, <1>3
  <2> QED BY <2>1, <2>2
<1>6. 1 \in S /\ Len(h) \in S
  <2>1. 1 \in 1 .. Len(h) /\ Len(h) \in 1 .. Len(h)
    BY <1>1
  <2> HIDE DEF n
  <2> QED BY <1>5, <2>1
<1>7. S \in SUBSET (0 .. n) /\ S # {} /\ \A i \in S : i \in 1 .. n
  <2>1. \A i \in S : i \in 1 .. n
    OBVIOUS
  <2> HIDE DEF S, n
  <2> QED BY <1>2, <1>6, <2>1
<1> HIDE DEF S, n
<1>8. Min(S) \in S /\ m \in S /\ \A x \in S : Min(S) <= x /\ x <= m
  BY <1>2, <1>7, MinMax
<1> HIDE DEF m
<1>9. Min(S) = 1 /\ m \in 1 .. n /\ Len(h) <= m
  <2>1. Min(S) \in 1 .. n /\ Min(S) <= 1 /\ m \in 1 .. n /\ Len(h) <= m
    BY <1>6, <1>7, <1>8
  <2> QED BY <1>2, <2>1
<1>10. Strip(t) = SubSeq(t, 1, m)
  BY <1>4, <1>7, <1>9
<1>11. /\ Len(SubSeq(t, 1, m)) = m - 1 + 1
       /\ \A i \in 1 .. m - 1 + 1 : SubSeq(t, 1, m)[i] = t[1 + i - 1]
  <2>1. 1 \in 1 .. Len(t) + 1 /\ m \in 1 - 1 .. Len(t)
    BY <1>2, <1>9 DEF n
  <2> QED BY <1>2, <2>1, PieceFacts
<1>12. Len(h) <= Len(Strip(t)) /\ \A i \in 1 .. Len(h) : Strip(t)[i] = h[i]
  <2>1. \A i \in 1 .. Len(h) : i \in 1 .. m - 1 + 1 /\ 1 + i - 1 = i
    BY <1>1, <1>9
  <2> QED BY <1>3, <1>9, <1>10, <1>11, <2>1
<1> QED BY <1>12 DEF Begins, h

(* A text that begins with another has it for a prefix.                    *)
LEMMA BeginsIsPrefix ==
    ASSUME NEW h \in Seq({"h"}), NEW t \in CharSeqs, Begins(h, t)
    PROVE  IsPrefix(h, t)
<1>1. Len(h) \in Nat /\ Len(t) \in Nat /\ Len(h) <= Len(t) /\ t \in Seq(CharClasses)
      /\ \A i \in 1 .. Len(h) : t[i] = h[i]
  BY DEF Begins, CharSeqs
<1>2. SubSeq(h, 1, Len(h)) = h
  OBVIOUS
<1>3. SubSeq(t, 1, Len(h)) = h
  <2> DEFINE s == SubSeq(t, 1, Len(h))
  <2>1. /\ s \in Seq(CharClasses) /\ Len(s) = Len(h) - 1 + 1
        /\ \A i \in 1 .. Len(h) - 1 + 1 : s[i] = t[1 + i - 1]
    <3>1. 1 \in 1 .. Len(t) + 1 /\ Len(h) \in 1 - 1 .. Len(t)
      BY <1>1
    <3> QED BY <1>1, <3>1, PieceFacts
  <2> HIDE DEF s
  <2>2. Len(s) = Len(h) /\ \A i \in 1 .. Len(s) : s[i] = h[i]
    BY <1>1, <2>1
  <2>3. h \in Seq(CharClasses)
    <3>1. {"h"} \subseteq CharClasses
      BY DEF CharClasses
    <3> QED BY <3>1, SeqWiden
  <2> QED BY <2>1, <2>2, <2>3, SeqEqual DEF s
<1> QED BY <1>1, <1>2, <1>3 DEF IsPrefix

(* What is small by its length is small by its estimate, and conversely.   *)
LEMMA SmallFacts ==
    ASSUME NEW t \in CharSeqs
    PROVE  Small(t) <=> estimate_tokens(t) <= MaxTokens
<1>1. ASSUME Small(t) PROVE estimate_tokens(t) <= MaxTokens
  BY <1>1, EstimateFacts, Numbers DEF Small, Room
<1>2. ASSUME estimate_tokens(t) <= MaxTokens PROVE Small(t)
  <2>1. estimate_tokens(t) \in 0 .. MaxTokens /\ Len(t) + 1 <= (estimate_tokens(t) + 1) * CharsPerToken
    BY <1>2, EstimateFacts, Numbers
  <2>2. Len(t) + 1 \in Nat /\ 1 \in Nat
    BY DEF CharSeqs
  <2> QED BY <2>1, <2>2, WithinBudget DEF Small, Room
<1> QED BY <1>1, <1>2

(* A row that fits beside the header is no oversized row.                  *)
LEMMA RowBeside ==
    ASSUME NEW b \in SourceBlocks, NEW row \in CharSeqs,
           estimate_tokens(b.header \o <<"n", "n">> \o row) <= MaxTokens
    PROVE  estimate_tokens(row) <= MaxTokens /\ Len(b.header) + 2 + Len(row) + 1 <= Room
<1> DEFINE h == b.header
           nn == <<"n", "n">>
           s == h \o nn \o row
<1>1. h \in CharSeqs /\ nn \in CharSeqs /\ Len(nn) = 2
  <2>1. h \in Seq({"h"}) /\ nn \in Seq({"n"}) /\ Len(nn) = 2
    BY ChunkerAssumption
  <2>2. {"h"} \subseteq CharClasses /\ {"n"} \subseteq CharClasses
    BY DEF CharClasses
  <2> HIDE DEF h, nn
  <2> QED BY <2>1, <2>2, SeqWiden DEF CharSeqs
<1> HIDE DEF h, nn
<1>2. h \o nn \in CharSeqs /\ Len(h \o nn) = Len(h) + 2
  <2>1. h \in Seq(CharClasses) /\ nn \in Seq(CharClasses)
    BY <1>1 DEF CharSeqs
  <2>2. h \o nn \in Seq(CharClasses) /\ Len(h \o nn) = Len(h) + Len(nn)
    BY <2>1, ConcatProperties
  <2> QED BY <1>1, <2>2 DEF CharSeqs
<1>3. (h \o nn) \o row \in CharSeqs /\ Len((h \o nn) \o row) = Len(h \o nn) + Len(row)
  BY <1>2, ConcatProperties DEF CharSeqs
<1>4. Len(h) \in Nat /\ Len(row) \in Nat
  BY <1>1 DEF CharSeqs
<1>5. Small(s)
  BY <1>3, SmallFacts DEF h, nn
<1>6. Room \in Nat
  BY Numbers, Multiples DEF Room
<1>7. Len(h) + 2 + Len(row) + 1 <= Room
  BY <1>2, <1>3, <1>4, <1>5, <1>6 DEF Small
<1>8. Small(row)
  BY <1>4, <1>6, <1>7 DEF Small
<1> QED BY <1>7, <1>8, SmallFacts DEF h

(* A buffer with the header of a table before its rows, of which `chars'   *)
(* is at least the length: it fits in a chunk, if it has rows.             *)
HoldsHeader(b, ps, chars) ==
    /\ Begins(b.header, Held(ps)) /\ Len(Held(ps)) <= chars
    /\ Len(ps) = 1 => chars = Len(b.header) + 1
    /\ Len(ps) > 1 => Small(Held(ps))

(* What a buffer holds when a row is added.                                *)
LEMMA HeldGrows ==
    ASSUME NEW ps \in Seq(CharSeqs), NEW row \in CharSeqs
    PROVE  /\ Held(ps) \in CharSeqs
           /\ Held(Append(ps, row)) = IF row = <<>> THEN Held(ps) ELSE JoinLine(Held(ps), row)
<1> DEFINE S == CharSeqs \ {<<>>}
           qs == Append(ps, row)
<1>1. /\ qs \in Seq(CharSeqs)
      /\ \A i \in 1 .. Len(ps) : ps[i] \in CharSeqs /\ (ps[i] \in ToSet(ps) \ {<<>>} <=> ps[i] # <<>>)
      /\ \A i \in 1 .. Len(qs) : qs[i] \in CharSeqs /\ (qs[i] \in ToSet(qs) \ {<<>>} <=> qs[i] # <<>>)
  <2>1. \A rs \in Seq(CharSeqs) : \A i \in 1 .. Len(rs) :
          rs[i] \in CharSeqs /\ (rs[i] \in ToSet(rs) \ {<<>>} <=> rs[i] # <<>>)
    BY DEF ToSet
  <2>2. qs \in Seq(CharSeqs)
    BY AppendProperties
  <2> HIDE DEF qs
  <2> QED BY <2>1, <2>2
<1>2. Selected(ps, ToSet(ps) \ {<<>>}) = Selected(ps, S)
  BY <1>1, SelectedSame
<1> HIDE DEF qs
<1>3. Selected(qs, ToSet(qs) \ {<<>>}) = Selected(qs, S)
  BY <1>1, SelectedSame
<1>4. row \in S <=> row # <<>>
  OBVIOUS
<1> HIDE DEF S
<1>5. Selected(ps, S) \in Seq(CharSeqs)
  BY SelectedPlaces
<1>6. Selected(qs, S) = IF row \in S THEN Append(Selected(ps, S), row) ELSE Selected(ps, S)
  BY SelectedAppend DEF qs
<1>7. /\ JoinLines(Selected(ps, S)) \in CharSeqs
      /\ JoinLines(Append(Selected(ps, S), row)) = JoinLine(JoinLines(Selected(ps, S)), row)
  BY <1>5, JoinGrows
<1>8. Held(ps) = JoinLines(Selected(ps, S)) /\ Held(qs) = JoinLines(Selected(qs, S))
  BY <1>2, <1>3 DEF Held
<1>9. Held(qs) = IF row = <<>> THEN Held(ps) ELSE JoinLine(Held(ps), row)
  BY <1>4, <1>6, <1>7, <1>8
<1> QED BY <1>7, <1>8, <1>9 DEF qs

(* A table begins with its header alone.                                   *)
LEMMA HeaderHeld ==
    ASSUME NEW b \in SourceBlocks, b.header # <<>>
    PROVE  Len(HeaderParts(b)) = 1 /\ HoldsHeader(b, HeaderParts(b), HeaderChars(b))
<1> DEFINE h == b.header
           x == Append(h, "n")
           none == <<>>
<1>1. h \in Seq(CharClasses)
  <2>1. h \in Seq({"h"}) /\ {"h"} \subseteq CharClasses
    BY ChunkerAssumption DEF CharClasses
  <2> HIDE DEF h
  <2> QED BY <2>1, SeqWiden
<1>2. /\ x \in CharSeqs /\ Len(x) = Len(h) + 1 /\ x # <<>> /\ Len(h) \in Nat
      /\ \A i \in 1 .. Len(h) : x[i] = h[i]
  <2>1. "n" \in CharClasses
    BY DEF CharClasses
  <2> HIDE DEF h
  <2> QED BY <1>1, <2>1, AppendProperties DEF CharSeqs
<1>3. HeaderParts(b) = Append(none, x) /\ none \in Seq(CharSeqs) /\ Len(Append(none, x)) = 1
  BY DEF HeaderParts
<1> HIDE DEF x, h
<1>4. Held(none) = <<>>
  <2>1. Selected(none, ToSet(none) \ {<<>>}) = <<>>
    BY SelectedEmpty
  <2> QED BY <2>1, JoinOfNone DEF Held
<1>5. JoinLines(none) = <<>>
  BY JoinOfNone
<1> HIDE DEF none
<1>6. Held(HeaderParts(b)) = x
  BY <1>2, <1>3, <1>4, HeldGrows DEF JoinLine
<1>7. HeaderChars(b) = Len(x)
  <2>1. JoinLines(Append(none, x)) = JoinLine(JoinLines(none), x)
    BY <1>2, <1>3, JoinGrows
  <2> QED BY <1>3, <1>5, <2>1 DEF HeaderChars, JoinLine
<1>8. Begins(h, x)
  BY <1>2 DEF Begins
<1> QED BY <1>2, <1>3, <1>6, <1>7, <1>8 DEF HoldsHeader, h

(* A row that fits beside the header joins a buffer that has no other row, *)
(* or has room for it.                                                     *)
LEMMA HeaderRow ==
    ASSUME NEW b \in SourceBlocks, b.header # <<>>, NEW ps \in Seq(CharSeqs), NEW chars \in Nat,
           NEW row \in CharSeqs, HoldsHeader(b, ps, chars), Len(ps) >= 1,
           Len(b.header) + 2 + Len(row) + 1 <= Room,
           Len(ps) = 1 \/ chars + Len(row) + 1 <= Budget
    PROVE  HoldsHeader(b, Append(ps, row), chars + Len(row) + 1)
<1> DEFINE h == b.header
           p == Held(ps)
           q == Held(Append(ps, row))
<1>1. p \in CharSeqs /\ q = IF row = <<>> THEN p ELSE JoinLine(p, row)
  BY HeldGrows
<1>2. Len(Append(ps, row)) = Len(ps) + 1 /\ Len(ps) \in Nat
  BY AppendProperties
<1>3. Begins(h, p) /\ Len(p) <= chars /\ (Len(ps) = 1 => chars = Len(h) + 1)
  BY DEF HoldsHeader
<1>4. h \in Seq({"h"}) /\ h # <<>>
  BY ChunkerAssumption
<1> HIDE DEF h, p, q
<1>5. Len(h) \in Nat \ {0} /\ Len(p) \in Nat /\ Len(row) \in Nat
  BY <1>1, <1>4 DEF CharSeqs
<1>6. p # <<>>
  BY <1>3, <1>5 DEF Begins
<1>7. Begins(h, q) /\ Len(q) \in Nat /\ Len(q) <= Len(p) + 1 + Len(row)
  <2>1. CASE row = <<>>
    BY <1>1, <1>3, <1>5, <2>1
  <2>2. CASE row # <<>>
    <3> DEFINE newline == <<"n">>
               r == newline \o row
    <3>1. q = p \o newline \o row
      BY <1>1, <1>6, <2>2 DEF JoinLine
    <3>2. newline \in CharSeqs /\ Len(newline) = 1
      BY Newline
    <3> HIDE DEF newline
    <3>3. /\ p \o newline \in Seq(CharClasses) /\ Len(p \o newline) = Len(p) + 1
          /\ \A i \in 1 .. Len(p) : (p \o newline)[i] = p[i]
      <4>1. p \in Seq(CharClasses) /\ newline \in Seq(CharClasses) /\ Len(newline) = 1
        BY <1>1, <3>2 DEF CharSeqs
      <4>2. /\ p \o newline \in Seq(CharClasses) /\ Len(p \o newline) = Len(p) + Len(newline)
            /\ \A i \in 1 .. Len(p) + Len(newline) :
                  (p \o newline)[i] = IF i <= Len(p) THEN p[i] ELSE newline[i - Len(p)]
        BY <4>1, ConcatProperties
      <4> QED BY <1>5, <4>1, <4>2
    <3> DEFINE o == p \o newline
    <3> HIDE DEF o
    <3>4. /\ Len(o \o row) = Len(o) + Len(row)
          /\ \A i \in 1 .. Len(o) : (o \o row)[i] = o[i]
      <4>1. o \in Seq(CharClasses) /\ row \in Seq(CharClasses)
        BY <3>3 DEF CharSeqs, o
      <4> QED BY SMTT(30), <4>1, ConcatProperties
    <3>5. /\ Len(q) = Len(p) + 1 + Len(row)
          /\ \A i \in 1 .. Len(p) : q[i] = p[i]
      <4>1. Len(o) = Len(p) + 1 /\ \A i \in 1 .. Len(p) : o[i] = p[i]
        BY <3>3 DEF o
      <4>2. q = o \o row
        BY <3>1 DEF o
      <4> QED BY <1>5, <3>4, <4>1, <4>2
    <3> QED BY <1>3, <1>5, <3>5 DEF Begins
  <2> QED BY <2>1, <2>2
<1>8. Len(q) <= chars + Len(row) + 1
  BY <1>3, <1>5, <1>7
<1>9. Small(q)
  <2>1. Budget + 1 <= Room /\ Room \in Nat /\ Budget \in Nat
    <3>1. (MaxTokens + 1) * CharsPerToken = Budget + 1 * CharsPerToken
      BY Numbers, Multiples DEF Budget
    <3> QED BY <3>1, Numbers DEF Room
  <2>2. CASE Len(ps) = 1
    BY <1>3, <1>5, <1>7, <1>8, <2>1, <2>2 DEF Small, h
  <2>3. CASE chars + Len(row) + 1 <= Budget
    BY <1>5, <1>7, <1>8, <2>1, <2>3 DEF Small
  <2> QED BY <2>2, <2>3
<1> QED BY <1>2, <1>7, <1>8, <1>9 DEF HoldsHeader, h, p, q

(* What is emitted of a buffer has the ink of its parts.                   *)
LEMMA EmitFacts ==
    ASSUME NEW b \in SourceBlocks, NEW ps \in Seq(CharSeqs),
           HeaderFits(b) => Begins(b.header, Held(ps)) /\ Small(Held(ps))
    PROVE  _emit_buffer(b, ps) \in Seq(Chunks) /\ InkOfChunks(_emit_buffer(b, ps)) = InksOf(ps)
<1> DEFINE sel == Selected(ps, ToSet(ps) \ {<<>>})
           joined == JoinLines(sel)
           text == Strip(joined)
           c == ChunkOf(text, 1, MetaOf(b), FALSE)
<1>1. sel \in Seq(CharSeqs) /\ InksOf(sel) = InksOf(ps)
  BY SelectedInks
<1>2. _emit_buffer(b, ps) =
        CASE text = <<>> -> <<>>
          [] text # <<>> /\ estimate_tokens(text) <= MaxTokens -> <<c>>
          [] OTHER -> _split_text_two_phase(text, MetaOf(b), FALSE)
  BY DEF _emit_buffer
<1> HIDE DEF sel
<1>3. joined \in CharSeqs /\ Ink(joined) = InksOf(ps)
  BY <1>1, JoinGrows, Newline, InkOfJoined
<1> HIDE DEF joined
<1>4. text \in CharSeqs /\ Ink(text) = InksOf(ps) /\ Len(text) <= Len(joined)
  BY <1>3, StripKeeps
<1>h. HeaderFits(b) => Begins(b.header, text) /\ estimate_tokens(text) <= MaxTokens
  <2> SUFFICES ASSUME HeaderFits(b) PROVE Begins(b.header, text) /\ estimate_tokens(text) <= MaxTokens
    OBVIOUS
  <2>1. Begins(b.header, joined) /\ Small(joined)
    BY DEF Held, joined, sel
  <2>2. Begins(b.header, text)
    BY <1>3, <2>1, HeaderStays DEF HeaderFits
  <2> HIDE DEF text
  <2>3. Small(text)
    <3>1. Len(text) \in Nat /\ Len(joined) \in Nat /\ Room \in Nat
      BY <1>3, <1>4, Numbers DEF CharSeqs, Room
    <3>2. Len(text) <= Len(joined) /\ Len(joined) + 1 <= Room
      BY <1>4, <2>1 DEF Small
    <3> QED BY <3>1, <3>2 DEF Small
  <2> QED BY <1>4, <2>2, <2>3, SmallFacts
<1> HIDE DEF text
<1>5. IsStamp(MetaOf(b)) /\ (~HeaderFits(b) => IsMeta(MetaOf(b))) /\ MetaOf(b).blocks = <<b.id>>
  BY BlockFacts DEF MetaOf
<1>6. CASE text = <<>>
  <2>1. _emit_buffer(b, ps) = <<>> /\ <<>> \in Seq(Chunks)
    BY <1>2, <1>6
  <2> QED BY <1>4, <1>6, <2>1, ChunksOfNone, InkOfNothing
<1>7. CASE text # <<>> /\ estimate_tokens(text) <= MaxTokens
  <2>1. _emit_buffer(b, ps) = <<c>>
    BY <1>2, <1>7
  <2>2. Len(text) + 1 <= (MaxTokens + 1) * CharsPerToken
    <3>1. estimate_tokens(text) \in 0 .. MaxTokens
          /\ Len(text) + 1 <= (estimate_tokens(text) + 1) * CharsPerToken
      BY <1>4, <1>7, EstimateFacts, Numbers
    <3>2. Len(text) + 1 \in Nat /\ 1 \in Nat
      BY <1>4 DEF CharSeqs
    <3> QED BY <3>1, <3>2, WithinBudget
  <2>3. c \in Chunks /\ c.text = text
    <3>1. PICK p \in Nat \ {0} : p = 1
      OBVIOUS
    <3>2. Len(text) + 1 <= (MaxTokens + p) * CharsPerToken
      BY <2>2, <3>1
    <3>3. ChunkOf(text, p, MetaOf(b), FALSE) \in Chunks /\ ChunkOf(text, p, MetaOf(b), FALSE).text = text
      <4>1. ASSUME NEW d \in SourceBlocks, HeaderFits(d), MetaOf(b).blocks = <<d.id>>
            PROVE  Begins(d.header, text)
        <5>1. <<b.id>> = <<d.id>> => b.id = d.id
          OBVIOUS
        <5>2. b.id = d.id => b = d
          BY ChunkerAssumption
        <5> QED BY <1>h, <1>5, <4>1, <5>1, <5>2
      <4> QED BY <1>4, <1>5, <3>2, <4>1, StampedFacts
    <3> QED BY <3>1, <3>3
  <2> HIDE DEF c
  <2>4. <<c>> \in Seq(Chunks) /\ InkOfChunks(<<c>>) = Ink(c.text)
    BY <2>3, ChunkFacts, ChunksOne
  <2> QED BY <1>4, <2>1, <2>3, <2>4
<1>8. CASE text # <<>> /\ ~(estimate_tokens(text) <= MaxTokens)
  <2>1. _emit_buffer(b, ps) = _split_text_two_phase(text, MetaOf(b), FALSE)
    BY <1>2, <1>8
  <2>2. /\ _split_text_two_phase(text, MetaOf(b), FALSE) \in Seq(Chunks)
        /\ InkOfChunks(_split_text_two_phase(text, MetaOf(b), FALSE)) = Ink(text)
    BY <1>h, <1>4, <1>5, <1>8, SplitFacts
  <2> QED BY <1>4, <2>1, <2>2
<1> QED BY <1>6, <1>7, <1>8

(* Rows kept back and rows put into chunks.  Beyond the header there is a  *)
(* row, or there is no ink.                                                *)
Tables(b) ==
    {t \in [out : Seq(Chunks), parts : Seq(CharSeqs), chars : Nat] :
        /\ Len(t.parts) >= Len(HeaderParts(b))
        /\ Len(t.parts) = Len(HeaderParts(b)) => InksOf(t.parts) = <<>>
        /\ HeaderFits(b) => HoldsHeader(b, t.parts, t.chars)}

Shown(t) == InkOfChunks(t.out) \o InksOf(t.parts)

(* What a table has put out and what it still holds, in order.             *)
LEMMA ShownFacts ==
    ASSUME NEW o \in Seq(Chunks), NEW ps \in Seq(CharSeqs), NEW row \in CharSeqs
    PROVE  /\ InkOfChunks(o) \in CharSeqs /\ InksOf(ps) \in CharSeqs /\ Ink(row) \in CharSeqs
           /\ (InkOfChunks(o) \o InksOf(ps)) \o Ink(row) = InkOfChunks(o) \o (InksOf(ps) \o Ink(row))
           /\ InkOfChunks(o) \o InksOf(ps) \in CharSeqs
<1>1. InkOfChunks(o) \in CharSeqs /\ InksOf(ps) \in CharSeqs /\ Ink(row) \in CharSeqs
  BY ChunkFacts, TextsFacts, InksAppend, InkConcat
<1>2. (InkOfChunks(o) \o InksOf(ps)) \o Ink(row) = InkOfChunks(o) \o (InksOf(ps) \o Ink(row))
  <2>1. IsGrouped(CharClasses)
    BY Grouping
  <2> QED BY <1>1, <2>1, Zenon DEF IsGrouped, CharSeqs
<1>3. InkOfChunks(o) \o InksOf(ps) \in CharSeqs
  BY <1>1, InkConcat
<1> QED BY <1>1, <1>2, <1>3

(* A table that holds its header only shows what it has put out.           *)
LEMMA HeaderTable ==
    ASSUME NEW b \in SourceBlocks, NEW o \in Seq(Chunks), NEW n \in Nat,
           HeaderFits(b) => n = HeaderChars(b)
    PROVE  /\ [out |-> o, parts |-> HeaderParts(b), chars |-> n] \in Tables(b)
           /\ Shown([out |-> o, parts |-> HeaderParts(b), chars |-> n]) = InkOfChunks(o)
<1> DEFINE h == HeaderParts(b)
           t == [out |-> o, parts |-> h, chars |-> n]
<1>1. h \in Seq(CharSeqs) /\ InksOf(h) = <<>>
  BY BlockFacts
<1> HIDE DEF h
<1>2. t.out = o /\ t.parts = h /\ t.chars = n /\ t \in [out : Seq(Chunks), parts : Seq(CharSeqs), chars : Nat]
  BY <1>1
<1> HIDE DEF t
<1>3. Len(h) \in Nat
  BY <1>1
<1>h. HeaderFits(b) => HoldsHeader(b, t.parts, t.chars)
  <2> SUFFICES ASSUME HeaderFits(b) PROVE HoldsHeader(b, t.parts, t.chars)
    OBVIOUS
  <2>1. b.header # <<>>
    BY DEF HeaderFits
  <2>2. HoldsHeader(b, HeaderParts(b), HeaderChars(b))
    BY <2>1, HeaderHeld
  <2> QED BY <1>2, <2>2 DEF h
<1>4. t \in Tables(b)
  BY <1>1, <1>2, <1>3, <1>h DEF Tables, h
<1>5. InkOfChunks(o) \in CharSeqs /\ InkOfChunks(o) \o <<>> = InkOfChunks(o)
  <2>1. InkOfChunks(o) \in CharSeqs
    BY ChunkFacts, TextsFacts
  <2> QED BY <2>1, Glue
<1>6. Shown(t) = InkOfChunks(o)
  BY <1>1, <1>2, <1>5 DEF Shown
<1> QED BY <1>4, <1>6 DEF t, h

(* A row more adds its ink.                                                *)
LEMMA RowFacts ==
    ASSUME NEW b \in SourceBlocks, NEW t \in Tables(b), NEW row \in CharSeqs,
           HeaderFits(b) => estimate_tokens(b.header \o <<"n", "n">> \o row) <= MaxTokens
    PROVE  Row(b, t, row) \in Tables(b) /\ Shown(Row(b, t, row)) = Shown(t) \o Ink(row)
<1> DEFINE h == HeaderParts(b)
           emitted == _emit_buffer(b, t.parts)
           full == t.chars + Len(row) + 1 > MaxTokens * CharsPerToken /\ Len(t.parts) > Len(h)
           flushed == [out |-> t.out \o emitted, parts |-> h, chars |-> HeaderChars(b)]
           kept == IF full THEN flushed ELSE t
           d == Row(b, t, row)
<1>1. /\ t \in [out : Seq(Chunks), parts : Seq(CharSeqs), chars : Nat]
      /\ t.out \in Seq(Chunks) /\ t.parts \in Seq(CharSeqs) /\ t.chars \in Nat
      /\ Len(t.parts) >= Len(h) /\ (HeaderFits(b) => HoldsHeader(b, t.parts, t.chars))
  BY DEF Tables
<1>2. h \in Seq(CharSeqs) /\ InksOf(h) = <<>> /\ Len(h) \in Nat /\ Len(row) \in Nat
      /\ Len(t.parts) \in Nat /\ (~HeaderFits(b) => IsMeta(MetaOf(b)))
  <2>1. h \in Seq(CharSeqs) /\ InksOf(h) = <<>> /\ (~HeaderFits(b) => IsMeta(MetaOf(b)))
    BY BlockFacts
  <2>2. Len(h) \in Nat
    BY <2>1
  <2> QED BY <1>1, <2>1, <2>2 DEF CharSeqs
<1>h. HeaderFits(b) => /\ Len(h) = 1 /\ estimate_tokens(row) <= MaxTokens
                       /\ Len(b.header) + 2 + Len(row) + 1 <= Room
  <2> SUFFICES ASSUME HeaderFits(b)
               PROVE  /\ Len(h) = 1 /\ estimate_tokens(row) <= MaxTokens
                      /\ Len(b.header) + 2 + Len(row) + 1 <= Room
    OBVIOUS
  <2>1. b.header # <<>>
    BY DEF HeaderFits
  <2>2. Len(h) = 1
    BY <2>1, HeaderHeld
  <2> HIDE DEF h
  <2> QED BY <2>2, RowBeside
<1>3. Len(t.parts) > Len(h) \/ ~HeaderFits(b) =>
        emitted \in Seq(Chunks) /\ InkOfChunks(emitted) = InksOf(t.parts)
  <2> SUFFICES ASSUME Len(t.parts) > Len(h) \/ ~HeaderFits(b)
               PROVE  emitted \in Seq(Chunks) /\ InkOfChunks(emitted) = InksOf(t.parts)
    OBVIOUS
  <2>1. HeaderFits(b) => Begins(b.header, Held(t.parts)) /\ Small(Held(t.parts))
    <3> HIDE DEF h
    <3> QED BY <1>1, <1>h DEF HoldsHeader
  <2> HIDE DEF h
  <2> QED BY <1>1, <2>1, EmitFacts
<1>4. HeaderChars(b) \in Nat
  <2>1. JoinLines(h) \in CharSeqs
    BY <1>2, JoinGrows, Newline
  <2> QED BY <2>1 DEF HeaderChars, CharSeqs
<1>5. Len(t.parts) > Len(h) \/ ~HeaderFits(b) =>
        t.out \o emitted \in Seq(Chunks) /\ InkOfChunks(t.out \o emitted) = Shown(t)
  <2> SUFFICES ASSUME Len(t.parts) > Len(h) \/ ~HeaderFits(b)
               PROVE  t.out \o emitted \in Seq(Chunks) /\ InkOfChunks(t.out \o emitted) = Shown(t)
    OBVIOUS
  <2> HIDE DEF emitted, h
  <2>1. t.out \o emitted \in Seq(Chunks) /\ InkOfChunks(t.out \o emitted) = InkOfChunks(t.out) \o InkOfChunks(emitted)
    BY <1>1, <1>3, ChunkFacts, ChunksConcat
  <2> QED BY <1>3, <2>1 DEF Shown
<1> HIDE DEF emitted
<1>6. kept \in Tables(b) /\ Shown(kept) = Shown(t)
  <2>1. CASE full
    <3>1. flushed \in Tables(b) /\ Shown(flushed) = InkOfChunks(t.out \o emitted)
      BY <1>4, <1>5, <2>1, HeaderTable
    <3>2. Len(t.parts) > Len(h)
      BY <2>1
    <3> HIDE DEF flushed, full, h
    <3> QED BY <1>5, <2>1, <3>1, <3>2
  <2>2. CASE ~full
    <3> HIDE DEF flushed, full
    <3> QED BY <2>2
  <2> QED BY <2>1, <2>2
<1>7. CASE estimate_tokens(row) > MaxTokens
  <2>h. ~HeaderFits(b)
    <3>1. estimate_tokens(row) \in Nat /\ MaxTokens \in Nat
      BY EstimateFacts, Numbers
    <3> HIDE DEF h
    <3> QED BY <1>7, <1>h, <3>1
  <2> DEFINE s == _split_text_two_phase(row, MetaOf(b), TRUE)
             o == (t.out \o emitted) \o s
             x == [out |-> o, parts |-> h, chars |-> t.chars]
  <2>1. d = [t EXCEPT !.out = o, !.parts = h]
    BY <1>7 DEF Row, emitted
  <2>2. d = x
    <3> HIDE DEF o, h, d
    <3> QED BY <1>1, <2>1
  <2>3. s \in Seq(Chunks) /\ InkOfChunks(s) = Ink(row)
    BY <1>2, <2>h, SplitFacts
  <2> HIDE DEF s
  <2>4. o \in Seq(Chunks) /\ InkOfChunks(o) = InkOfChunks(t.out \o emitted) \o InkOfChunks(s)
    BY <1>5, <2>h, <2>3, ChunkFacts, ChunksConcat
  <2> HIDE DEF o, d
  <2>5. x \in Tables(b) /\ Shown(x) = InkOfChunks(o)
    BY <1>1, <2>h, <2>4, HeaderTable
  <2>6. d \in Tables(b) /\ Shown(d) = Shown(t) \o Ink(row)
    <3> HIDE DEF x, h
    <3> QED BY <1>5, <2>h, <2>2, <2>3, <2>4, <2>5
  <2> QED BY <2>6 DEF d
<1>8. CASE ~(estimate_tokens(row) > MaxTokens)
  <2> DEFINE ps == Append(kept.parts, row)
  <2>1. d = [kept EXCEPT !.parts = Append(@, row), !.chars = @ + Len(row) + 1]
    <3>1. d = IF estimate_tokens(row) > MaxTokens
              THEN [t EXCEPT !.out = @ \o emitted \o _split_text_two_phase(row, MetaOf(b), TRUE),
                             !.parts = h]
              ELSE [kept EXCEPT !.parts = Append(@, row), !.chars = @ + Len(row) + 1]
      BY DEF Row, emitted
    <3> HIDE DEF d, kept, h
    <3> QED BY <1>8, <3>1
  <2>k. HeaderFits(b) => Len(kept.parts) = 1 \/ kept.chars + Len(row) + 1 <= Budget
    <3>1. CASE full
      <4>1. kept.parts = h
        BY <3>1
      <4> HIDE DEF kept, h
      <4> QED BY <1>h, <4>1
    <3>2. CASE ~full
      <4>1. kept = t
        BY <3>2
      <4>2. ~(t.chars + Len(row) + 1 > Budget /\ Len(t.parts) > Len(h))
        BY <3>2 DEF Budget
      <4> HIDE DEF kept, h
      <4> QED BY <1>1, <1>2, <1>h, <4>1, <4>2, Numbers
    <3> QED BY <3>1, <3>2
  <2> HIDE DEF kept, d
  <2>2. kept \in [out : Seq(Chunks), parts : Seq(CharSeqs), chars : Nat] /\ Len(kept.parts) >= Len(h)
        /\ kept.out \in Seq(Chunks) /\ kept.parts \in Seq(CharSeqs) /\ kept.chars \in Nat
        /\ (HeaderFits(b) => HoldsHeader(b, kept.parts, kept.chars))
    BY <1>6 DEF Tables
  <2>3. /\ ps \in Seq(CharSeqs) /\ Len(ps) = Len(kept.parts) + 1
        /\ InksOf(ps) = InksOf(kept.parts) \o Ink(row)
    BY <2>2, AppendProperties, InksAppend
  <2>4. d.out = kept.out /\ d.parts = ps /\ d.chars = kept.chars + Len(row) + 1 /\ d \in [out : Seq(Chunks), parts : Seq(CharSeqs), chars : Nat]
    <3> HIDE DEF ps
    <3>1. d = [kept EXCEPT !.parts = ps, !.chars = kept.chars + Len(row) + 1]
      BY <2>1 DEF ps
    <3>2. kept.chars + Len(row) + 1 \in Nat
      BY <1>2, <2>2
    <3> QED BY <2>2, <2>3, <3>1, <3>2
  <2>h. HeaderFits(b) => HoldsHeader(b, d.parts, d.chars)
    <3> SUFFICES ASSUME HeaderFits(b) PROVE HoldsHeader(b, d.parts, d.chars)
      OBVIOUS
    <3>1. HoldsHeader(b, Append(kept.parts, row), kept.chars + Len(row) + 1)
      <4>1. b.header # <<>>
        BY DEF HeaderFits
      <4>2. Len(kept.parts) >= 1
        BY <1>h, <2>2
      <4> HIDE DEF h
      <4> QED BY <1>h, <2>k, <2>2, <4>1, <4>2, HeaderRow
    <3> QED BY <2>4, <3>1
  <2> HIDE DEF ps
  <2>5. Len(ps) > Len(h)
    <3>1. Len(kept.parts) \in Nat
      BY <2>2
    <3> QED BY <1>2, <2>2, <2>3, <3>1
  <2>6. d \in Tables(b)
    <3>1. Len(d.parts) >= Len(HeaderParts(b)) /\ Len(d.parts) # Len(HeaderParts(b))
      <4>1. Len(ps) \in Nat
        BY <2>3
      <4> QED BY <1>2, <2>4, <2>5, <4>1
    <3> QED BY <2>h, <2>4, <3>1 DEF Tables
  <2>7. Shown(d) = Shown(kept) \o Ink(row)
    <3>1. (InkOfChunks(kept.out) \o InksOf(kept.parts)) \o Ink(row)
            = InkOfChunks(kept.out) \o (InksOf(kept.parts) \o Ink(row))
      BY <2>2, ShownFacts
    <3> QED BY <2>3, <2>4, <3>1 DEF Shown
  <2> QED BY <1>6, <2>6, <2>7 DEF d
<1> QED BY <1>7, <1>8

(* What is made of a table after each row.                                 *)
IsTabling(f, b) ==
    /\ f[0] = [out |-> <<>>, parts |-> HeaderParts(b), chars |-> HeaderChars(b)] /\ \A k \in 0 .. Len(b.rows) : f[k] \in Tables(b)
    /\ \A k \in 1 .. Len(b.rows) : f[k] = Row(b, f[k - 1], b.rows[k])

(* The rows of a large table are taken one by one.                         *)
LEMMA TableRuns ==
    ASSUME NEW b \in SourceBlocks, b.type = "table", b.structured
    PROVE  \E f : IsTabling(f, b) /\ _split_large_block(b) = f[Len(b.rows)].out \o (IF Len(f[Len(b.rows)].parts) > Len(HeaderParts(b)) THEN _emit_buffer(b, f[Len(b.rows)].parts) ELSE <<>>)
<1> DEFINE n == Len(b.rows)
           V == Tables(b)
           base == [out |-> <<>>, parts |-> HeaderParts(b), chars |-> HeaderChars(b)]
           Step(k, q) == Row(b, q, b.rows[k])
           Runs(f) == [k \in 0 .. n |-> IF k = 0 THEN base ELSE Step(k, f[k - 1])]
           run == CHOOSE f : f = Runs(f)
           G == [k \in 1 .. n |-> [q \in V |-> Step(k, q)]]
<1>1. n \in Nat /\ base \in V /\ \A k \in 1 .. n, q \in V : Step(k, q) \in V
  <2>1. n \in Nat /\ \A k \in 1 .. n : b.rows[k] \in CharSeqs
    BY BlockFacts
  <2>h. \A k \in 1 .. n : HeaderFits(b) =>
          estimate_tokens(b.header \o <<"n", "n">> \o b.rows[k]) <= MaxTokens
    BY BlockFacts DEF HeaderFits
  <2>2. base \in V
    <3>1. HeaderChars(b) \in Nat
      <4>1. JoinLines(HeaderParts(b)) \in CharSeqs
        BY BlockFacts, JoinGrows, Newline
      <4> QED BY <4>1 DEF HeaderChars, CharSeqs
    <3>2. <<>> \in Seq(Chunks)
      OBVIOUS
    <3> QED BY <3>1, <3>2, HeaderTable
  <2> QED BY <2>h, <2>1, <2>2, RowFacts
<1>2. _split_large_block(b) = run[n].out \o (IF Len(run[n].parts) > Len(HeaderParts(b)) THEN _emit_buffer(b, run[n].parts) ELSE <<>>)
  BY DEF _split_large_block
<1> HIDE DEF n, V, base, Step
<1>3. G \in [1 .. n -> [V -> V]] /\ \A k \in 1 .. n, q \in V : G[k][q] = Step(k, q)
  BY <1>1
<1>4. \E f : f = Runs(f)
  <2> HIDE DEF G
  <2>1. PICK f : IsIteration(f, G, base, n, V)
    BY <1>1, <1>3, Iterates
  <2>2. f \in [0 .. n -> V] /\ f[0] = base /\ \A k \in 1 .. n : f[k] = G[k][f[k - 1]]
    BY <2>1 DEF IsIteration
  <2>3. \A k \in 1 .. n : f[k] = Step(k, f[k - 1])
    <3> TAKE k \in 1 .. n
    <3>1. f[k - 1] \in V
      BY <1>1, <2>2
    <3> QED BY <1>3, <2>2, <3>1
  <2>4. f = Runs(f)
    BY <2>2, <2>3
  <2> QED BY <2>4
<1>5. run = Runs(run)
  BY <1>4
<1> HIDE DEF run, G
<1>6. run[0] = base /\ \A k \in 1 .. n : run[k] = Step(k, run[k - 1])
  BY <1>1, <1>5
<1>7. \A k \in 0 .. n : run[k] \in V
  <2>1. run[0] \in V /\ \A k \in 1 .. n : run[k - 1] \in V => run[k] \in V
    BY <1>1, <1>6
  <2> QED BY <1>1, <2>1, ValuesIn
<1>8. IsTabling(run, b)
  BY <1>6, <1>7 DEF IsTabling, n, V, base, Step
<1> QED BY <1>2, <1>8 DEF n

(* A large block keeps what is to be seen of it: of a table its rows.      *)
LEMMA LargeFacts ==
    ASSUME NEW b \in SourceBlocks, estimate_tokens(b.text) > MaxTokens
    PROVE  _split_large_block(b) \in Seq(Chunks) /\ InkOfChunks(_split_large_block(b)) = InkOf(b)
<1>1. CASE b.type = "table" /\ b.structured
  <2> DEFINE n == Len(b.rows)
             pre(k) == SubSeq(b.rows, 1, k)
  <2>0. n \in Nat /\ b.rows \in Seq(CharSeqs)
    BY BlockFacts
  <2>1. PICK f : /\ IsTabling(f, b)
                 /\ _split_large_block(b) = f[Len(b.rows)].out
                      \o (IF Len(f[Len(b.rows)].parts) > Len(HeaderParts(b))
                          THEN _emit_buffer(b, f[Len(b.rows)].parts) ELSE <<>>)
    BY <1>1, TableRuns
  <2> DEFINE P == {k \in 0 .. n : Shown(f[k]) = InksOf(pre(k))}
  <2>2. 0 \in P
    <3>1. pre(0) = <<>>
      BY <2>0
    <3>2. f[0] = [out |-> <<>>, parts |-> HeaderParts(b), chars |-> HeaderChars(b)]
      BY <2>1 DEF IsTabling
    <3>3. Shown(f[0]) = InkOfChunks(<<>>)
      <4>1. f[0].out = <<>> /\ f[0].parts = HeaderParts(b)
        BY <3>2
      <4>2. <<>> \o <<>> = <<>>
        OBVIOUS
      <4> QED BY <4>1, <4>2, BlockFacts, ChunksOfNone DEF Shown
    <3> HIDE DEF pre
    <3>4. Shown(f[0]) = InksOf(pre(0))
      BY <3>1, <3>3, ChunksOfNone, InksOfNone
    <3> QED BY <2>0, <3>4
  <2>3. ASSUME NEW k \in 1 .. n, k - 1 \in P PROVE k \in P
    <3> DEFINE p == pre(k - 1)
               e == b.rows[k]
    <3>1. p \in Seq(CharSeqs) /\ e \in CharSeqs /\ pre(k) = Append(p, e)
      BY <2>0, PrefixGrows
    <3>2. f[k - 1] \in Tables(b) /\ f[k] = Row(b, f[k - 1], e)
      <4>1. k - 1 \in 0 .. n
        BY <2>0
      <4> QED BY <2>1, <4>1 DEF IsTabling
    <3>3. Shown(f[k - 1]) = InksOf(p)
      BY <2>3
    <3> HIDE DEF p, e, pre
    <3>4. Shown(f[k]) = Shown(f[k - 1]) \o Ink(e)
      <4>1. HeaderFits(b) => estimate_tokens(b.header \o <<"n", "n">> \o e) <= MaxTokens
        BY <2>0 DEF HeaderFits, e
      <4> QED BY SMTT(30), <3>1, <3>2, <4>1, RowFacts
    <3>5. InksOf(Append(p, e)) = InksOf(p) \o Ink(e)
      BY <3>1, InksAppend
    <3>6. Shown(f[k]) = InksOf(pre(k))
      BY <3>1, <3>3, <3>4, <3>5
    <3> QED BY <3>6
  <2> HIDE DEF P
  <2>4. n \in P
    <3>1. \A k \in 0 .. n : k \in P
      <4> HIDE DEF n
      <4> QED BY <2>0, <2>2, <2>3, Induction
    <3> QED BY <2>0, <3>1
  <2>5. Shown(f[n]) = InksOf(b.rows)
    <3>1. pre(n) = b.rows
      BY <2>0
    <3> QED BY <2>4, <3>1 DEF P
  <2> DEFINE t == f[n]
             o == t.out
             ps == t.parts
             h == HeaderParts(b)
             last == IF Len(ps) > Len(h) THEN _emit_buffer(b, ps) ELSE <<>>
  <2>6. t \in Tables(b)
    BY <2>0, <2>1 DEF IsTabling
  <2>7. o \in Seq(Chunks) /\ ps \in Seq(CharSeqs) /\ Len(ps) >= Len(h) /\ (Len(ps) = Len(h) => InksOf(ps) = <<>>)
        /\ (HeaderFits(b) => HoldsHeader(b, ps, t.chars))
    BY <2>6 DEF Tables
  <2>8. _split_large_block(b) = o \o last
    BY <2>1
  <2>9. Shown(t) = InkOfChunks(o) \o InksOf(ps)
    BY DEF Shown
  <2>10. h \in Seq(CharSeqs)
    BY BlockFacts
  <2> HIDE DEF o, ps, h
  <2>11. last \in Seq(Chunks) /\ InkOfChunks(last) = InksOf(ps)
    <3>1. CASE Len(ps) > Len(h)
      <4>1. _emit_buffer(b, ps) \in Seq(Chunks) /\ InkOfChunks(_emit_buffer(b, ps)) = InksOf(ps)
        <5>1. HeaderFits(b) => Begins(b.header, Held(ps)) /\ Small(Held(ps))
          <6> SUFFICES ASSUME HeaderFits(b) PROVE Begins(b.header, Held(ps)) /\ Small(Held(ps))
            OBVIOUS
          <6>1. Len(h) = 1
            <7>1. b.header # <<>>
              BY DEF HeaderFits
            <7> QED BY <7>1, HeaderHeld DEF h
          <6> QED BY <2>7, <3>1, <6>1 DEF HoldsHeader
        <5> QED BY <2>7, <5>1, EmitFacts
      <4> QED BY <3>1, <4>1
    <3>2. CASE ~(Len(ps) > Len(h))
      <4>1. Len(ps) = Len(h)
        <5>1. Len(ps) \in Nat /\ Len(h) \in Nat
          BY <2>7, <2>10
        <5> QED BY <2>7, <3>2, <5>1
      <4>2. last = <<>> /\ <<>> \in Seq(Chunks)
        BY <3>2
      <4> QED BY <2>7, <4>1, <4>2, ChunksOfNone
    <3> QED BY <3>1, <3>2
  <2> HIDE DEF last
  <2>12. o \o last \in Seq(Chunks) /\ InkOfChunks(o \o last) = InkOfChunks(o) \o InkOfChunks(last)
    BY <2>7, <2>11, ChunkFacts, ChunksConcat
  <2>13. InkOf(b) = InksOf(b.rows)
    <3>1. InkOf(b) = Ink(JoinLines(b.rows))
      BY <1>1 DEF InkOf, ByRows
    <3> QED BY <2>0, <3>1, InkOfJoined
  <2> QED BY <2>5, <2>8, <2>9, <2>11, <2>12, <2>13
<1>2. CASE ~(b.type = "table" /\ b.structured)
  <2>1. _split_large_block(b) = _split_text_two_phase(b.text, MetaOf(b), FALSE)
    BY <1>2 DEF _split_large_block
  <2>2. InkOf(b) = Ink(b.text)
    BY <1>2 DEF InkOf, ByRows
  <2>3. b.text \in CharSeqs /\ IsMeta(MetaOf(b))
    BY <1>2, BlockFacts DEF HeaderFits, ByRows
  <2> QED BY <2>1, <2>2, <2>3, SplitFacts
<1> QED BY <1>1, <1>2
-----------------------------------------------------------------------------
(* The loop.                                                               *)

TextIds == {b.id : b \in {b \in SourceBlocks : b.type = "text"}}

Groups ==
    [parts : Seq(CharSeqs), scope : Scopes, blocks : Seq(TextIds), tokens : Nat,
     pages : SUBSET Pages, form : Forms]

InkOfSource(s) == FlattenSeq([i \in 1 .. Len(s) |-> InkOf(s[i])])

(* The chunks fit and have their headers, the group is of plain blocks and *)
(* measured by its tokens, and the ink of both is that of the blocks so    *)
(* far.                                                                    *)
ChunkInv ==
    /\ source \in Seq(SourceBlocks) /\ chunks \in Seq(Chunks)
    /\ group \in Groups /\ Measured(group)
    /\ InkOfChunks(chunks) \o Ink(JoinLines(group.parts)) = InkOfSource(source)

(* The ink a block must leave, by its kind.                                *)
LEMMA InkOfBlock ==
    ASSUME NEW b \in SourceBlocks
    PROVE  /\ InkOf(b) \in CharSeqs
           /\ estimate_tokens(b.text) <= MaxTokens => InkOf(b) = Ink(b.text)
           /\ b.type = "text" => InkOf(b) = Ink(b.text)
           /\ b.text = <<>> => InkOf(b) = <<>>
<1>1. b.text \in CharSeqs /\ JoinLines(b.rows) \in CharSeqs
  BY BlockFacts, JoinGrows, Newline
<1>2. Ink(b.text) \in CharSeqs /\ Ink(JoinLines(b.rows)) \in CharSeqs
  BY <1>1, InkConcat
<1>3. InkOf(b) \in CharSeqs
  BY <1>2 DEF InkOf, ByRows
<1>4. ASSUME estimate_tokens(b.text) <= MaxTokens PROVE InkOf(b) = Ink(b.text)
  <2>1. ~(estimate_tokens(b.text) > MaxTokens)
    BY <1>1, <1>4, EstimateFacts, Numbers
  <2> QED BY <2>1 DEF InkOf, ByRows
<1>5. ASSUME b.type = "text" PROVE InkOf(b) = Ink(b.text)
  BY <1>5 DEF InkOf, ByRows
<1>6. ASSUME b.text = <<>> PROVE InkOf(b) = <<>>
  <2>1. Len(b.text) <= Budget
    <3>1. Len(b.text) = 0
      BY <1>6
    <3> QED BY <3>1, Numbers
  <2>2. estimate_tokens(b.text) <= MaxTokens
    BY <1>1, <2>1, SmallText
  <2> QED BY <1>4, <1>6, <2>2, InkOfNothing
<1> QED BY <1>3, <1>4, <1>5, <1>6

(* One block more adds its ink.                                            *)
LEMMA SourceAppend ==
    ASSUME NEW s \in Seq(SourceBlocks), NEW b \in SourceBlocks
    PROVE  InkOfSource(s) \in CharSeqs /\ InkOfSource(Append(s, b)) = InkOfSource(s) \o InkOf(b)
<1> DEFINE n == Len(s)
           old == [i \in 1 .. n |-> InkOf(s[i])]
           rs == Append(s, b)
           new == [i \in 1 .. Len(rs) |-> InkOf(rs[i])]
           c == InkOf(b)
<1>1. n \in Nat /\ \A i \in 1 .. n : s[i] \in SourceBlocks
  OBVIOUS
<1>2. \A x \in SourceBlocks : InkOf(x) \in CharSeqs
  BY InkOfBlock
<1>3. Len(rs) = n + 1 /\ rs[n + 1] = b /\ \A i \in 1 .. n : rs[i] = s[i]
  OBVIOUS
<1>4. c \in CharSeqs
  BY <1>2
<1>5. old \in Seq(CharSeqs) /\ Len(old) = n
  <2>1. \A i \in 1 .. n : InkOf(s[i]) \in CharSeqs
    BY <1>1, <1>2
  <2> HIDE DEF n
  <2> QED BY <1>1, <2>1
<1> HIDE DEF rs
<1>6. new \in Seq(CharSeqs) /\ Len(new) = n + 1
  <2>1. \A i \in 1 .. n + 1 : InkOf(rs[i]) \in CharSeqs
    <3>1. \A i \in 1 .. n + 1 : i = n + 1 \/ i \in 1 .. n
      BY <1>1
    <3> QED BY <1>1, <1>2, <1>3, <3>1
  <2>2. new = [i \in 1 .. n + 1 |-> InkOf(rs[i])] /\ n + 1 \in Nat
    BY <1>1, <1>3
  <2> HIDE DEF n, new
  <2> QED BY <2>1, <2>2
<1>7. new[n + 1] = c /\ \A i \in 1 .. n : new[i] = old[i]
  <2>1. n + 1 \in 1 .. n + 1 /\ \A i \in 1 .. n : i \in 1 .. n + 1
    BY <1>1
  <2> QED BY <1>1, <1>3, <2>1
<1>8. InkOfSource(s) = FlattenSeq(old) /\ InkOfSource(rs) = FlattenSeq(new)
  BY DEF InkOfSource
<1> HIDE DEF old, new, n, c
<1>9. new = Append(old, c)
  <2>1. /\ Append(old, c) \in Seq(CharSeqs) /\ Len(Append(old, c)) = n + 1
        /\ Append(old, c)[n + 1] = c /\ \A i \in 1 .. n : Append(old, c)[i] = old[i]
    BY <1>4, <1>5, AppendProperties
  <2>2. \A i \in 1 .. Len(new) : new[i] = Append(old, c)[i]
    <3>1. \A i \in 1 .. n + 1 : i = n + 1 \/ i \in 1 .. n
      BY <1>1
    <3> QED BY <1>6, <1>7, <2>1, <3>1
  <2> QED BY <1>6, <2>1, <2>2, SeqEqual
<1>10. FlattenSeq(Append(old, c)) = FlattenSeq(old) \o c
  BY <1>4, <1>5, FlattenAppend DEF CharSeqs
<1>11. FlattenSeq(old) \in CharSeqs
  BY <1>5, FlattenFacts DEF IsFlattening, CharSeqs
<1> QED BY <1>8, <1>9, <1>10, <1>11 DEF rs, c

Associates(a, b, c) == (a \o b) \o c = a \o (b \o c)

(* Associativity, as a name.                                               *)
LEMMA Association ==
    ASSUME NEW a \in CharSeqs, NEW b \in CharSeqs, NEW c \in CharSeqs
    PROVE  Associates(a, b, c) /\ a \o b \in CharSeqs
<1>1. a \in CharSeqs /\ b \in CharSeqs /\ c \in CharSeqs /\ IsGrouped(CharClasses)
  BY Grouping
<1>2. (a \o b) \o c = a \o (b \o c)
  BY <1>1, Zenon DEF IsGrouped, CharSeqs
<1> QED BY <1>2, InkConcat DEF Associates

Chained(k, l, m, o, r, q) == ((k \o l) \o m) \o o = (k \o r) \o q

(* Four inks in order, whichever of them are put together first.           *)
LEMMA Chain ==
    ASSUME NEW k \in CharSeqs, NEW l \in CharSeqs, NEW m \in CharSeqs, NEW o \in CharSeqs,
           NEW p \in CharSeqs, NEW q \in CharSeqs, NEW r \in CharSeqs,
           l \o p = r, m \o o = p \o q
    PROVE  Chained(k, l, m, o, r, q)
<1>1. Associates(k \o l, m, o) /\ Associates(k, l, p \o q) /\ Associates(l, p, q)
      /\ Associates(k, r, q)
  <2>1. k \o l \in CharSeqs /\ p \o q \in CharSeqs
    BY Association
  <2> QED BY <2>1, Association
<1>2. ((k \o l) \o m) \o o = (k \o l) \o (p \o q)
  BY <1>1 DEF Associates
<1>3. (k \o l) \o (p \o q) = k \o (l \o (p \o q))
  BY <1>1 DEF Associates
<1>4. l \o (p \o q) = r \o q
  BY <1>1 DEF Associates
<1>5. k \o (r \o q) = (k \o r) \o q
  BY <1>1 DEF Associates
<1> QED BY <1>2, <1>3, <1>4, <1>5 DEF Chained

(* Chunks added in two parts.                                              *)
LEMMA ChunksAdded ==
    ASSUME NEW cs \in Seq(Chunks), NEW as \in Seq(Chunks), NEW bs \in Seq(Chunks)
    PROVE  /\ (cs \o as) \o bs \in Seq(Chunks) /\ InkOfChunks(cs) \in CharSeqs
           /\ InkOfChunks(as) \in CharSeqs /\ InkOfChunks(bs) \in CharSeqs
           /\ InkOfChunks((cs \o as) \o bs) = (InkOfChunks(cs) \o InkOfChunks(as)) \o InkOfChunks(bs)
<1>1. cs \o as \in Seq(Chunks) /\ InkOfChunks(cs \o as) = InkOfChunks(cs) \o InkOfChunks(as)
  BY ChunkFacts, ChunksConcat
<1> DEFINE ds == cs \o as
<1> HIDE DEF ds
<1>2. ds \in Seq(Chunks) /\ InkOfChunks(ds) = InkOfChunks(cs) \o InkOfChunks(as)
  BY <1>1 DEF ds
<1>3. ds \o bs \in Seq(Chunks) /\ InkOfChunks(ds \o bs) = InkOfChunks(ds) \o InkOfChunks(bs)
  BY <1>2, ChunkFacts, ChunksConcat
<1>4. InkOfChunks(cs) \in CharSeqs /\ InkOfChunks(as) \in CharSeqs /\ InkOfChunks(bs) \in CharSeqs
  BY ChunkFacts, TextsFacts
<1> QED BY <1>2, <1>3, <1>4 DEF ds

(* What an accumulated group is.                                           *)
LEMMA GroupFacts ==
    ASSUME NEW g \in Groups
    PROVE  IsMeta(g) /\ g.parts \in Seq(CharSeqs) /\ g.tokens \in Nat
           /\ JoinLines(g.parts) \in CharSeqs /\ Ink(JoinLines(g.parts)) \in CharSeqs
<1>1. IsMeta(g) /\ g.parts \in Seq(CharSeqs) /\ g.tokens \in Nat
  <2>1. /\ g.parts \in Seq(CharSeqs) /\ g.tokens \in Nat /\ g.blocks \in Seq(TextIds)
        /\ g.scope \in Scopes /\ g.pages \in SUBSET Pages /\ g.form \in Forms
    BY DEF Groups
  <2>2. IsStamp(g)
    <3>1. TextIds \subseteq Ids
      BY DEF TextIds, Ids
    <3> QED BY <2>1, <3>1, SeqWiden DEF IsStamp
  <2>3. ASSUME NEW b \in SourceBlocks, HeaderFits(b), g.blocks = <<b.id>> PROVE FALSE
    <3>1. b.id \in TextIds
      BY <2>1, <2>3
    <3>2. PICK c \in SourceBlocks : c.type = "text" /\ c.id = b.id
      BY <3>1 DEF TextIds
    <3>3. b = c
      BY <3>2, ChunkerAssumption
    <3> QED BY <2>3, <3>2, <3>3 DEF HeaderFits, ByRows
  <2> QED BY <2>1, <2>2, <2>3 DEF IsMeta
<1>2. JoinLines(g.parts) \in CharSeqs
  BY <1>1, JoinGrows, Newline
<1> QED BY <1>1, <1>2, InkConcat

(* The empty group is one.                                                 *)
LEMMA NoGroupFacts ==
    ASSUME NEW scope \in Scopes
    PROVE  /\ NoGroup(scope) \in Groups /\ Measured(NoGroup(scope)) /\ NoGroup(scope).parts = <<>>
           /\ Ink(JoinLines(NoGroup(scope).parts)) = <<>>
<1> DEFINE g == NoGroup(scope)
<1>1. g = [parts |-> <<>>, scope |-> scope, blocks |-> <<>>, tokens |-> 0, pages |-> {}, form |-> {}]
  BY DEF NoGroup
<1>2. g.parts = <<>> /\ g.tokens = 0
  BY <1>1
<1>3. <<>> \in Seq(CharSeqs) /\ <<>> \in Seq(TextIds) /\ {} \in SUBSET Pages /\ {} \in Forms
  BY DEF Forms
<1>4. g \in Groups
  BY <1>1, <1>3 DEF Groups
<1> HIDE DEF g
<1>5. Measured(g)
  BY <1>2, <1>3 DEF Measured
<1>6. Ink(JoinLines(g.parts)) = <<>>
  BY <1>2, JoinOfNone, InkOfNothing
<1> QED BY <1>2, <1>4, <1>5, <1>6 DEF g

(* A block joins a group that is empty or has room for it.                 *)
LEMMA JoinedFacts ==
    ASSUME NEW g \in Groups, Measured(g), NEW b \in SourceBlocks, b.type = "text"
    PROVE  /\ Joined(g, b) \in Groups
           /\ Ink(JoinLines(Joined(g, b).parts)) = Ink(JoinLines(g.parts)) \o Ink(b.text)
           /\ Joined(g, b).tokens = g.tokens + estimate_tokens(b.text)
           /\ Joined(g, b).parts = Append(g.parts, b.text)
           /\ Joined(g, b).tokens <= MaxTokens => Measured(Joined(g, b))
<1> DEFINE e == estimate_tokens(b.text)
           ps == Append(g.parts, b.text)
           d == Joined(g, b)
<1>1. b.text \in CharSeqs /\ b.id \in TextIds /\ b.page \in Pages /\ b.form \in Forms
  <2>1. b.text \in CharSeqs /\ b.id \in Ids /\ b.page \in Pages /\ b.form \in Forms
    BY BlockFacts
  <2> QED BY <2>1 DEF TextIds
<1>2. e \in Nat \ {0} /\ Len(b.text) + 1 <= (e + 1) * CharsPerToken /\ Len(b.text) \in Nat
  <2>1. e \in Nat \ {0} /\ Len(b.text) + 1 <= (e + 1) * CharsPerToken
    BY <1>1, EstimateFacts
  <2>2. Len(b.text) \in Nat
    BY <1>1 DEF CharSeqs
  <2> QED BY <2>1, <2>2
<1> HIDE DEF e
<1>3. /\ g.parts \in Seq(CharSeqs) /\ g.tokens \in Nat /\ g.scope \in Scopes /\ g.blocks \in Seq(TextIds)
      /\ g.pages \in SUBSET Pages /\ g.form \in Forms
  BY DEF Groups
<1>4. d = [parts |-> ps, scope |-> g.scope, blocks |-> Append(g.blocks, b.id),
           tokens |-> g.tokens + e, pages |-> g.pages \cup {b.page},
           form |-> IF g.form = {} THEN b.form ELSE g.form]
  <2> DEFINE blocks == Append(g.blocks, b.id)
             tokens == g.tokens + e
             pages == g.pages \cup {b.page}
             form == IF g.form = {} THEN b.form ELSE g.form
  <2>1. d = [g EXCEPT !.parts = ps, !.blocks = blocks, !.tokens = tokens, !.pages = pages, !.form = form]
    BY DEF Joined, e
  <2>2. g = [parts |-> g.parts, scope |-> g.scope, blocks |-> g.blocks, tokens |-> g.tokens,
             pages |-> g.pages, form |-> g.form]
    BY DEF Groups
  <2> HIDE DEF d, ps, blocks, tokens, pages, form
  <2>3. d = [parts |-> ps, scope |-> g.scope, blocks |-> blocks, tokens |-> tokens,
             pages |-> pages, form |-> form]
    BY <2>1, <2>2
  <2> QED BY <2>3 DEF blocks, tokens, pages, form
<1>5. ps \in Seq(CharSeqs) /\ Len(ps) = Len(g.parts) + 1 /\ Len(g.parts) \in Nat /\ ps # <<>>
  BY <1>1, <1>3, AppendProperties
<1>6. /\ JoinLines(g.parts) \in CharSeqs
      /\ JoinLines(ps) = JoinLine(JoinLines(g.parts), b.text)
  BY <1>1, <1>3, JoinGrows
<1> HIDE DEF ps, d
<1>7. Append(g.blocks, b.id) \in Seq(TextIds) /\ g.tokens + e \in Nat /\ g.pages \cup {b.page} \in SUBSET Pages
  BY <1>1, <1>2, <1>3
<1>8. d \in Groups /\ d.parts = ps /\ d.tokens = g.tokens + e
  BY <1>1, <1>3, <1>4, <1>5, <1>7 DEF Groups
<1>9. /\ Ink(JoinLines(ps)) = Ink(JoinLines(g.parts)) \o Ink(b.text)
      /\ Len(JoinLines(ps)) <= Len(JoinLines(g.parts)) + 1 + Len(b.text)
  BY <1>1, <1>6, JoinLineFacts
<1>10. JoinLines(ps) \in CharSeqs /\ Len(JoinLines(ps)) \in Nat /\ Len(JoinLines(g.parts)) \in Nat
  <2>1. JoinLines(ps) \in CharSeqs
    BY <1>1, <1>5, JoinGrows
  <2> QED BY <1>6, <2>1 DEF CharSeqs
<1>11. Len(JoinLines(ps)) + 1 <= ((g.tokens + e) + (Len(g.parts) + 1)) * CharsPerToken
  <2> DEFINE bound == ((g.tokens + e) + (Len(g.parts) + 1)) * CharsPerToken
  <2>0. bound \in Nat
    <3>1. (g.tokens + e) + (Len(g.parts) + 1) \in Nat
      BY <1>2, <1>3, <1>5
    <3> QED BY <3>1, Numbers, Multiples
  <2>1. CASE g.parts = <<>>
    <3>1. JoinLines(ps) = b.text /\ Len(g.parts) = 0
      <4>1. JoinLines(g.parts) = <<>>
        BY <2>1, JoinOfNone
      <4> QED BY <1>6, <2>1, <4>1 DEF JoinLine
    <3>2. 0 + Len(b.text) + 1 <= ((g.tokens + e) + (0 + 1)) * CharsPerToken
      <4>1. 0 \in Nat /\ 0 <= (g.tokens + 0) * CharsPerToken
        <5>1. g.tokens + 0 \in Nat
          BY <1>3
        <5>2. (g.tokens + 0) * CharsPerToken \in Nat
          BY <5>1, Numbers, Multiples
        <5> QED BY <5>2
      <4> QED BY <1>1, <1>3, <4>1, EstimatesAdd DEF e
    <3> QED BY <1>2, <3>1, <3>2
  <2>2. CASE g.parts # <<>>
    <3> DEFINE l == Len(JoinLines(g.parts)) + 1
    <3>1. l \in Nat /\ l <= (g.tokens + Len(g.parts)) * CharsPerToken
      BY <1>10, <2>2 DEF Measured
    <3> HIDE DEF l
    <3>2. l + Len(b.text) + 1 <= bound
      BY <1>1, <1>3, <1>5, <3>1, EstimatesAdd DEF e
    <3> HIDE DEF bound
    <3>3. Len(JoinLines(ps)) + 1 <= l + Len(b.text) + 1
      <4>1. Len(JoinLines(ps)) <= l + Len(b.text)
        BY <1>9 DEF l
      <4> QED BY <1>2, <1>10, <3>1, <4>1
    <3>4. Len(JoinLines(ps)) + 1 <= bound
      BY <1>2, <1>10, <2>0, <3>1, <3>2, <3>3
    <3> QED BY <3>4 DEF bound
  <2> QED BY <2>1, <2>2
<1>12. ASSUME d.tokens <= MaxTokens PROVE Measured(d)
  BY <1>5, <1>7, <1>8, <1>11, <1>12 DEF Measured
<1> QED BY <1>8, <1>9, <1>12 DEF d, e, ps

(* The invariant holds before the first block.                             *)
LEMMA ChunkInitial == ChunkInit => ChunkInv
<1> SUFFICES ASSUME ChunkInit PROVE ChunkInv
  OBVIOUS
<1>1. source = <<>> /\ chunks = <<>> /\ group = NoGroup(<<>>)
  BY DEF ChunkInit
<1>2. <<>> \in Scopes
  BY DEF Scopes
<1>3. group \in Groups /\ Measured(group) /\ Ink(JoinLines(group.parts)) = <<>>
  BY <1>1, <1>2, NoGroupFacts
<1>4. source \in Seq(SourceBlocks) /\ chunks \in Seq(Chunks)
  BY <1>1
<1>5. InkOfSource(source) = <<>>
  <2>1. [i \in 1 .. Len(source) |-> InkOf(source[i])] = <<>>
    BY <1>1
  <2>2. FlattenSeq(<<>>) = <<>>
    <3>1. <<>> \in Seq({})
      OBVIOUS
    <3> QED BY <3>1, FlattenFew
  <2> QED BY <2>1, <2>2 DEF InkOfSource
<1>6. InkOfChunks(chunks) \o Ink(JoinLines(group.parts)) = <<>>
  <2>1. InkOfChunks(chunks) = <<>>
    BY <1>1, ChunksOfNone
  <2>2. <<>> \o <<>> = <<>>
    OBVIOUS
  <2> QED BY <1>3, <2>1, <2>2
<1> QED BY <1>3, <1>4, <1>5, <1>6 DEF ChunkInv

(* A table or a key-value block stands alone, after what was accumulated.  *)
LEMMA StandaloneStep ==
    ASSUME ChunkInv, NEW b \in SourceBlocks, Standalone(b)
    PROVE  /\ chunks' \in Seq(Chunks) /\ group' \in Groups /\ Measured(group)'
           /\ InkOfChunks(chunks') \o Ink(JoinLines(group'.parts))
                = (InkOfChunks(chunks) \o Ink(JoinLines(group.parts))) \o InkOf(b)
<1> DEFINE flushed == _flush_chunk(group)
           one == ChunkOf(b.text, 1, MetaOf(b), FALSE)
           alone == IF estimate_tokens(b.text) > MaxTokens THEN _split_large_block(b) ELSE <<one>>
           g == Ink(JoinLines(group.parts))
           n == Ink(JoinLines(group'.parts))
           t == InkOf(b)
<1>1. chunks' = (chunks \o flushed) \o alone
  BY DEF Standalone
<1>2. group' = IF flushed = <<>> THEN [group EXCEPT !.scope = b.scope] ELSE NoGroup(b.scope)
  BY DEF Standalone
<1>3. chunks \in Seq(Chunks) /\ group \in Groups /\ Measured(group)
  BY DEF ChunkInv
<1>4. IsMeta(group) /\ g \in CharSeqs
  BY <1>3, GroupFacts
<1>5. flushed \in Seq(Chunks) /\ InkOfChunks(flushed) = g
  BY <1>3, <1>4, FlushFacts
<1>6. alone \in Seq(Chunks) /\ InkOfChunks(alone) = t
  <2>1. CASE estimate_tokens(b.text) > MaxTokens
    <3>1. alone = _split_large_block(b)
      BY <2>1
    <3> HIDE DEF alone
    <3> QED BY <2>1, <3>1, LargeFacts
  <2>2. CASE ~(estimate_tokens(b.text) > MaxTokens)
    <3>1. b.text \in CharSeqs /\ IsMeta(MetaOf(b))
      BY <2>2, BlockFacts DEF HeaderFits, ByRows
    <3>2. estimate_tokens(b.text) \in 0 .. MaxTokens
          /\ Len(b.text) + 1 <= (estimate_tokens(b.text) + 1) * CharsPerToken
      BY <2>2, <3>1, EstimateFacts, Numbers
    <3>3. PICK p \in Nat \ {0} : p = 1
      OBVIOUS
    <3>4. Len(b.text) + 1 <= (MaxTokens + p) * CharsPerToken
      <4>1. Len(b.text) + 1 \in Nat /\ p \in Nat
        BY <3>1 DEF CharSeqs
      <4> QED BY <3>2, <3>3, <4>1, WithinBudget
    <3>5. one \in Chunks /\ one.text = b.text
      <4>1. ChunkOf(b.text, p, MetaOf(b), FALSE) \in Chunks
            /\ ChunkOf(b.text, p, MetaOf(b), FALSE).text = b.text
        BY <3>1, <3>4, ChunkOfFacts
      <4> QED BY <3>3, <4>1
    <3>6. alone = <<one>>
      BY <2>2
    <3>7. t = Ink(b.text)
      <4>1. estimate_tokens(b.text) <= MaxTokens
        BY <3>2
      <4> QED BY <4>1, InkOfBlock
    <3> HIDE DEF one, alone, t
    <3>8. <<one>> \in Seq(Chunks) /\ InkOfChunks(<<one>>) = Ink(one.text)
      BY <3>5, ChunkFacts, ChunksOne
    <3> QED BY <3>5, <3>6, <3>7, <3>8
  <2> QED BY <2>1, <2>2
<1>7. b.scope \in Scopes
  BY BlockFacts
<1> HIDE DEF flushed, alone, g, t
<1>8. group' \in Groups /\ Measured(group)' /\ n = <<>>
  <2>1. CASE flushed = <<>>
    <3>1. group' = [group EXCEPT !.scope = b.scope]
      BY <1>2, <2>1
    <3>2. group' \in Groups /\ group'.parts = group.parts /\ group'.tokens = group.tokens
      BY <1>3, <1>7, <3>1 DEF Groups
    <3>3. Measured(group)'
      BY <1>3, <3>2 DEF Measured
    <3>4. n = g
      BY <3>2 DEF g
    <3>5. g = <<>>
      BY <1>5, <2>1, ChunksOfNone
    <3> QED BY <3>2, <3>3, <3>4, <3>5
  <2>2. CASE flushed # <<>>
    <3>1. group' = NoGroup(b.scope)
      BY <1>2, <2>2
    <3>2. Measured(NoGroup(b.scope)) => Measured(group)'
      BY <3>1 DEF Measured
    <3> QED BY <1>7, <3>1, <3>2, NoGroupFacts
  <2> QED BY <2>1, <2>2
<1> HIDE DEF n
<1>9. /\ (chunks \o flushed) \o alone \in Seq(Chunks) /\ InkOfChunks(chunks) \in CharSeqs
      /\ InkOfChunks((chunks \o flushed) \o alone) = (InkOfChunks(chunks) \o g) \o t
  BY <1>3, <1>5, <1>6, ChunksAdded
<1>10. ((InkOfChunks(chunks) \o g) \o t) \o n = (InkOfChunks(chunks) \o g) \o t
  <2>1. t \in CharSeqs
    BY InkOfBlock DEF t
  <2>2. InkOfChunks(chunks) \o g \in CharSeqs
    BY <1>4, <1>9, InkConcat
  <2>3. (InkOfChunks(chunks) \o g) \o t \in CharSeqs
    BY <2>1, <2>2, InkConcat
  <2> QED BY <1>8, <2>3, Glue
<1> QED BY <1>1, <1>8, <1>9, <1>10 DEF n, g, t

(* What is flushed before a block joins, and what it joins.                *)
LEMMA StartFacts ==
    ASSUME NEW g \in Groups, Measured(g), NEW b \in SourceBlocks, NEW start, NEW before,
           \/ /\ start = NoGroup(b.scope)
              /\ before = IF g.parts # <<>> THEN _route_accumulated_group(g) ELSE <<>>
           \/ /\ start = g /\ before = <<>>
              /\ g.parts # <<>> => ~(g.tokens + estimate_tokens(b.text) > MaxTokens)
    PROVE  /\ start \in Groups /\ Measured(start) /\ before \in Seq(Chunks)
           /\ InkOfChunks(before) \o Ink(JoinLines(start.parts)) = Ink(JoinLines(g.parts))
           /\ start.parts # <<>> => start.tokens + estimate_tokens(b.text) <= MaxTokens
<1>1. b.scope \in Scopes
  BY BlockFacts
<1> DEFINE none == NoGroup(b.scope)
           i == Ink(JoinLines(g.parts))
<1>2. none \in Groups /\ Measured(none) /\ none.parts = <<>> /\ Ink(JoinLines(none.parts)) = <<>>
  BY <1>1, NoGroupFacts
<1>3. IsMeta(g) /\ i \in CharSeqs /\ i \o <<>> = i /\ <<>> \o i = i
  <2>1. IsMeta(g) /\ i \in CharSeqs
    BY GroupFacts
  <2> HIDE DEF i
  <2> QED BY <2>1, Glue
<1>4. _route_accumulated_group(g) \in Seq(Chunks) /\ InkOfChunks(_route_accumulated_group(g)) = i
  BY <1>3, RouteFacts
<1> HIDE DEF none
<1>5. CASE /\ start = NoGroup(b.scope)
           /\ before = IF g.parts # <<>> THEN _route_accumulated_group(g) ELSE <<>>
  <2>1. start = none
    BY <1>5 DEF none
  <2>2. before \in Seq(Chunks) /\ InkOfChunks(before) = i
    <3>1. CASE g.parts # <<>>
      <4>1. before = _route_accumulated_group(g)
        BY <1>5, <3>1
      <4> QED BY <1>4, <4>1
    <3>2. CASE g.parts = <<>>
      <4>1. before = <<>> /\ <<>> \in Seq(Chunks)
        BY <1>5, <3>2
      <4>2. i = <<>>
        BY <3>2, JoinOfNone, InkOfNothing
      <4> QED BY <4>1, <4>2, ChunksOfNone
    <3> QED BY <3>1, <3>2
  <2> HIDE DEF i
  <2>3. InkOfChunks(before) \o Ink(JoinLines(start.parts)) = i
    BY <1>2, <1>3, <2>1, <2>2
  <2> QED BY <1>2, <2>1, <2>2, <2>3 DEF i
<1>6. CASE /\ start = g /\ before = <<>>
           /\ g.parts # <<>> => ~(g.tokens + estimate_tokens(b.text) > MaxTokens)
  <2>1. before \in Seq(Chunks)
    BY <1>6
  <2> HIDE DEF i
  <2>2. InkOfChunks(before) \o Ink(JoinLines(start.parts)) = i
    BY <1>3, <1>6, ChunksOfNone DEF i
  <2>3. g.tokens \in Nat /\ estimate_tokens(b.text) \in Nat /\ MaxTokens \in Nat
    BY GroupFacts, BlockFacts, EstimateFacts, Numbers
  <2>4. g.parts # <<>> => g.tokens + estimate_tokens(b.text) <= MaxTokens
    BY <1>6, <2>3
  <2> QED BY <1>6, <2>1, <2>2, <2>4 DEF i
<1> QED BY <1>5, <1>6

(* A plain block joins the group, after the group was flushed if it has to *)
(* be; a block too large by itself is split.                               *)
LEMMA AccumulatedStep ==
    ASSUME ChunkInv, NEW b \in SourceBlocks, b.type = "text", Accumulated(b)
    PROVE  /\ chunks' \in Seq(Chunks) /\ group' \in Groups /\ Measured(group)'
           /\ InkOfChunks(chunks') \o Ink(JoinLines(group'.parts))
                = (InkOfChunks(chunks) \o Ink(JoinLines(group.parts))) \o InkOf(b)
<1> DEFINE moved == group.scope # b.scope
           base == IF moved THEN NoGroup(b.scope) ELSE group
           full == base.tokens + estimate_tokens(b.text) > MaxTokens /\ base.parts # <<>>
           start == IF full THEN NoGroup(b.scope) ELSE base
           result == Joined(start, b)
           over == result.tokens > MaxTokens /\ Len(result.parts) = 1
           before == IF (moved \/ full) /\ group.parts # <<>>
                     THEN _route_accumulated_group(group) ELSE <<>>
           after == IF over THEN _split_text_two_phase(b.text, result, FALSE) ELSE <<>>
           g == Ink(JoinLines(group.parts))
           n == Ink(JoinLines(group'.parts))
           s == Ink(JoinLines(start.parts))
           t == Ink(b.text)
<1>1. chunks' = (chunks \o before) \o after /\ group' = IF over THEN NoGroup(b.scope) ELSE result
  BY DEF Accumulated
<1>2. chunks \in Seq(Chunks) /\ group \in Groups /\ Measured(group)
  BY DEF ChunkInv
<1>3. b.text \in CharSeqs /\ b.scope \in Scopes /\ InkOf(b) = t
  BY BlockFacts, InkOfBlock
<1>4. /\ start \in Groups /\ Measured(start) /\ before \in Seq(Chunks)
      /\ InkOfChunks(before) \o s = g
      /\ start.parts # <<>> => start.tokens + estimate_tokens(b.text) <= MaxTokens
  <2>1. \/ /\ start = NoGroup(b.scope)
           /\ before = IF group.parts # <<>> THEN _route_accumulated_group(group) ELSE <<>>
        \/ /\ start = group /\ before = <<>>
           /\ group.parts # <<>> => ~(group.tokens + estimate_tokens(b.text) > MaxTokens)
    <3>1. CASE moved
      <4>1. base = NoGroup(b.scope)
        BY <3>1
      <4>2. start = NoGroup(b.scope)
        <5> HIDE DEF moved, base, full
        <5> QED BY <4>1
      <4> QED BY <3>1, <4>2
    <3>2. CASE ~moved /\ full
      <4> HIDE DEF moved, full
      <4> QED BY <3>2
    <3>3. CASE ~moved /\ ~full
      <4>1. base = group
        BY <3>3
      <4>2. group.parts # <<>> => ~(group.tokens + estimate_tokens(b.text) > MaxTokens)
        <5> HIDE DEF moved, base
        <5> QED BY <3>3, <4>1
      <4> HIDE DEF moved, base, full
      <4>3. start = group /\ before = <<>>
        BY <3>3, <4>1
      <4> QED BY <4>2, <4>3
    <3> QED BY <3>1, <3>2, <3>3
  <2> HIDE DEF moved, base, full, start, before
  <2> QED BY <1>2, <2>1, StartFacts
<1> HIDE DEF moved, base, full, start, before
<1>5. /\ result \in Groups /\ Ink(JoinLines(result.parts)) = s \o t
      /\ result.tokens = start.tokens + estimate_tokens(b.text)
      /\ result.parts = Append(start.parts, b.text)
      /\ (result.tokens <= MaxTokens => Measured(result))
  BY <1>4, JoinedFacts
<1> HIDE DEF result
<1>6. s \in CharSeqs /\ g \in CharSeqs /\ t \in CharSeqs /\ IsMeta(result)
  BY <1>2, <1>3, <1>4, <1>5, GroupFacts, InkConcat
<1>7. /\ after \in Seq(Chunks) /\ group' \in Groups /\ Measured(group)'
      /\ InkOfChunks(after) \o n = s \o t
  <2>1. CASE over
    <3>1. after = _split_text_two_phase(b.text, result, FALSE) /\ group' = NoGroup(b.scope)
      BY <1>1, <2>1
    <3>2. after \in Seq(Chunks) /\ InkOfChunks(after) = t
      BY <1>3, <1>6, <3>1, SplitFacts
    <3>3. group' \in Groups /\ Measured(NoGroup(b.scope)) /\ n = <<>>
      BY <1>3, <3>1, NoGroupFacts
    <3>4. Measured(group)'
      BY <3>1, <3>3 DEF Measured
    <3>5. s = <<>>
      <4>1. start.parts \in Seq(CharSeqs)
        BY <1>4, GroupFacts
      <4>2. Len(result.parts) = Len(start.parts) + 1
        BY <1>3, <1>5, <4>1, AppendProperties
      <4>3. start.parts = <<>>
        <5>1. Len(result.parts) = 1
          BY <2>1
        <5>2. Len(start.parts) \in Nat
          BY <4>1
        <5>3. Len(start.parts) = 0
          <6>1. PICK k \in Nat : k = Len(start.parts)
            BY <5>2
          <6>2. k + 1 = 1
            BY <4>2, <5>1, <6>1
          <6> QED BY <6>1, <6>2
        <5> QED BY <4>1, <5>3
      <4> QED BY <4>3, JoinOfNone, InkOfNothing
    <3>6. t \o <<>> = t /\ <<>> \o t = t
      BY <1>6, Glue
    <3> QED BY <3>2, <3>3, <3>4, <3>5, <3>6
  <2>2. CASE ~over
    <3>1. after = <<>> /\ <<>> \in Seq(Chunks) /\ group' = result
      <4> HIDE DEF over
      <4>1. after = <<>>
        BY <2>2
      <4>2. group' = result
        BY <1>1, <2>2
      <4>3. <<>> \in Seq(Chunks)
        OBVIOUS
      <4> HIDE DEF after
      <4> QED BY <4>1, <4>2, <4>3
    <3>2. result.tokens <= MaxTokens
      <4>1. result.tokens \in Nat /\ MaxTokens \in Nat /\ start.parts \in Seq(CharSeqs)
        BY <1>4, <1>5, GroupFacts, Numbers
      <4>2. CASE start.parts # <<>>
        BY <1>4, <1>5, <4>2
      <4>3. CASE start.parts = <<>>
        <5>1. Len(result.parts) = 1
          BY <1>5, <4>3
        <5> QED BY <2>2, <4>1, <5>1
      <4> QED BY <4>2, <4>3
    <3>3. Measured(group)'
      <4>1. Measured(result)
        BY <1>5, <3>2
      <4> QED BY <3>1, <4>1 DEF Measured
    <3>4. n = s \o t
      BY <1>5, <3>1
    <3>5. InkOfChunks(after) \o n = n
      <4>1. s \o t \in CharSeqs
        BY <1>6, InkConcat
      <4>2. <<>> \o (s \o t) = s \o t
        BY <4>1, Glue
      <4> QED BY <3>1, <3>4, <4>2, ChunksOfNone
    <3> QED BY <1>5, <3>1, <3>3, <3>4, <3>5
  <2> QED BY <2>1, <2>2
<1> HIDE DEF over, after, s, t, g
<1>8. /\ (chunks \o before) \o after \in Seq(Chunks) /\ InkOfChunks(chunks) \in CharSeqs
      /\ InkOfChunks(before) \in CharSeqs /\ InkOfChunks(after) \in CharSeqs
      /\ InkOfChunks((chunks \o before) \o after)
           = (InkOfChunks(chunks) \o InkOfChunks(before)) \o InkOfChunks(after)
  BY <1>2, <1>4, <1>7, ChunksAdded
<1>9. n \in CharSeqs
  BY <1>7, GroupFacts
<1> HIDE DEF n
<1>10. ((InkOfChunks(chunks) \o InkOfChunks(before)) \o InkOfChunks(after)) \o n
         = (InkOfChunks(chunks) \o g) \o t
  <2>1. PICK c \in CharSeqs : c = InkOfChunks(chunks)
    BY <1>8
  <2>2. PICK a \in CharSeqs : a = InkOfChunks(before)
    BY <1>8
  <2>3. PICK x \in CharSeqs : x = InkOfChunks(after)
    BY <1>8
  <2>4. a \o s = g /\ x \o n = s \o t
    BY <1>4, <1>7, <2>2, <2>3
  <2>5. ((c \o a) \o x) \o n = (c \o g) \o t
    <3>1. s \in CharSeqs /\ g \in CharSeqs /\ t \in CharSeqs /\ n \in CharSeqs
      BY <1>6, <1>9
    <3>2. Chained(c, a, x, n, g, t)
      BY <2>4, <3>1, Chain
    <3> QED BY <3>2 DEF Chained
  <2> QED BY <2>1, <2>2, <2>3, <2>5
<1> QED BY <1>1, <1>3, <1>7, <1>8, <1>10 DEF n, g, t

(* Every step of the chunker keeps it.                                     *)
LEMMA ChunkStep == ChunkInv /\ [ChunkNext]_chunkVars => ChunkInv'
<1> SUFFICES ASSUME ChunkInv, [ChunkNext]_chunkVars PROVE ChunkInv'
  OBVIOUS
<1> DEFINE c == InkOfChunks(chunks)
           g == Ink(JoinLines(group.parts))
<1>0. /\ source \in Seq(SourceBlocks) /\ chunks \in Seq(Chunks)
      /\ group \in Groups /\ Measured(group) /\ c \o g = InkOfSource(source)
  BY DEF ChunkInv
<1>1. IsMeta(group) /\ g \in CharSeqs /\ group.scope \in Scopes
  <2>1. IsMeta(group) /\ g \in CharSeqs
    BY <1>0, GroupFacts
  <2> HIDE DEF g
  <2> QED BY <2>1 DEF IsMeta, IsStamp
<1>2. ASSUME FinishChunks PROVE ChunkInv'
  <2> DEFINE flushed == _flush_chunk(group)
             none == NoGroup(group.scope)
  <2>1. chunks' = chunks \o flushed /\ group' = none /\ source' = source
    BY <1>2 DEF FinishChunks
  <2>2. flushed \in Seq(Chunks) /\ InkOfChunks(flushed) = g
    BY <1>0, <1>1, FlushFacts
  <2>3. none \in Groups /\ Measured(none) /\ Ink(JoinLines(none.parts)) = <<>>
    BY <1>1, NoGroupFacts
  <2> HIDE DEF flushed, none, g
  <2>4. chunks \o flushed \in Seq(Chunks) /\ InkOfChunks(chunks \o flushed) = c \o g
    BY <1>0, <2>2, ChunkFacts, ChunksConcat
  <2>5. c \o g \in CharSeqs /\ (c \o g) \o <<>> = c \o g
    <3>1. c \in CharSeqs
      BY <1>0, ChunkFacts, TextsFacts
    <3>2. c \o g \in CharSeqs
      BY <1>1, <3>1, InkConcat
    <3> QED BY <3>2, Glue
  <2>6. InkOfChunks(chunks') \o Ink(JoinLines(group'.parts)) = InkOfSource(source')
    BY <1>0, <2>1, <2>3, <2>4, <2>5
  <2>7. Measured(group)'
    BY <2>1, <2>3 DEF Measured
  <2> QED BY <1>0, <2>1, <2>3, <2>4, <2>6, <2>7 DEF ChunkInv
<1>3. ASSUME NEW b \in SourceBlocks, ChunkBlock(b) PROVE ChunkInv'
  <2>1. source' = Append(source, b)
    BY <1>3 DEF ChunkBlock
  <2>2. source' \in Seq(SourceBlocks) /\ InkOfSource(source') = InkOfSource(source) \o InkOf(b)
    <3>1. Append(source, b) \in Seq(SourceBlocks)
      BY <1>0, AppendProperties
    <3> QED BY <1>0, <2>1, <3>1, SourceAppend
  <2>3. /\ chunks' \in Seq(Chunks) /\ group' \in Groups /\ Measured(group)'
        /\ InkOfChunks(chunks') \o Ink(JoinLines(group'.parts)) = (c \o g) \o InkOf(b)
    <3>1. CASE b.text = <<>> /\ UNCHANGED <<chunks, group>>
      <4>1. InkOf(b) = <<>>
        BY <3>1, InkOfBlock
      <4>2. (c \o g) \o <<>> = c \o g
        <5>1. InkOfSource(source) \in CharSeqs
          BY <1>0, SourceAppend
        <5> QED BY <1>0, <5>1, Glue
      <4>3. Measured(group)'
        BY <1>0, <3>1 DEF Measured
      <4> QED BY <1>0, <3>1, <4>1, <4>2, <4>3
    <3>2. CASE b.text # <<>> /\ b.type # "text" /\ Standalone(b)
      BY <3>2, StandaloneStep
    <3>3. CASE b.text # <<>> /\ b.type = "text" /\ Accumulated(b)
      BY <3>3, AccumulatedStep
    <3> QED BY <1>3, <3>1, <3>2, <3>3 DEF ChunkBlock
  <2> HIDE DEF c, g
  <2>4. InkOfChunks(chunks') \o Ink(JoinLines(group'.parts)) = InkOfSource(source')
    BY <1>0, <2>2, <2>3
  <2> QED BY <2>2, <2>3, <2>4 DEF ChunkInv
<1>4. CASE UNCHANGED chunkVars
  BY <1>4 DEF ChunkInv, Measured, chunkVars
<1> QED BY <1>2, <1>3, <1>4 DEF ChunkNext

(* Whatever the blocks are and in whatever order they come, the chunks and *)
(* the open group hold every visible character of their texts, once and in *)
(* order, or those of the rows of a table split by rows.                   *)
THEOREM ChunkInductive == ChunkSpec => []ChunkInv
<1> QED BY ChunkInitial, ChunkStep, PTL DEF ChunkSpec

(* NoTextLost, for every document: of a table split by its rows, which     *)
(* loses its preview and may be left without its header, the rows, with    *)
(* the header before them where it fits (chunker.py:168-230, 547-740,      *)
(* 796-1001).                                                              *)
THEOREM TextKept == ChunkSpec => []NoTextLost
<1>1. ChunkInv => NoTextLost
  <2> SUFFICES ASSUME ChunkInv PROVE NoTextLost
    OBVIOUS
  <2>1. chunks \in Seq(Chunks)
    BY DEF ChunkInv
  <2>2. ASSUME NEW b \in SourceBlocks, NEW k \in DOMAIN chunks, HeaderFits(b), chunks[k].blocks = <<b.id>>
        PROVE  IsPrefix(b.header, chunks[k].text)
    <3>1. chunks[k] \in Chunks
      BY <2>1
    <3>2. chunks[k].text \in CharSeqs /\ Begins(b.header, chunks[k].text)
      BY <2>2, <3>1 DEF Chunks, Headed
    <3>3. b.header \in Seq({"h"})
      BY ChunkerAssumption
    <3> QED BY <3>2, <3>3, BeginsIsPrefix
  <2> QED BY <2>2 DEF ChunkInv, NoTextLost, InkOfSource
<1> QED BY <1>1, ChunkInductive, PTL

(* BudgetSlack, for every document (chunker.py:289-341, 930-934).          *)
THEOREM SlackBounded == ChunkSpec => []BudgetSlack
<1>1. ChunkInv => BudgetSlack
  <2> SUFFICES ASSUME ChunkInv, NEW i \in 1 .. Len(chunks)
               PROVE  estimate_tokens(chunks[i].text) <= MaxTokens + chunks[i].pieces - 1
    BY DEF BudgetSlack
  <2> DEFINE c == chunks[i]
             m == MaxTokens + c.pieces - 1
  <2>1. c \in Chunks
    BY DEF ChunkInv
  <2> HIDE DEF c
  <2>2. c.text \in CharSeqs /\ c.pieces \in Nat \ {0}
        /\ Len(c.text) + 1 <= (MaxTokens + c.pieces) * CharsPerToken
    BY <2>1, ChunkFacts DEF Fits
  <2>3. m \in Nat \ {0} /\ m + 1 = MaxTokens + c.pieces
    BY <2>2, Numbers
  <2> HIDE DEF m
  <2>4. estimate_tokens(c.text) <= m
    BY <2>2, <2>3, EstimateFacts
  <2> QED BY <2>4 DEF c, m
<1> QED BY <1>1, ChunkInductive, PTL
=============================================================================
