------------------------------ MODULE Chunker ------------------------------
(***************************************************************************)
(* chunk_blocks, ingestion/chunker.py: the blocks of a document become the *)
(* chunks that are embedded.  A block is one step; `group' is what the     *)
(* loop has accumulated and not yet put into a chunk.                      *)
(*                                                                         *)
(* A text is a sequence of character classes, the ones the code tells      *)
(* apart: "a" an ASCII letter, "1" a digit, "." the dot, "u" another       *)
(* character that is safe to cut after, " " and "n" a space and a newline. *)
(* "h" is a letter of the header that is put before the rows of a large    *)
(* table; the same header in the text of the block is of "a"s.             *)
(***************************************************************************)
EXTENDS Integers, Sequences, FiniteSets, SequencesExt, FiniteSetsExt, Selection

CONSTANTS SourceBlocks,     \* the blocks a document may hold
          MaxTokens,        \* MAX_CHUNK_TOKENS, 768
          CharsPerToken,    \* 4
          MinLookback,      \* 8 characters
          LookbackDivisor,  \* 5: the look-back is a fifth of the position
          MaxBlocks         \* bound: blocks of a document

CharClasses == {"a", "h", "1", ".", "u", " ", "n"}

CharSeqs == Seq(CharClasses)

ASSUME ChunkerAssumption ==
    /\ \A b \in SourceBlocks :
        /\ b.type \in {"text", "kv", "table"}
        /\ b.text \in Seq(CharClasses \ {"h"}) /\ b.header \in Seq({"h"})
        /\ b.rows \in Seq(Seq(CharClasses \ {"h"})) /\ b.structured \in BOOLEAN
    /\ \A b, c \in SourceBlocks : b.id = c.id => b = c
    /\ MaxTokens \in Nat \ {0} /\ CharsPerToken \in Nat \ {0}
    /\ MinLookback \in Nat /\ LookbackDivisor \in Nat \ {0}

VARIABLES
    source,     \* the blocks so far, in order
    chunks,     \* the chunks made of them
    group,      \* the accumulated parts, their scope, blocks, pages, form fields
    finished    \* the final flush is done

chunkVars == <<source, chunks, group, finished>>

(* chunk_blocks starts each group so.  The token count is a sum of the     *)
(* estimates of the parts.                                                 *)
NoGroup(scope) == [parts |-> <<>>, scope |-> scope, blocks |-> <<>>,
                   tokens |-> 0, pages |-> {}, form |-> {}]

ChunkInit ==
    /\ source = <<>> /\ chunks = <<>>
    /\ group = NoGroup(<<>>)
    /\ finished = FALSE
-----------------------------------------------------------------------------
(* Text                                                                    *)

estimate_tokens(text) == Max({1, Len(text) \div CharsPerToken})

Blank(text) == ToSet(text) \subseteq {" ", "n"}

Strip(text) ==
    LET ink == {i \in DOMAIN text : text[i] \notin {" ", "n"}}
    IN  IF ink = {} THEN <<>> ELSE SubSeq(text, Min(ink), Max(ink))

JoinLine(text, line) == IF text = <<>> THEN line ELSE text \o <<"n">> \o line

JoinLines(parts) ==
    LET joined[k \in 0 .. Len(parts)] ==
            IF k = 0 THEN <<>> ELSE JoinLine(joined[k - 1], parts[k])
    IN  joined[Len(parts)]

AddChar(ls, c) ==
    IF c = "n" THEN Append(ls, <<>>) ELSE [ls EXCEPT ![Len(ls)] = Append(@, c)]

LinesOf(text) ==
    LET lines[k \in 0 .. Len(text)] ==
            IF k = 0 THEN << <<>> >> ELSE AddChar(lines[k - 1], text[k])
    IN  lines[Len(text)]

Letter(c) == c \in {"a", "h"}

(* _is_safe_lookback_char: the dot too is punctuation.                     *)
SafeChar(c) == c \in {".", "u", " ", "n"}

(* The pairs a cut should not part, nor a join put together: a word, a     *)
(* number and its unit, a number at its dot.                               *)
Bound2(l, r) ==
    \/ Letter(l) /\ Letter(r)
    \/ l = "1" /\ (Letter(r) \/ r = ".")
    \/ (Letter(l) \/ l = ".") /\ r = "1"

_is_safe_join_boundary(left, right) ==
    left = <<>> \/ right = <<>> \/ ~Bound2(Last(left), Head(right))

(* The last character before `cut' that the look-back may reach.  The      *)
(* window is a fifth of the position in the text, not in the piece.        *)
WindowStart(cut) == Max({0, cut - Max({MinLookback, cut \div LookbackDivisor})})

(* A cut in a number goes before the number, if the character there is     *)
(* safe; else after the last safe character, the dot of a number included. *)
_find_safe_boundary(text, cut) ==
    LET from    == WindowStart(cut)
        cluster == Max({from} \cup {i \in from + 1 .. cut - 1 : text[i + 1] \notin {"1", "."}})
        safe    == {i \in from .. cut - 1 : SafeChar(text[i + 1])}
    IN  CASE cut <= 0 \/ cut >= Len(text) -> cut
          [] cut \in 1 .. Len(text) - 1 /\ cluster + 1 < cut /\ SafeChar(text[cluster + 1])
                -> cluster + 1
          [] OTHER -> IF safe = {} THEN cut ELSE Max(safe) + 1

(* Where the piece that begins after `start' ends.                         *)
PieceEnd(text, start) ==
    LET hard   == Min({start + MaxTokens * CharsPerToken, Len(text)})
        unsafe == /\ hard < Len(text) /\ hard > start + 1
                  /\ \/ Bound2(text[hard], text[hard + 1])
                     \/ text[hard] = "1" /\ text[hard + 1] = "1"
        end    == _find_safe_boundary(text, hard)
    IN  IF unsafe /\ end > start THEN end ELSE hard

(* Faulty: after a look-back the next piece starts at the hard cut.        *)
CutOne_Skips(text, c) ==
    LET piece == SubSeq(text, c.start + 1, PieceEnd(text, c.start))
    IN  IF c.start = Len(text) THEN c
        ELSE [start  |-> Min({c.start + MaxTokens * CharsPerToken, Len(text)}),
              pieces |-> IF Blank(piece) THEN c.pieces ELSE Append(c.pieces, piece)]

(* One turn of the loop; a piece of blanks is dropped.                     *)
CutOne(text, c) ==
    LET end   == PieceEnd(text, c.start)
        piece == SubSeq(text, c.start + 1, end)
    IN  IF c.start = Len(text) THEN c
        ELSE [start  |-> end,
              pieces |-> IF Blank(piece) THEN c.pieces ELSE Append(c.pieces, piece)]

(* Each turn cuts at least one character, so as many turns as there are    *)
(* characters reach the end.                                               *)
_hard_cut(text) ==
    LET cut[k \in 0 .. Len(text)] ==
            IF k = 0 THEN [start |-> 0, pieces |-> <<>>] ELSE CutOne(text, cut[k - 1])
    IN  IF Len(text) <= MaxTokens * CharsPerToken THEN <<text>> ELSE cut[Len(text)].pieces

(* The budget compares a sum of estimates, each rounded down.  `pieces'    *)
(* counts the fragments of a chunk.                                        *)
Merging == [texts |-> <<>>, tokens |-> 0]

MergeOne(m, frag) ==
    LET tokens == estimate_tokens(frag)
        joined == Last(m.texts)
    IN  IF Blank(frag) THEN m
        ELSE IF /\ m.texts # <<>>
                /\ _is_safe_join_boundary(joined.text, frag)
                /\ m.tokens + tokens <= MaxTokens
        THEN [texts |-> Append(Front(m.texts), [text |-> joined.text \o frag,
                                                pieces |-> joined.pieces + 1]),
              tokens |-> m.tokens + tokens]
        ELSE [texts |-> Append(m.texts, [text |-> frag, pieces |-> 1]), tokens |-> tokens]

_try_merge_fragments(fragments) ==
    LET merged[k \in 0 .. Len(fragments)] ==
            IF k = 0 THEN Merging ELSE MergeOne(merged[k - 1], fragments[k])
    IN  merged[Len(fragments)].texts
-----------------------------------------------------------------------------
(* Chunks.  The stamps every chunk of a document shares are left out.      *)

ChunkOf(text, pieces, meta, warning) ==
    [text |-> text, pieces |-> pieces, scope |-> meta.scope, blocks |-> meta.blocks,
     pages |-> meta.pages, form |-> meta.form, quality_warning |-> warning]

(* Lines are cut and merged each by itself.                                *)
LineChunks(line, meta, warning) ==
    LET merged == _try_merge_fragments(_hard_cut(line))
    IN  IF Blank(line) THEN <<>>
        ELSE [k \in 1 .. Len(merged) |->
                ChunkOf(merged[k].text, merged[k].pieces, meta, warning)]

_split_text_two_phase(text, meta, warning) ==
    LET lines == LinesOf(text)
    IN  FlattenSeq([i \in 1 .. Len(lines) |-> LineChunks(lines[i], meta, warning)])

(* One chunk of all the parts, whatever its size; none if they are blank.  *)
_flush_chunk(g) ==
    LET text == Strip(JoinLines(g.parts))
    IN  IF text = <<>> THEN <<>> ELSE <<ChunkOf(text, Len(g.parts), g, FALSE)>>

_route_accumulated_group(g) ==
    LET text == JoinLines(g.parts)
    IN  IF \/ \E i \in 1 .. Len(g.parts) - 1 :
                ~_is_safe_join_boundary(g.parts[i], g.parts[i + 1])
           \/ estimate_tokens(text) > MaxTokens
        THEN _split_text_two_phase(text, g, FALSE)
        ELSE _flush_chunk(g)

(* A large table by its rows.  `chars' measures the rows kept back; the    *)
(* branch of an oversized row does not reset it.                           *)
MetaOf(b) == [scope |-> b.scope, blocks |-> <<b.id>>, pages |-> {b.page}, form |-> b.form]

_emit_buffer(b, parts) ==
    LET text == Strip(JoinLines(Selected(parts, ToSet(parts) \ {<<>>})))
    IN  CASE text = <<>> -> <<>>
          [] text # <<>> /\ estimate_tokens(text) <= MaxTokens
                -> <<ChunkOf(text, 1, MetaOf(b), FALSE)>>
          [] OTHER -> _split_text_two_phase(text, MetaOf(b), FALSE)

HeaderParts(b) == IF b.header = <<>> THEN <<>> ELSE <<Append(b.header, "n")>>

HeaderChars(b) == Len(JoinLines(HeaderParts(b)))

Row(b, t, row) ==
    LET kept == IF /\ t.chars + Len(row) + 1 > MaxTokens * CharsPerToken
                   /\ Len(t.parts) > Len(HeaderParts(b))
                THEN [out |-> t.out \o _emit_buffer(b, t.parts),
                      parts |-> HeaderParts(b), chars |-> HeaderChars(b)]
                ELSE t
    IN  IF estimate_tokens(row) > MaxTokens
        THEN [t EXCEPT !.out = @ \o _emit_buffer(b, t.parts)
                                 \o _split_text_two_phase(row, MetaOf(b), TRUE),
                       !.parts = HeaderParts(b)]
        ELSE [kept EXCEPT !.parts = Append(@, row), !.chars = @ + Len(row) + 1]

_split_large_block(b) ==
    LET table[k \in 0 .. Len(b.rows)] ==
            IF k = 0 THEN [out |-> <<>>, parts |-> HeaderParts(b), chars |-> HeaderChars(b)]
            ELSE Row(b, table[k - 1], b.rows[k])
        end == table[Len(b.rows)]
    IN  IF b.type = "table" /\ b.structured
        THEN end.out \o (IF Len(end.parts) > Len(HeaderParts(b))
                         THEN _emit_buffer(b, end.parts) ELSE <<>>)
        ELSE _split_text_two_phase(b.text, MetaOf(b), FALSE)
-----------------------------------------------------------------------------
(* The loop                                                                *)

(* Boundary 1: a table or a key-value block stands alone.  The group is    *)
(* flushed without routing, and kept if it came to nothing.                *)
Standalone(b) ==
    LET flushed == _flush_chunk(group)
    IN  /\ chunks' = chunks \o flushed \o
             (IF estimate_tokens(b.text) > MaxTokens THEN _split_large_block(b)
              ELSE <<ChunkOf(b.text, 1, MetaOf(b), FALSE)>>)
        /\ group' = IF flushed = <<>> THEN [group EXCEPT !.scope = b.scope]
                                      ELSE NoGroup(b.scope)

Joined(g, b) ==
    [g EXCEPT !.parts = Append(@, b.text), !.blocks = Append(@, b.id),
              !.tokens = @ + estimate_tokens(b.text), !.pages = @ \cup {b.page},
              !.form = IF @ = {} THEN b.form ELSE @]

(* Faulty: no third boundary.                                              *)
Accumulated_Unbounded(b) ==
    LET moved  == group.scope # b.scope
        result == Joined(IF moved THEN NoGroup(b.scope) ELSE group, b)
        over   == result.tokens > MaxTokens /\ Len(result.parts) = 1
    IN  /\ chunks' = chunks
             \o (IF moved /\ group.parts # <<>>
                 THEN _route_accumulated_group(group) ELSE <<>>)
             \o (IF over THEN _split_text_two_phase(b.text, result, FALSE) ELSE <<>>)
        /\ group' = IF over THEN NoGroup(b.scope) ELSE result

(* Boundary 2, another scope, then boundary 3, too many tokens; then the   *)
(* block joins the group, or is split if it is too large by itself.        *)
Accumulated(b) ==
    LET moved  == group.scope # b.scope
        base   == IF moved THEN NoGroup(b.scope) ELSE group
        full   == base.tokens + estimate_tokens(b.text) > MaxTokens /\ base.parts # <<>>
        start  == IF full THEN NoGroup(b.scope) ELSE base
        result == Joined(start, b)
        over   == result.tokens > MaxTokens /\ Len(result.parts) = 1
    IN  /\ chunks' = chunks
             \o (IF (moved \/ full) /\ group.parts # <<>>
                 THEN _route_accumulated_group(group) ELSE <<>>)
             \o (IF over THEN _split_text_two_phase(b.text, result, FALSE) ELSE <<>>)
        /\ group' = IF over THEN NoGroup(b.scope) ELSE result

(* A block whose extract_text is empty is skipped.                         *)
ChunkBlock(b) ==
    /\ ~finished /\ Len(source) < MaxBlocks
    /\ \A i \in 1 .. Len(source) : source[i].id # b.id
    /\ source' = Append(source, b)
    /\ \/ b.text = <<>> /\ UNCHANGED <<chunks, group>>
       \/ b.text # <<>> /\ b.type # "text" /\ Standalone(b)
       \/ b.text # <<>> /\ b.type = "text" /\ Accumulated(b)
    /\ UNCHANGED finished

(* The last group too is flushed without routing.                          *)
FinishChunks ==
    /\ ~finished /\ finished' = TRUE
    /\ chunks' = chunks \o _flush_chunk(group)
    /\ group' = NoGroup(group.scope)
    /\ UNCHANGED source

ChunkNext == FinishChunks \/ \E b \in SourceBlocks : ChunkBlock(b)

ChunkSpec == ChunkInit /\ [][ChunkNext]_chunkVars
-----------------------------------------------------------------------------
(* What is to be seen of a text, but for headers put before rows: these    *)
(* are repeated by design.                                                 *)
Ink(text) == Selected(text, CharClasses \ {" ", "n", "h"})

InkOfChunks(cs) == FlattenSeq([i \in 1 .. Len(cs) |-> Ink(cs[i].text)])

(* A table that is split by its rows.                                      *)
ByRows(b) == b.type = "table" /\ b.structured /\ estimate_tokens(b.text) > MaxTokens

InkOf(b) == IF ByRows(b) THEN Ink(JoinLines(b.rows)) ELSE Ink(b.text)

(* Its header fits in a chunk beside any one of its rows.                  *)
HeaderFits(b) ==
    /\ ByRows(b) /\ b.header # <<>>
    /\ \A k \in DOMAIN b.rows :
          estimate_tokens(b.header \o <<"n", "n">> \o b.rows[k]) <= MaxTokens

(* Every visible character of the text of a block is in a chunk, once and  *)
(* in order: look-back, merging and the row buffers lose and double        *)
(* nothing.  Of a table split by its rows it is every character of the     *)
(* rows, and the header is at the head of each of its chunks if it fits    *)
(* beside each row.  Nothing else of such a table is kept: its preview is  *)
(* not read, and a table of a header alone leaves no chunk, with a warning *)
(* (chunker.py:168-230, 547-740, 796-1001).                                *)
NoTextLost ==
    /\ InkOfChunks(chunks) \o Ink(JoinLines(group.parts))
         = FlattenSeq([i \in 1 .. Len(source) |-> InkOf(source[i])])
    /\ \A b \in SourceBlocks : \A k \in DOMAIN chunks :
          HeaderFits(b) /\ chunks[k].blocks = <<b.id>> => IsPrefix(b.header, chunks[k].text)

(* How far a chunk can exceed MAX_CHUNK_TOKENS: each part or fragment put  *)
(* together beyond the first hides less than one token, rounded away, and  *)
(* a newline (289-341, 930-934).  Only a chunk of one piece is sure to fit:*)
(* the docstring of _split_large_block has every chunk of a large block    *)
(* fit (568), as does a test (test_chunker_row_flush_fix.py:248), and the  *)
(* pieces of an oversized row or line, merged again, need not.             *)
BudgetSlack ==
    \A i \in 1 .. Len(chunks) :
        estimate_tokens(chunks[i].text) <= MaxTokens + chunks[i].pieces - 1
=============================================================================
