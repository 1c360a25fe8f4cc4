------------------------------ MODULE Chunking ------------------------------
(* Semantic chunks of a Markdown document (s17code/core/memory/chunking.py). *)
(* A document is [words, ended]: words is the sequence of its words, each    *)
(* known by the kind of line it opens, "heading", "fence", "row" of a table  *)
(* or "plain", or "word" when it opens none; ended tells whether the text    *)
(* ends with a line break.  A heading has a word after its marker.  A chunk  *)
(* is <<first, last>>.                                                       *)
EXTENDS Naturals, Sequences, FiniteSets, FiniteSetsExt

Opens(words, i) == words[i] # "word"

(* The line break before the last line of first..last, or, when rfind finds  *)
(* none there and answers -1, the start of the document.                     *)
LineStart(words, first, last) ==
  Max({i \in (first + 1)..last : Opens(words, i)} \cup {1})

(* Where the table that reaches line begins, as the loop walks it back.      *)
TableStart(words, first, line) ==
  LET start[t \in 1..Len(words)] ==
        LET previous == LineStart(words, first, t - 1)
        IN IF t > first /\ words[previous] = "row" THEN start[previous] ELSE t
  IN start[line]

(* _structural_end: the first word after the block, moved back to the last   *)
(* heading, to a fence left open or to the table it would cut.               *)
StructuralEnd(doc, first, last) ==
  LET words    == doc.words
      headings == {i \in (first + 1)..(last - 1) : words[i] = "heading"}
      fences   == {i \in first..last : words[i] = "fence"}
      line     == LineStart(words, first, last)
      inTable  == words[line] = "row" /\ ~ (doc.ended /\ last = Len(words))
      table    == TableStart(words, first, line)
  IN IF headings # {} THEN Max(headings)
     ELSE IF Cardinality(fences) % 2 = 1 /\ Max(fences) > first THEN Max(fences)
     ELSE IF inTable /\ table > first THEN table
     ELSE last + 1

BlockEnd(doc, first, maxWords) ==
  LET last == Min({Len(doc.words), first + maxWords - 1})
      end  == StructuralEnd(doc, first, last)
  IN IF end <= first THEN last + 1 ELSE end

(* Mutant of NextStart: the suffix that rolls over is skipped.               *)
NextStartAfterBlock(doc, first, maxWords, floor, topics) ==
  BlockEnd(doc, first, maxWords)

(* Where the next chunk starts.  topics holds the words at which the         *)
(* segmenter sees a second topic; what is no suffix of the block, and a call *)
(* that fails, are the same as none.                                         *)
NextStart(doc, first, maxWords, floor, topics) ==
  LET end     == BlockEnd(doc, first, maxWords)
      seconds == topics \cap (first + 1)..(end - 1)
  IN IF end - first < floor \/ seconds = {} THEN end ELSE Min(seconds)

(* The chunk that a block leaves: all of it, or what precedes the suffix.    *)
ChunkEnd(doc, first, maxWords, floor, topics) ==
  LET end     == BlockEnd(doc, first, maxWords)
      seconds == topics \cap (first + 1)..(end - 1)
  IN IF end - first < floor \/ seconds = {} THEN end - 1 ELSE Min(seconds) - 1

(* semantic_chunks *)
Chunks(doc, maxWords, floor, topics) ==
  LET from[i \in 1..(Len(doc.words) + 1)] ==
        IF i > Len(doc.words) THEN <<>>
        ELSE <<<<i, ChunkEnd(doc, i, maxWords, floor, topics)>>>>
               \o from[NextStart(doc, i, maxWords, floor, topics)]
  IN from[1]

(* fixed_word_chunks: the control of the chunking proof.                     *)
FixedChunks(n, words) ==
  [k \in 1..((n + words - 1) \div words) |->
     <<(k - 1) * words + 1, Min({k * words, n})>>]
-----------------------------------------------------------------------------
Tiles(chunks, n) ==
  /\ (chunks = <<>>) = (n = 0)
  /\ \A k \in DOMAIN chunks :
       /\ chunks[k][1] = IF k = 1 THEN 1 ELSE chunks[k - 1][2] + 1
       /\ chunks[k][1] <= chunks[k][2]
       /\ k = Len(chunks) => chunks[k][2] = n

(* The chunks follow one another through the document, leave out no word and *)
(* repeat none, and none is longer than the budget.                          *)
ChunksStand(doc, maxWords, floor, topics) ==
  LET chunks == Chunks(doc, maxWords, floor, topics)
  IN /\ Tiles(chunks, Len(doc.words))
     /\ Tiles(FixedChunks(Len(doc.words), maxWords), Len(doc.words))
     /\ \A k \in DOMAIN chunks : chunks[k][2] - chunks[k][1] < maxWords
=============================================================================
