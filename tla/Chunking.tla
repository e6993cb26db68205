------------------------------ MODULE Chunking ------------------------------
(***************************************************************************)
(* How a markdown document is cut into the chunks that are embedded.  A    *)
(* document is the sequence of its sections, a section the words of its    *)
(* header (none for the preamble) and the words of its body.               *)
(***************************************************************************)
EXTENDS SequencesExt

(* Slip: windows do not overlap, they leave a gap.                         *)
StepApart(size, overlap) == size + overlap

(* How far the next window begins behind this one.                         *)
Step(size, overlap) == Max({size - overlap, 1})

(* The windows over n words, none behind the first that reaches the end.   *)
Windows(n, size, overlap) ==
  {k \in 1 .. n : /\ (k - 1) * Step(size, overlap) < n
                  /\ k = 1 \/ (k - 2) * Step(size, overlap) + size < n}

(* _word_chunk.                                                            *)
WordChunks(words, size, overlap) ==
  [k \in Windows(Len(words), size, overlap) |->
     LET start == (k - 1) * Step(size, overlap) IN
     SubSeq(words, start + 1, Min({start + size, Len(words)}))]

Text(section) == section.header \o section.body

(* A header without a body is no section to embed: its content lives in    *)
(* its sub-sections.                                                       *)
Embeddable(section) == section.body # <<>>

(* _markdown_chunk: the sections one by one, long ones by their words; a   *)
(* document of bare headers is chunked by words as a whole.                *)
MarkdownChunks(doc, size, overlap) ==
  LET Cut(section) == IF ~ Embeddable(section) THEN <<>>
                      ELSE IF Len(Text(section)) <= size THEN <<Text(section)>>
                      ELSE WordChunks(Text(section), size, overlap)
      chunks == FlattenSeq([i \in DOMAIN doc |-> Cut(doc[i])]) IN
  IF chunks # <<>> THEN chunks
  ELSE WordChunks(FlattenSeq([i \in DOMAIN doc |-> Text(doc[i])]), size, overlap)
-----------------------------------------------------------------------------
(* Occurrences of a word are told apart by the callers, who number them.   *)
Words(doc, sections) == UNION {ToSet(Text(doc[i])) : i \in sections}

(* The numbering: no word occurs twice.                                    *)
Numbered(doc) ==
  LET words == Words(doc, DOMAIN doc) IN
  /\ doc \in Seq([header : Seq(words), body : Seq(words)])
  /\ \A i, j \in DOMAIN doc : \A k \in DOMAIN Text(doc[i]), l \in DOMAIN Text(doc[j]) :
       Text(doc[i])[k] = Text(doc[j])[l] => i = j /\ k = l

(* Nothing that can be asked about is lost: every word of a section with a *)
(* body is in a chunk, and a document of bare headers keeps its headers.   *)
NoWordLost(doc, chunks) ==
  LET kept == {i \in DOMAIN doc : Embeddable(doc[i])} IN
  UNION {ToSet(chunks[k]) : k \in DOMAIN chunks} =
     Words(doc, IF kept = {} THEN DOMAIN doc ELSE kept)

(* A chunk is a piece of one section, no longer than a chunk may be, and   *)
(* none repeats what another chunk holds completely.                       *)
ChunksFit(doc, chunks, size) ==
  \A k \in DOMAIN chunks :
     /\ Len(chunks[k]) \in 1 .. size
     /\ \/ \E i \in DOMAIN doc : ToSet(chunks[k]) \subseteq ToSet(Text(doc[i]))
        \/ \A i \in DOMAIN doc : ~ Embeddable(doc[i])
     /\ \A j \in DOMAIN chunks \ {k} : ~ ToSet(chunks[j]) \subseteq ToSet(chunks[k])

(* "overlap": a sentence cut by a window is whole in the next one if it is *)
(* no longer than the overlap: words of a section that close to each other *)
(* share a chunk.                                                          *)
NeighboursTogether(doc, chunks, size, overlap) ==
  \A i \in {j \in DOMAIN doc : Embeddable(doc[j])} :
     \A a \in DOMAIN Text(doc[i]) : \A b \in a .. Min({a + overlap, Len(Text(doc[i]))}) :
        overlap < size =>
          \E k \in DOMAIN chunks : {Text(doc[i])[a], Text(doc[i])[b]} \subseteq ToSet(chunks[k])
=============================================================================
