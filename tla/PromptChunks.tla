---------------------------- MODULE PromptChunks ----------------------------
(***************************************************************************)
(* How a prompt is cut for the remote compressor (core/llm_compress.py): a *)
(* text is a sequence of paragraphs, a paragraph a sequence of words, a    *)
(* chunk the words of whole paragraphs, or a slice of one that is too long. *)
(***************************************************************************)
EXTENDS Integers, Sequences, SequencesExt

\* range(0, len(words), max_words)
Slices(words, max) ==
  [i \in 1..((Len(words) + max - 1) \div max) |->
     SubSeq(words, (i - 1) * max + 1, IF i * max < Len(words) THEN i * max ELSE Len(words))]

Flush(acc) ==
  IF acc.current = << >> THEN acc
  ELSE [chunks |-> Append(acc.chunks, acc.current), current |-> << >>]

\* Mutant: a long paragraph overtakes the ones that are being gathered.
TakeUnflushed(acc, p, max) ==
  IF Len(p) > max
  THEN [acc EXCEPT !.chunks = @ \o Slices(p, max)]
  ELSE LET ready == IF Len(acc.current) + Len(p) > max THEN Flush(acc) ELSE acc
       IN  [ready EXCEPT !.current = @ \o p]

\* One paragraph: the chunk at hand is finished when the paragraph does not fit.
Take(acc, p, max) ==
  LET ready == IF Len(acc.current) + Len(p) > max THEN Flush(acc) ELSE acc
  IN  IF Len(p) > max
      THEN [ready EXCEPT !.chunks = @ \o Slices(p, max)]
      ELSE [ready EXCEPT !.current = @ \o p]

ChunkText(text, max) ==
  LET after[n \in 0..Len(text)] ==   \* the first n paragraphs
        IF n = 0 THEN [chunks |-> << >>, current |-> << >>] ELSE Take(after[n - 1], text[n], max)
  IN  Flush(after[Len(text)]).chunks

=============================================================================
