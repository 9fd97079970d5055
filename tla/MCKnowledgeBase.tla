-------------------------- MODULE MCKnowledgeBase --------------------------
(* KnowledgeBase with one file under two spellings, a second file and a    *)
(* path outside the workspace.                                             *)
EXTENDS KnowledgeBase
CONSTANTS plain, dotted, other, outside, report, notes

Paths == [d \in Names |-> CASE d = outside -> Invalid
                            [] d = other   -> notes
                            [] OTHER       -> report]

\* No text, one of a single chunk, a long one, and its shorter revision.
TextsOfEachKind == {[len |-> 0, rev |-> 1], [len |-> 2, rev |-> 1],
                    [len |-> 7, rev |-> 1], [len |-> 5, rev |-> 2]}

\* Scores with ties, on both sides of every threshold.
Similarity(q, chunk) == ((chunk.start + chunk.text.rev + q) % 4) - 1

Thresholds == {-1, 0, 2}
=============================================================================
