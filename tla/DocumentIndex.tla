--------------------------- MODULE DocumentIndex ---------------------------
(***************************************************************************)
(* What a knowledge base promises whoever searches it: under each document *)
(* it shows the passages of at most one text, the one its file held when   *)
(* the document was last ingested, and a call touches its own document and *)
(* no other, unless it empties the whole index.                            *)
(***************************************************************************)
EXTENDS Naturals
CONSTANTS Names, FileOf, Texts
VARIABLES disk,     \* what each file of the workspace holds
          shown     \* [Names -> SUBSET Texts], the texts a search can find

\* A text without a character has no passage that could be found.
Passages(text) == {t \in {text} : t.len > 0}

Write   == disk' # disk /\ UNCHANGED shown
Show(d) == /\ FileOf[d] \in DOMAIN disk /\ disk[FileOf[d]] \in Texts
           /\ shown' = [shown EXCEPT ![d] = Passages(disk[FileOf[d]])]
           /\ UNCHANGED disk
Hide(d) == shown' = [shown EXCEPT ![d] = {}] /\ UNCHANGED disk
HideAll == shown' = [d \in Names |-> {}] /\ UNCHANGED disk

Init == shown = [d \in Names |-> {}]
Next == Write \/ HideAll \/ \E d \in Names : Show(d) \/ Hide(d)

Spec == Init /\ [][Next]_<<disk, shown>>
=============================================================================
