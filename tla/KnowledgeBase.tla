--------------------------- MODULE KnowledgeBase ---------------------------
(***************************************************************************)
(* The local knowledge base: files of the workspace are cut into           *)
(* overlapping chunks and stored as vectors, two dictionaries remember     *)
(* which chunk belongs to which document, and a search ranks the chunks.   *)
(*                                                                         *)
(* No method awaits, so each call is one step of the event loop; the files *)
(* change between the calls.  A document's identifier is a hash of its     *)
(* path as it was given, a chunk's is a hash of document and position;     *)
(* hashes are taken to be free of collisions.                              *)
(***************************************************************************)
EXTENDS Integers, FiniteSets, SequencesExt

CONSTANTS
  Names,        \* paths callers give to ingest
  Files,        \* the files of the workspace
  FileOf,       \* Workspace.resolve: the file a path names, or Invalid
  Invalid,      \* what resolve makes of a path it refuses
  Texts,        \* texts a file may hold: their length, and their revision
  Unusable,     \* no file, a directory, binary, not UTF-8 or too large
  ChunkSize,    \* chunk_size
  Overlap,      \* overlap
  Queries,      \* what may be asked; NoQuery is the empty string
  NoQuery,
  TopK,         \* values of top_k
  MinScore,     \* values of min_score, in parts of One
  One,          \* the score 1.0
  Score(_, _)   \* the similarity of a query and a chunk, from -One to One

ASSUME KnowledgeAssumption ==
  /\ FileOf \in [Names -> Files \cup {Invalid}] /\ Invalid \notin Files
  /\ Texts \subseteq [len : Nat, rev : Nat] /\ Unusable \notin Texts
  \* DeterministicChunker.__init__ refuses anything else.
  /\ ChunkSize \in Nat /\ Overlap \in Nat /\ Overlap < ChunkSize
  /\ TopK \subseteq Int /\ MinScore \subseteq Int /\ One \in Nat

ASSUME ScoreAssumption ==
  \A q \in Queries, d \in Names, text \in Texts :
    \A from, to \in 0..text.len :
      Score(q, [doc |-> d, text |-> text, start |-> from, end |-> to]) \in Int

VARIABLES
  disk,           \* what each file holds
  entries,        \* SimpleVectorStore._entries, and _index: chunk id -> chunk
  chunk_to_doc,   \* KnowledgeBase._chunk_to_doc
  doc_to_chunks,  \* KnowledgeBase._doc_to_chunks
  answer          \* how the last call ended

index == <<entries, chunk_to_doc, doc_to_chunks>>
vars  == <<disk, entries, chunk_to_doc, doc_to_chunks, answer>>

Contents == Texts \cup {Unusable}
NoAnswer == [call |-> "none"]
Error(e) == [call |-> "error", error |-> e]

Init ==
  /\ disk \in [Files -> Contents]
  /\ entries = [c \in {} |-> {}]
  /\ chunk_to_doc = [c \in {} |-> {}]
  /\ doc_to_chunks = [d \in {} |-> {}]
  /\ answer = NoAnswer
-----------------------------------------------------------------------------
(* Chunks *)

\* Variant: without the overlap.
StepWhole == ChunkSize
step == ChunkSize - Overlap

\* The loop `while pos < total: ...; pos += step`, by the index of the chunk.
Cuts(text) == {k \in 0..text.len : k * step < text.len}

\* Variant: the position alone identifies a chunk.
ChunkIdByPosition(d, k) == <<CHOOSE n \in Names : TRUE, k>>
ChunkId(d, k) == <<d, k>>

End(text, pos) == IF pos + ChunkSize < text.len THEN pos + ChunkSize ELSE text.len

\* The chunks of text as document d; the text of a chunk is text[start:end].
Chunks(d, text) ==
  [c \in {ChunkId(d, k) : k \in Cuts(text)} |->
     [doc |-> d, text |-> text, start |-> c[2] * step, end |-> End(text, c[2] * step)]]

-----------------------------------------------------------------------------
(* Dictionaries *)

Without(f, S) == [x \in DOMAIN f \ S |-> f[x]]
Updated(f, g) == [x \in DOMAIN f \cup DOMAIN g |-> IF x \in DOMAIN g THEN g[x] ELSE f[x]]
Owned(d)      == IF d \in DOMAIN doc_to_chunks THEN doc_to_chunks[d] ELSE {}
-----------------------------------------------------------------------------
(* The workspace *)

\* Someone saves, replaces or deletes a file; no call of the knowledge base.
Write(f, content) ==
  /\ content # disk[f]
  /\ disk' = [disk EXCEPT ![f] = content]
  /\ answer' = NoAnswer
  /\ UNCHANGED index

-----------------------------------------------------------------------------
(* Calls *)

Readable(d) == FileOf[d] \in Files /\ disk[FileOf[d]] \in Texts

\* Ingestion of d once the chunks `old` were removed.
Store(d, old, new, was_new) ==
  LET owned == (Owned(d) \ old) \cup DOMAIN new IN
  /\ Readable(d)
  /\ entries' = Updated(Without(entries, old), new)
  /\ chunk_to_doc' = Updated(Without(chunk_to_doc, old), [c \in DOMAIN new |-> d])
  \* setdefault(...).add(...) for every chunk: a text without one adds no key.
  /\ doc_to_chunks' = Updated(Without(doc_to_chunks, {d}), [x \in {d : c \in owned} |-> owned])
  /\ answer' = [call |-> "ingest", doc |-> d, ids |-> DOMAIN new, was_new |-> was_new]
  /\ UNCHANGED disk

\* Variant: upserted over the old chunks, which are not removed.
IngestOver(d) ==
  Store(d, {}, Chunks(d, disk[FileOf[d]]), d \notin DOMAIN doc_to_chunks)
\* Variant: whether the document is new is asked after its removal.
IngestJudgedLate(d) == Store(d, Owned(d), Chunks(d, disk[FileOf[d]]), TRUE)
Ingest(d) ==
  Store(d, Owned(d), Chunks(d, disk[FileOf[d]]), d \notin DOMAIN doc_to_chunks)

\* Variant: the chunks' owners are not forgotten.
DropKeepingOwners(d) ==
  /\ entries' = Without(entries, Owned(d))
  /\ doc_to_chunks' = Without(doc_to_chunks, {d})
  /\ UNCHANGED chunk_to_doc
\* _remove_document_chunks.
Drop(d) ==
  /\ entries' = Without(entries, Owned(d))
  /\ chunk_to_doc' = Without(chunk_to_doc, Owned(d))
  /\ doc_to_chunks' = Without(doc_to_chunks, {d})

\* embed_batch raises, as an EmbeddingProvider over a service may: the old
\* chunks are gone by then.
IngestUnembedded(d) ==
  /\ Readable(d) /\ Cuts(disk[FileOf[d]]) # {}
  /\ Drop(d)
  /\ answer' = Error("EmbeddingProvider")
  /\ UNCHANGED disk

\* Every check of the file comes before the index is touched.
IngestUnusable(d) ==
  /\ FileOf[d] \in Files /\ disk[FileOf[d]] = Unusable
  /\ answer' = Error("FileToolError")
  /\ UNCHANGED <<disk, index>>

\* `except WorkspaceError`: the module never imports that name, so the handler
\* raises another exception than the one it was written to raise.
IngestInvalid(d) ==
  /\ FileOf[d] = Invalid
  /\ answer' = Error("NameError")
  /\ UNCHANGED <<disk, index>>

RemoveDocument(d) ==
  /\ Drop(d)
  /\ answer' = [call |-> "remove", doc |-> d, count |-> Cardinality(Owned(d) \cap DOMAIN entries)]
  /\ UNCHANGED disk

Clear ==
  /\ entries' = Without(entries, DOMAIN entries)
  /\ chunk_to_doc' = Without(chunk_to_doc, DOMAIN chunk_to_doc)
  /\ doc_to_chunks' = Without(doc_to_chunks, DOMAIN doc_to_chunks)
  /\ answer' = [call |-> "clear"]
  /\ UNCHANGED disk

-----------------------------------------------------------------------------
(* Search *)

\* list.sort by score; ties in any order.  A chunk goes in behind those that may
\* stand before it, and before those that may not.
Sorted(q, reverse) ==
  LET Key(c) == IF reverse THEN -Score(q, entries[c]) ELSE Score(q, entries[c])
      Place(c, ranked) ==
        LET at == CHOOSE i \in 1..Len(ranked) + 1 :
                    /\ \A j \in 1..i - 1 : Key(ranked[j]) <= Key(c)
                    /\ \A j \in i..Len(ranked) : Key(ranked[j]) > Key(c)
        IN InsertAt(ranked, at, c)
  IN FoldSet(Place, <<>>, DOMAIN entries)

\* Variant: sorted without reverse=True.
RankingUpwards(q) == Sorted(q, FALSE)
Ranking(q) == Sorted(q, TRUE)

\* The loop over the ranking breaks at the first score below min_score and at
\* the top_k-th result.
Retrieved(q, k, least) ==
  LET ranking == Ranking(q)
      Taken(n) == n <= k /\ \A i \in 1..n : Score(q, entries[ranking[i]]) >= least
      n == CHOOSE n \in 0..Len(ranking) :
             Taken(n) /\ \A m \in n+1..Len(ranking) : ~Taken(m)
  IN SubSeq(ranking, 1, n)

Search(q, k, least) ==
  /\ q # NoQuery /\ k >= 1 /\ least \in 0..One
  /\ answer' = [call |-> "search", query |-> q, top_k |-> k, min_score |-> least,
                found |-> Retrieved(q, k, least), total |-> Cardinality(DOMAIN entries)]
  /\ UNCHANGED <<disk, index>>

SearchInvalid(q, k, least) ==
  /\ q # NoQuery /\ (k < 1 \/ least \notin 0..One)
  /\ answer' = Error("ValueError")
  /\ UNCHANGED <<disk, index>>

\* Answered before the other arguments are looked at.
SearchNothing ==
  /\ answer' = [call |-> "search", query |-> NoQuery, top_k |-> 0, min_score |-> 0,
                found |-> <<>>, total |-> 0]
  /\ UNCHANGED <<disk, index>>

Next ==
  \/ \E f \in Files, content \in Contents : Write(f, content)
  \/ \E d \in Names : \/ Ingest(d) \/ IngestUnembedded(d)
                      \/ IngestUnusable(d) \/ IngestInvalid(d)
                      \/ RemoveDocument(d)
  \/ Clear
  \/ \E q \in Queries, k \in TopK, least \in MinScore :
       Search(q, k, least) \/ SearchInvalid(q, k, least)
  \/ SearchNothing

Spec == Init /\ [][Next]_vars

-----------------------------------------------------------------------------
(* Properties *)

Of(d) == {c \in DOMAIN entries : entries[c].doc = d}

Chunk == [doc : Names, text : Texts, start : Nat, end : Nat]

\* Type correctness; a chunk is a non-empty stretch of its text.
TypeOK ==
  /\ disk \in [Files -> Contents]
  /\ DOMAIN entries \subseteq Names \X Nat
  /\ \A c \in DOMAIN entries :
       /\ entries[c] \in Chunk
       /\ entries[c].start < entries[c].end /\ entries[c].end <= entries[c].text.len

\* The two dictionaries of the knowledge base and the vector store agree after
\* every call: every chunk has one owner, every document owns exactly its
\* chunks, and no document is kept without one (ingest decides by the key's
\* presence whether there is something to replace).
MapsAgree ==
  /\ DOMAIN chunk_to_doc = DOMAIN entries
  /\ \A c \in DOMAIN entries : chunk_to_doc[c] = entries[c].doc
  /\ DOMAIN doc_to_chunks = {entries[c].doc : c \in DOMAIN entries}
  /\ \A d \in DOMAIN doc_to_chunks : doc_to_chunks[d] = Of(d)

\* Whatever was ingested, replaced, removed or failed before: a document is in
\* the index with all the chunks of one revision of its text, or not at all.
\* No stale tail is left when a shorter text replaces a longer one.
WholeDocument ==
  \A d \in Names :
    Of(d) # {} => \E text \in Texts : [c \in Of(d) |-> entries[c]] = Chunks(d, text)

\* Why chunks overlap: every passage of an indexed text that is at most one
\* character longer than the overlap lies within a single chunk, wherever the
\* cuts fall.
PassageInOneChunk ==
  \A c \in DOMAIN entries :
    LET text == entries[c].text IN
    \A from \in 0..text.len-1 : \A to \in from+1..text.len :
      to - from <= Overlap + 1 =>
        \E b \in Of(entries[c].doc) : entries[b].start <= from /\ to <= entries[b].end

\* A search finds the best chunks there are: as many as it may, each good
\* enough, best first, and none that was left out is better than one returned.
BestFirst ==
  (answer.call = "search" /\ answer.query # NoQuery) =>
    LET Value(c) == Score(answer.query, entries[c])
        good  == {c \in DOMAIN entries : Value(c) >= answer.min_score}
        found == ToSet(answer.found)
        n     == Len(answer.found)
    IN /\ found \subseteq good /\ Cardinality(found) = n
       /\ n = IF Cardinality(good) < answer.top_k THEN Cardinality(good) ELSE answer.top_k
       /\ \A i, j \in 1..n : i < j => Value(answer.found[i]) >= Value(answer.found[j])
       /\ \A c \in good \ found, b \in found : Value(b) >= Value(c)

\* What a call reports is what it did: an ingestion lists the chunks the index
\* now holds of the document, all from the text the file held, and is new
\* exactly if there was none before; a removal counts what it removed.
ReportsTrue ==
  [][\A d \in Names :
       /\ (answer'.call = "ingest" /\ answer'.doc = d) =>
            /\ answer'.ids = Of(d)'
            /\ \A c \in Of(d)' : entries'[c].text = disk[FileOf[d]]
            /\ answer'.was_new <=> Of(d) = {}
       /\ (answer'.call = "remove" /\ answer'.doc = d) =>
            /\ answer'.count = Cardinality(Of(d))
            /\ Of(d)' = {}]_vars

\* The texts a search may find of each document.
Shown == [d \in Names |-> {entries[c].text : c \in Of(d)}]
Promise == INSTANCE DocumentIndex WITH shown <- Shown

\* The knowledge base implements the index it promises to be: ingesting a
\* document replaces what is shown of it, and of no other.
ImplementsIndex == Promise!Spec

=============================================================================
