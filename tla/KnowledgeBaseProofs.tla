------------------------ MODULE KnowledgeBaseProofs ------------------------
(* Theorems about KnowledgeBase, for any names, files, texts, chunk size   *)
(* and overlap, and any score.                                             *)
EXTENDS KnowledgeBase, SequenceTheorems, Induction, TLAPS

\* The index is consistent after every call.
IndexInv == TypeOK /\ MapsAgree /\ WholeDocument

-----------------------------------------------------------------------------
(* Chunks *)

\* The cuts advance.
LEMMA StepPositive == step \in Nat /\ step > 0 /\ ChunkSize = step + Overlap
  BY KnowledgeAssumption DEF KnowledgeAssumption, step

\* The k-th chunk of a text.
LEMMA ChunkAt ==
  ASSUME NEW d \in Names, NEW text \in Texts, NEW k \in Cuts(text)
  PROVE  /\ k \in Nat /\ k * step \in Nat /\ k * step < text.len
         /\ <<d, k>> \in DOMAIN Chunks(d, text)
         /\ Chunks(d, text)[<<d, k>>] =
              [doc |-> d, text |-> text, start |-> k * step, end |-> End(text, k * step)]
<1>1. text.len \in Nat
  BY KnowledgeAssumption DEF KnowledgeAssumption
<1>2. k \in Nat /\ k * step < text.len
  BY <1>1 DEF Cuts
<1>3. k * step \in Nat
  BY <1>2, StepPositive
<1> QED BY <1>2, <1>3 DEF Chunks, ChunkId

\* Every chunk of a text is a non-empty stretch of it, filed under its document.
LEMMA ChunkFacts ==
  ASSUME NEW d \in Names, NEW text \in Texts, NEW c \in DOMAIN Chunks(d, text)
  PROVE  LET chunk == Chunks(d, text)[c] IN
         /\ c \in Names \X Nat /\ c[1] = d
         /\ chunk \in Chunk /\ chunk.doc = d /\ chunk.text = text
         /\ chunk.start < chunk.end /\ chunk.end <= chunk.text.len
<1>1. text.len \in Nat
  BY KnowledgeAssumption DEF KnowledgeAssumption
<1>2. PICK k \in Cuts(text) : c = <<d, k>>
  BY DEF Chunks, ChunkId
<1> DEFINE pos == k * step
<1>3. /\ k \in Nat /\ pos \in Nat /\ pos < text.len
      /\ Chunks(d, text)[c] =
           [doc |-> d, text |-> text, start |-> pos, end |-> End(text, pos)]
  BY <1>2, ChunkAt
<1> HIDE DEF pos
<1>4. End(text, pos) \in Nat /\ pos < End(text, pos) /\ End(text, pos) <= text.len
  BY <1>1, <1>3, KnowledgeAssumption DEF KnowledgeAssumption, End
<1>5. c \in Names \X Nat /\ c[1] = d
  BY <1>2, <1>3
<1> QED BY <1>3, <1>4, <1>5 DEF Chunk

\* A text with a character has a first chunk.
LEMMA FirstCut ==
  ASSUME NEW text \in Texts
  PROVE  (text.len > 0) <=> (Cuts(text) # {})
<1> text.len \in Nat
  BY KnowledgeAssumption DEF KnowledgeAssumption
<1>1. ASSUME text.len > 0 PROVE 0 \in Cuts(text)
  BY <1>1, StepPositive DEF Cuts
<1>2. ASSUME NEW k \in Cuts(text) PROVE text.len > 0
  <2>1. k \in Nat /\ k * step < text.len
    BY DEF Cuts
  <2> QED BY <2>1, StepPositive
<1> QED BY <1>1, <1>2

\* Every position lies in the step of some cut.
LEMMA CutBefore ==
  ASSUME NEW text \in Texts, NEW from \in Nat, from < text.len
  PROVE  \E k \in Cuts(text) : k * step <= from /\ from < k * step + step
<1> text.len \in Nat
  BY KnowledgeAssumption DEF KnowledgeAssumption
<1> DEFINE k == from \div step
<1>1. k \in Nat /\ from = k * step + (from % step) /\ from % step \in 0..step-1
  BY StepPositive
<1>2. k * step <= from /\ from < k * step + step
  BY <1>1, StepPositive
<1>3. k <= from
  BY <1>1, <1>2, StepPositive
<1>4. k \in Cuts(text)
  BY <1>1, <1>2, <1>3, StepPositive DEF Cuts
<1> QED BY <1>2, <1>4
-----------------------------------------------------------------------------
(* The index *)

\* What the invariant says of one document: it owns its chunks, which carry its
\* name in their identifiers.
LEMMA OwnedFacts ==
  ASSUME IndexInv
  PROVE  /\ \A d \in Names : Owned(d) = Of(d)
         /\ \A c \in DOMAIN entries : c = <<entries[c].doc, c[2]>> /\ entries[c].doc \in Names
<1>1. ASSUME NEW d \in Names PROVE Owned(d) = Of(d)
  <2>1. CASE d \in DOMAIN doc_to_chunks
    BY <2>1 DEF IndexInv, MapsAgree, Owned
  <2>2. CASE d \notin DOMAIN doc_to_chunks
    BY <2>2 DEF IndexInv, MapsAgree, Owned, Of
  <2> QED BY <2>1, <2>2
<1>2. ASSUME NEW c \in DOMAIN entries
      PROVE  c = <<entries[c].doc, c[2]>> /\ entries[c].doc \in Names
  <2>0. PICK d \in Names : d = entries[c].doc
    BY DEF IndexInv, TypeOK, Chunk
  <2>1. d \in Names /\ c \in Of(d) /\ c \in Names \X Nat
    BY <2>0 DEF IndexInv, TypeOK, Of
  <2>2. PICK text \in Texts : [b \in Of(d) |-> entries[b]] = Chunks(d, text)
    BY <2>1 DEF IndexInv, WholeDocument
  <2>3. c \in DOMAIN Chunks(d, text)
    BY <2>1, <2>2
  <2>4. c[1] = d
    BY <2>3 DEF Chunks, ChunkId
  <2> QED BY <2>0, <2>1, <2>4
<1> QED BY <1>1, <1>2

\* Replacing the chunks of d by those of a text keeps the index consistent, and
\* the chunks of the other documents as they are.
LEMMA Replaced ==
  ASSUME IndexInv, NEW d \in Names, NEW text \in Texts,
         disk' \in [Files -> Contents],
         entries' = Updated(Without(entries, Of(d)), Chunks(d, text)),
         chunk_to_doc' = Updated(Without(chunk_to_doc, Of(d)),
                                 [c \in DOMAIN Chunks(d, text) |-> d]),
         doc_to_chunks' = Updated(Without(doc_to_chunks, {d}),
           [x \in {d : c \in DOMAIN Chunks(d, text)} |-> DOMAIN Chunks(d, text)])
  PROVE  /\ IndexInv'
         /\ Of(d)' = DOMAIN Chunks(d, text)
         /\ \A c \in Of(d)' : entries'[c] = Chunks(d, text)[c]
         /\ \A e \in Names \ {d} :
              Of(e)' = Of(e) /\ \A c \in Of(e) : entries'[c] = entries[c]
<1> DEFINE new == Chunks(d, text)
           ids == DOMAIN new
           kept == DOMAIN entries \ Of(d)
<1>1. \A c \in ids : /\ c \in Names \X Nat /\ c[1] = d /\ new[c] \in Chunk /\ new[c].doc = d
                     /\ new[c].start < new[c].end /\ new[c].end <= new[c].text.len
  BY ChunkFacts
<1> HIDE DEF new
<1>2. \A c \in kept : c \notin ids /\ entries[c].doc \in Names \ {d}
  BY <1>1, OwnedFacts DEF Of
<1>3. /\ DOMAIN entries' = kept \cup ids
      /\ \A c \in kept : entries'[c] = entries[c]
      /\ \A c \in ids : entries'[c] = new[c]
  BY <1>2 DEF Updated, Without, new
<1>4. Of(d)' = ids
  <2>1. Of(d)' = {c \in kept \cup ids : entries'[c].doc = d}
    BY <1>3 DEF Of
  <2>2. \A c \in kept : entries'[c].doc # d
    BY <1>2, <1>3
  <2>3. \A c \in ids : entries'[c].doc = d
    BY <1>1, <1>3
  <2> QED BY <2>1, <2>2, <2>3
<1>5. ASSUME NEW e \in Names \ {d}
      PROVE  Of(e)' = Of(e) /\ Of(e) \subseteq kept
  <2>1. Of(e)' = {c \in kept \cup ids : entries'[c].doc = e}
    BY <1>3 DEF Of
  <2>2. \A c \in ids : entries'[c].doc # e
    BY <1>1, <1>3
  <2>3. Of(e) = {c \in kept : entries[c].doc = e}
    BY DEF Of
  <2> QED BY <2>1, <2>2, <2>3, <1>3
<1>6. TypeOK'
  BY <1>1, <1>3 DEF IndexInv, TypeOK
<1>7. MapsAgree'
  <2>1. DOMAIN chunk_to_doc' = DOMAIN entries'
    BY <1>3 DEF IndexInv, MapsAgree, Updated, Without, new
  <2>2. \A c \in DOMAIN entries' : chunk_to_doc'[c] = entries'[c].doc
    <3>1. \A c \in ids : chunk_to_doc'[c] = d
      BY DEF Updated, Without, new
    <3>2. \A c \in kept : chunk_to_doc'[c] = chunk_to_doc[c]
      BY <1>2 DEF IndexInv, MapsAgree, Updated, Without, new
    <3> QED BY <3>1, <3>2, <1>1, <1>3 DEF IndexInv, MapsAgree
  <2>3. DOMAIN doc_to_chunks' = (DOMAIN doc_to_chunks \ {d}) \cup {x \in {d} : ids # {}}
    BY DEF Updated, Without, new
  <2>4. DOMAIN doc_to_chunks' = {entries'[c].doc : c \in DOMAIN entries'}
    <3>1. DOMAIN doc_to_chunks = {entries[c].doc : c \in DOMAIN entries}
      BY DEF IndexInv, MapsAgree
    <3>2. DOMAIN doc_to_chunks \ {d} = {entries[c].doc : c \in kept}
      BY <3>1 DEF Of
    <3>3. {entries'[c].doc : c \in kept} = {entries[c].doc : c \in kept}
      BY <1>3
    <3>4. {entries'[c].doc : c \in ids} = {x \in {d} : ids # {}}
      BY <1>1, <1>3
    <3>5. {entries'[c].doc : c \in DOMAIN entries'}
            = {entries'[c].doc : c \in kept} \cup {entries'[c].doc : c \in ids}
      BY <1>3
    <3> QED BY <3>2, <3>3, <3>4, <3>5, <2>3
  <2>5. ASSUME NEW e \in DOMAIN doc_to_chunks'
        PROVE  doc_to_chunks'[e] = Of(e)'
    <3>1. CASE e = d
      <4>1. ids # {}
        BY <2>3, <3>1
      <4>2. doc_to_chunks'[d] = ids
        BY <4>1 DEF Updated, Without, new
      <4> QED BY <3>1, <4>2, <1>4
    <3>2. CASE e # d
      <4>1. e \in DOMAIN doc_to_chunks \ {d} /\ e \in Names
        BY <2>3, <3>2, OwnedFacts DEF IndexInv, MapsAgree
      <4>2. doc_to_chunks'[e] = doc_to_chunks[e]
        BY <4>1, <3>2 DEF Updated, Without, new
      <4> QED BY <4>1, <4>2, <3>2, <1>5 DEF IndexInv, MapsAgree
    <3> QED BY <3>1, <3>2
  <2> QED BY <2>1, <2>2, <2>4, <2>5 DEF MapsAgree
<1>8. WholeDocument'
  <2> SUFFICES ASSUME NEW e \in Names, Of(e)' # {}
               PROVE  \E t \in Texts : [c \in Of(e)' |-> entries'[c]] = Chunks(e, t)
    BY DEF WholeDocument
  <2>1. CASE e = d
    <3>1. [c \in Of(d)' |-> entries'[c]] = [c \in ids |-> new[c]]
      BY <1>3, <1>4
    <3>2. [c \in ids |-> new[c]] = Chunks(d, text)
      BY DEF new, Chunks
    <3> QED BY <2>1, <3>1, <3>2
  <2>2. CASE e # d
    <3>1. [c \in Of(e)' |-> entries'[c]] = [c \in Of(e) |-> entries[c]]
      BY <2>2, <1>3, <1>5
    <3> QED BY <2>2, <3>1, <1>5 DEF IndexInv, WholeDocument
  <2> QED BY <2>1, <2>2
<1> QED BY <1>3, <1>4, <1>5, <1>6, <1>7, <1>8 DEF IndexInv, new

\* So does removing them.
LEMMA Dropped ==
  ASSUME IndexInv, NEW d \in Names, disk' \in [Files -> Contents], Drop(d)
  PROVE  /\ IndexInv'
         /\ Of(d)' = {}
         /\ \A e \in Names \ {d} :
              Of(e)' = Of(e) /\ \A c \in Of(e) : entries'[c] = entries[c]
<1> DEFINE kept == DOMAIN entries \ Of(d)
<1>1. Owned(d) = Of(d)
  BY OwnedFacts
<1>2. DOMAIN entries' = kept /\ \A c \in kept : entries'[c] = entries[c]
  BY <1>1 DEF Drop, Without
<1>3. Of(d)' = {}
  BY <1>2 DEF Of
<1>4. ASSUME NEW e \in Names \ {d}
      PROVE  Of(e)' = Of(e) /\ Of(e) \subseteq kept
  BY <1>2 DEF Of
<1>5. TypeOK'
  BY <1>2 DEF IndexInv, TypeOK
<1>6. MapsAgree'
  <2>1. /\ DOMAIN chunk_to_doc' = kept
        /\ \A c \in kept : chunk_to_doc'[c] = chunk_to_doc[c]
    BY <1>1 DEF IndexInv, MapsAgree, Drop, Without
  <2>2. /\ DOMAIN doc_to_chunks' = DOMAIN doc_to_chunks \ {d}
        /\ \A e \in DOMAIN doc_to_chunks' : doc_to_chunks'[e] = doc_to_chunks[e]
    BY DEF Drop, Without
  <2>3. DOMAIN doc_to_chunks' = {entries'[c].doc : c \in DOMAIN entries'}
    BY <1>2, <2>2 DEF IndexInv, MapsAgree, Of
  <2>4. ASSUME NEW e \in DOMAIN doc_to_chunks'
        PROVE  doc_to_chunks'[e] = Of(e)'
    <3>1. e \in Names \ {d}
      BY <2>2, OwnedFacts DEF IndexInv, MapsAgree
    <3> QED BY <3>1, <2>2, <1>4 DEF IndexInv, MapsAgree
  <2> QED BY <1>2, <2>1, <2>3, <2>4 DEF IndexInv, MapsAgree
<1>7. WholeDocument'
  <2> SUFFICES ASSUME NEW e \in Names, Of(e)' # {}
               PROVE  \E t \in Texts : [c \in Of(e)' |-> entries'[c]] = Chunks(e, t)
    BY DEF WholeDocument
  <2>1. e # d
    BY <1>3
  <2>2. [c \in Of(e)' |-> entries'[c]] = [c \in Of(e) |-> entries[c]]
    BY <2>1, <1>2, <1>4
  <2> QED BY <2>1, <2>2, <1>4 DEF IndexInv, WholeDocument
<1> QED BY <1>2, <1>3, <1>4, <1>5, <1>6, <1>7 DEF IndexInv

\* And so does emptying the index.
LEMMA Cleared ==
  ASSUME IndexInv, Clear
  PROVE  IndexInv' /\ DOMAIN entries' = {}
<1>1. DOMAIN entries' = {} /\ DOMAIN chunk_to_doc' = {} /\ DOMAIN doc_to_chunks' = {}
  BY DEF Clear, Without
<1>2. disk' = disk
  BY DEF Clear
<1>3. TypeOK'
  BY <1>1, <1>2 DEF IndexInv, TypeOK
<1>4. MapsAgree' /\ WholeDocument'
  BY <1>1 DEF MapsAgree, WholeDocument, Of
<1> QED BY <1>1, <1>3, <1>4 DEF IndexInv

\* Calls that only read, and changes of a file, leave the index alone.
LEMMA Untouched ==
  ASSUME IndexInv, UNCHANGED index, disk' \in [Files -> Contents]
  PROVE  IndexInv' /\ \A d \in Names : Of(d)' = Of(d)
<1>1. /\ entries' = entries /\ chunk_to_doc' = chunk_to_doc
      /\ doc_to_chunks' = doc_to_chunks
  BY DEF index
<1>2. \A d : Of(d)' = Of(d)
  BY <1>1 DEF Of
<1>3. TypeOK'
  BY <1>1 DEF IndexInv, TypeOK
<1>4. MapsAgree'
  BY <1>1, <1>2 DEF IndexInv, MapsAgree
<1>5. WholeDocument'
  BY <1>1, <1>2 DEF IndexInv, WholeDocument
<1> QED BY <1>2, <1>3, <1>4, <1>5 DEF IndexInv

\* What Ingest does once the checks of the file have passed.
LEMMA Ingested ==
  ASSUME IndexInv, NEW d \in Names, Ingest(d)
  PROVE  LET text == disk[FileOf[d]] IN
         /\ text \in Texts
         /\ IndexInv'
         /\ Of(d)' = DOMAIN Chunks(d, text)
         /\ \A c \in Of(d)' : entries'[c] = Chunks(d, text)[c]
         /\ \A e \in Names \ {d} :
              Of(e)' = Of(e) /\ \A c \in Of(e) : entries'[c] = entries[c]
<1> DEFINE text == disk[FileOf[d]]
<1>1. text \in Texts /\ disk' \in [Files -> Contents]
  BY DEF Ingest, Store, Readable, IndexInv, TypeOK
<1>2. Owned(d) = Of(d)
  BY OwnedFacts
<1>3. (Owned(d) \ Owned(d)) \cup DOMAIN Chunks(d, text) = DOMAIN Chunks(d, text)
  OBVIOUS
<1>4. /\ entries' = Updated(Without(entries, Of(d)), Chunks(d, text))
      /\ chunk_to_doc' = Updated(Without(chunk_to_doc, Of(d)),
                                 [c \in DOMAIN Chunks(d, text) |-> d])
      /\ doc_to_chunks' = Updated(Without(doc_to_chunks, {d}),
           [x \in {d : c \in DOMAIN Chunks(d, text)} |-> DOMAIN Chunks(d, text)])
  BY <1>2, <1>3 DEF Ingest, Store
<1> HIDE DEF text
<1>5. /\ IndexInv'
      /\ Of(d)' = DOMAIN Chunks(d, text)
      /\ \A c \in Of(d)' : entries'[c] = Chunks(d, text)[c]
      /\ \A e \in Names \ {d} :
           Of(e)' = Of(e) /\ \A c \in Of(e) : entries'[c] = entries[c]
  BY <1>1, <1>4, Replaced
<1> QED BY <1>1, <1>5 DEF text

-----------------------------------------------------------------------------
(* Invariance *)

LEMMA InitInv ==
  ASSUME Init
  PROVE  IndexInv
  BY DEF Init, IndexInv, TypeOK, MapsAgree, WholeDocument, Of

\* The calls that read, and the changes of files.
Reads ==
  \/ \E f \in Files, content \in Contents : Write(f, content)
  \/ \E d \in Names : IngestUnusable(d) \/ IngestInvalid(d)
  \/ \E q \in Queries, k \in TopK, least \in MinScore :
       Search(q, k, least) \/ SearchInvalid(q, k, least)
  \/ SearchNothing

LEMMA ReadsFacts ==
  ASSUME IndexInv, Reads \/ UNCHANGED vars
  PROVE  UNCHANGED index /\ disk' \in [Files -> Contents]
<1>1. ASSUME NEW f \in Files, NEW content \in Contents, Write(f, content)
      PROVE  UNCHANGED index /\ disk' \in [Files -> Contents]
  BY <1>1 DEF Write, IndexInv, TypeOK
<1>2. ASSUME UNCHANGED <<disk, index>>
      PROVE  UNCHANGED index /\ disk' \in [Files -> Contents]
  BY <1>2 DEF IndexInv, TypeOK
<1>3. CASE UNCHANGED vars
  BY <1>2, <1>3 DEF vars, index
<1>4. CASE Reads
  BY <1>1, <1>2, <1>4 DEF Reads, IngestUnusable, IngestInvalid, Search, SearchInvalid,
                          SearchNothing
<1> QED BY <1>3, <1>4

\* Next by what a call does to the index.
LEMMA NextCases ==
  ASSUME Next
  PROVE  \/ Reads
         \/ Clear
         \/ \E d \in Names : Ingest(d) \/ IngestUnembedded(d) \/ RemoveDocument(d)
  BY DEF Next, Reads

LEMMA NextInv ==
  ASSUME IndexInv, [Next]_vars
  PROVE  IndexInv'
<1>1. CASE Reads \/ UNCHANGED vars
  BY <1>1, ReadsFacts, Untouched
<1>2. CASE Clear
  BY <1>2, Cleared
<1>3. ASSUME NEW d \in Names, Ingest(d) PROVE IndexInv'
  BY <1>3, Ingested
<1>4. ASSUME NEW d \in Names, Drop(d), UNCHANGED disk PROVE IndexInv'
  <2>1. disk' \in [Files -> Contents]
    BY <1>4 DEF IndexInv, TypeOK
  <2> QED BY <1>4, <2>1, Dropped
<1> QED
  BY <1>1, <1>2, <1>3, <1>4, NextCases DEF IngestUnembedded, RemoveDocument

\* The vector store and the two dictionaries agree, and every document is whole,
\* after any sequence of calls, failing ones included.
THEOREM IndexCorrect == Spec => []IndexInv
<1>1. Init => IndexInv
  BY InitInv
<1>2. IndexInv /\ [Next]_vars => IndexInv'
  BY NextInv
<1> QED BY <1>1, <1>2, PTL DEF Spec

THEOREM MapsCorrect == Spec => []MapsAgree
<1>1. IndexInv => MapsAgree
  BY DEF IndexInv
<1> QED BY <1>1, IndexCorrect, PTL

THEOREM WholeCorrect == Spec => []WholeDocument
<1>1. IndexInv => WholeDocument
  BY DEF IndexInv
<1> QED BY <1>1, IndexCorrect, PTL

THEOREM KnowledgeTypes == Spec => []TypeOK
<1>1. IndexInv => TypeOK
  BY DEF IndexInv
<1> QED BY <1>1, IndexCorrect, PTL

-----------------------------------------------------------------------------
(* Overlap *)

\* A chunk starts at or before every position, less than a step away; the rest
\* of it is as long as the overlap and one character more.
LEMMA PassageFound ==
  ASSUME IndexInv
  PROVE  PassageInOneChunk
<1> SUFFICES ASSUME NEW c \in DOMAIN entries,
                    NEW from \in 0..entries[c].text.len-1,
                    NEW to \in from+1..entries[c].text.len,
                    to - from <= Overlap + 1
             PROVE  \E b \in Of(entries[c].doc) :
                      entries[b].start <= from /\ to <= entries[b].end
  BY DEF PassageInOneChunk
<1>1. PICK d \in Names : d = entries[c].doc
  BY DEF IndexInv, TypeOK, Chunk
<1>2. c \in Of(d)
  BY <1>1 DEF Of
<1>3. PICK text \in Texts : [b \in Of(d) |-> entries[b]] = Chunks(d, text)
  BY <1>2 DEF IndexInv, WholeDocument
<1>4. Of(d) = DOMAIN Chunks(d, text) /\ \A b \in Of(d) : entries[b] = Chunks(d, text)[b]
  BY <1>3
<1>5. entries[c].text = text
  <2>1. c \in DOMAIN Chunks(d, text) /\ entries[c] = Chunks(d, text)[c]
    BY <1>2, <1>4
  <2>2. Chunks(d, text)[c].text = text
    BY <2>1 DEF Chunks
  <2> QED BY <2>1, <2>2
<1>6. text.len \in Nat
  BY KnowledgeAssumption DEF KnowledgeAssumption
<1>7. /\ from \in Nat /\ from < text.len /\ to \in Nat /\ to <= text.len
      /\ to <= from + Overlap + 1
  BY <1>5, <1>6, KnowledgeAssumption DEF KnowledgeAssumption
<1>8. PICK k \in Cuts(text) : k * step <= from /\ from < k * step + step
  BY <1>7, CutBefore
<1>9. /\ k * step \in Nat /\ <<d, k>> \in Of(d)
      /\ entries[<<d, k>>] =
           [doc |-> d, text |-> text, start |-> k * step, end |-> End(text, k * step)]
  <2>1. /\ k * step \in Nat /\ <<d, k>> \in DOMAIN Chunks(d, text)
        /\ Chunks(d, text)[<<d, k>>] =
             [doc |-> d, text |-> text, start |-> k * step, end |-> End(text, k * step)]
    BY <1>8, ChunkAt
  <2> QED BY <1>4, <2>1
<1>10. to <= End(text, k * step)
  <2> DEFINE pos == k * step
  <2>1. pos \in Nat /\ from < pos + step
    BY <1>8, <1>9
  <2> HIDE DEF pos
  <2>2. to <= End(text, pos)
    BY <2>1, <1>6, <1>7, StepPositive, KnowledgeAssumption DEF KnowledgeAssumption, End
  <2> QED BY <2>2 DEF pos
<1> QED BY <1>1, <1>8, <1>9, <1>10

\* Every short passage of an indexed text can be found in one chunk.
THEOREM PassageCorrect == Spec => []PassageInOneChunk
<1>1. IndexInv => PassageInOneChunk
  BY PassageFound
<1> QED BY <1>1, IndexCorrect, PTL

-----------------------------------------------------------------------------
(* Reports *)

\* Only an ingestion and a removal answer as such.
LEMMA OtherAnswers ==
  ASSUME Reads \/ Clear \/ \E d \in Names : IngestUnembedded(d)
  PROVE  answer'.call \notin {"ingest", "remove"}
  BY DEF Reads, Clear, IngestUnembedded, Write, IngestUnusable, IngestInvalid, Search,
         SearchInvalid, SearchNothing, NoAnswer, Error

LEMMA ReportStep ==
  ASSUME IndexInv, Next, NEW d \in Names
  PROVE  /\ (answer'.call = "ingest" /\ answer'.doc = d) =>
              /\ answer'.ids = Of(d)'
              /\ \A c \in Of(d)' : entries'[c].text = disk[FileOf[d]]
              /\ answer'.was_new <=> Of(d) = {}
         /\ (answer'.call = "remove" /\ answer'.doc = d) =>
              /\ answer'.count = Cardinality(Of(d))
              /\ Of(d)' = {}
<1>1. CASE Reads \/ Clear \/ \E e \in Names : IngestUnembedded(e)
  BY <1>1, OtherAnswers
<1>2. ASSUME NEW e \in Names, Ingest(e), answer'.doc = d
      PROVE  /\ answer'.call = "ingest"
             /\ answer'.ids = Of(d)'
             /\ \A c \in Of(d)' : entries'[c].text = disk[FileOf[d]]
             /\ answer'.was_new <=> Of(d) = {}
  <2>1. /\ answer'.call = "ingest" /\ answer'.doc = e
        /\ answer'.ids = DOMAIN Chunks(e, disk[FileOf[e]])
        /\ answer'.was_new = (e \notin DOMAIN doc_to_chunks)
    BY <1>2 DEF Ingest, Store
  <2>2. e = d
    BY <1>2, <2>1
  <2> DEFINE text == disk[FileOf[d]]
  <2>3. /\ text \in Texts /\ Of(d)' = DOMAIN Chunks(d, text)
        /\ \A c \in Of(d)' : entries'[c] = Chunks(d, text)[c]
    BY <1>2, <2>2, Ingested
  <2>4. \A c \in DOMAIN Chunks(d, text) : Chunks(d, text)[c].text = text
    BY DEF Chunks
  <2>5. (d \notin DOMAIN doc_to_chunks) <=> Of(d) = {}
    BY DEF IndexInv, MapsAgree, Of
  <2> HIDE DEF text
  <2>6. \A c \in Of(d)' : entries'[c].text = text
    BY <2>3, <2>4
  <2> QED BY <2>1, <2>2, <2>3, <2>5, <2>6 DEF text
<1>3. ASSUME NEW e \in Names, RemoveDocument(e), answer'.doc = d
      PROVE  /\ answer'.call = "remove"
             /\ answer'.count = Cardinality(Of(d))
             /\ Of(d)' = {}
  <2>1. /\ answer'.call = "remove" /\ answer'.doc = e /\ Drop(e)
        /\ answer'.count = Cardinality(Owned(e) \cap DOMAIN entries)
        /\ disk' \in [Files -> Contents]
    BY <1>3 DEF RemoveDocument, IndexInv, TypeOK
  <2>2. e = d
    BY <1>3, <2>1
  <2>3. Owned(d) \cap DOMAIN entries = Of(d)
    BY OwnedFacts DEF Of
  <2>4. Of(d)' = {}
    BY <2>1, <2>2, Dropped
  <2> QED BY <2>1, <2>2, <2>3, <2>4
<1> QED
  <2>1. ASSUME NEW e \in Names, Ingest(e) PROVE answer'.call # "remove"
    BY <2>1 DEF Ingest, Store
  <2>2. ASSUME NEW e \in Names, RemoveDocument(e) PROVE answer'.call # "ingest"
    BY <2>2 DEF RemoveDocument
  <2>3. CASE \E e \in Names : Ingest(e)
    BY <1>2, <2>1, <2>3
  <2>4. CASE \E e \in Names : RemoveDocument(e)
    BY <1>3, <2>2, <2>4
  <2> QED BY <1>1, <2>3, <2>4, NextCases

\* What ingest and remove_document report is what they did.
THEOREM ReportsCorrect == Spec => ReportsTrue
<1>1. IndexInv /\ [Next]_vars =>
        [\A d \in Names :
           /\ (answer'.call = "ingest" /\ answer'.doc = d) =>
                /\ answer'.ids = Of(d)'
                /\ \A c \in Of(d)' : entries'[c].text = disk[FileOf[d]]
                /\ answer'.was_new <=> Of(d) = {}
           /\ (answer'.call = "remove" /\ answer'.doc = d) =>
                /\ answer'.count = Cardinality(Of(d))
                /\ Of(d)' = {}]_vars
  BY ReportStep
<1> QED BY <1>1, IndexCorrect, PTL DEF Spec, ReportsTrue

-----------------------------------------------------------------------------
(* Refinement *)

\* What is shown of a document that was just ingested.
LEMMA ShownText ==
  ASSUME NEW d \in Names, NEW text \in Texts
  PROVE  {Chunks(d, text)[c].text : c \in DOMAIN Chunks(d, text)} = Promise!Passages(text)
<1>1. \A c \in DOMAIN Chunks(d, text) : Chunks(d, text)[c].text = text
  BY DEF Chunks
<1>2. DOMAIN Chunks(d, text) = {<<d, k>> : k \in Cuts(text)}
  BY DEF Chunks, ChunkId
<1>3. DOMAIN Chunks(d, text) # {} <=> text.len > 0
  BY <1>2, FirstCut
<1> QED BY <1>1, <1>3 DEF Promise!Passages

\* The documents a call does not name are shown as before.
LEMMA ShownElsewhere ==
  ASSUME NEW d \in Names,
         \A e \in Names \ {d} :
           Of(e)' = Of(e) /\ \A c \in Of(e) : entries'[c] = entries[c]
  PROVE  Shown' = [Shown EXCEPT ![d] = {entries'[c].text : c \in Of(d)'}]
<1>1. \A e \in Names \ {d} :
        {entries'[c].text : c \in Of(e)'} = {entries[c].text : c \in Of(e)}
  OBVIOUS
<1> QED BY <1>1 DEF Shown

LEMMA InitShown ==
  ASSUME Init
  PROVE  Promise!Init
  BY DEF Init, Promise!Init, Shown, Of

LEMMA NextShown ==
  ASSUME IndexInv, [Next]_vars
  PROVE  [Promise!Next]_<<disk, Shown>>
<1>1. CASE UNCHANGED index
  <2>1. Shown' = Shown
    BY <1>1 DEF index, Shown, Of
  <2>2. disk' = disk \/ disk' # disk
    OBVIOUS
  <2> QED BY <2>1, <2>2 DEF Promise!Next, Promise!Write
<1>2. CASE Clear
  <2>1. Shown' = [d \in Names |-> {}] /\ disk' = disk
    BY <1>2, Cleared DEF Shown, Of, Clear
  <2> QED BY <2>1 DEF Promise!Next, Promise!HideAll
<1>3. ASSUME NEW d \in Names, Ingest(d)
      PROVE  Promise!Show(d)
  <2> DEFINE text == disk[FileOf[d]]
  <2>1. /\ text \in Texts /\ Of(d)' = DOMAIN Chunks(d, text)
        /\ \A c \in Of(d)' : entries'[c] = Chunks(d, text)[c]
        /\ \A e \in Names \ {d} :
             Of(e)' = Of(e) /\ \A c \in Of(e) : entries'[c] = entries[c]
    BY <1>3, Ingested
  <2>2. FileOf[d] \in DOMAIN disk /\ disk' = disk
    BY <1>3 DEF Ingest, Store, Readable, IndexInv, TypeOK
  <2> HIDE DEF text
  <2>3. {entries'[c].text : c \in Of(d)'} = Promise!Passages(text)
    <3>1. {entries'[c].text : c \in Of(d)'}
            = {Chunks(d, text)[c].text : c \in DOMAIN Chunks(d, text)}
      BY <2>1
    <3> QED BY <3>1, <2>1, ShownText
  <2>4. Shown' = [Shown EXCEPT ![d] = Promise!Passages(text)]
    BY <2>1, <2>3, ShownElsewhere
  <2> QED BY <2>1, <2>2, <2>4 DEF Promise!Show, text
<1>4. ASSUME NEW d \in Names, Drop(d), disk' = disk
      PROVE  Promise!Hide(d)
  <2>1. /\ Of(d)' = {}
        /\ \A e \in Names \ {d} :
             Of(e)' = Of(e) /\ \A c \in Of(e) : entries'[c] = entries[c]
    BY <1>4, Dropped DEF IndexInv, TypeOK
  <2>2. Shown' = [Shown EXCEPT ![d] = {}]
    <3>1. {entries'[c].text : c \in Of(d)'} = {}
      BY <2>1
    <3> QED BY <2>1, <3>1, ShownElsewhere
  <2> QED BY <1>4, <2>2 DEF Promise!Hide
<1>5. CASE Reads \/ UNCHANGED vars
  BY <1>1, <1>5, ReadsFacts
<1>6. CASE \E d \in Names : Ingest(d) \/ IngestUnembedded(d) \/ RemoveDocument(d)
  BY <1>3, <1>4, <1>6 DEF IngestUnembedded, RemoveDocument, Promise!Next
<1> QED BY <1>2, <1>5, <1>6, NextCases

\* Every behaviour of the knowledge base is one of the index it promises to be.
THEOREM IndexImplemented == Spec => ImplementsIndex
<1>1. Init => Promise!Init
  BY InitShown
<1>2. IndexInv /\ [Next]_vars => [Promise!Next]_<<disk, Shown>>
  BY NextShown
<1> QED BY <1>1, <1>2, IndexCorrect, PTL DEF Spec, ImplementsIndex, Promise!Spec

-----------------------------------------------------------------------------
(* Sorting.  A list is in order by a key K when the key never falls.         *)

InOrder(r, K) == \A i, j \in 1..Len(r) : i < j => K[r[i]] <= K[r[j]]

\* The place of c among r, and r with c put there.
Fits(r, K, c, at) ==
  /\ \A j \in 1..at - 1 : K[r[j]] <= K[c]
  /\ \A j \in at..Len(r) : K[r[j]] > K[c]

\* A list in order has a place for every chunk.
LEMMA PlaceExists ==
  ASSUME NEW E, NEW K \in [E -> Int], NEW r \in Seq(E), InOrder(r, K), NEW c \in E
  PROVE  \E at \in 1..Len(r) + 1 : Fits(r, K, c, at)
<1> DEFINE T == {i \in 1..Len(r) + 1 : \A j \in i..Len(r) : K[r[j]] > K[c]}
<1>1. Len(r) \in Nat /\ \A j \in 1..Len(r) : K[r[j]] \in Int
  OBVIOUS
<1>2. T \in SUBSET Nat /\ Len(r) + 1 \in T
  BY <1>1
<1>3. PICK at \in T : \A i \in T : at <= i
  <2> HIDE DEF T
  <2> QED BY <1>2, LeastNumber
<1>4. ASSUME NEW j \in 1..at - 1, ~(K[r[j]] <= K[c])
      PROVE  FALSE
  <2>1. at \in 1..Len(r) + 1 /\ j \in 1..Len(r) /\ j < at
    BY <1>1
  <2>2. K[r[j]] > K[c]
    BY <1>1, <1>4, <2>1
  <2>3. ASSUME NEW k \in j..Len(r)
        PROVE  K[r[k]] > K[c]
    <3>1. k \in 1..Len(r) /\ (k = j \/ j < k)
      BY <2>1
    <3>2. K[r[k]] \in Int /\ K[r[j]] \in Int /\ K[r[j]] <= K[r[k]]
      BY <1>1, <2>1, <3>1 DEF InOrder
    <3> QED BY <2>2, <3>2
  <2>4. j \in T
    BY <2>1, <2>3
  <2> QED BY <1>3, <2>1, <2>4
<1> QED BY <1>4 DEF Fits

LEMMA Inserted ==
  ASSUME NEW E, NEW r \in Seq(E), NEW c \in E, NEW at \in 1..Len(r) + 1
  PROVE  /\ InsertAt(r, at, c) \in Seq(E) /\ Len(InsertAt(r, at, c)) = Len(r) + 1
         /\ \A j \in 1..Len(r) + 1 :
              InsertAt(r, at, c)[j] =
                IF j < at THEN r[j] ELSE IF j = at THEN c ELSE r[j - 1]
<1> DEFINE front == SubSeq(r, 1, at - 1)
           back == SubSeq(r, at, Len(r))
           whole == front \o <<c>> \o back
<1>1. Len(r) \in Nat /\ at \in Int /\ 1 <= at /\ at <= Len(r) + 1
  OBVIOUS
<1>2. /\ front \in Seq(E) /\ Len(front) = at - 1
      /\ \A j \in 1..at - 1 : front[j] = r[j]
  <2>1. 1 \in 1..Len(r) + 1 /\ at - 1 \in 0..Len(r)
    BY <1>1
  <2> QED BY <2>1, SubSeqProperties
<1>3. /\ back \in Seq(E) /\ Len(back) = Len(r) - at + 1
      /\ \A j \in 1..Len(r) - at + 1 : back[j] = r[at + j - 1]
  <2>1. at \in 1..Len(r) + 1 /\ Len(r) \in at - 1..Len(r)
    BY <1>1
  <2> QED BY <2>1, SubSeqProperties
<1> HIDE DEF front, back
<1> DEFINE begin == front \o <<c>>
<1>4. /\ begin \in Seq(E) /\ Len(begin) = at
      /\ \A j \in 1..at : begin[j] = IF j < at THEN r[j] ELSE c
  <2>1. <<c>> \in Seq(E) /\ Len(<<c>>) = 1 /\ <<c>>[1] = c
    OBVIOUS
  <2>2. /\ begin \in Seq(E) /\ Len(begin) = Len(front) + 1
        /\ \A j \in 1..Len(front) + 1 :
             begin[j] = IF j <= Len(front) THEN front[j] ELSE <<c>>[j - Len(front)]
    BY <1>2, <2>1, ConcatProperties
  <2> HIDE DEF begin
  <2>3. ASSUME NEW j \in 1..at
        PROVE  begin[j] = IF j < at THEN r[j] ELSE c
    <3>1. CASE j < at
      BY <1>1, <1>2, <2>2, <3>1
    <3>2. CASE j = at
      <4>1. j \in 1..Len(front) + 1 /\ ~(j <= Len(front)) /\ j - Len(front) = 1
        BY <1>1, <1>2, <3>2
      <4> QED BY <2>1, <2>2, <3>2, <4>1
    <3> QED BY <1>1, <3>1, <3>2
  <2> QED BY <1>1, <1>2, <2>2, <2>3
<1> HIDE DEF begin
<1>5. /\ whole \in Seq(E) /\ Len(whole) = Len(r) + 1
      /\ \A j \in 1..Len(r) + 1 : whole[j] = IF j <= at THEN begin[j] ELSE back[j - at]
  <2>1. whole = begin \o back
    BY DEF begin
  <2>2. /\ whole \in Seq(E) /\ Len(whole) = Len(begin) + Len(back)
        /\ \A j \in 1..Len(begin) + Len(back) :
             whole[j] = IF j <= Len(begin) THEN begin[j] ELSE back[j - Len(begin)]
    <3> HIDE DEF whole
    <3> QED BY <1>3, <1>4, <2>1, ConcatProperties
  <2>3. Len(begin) + Len(back) = Len(r) + 1
    BY <1>1, <1>3, <1>4
  <2> HIDE DEF whole
  <2> QED BY <1>4, <2>2, <2>3
<1> HIDE DEF whole
<1>6. ASSUME NEW j \in 1..Len(r) + 1
      PROVE  whole[j] = IF j < at THEN r[j] ELSE IF j = at THEN c ELSE r[j - 1]
  <2>1. CASE j <= at
    <3>1. j \in 1..at
      BY <1>1, <2>1
    <3> QED BY <1>1, <1>4, <1>5, <2>1, <3>1
  <2>2. CASE j > at
    <3>1. whole[j] = back[j - at]
      BY <1>1, <1>5, <2>2
    <3>2. j - at \in 1..Len(r) - at + 1 /\ at + (j - at) - 1 = j - 1
      BY <1>1, <2>2
    <3>3. back[j - at] = r[j - 1]
      BY <1>3, <3>2
    <3> QED BY <1>1, <2>2, <3>1, <3>3
  <2> QED BY <1>1, <2>1, <2>2
<1>7. InsertAt(r, at, c) = whole
  BY DEF InsertAt, whole, front, back
<1> QED BY <1>5, <1>6, <1>7

\* A list is the ranking of a set: each of the set once, in order.
Ranks(r, s, K) ==
  /\ r \in Seq(s) /\ InOrder(r, K) /\ Len(r) = Cardinality(s)
  /\ \A c \in s : \E i \in 1..Len(r) : r[i] = c
  /\ \A i, j \in 1..Len(r) : i # j => r[i] # r[j]

LEMMA InsertedInOrder ==
  ASSUME NEW E, NEW K \in [E -> Int], NEW r \in Seq(E), InOrder(r, K), NEW c \in E,
         NEW at \in 1..Len(r) + 1, Fits(r, K, c, at)
  PROVE  InOrder(InsertAt(r, at, c), K)
<1> DEFINE w == InsertAt(r, at, c)
<1>1. /\ Len(w) = Len(r) + 1 /\ Len(r) \in Nat
      /\ \A j \in 1..Len(r) + 1 : w[j] = IF j < at THEN r[j] ELSE IF j = at THEN c ELSE r[j - 1]
  BY Inserted
<1> HIDE DEF w
<1>2. K[c] \in Int /\ \A j \in 1..Len(r) : K[r[j]] \in Int
  OBVIOUS
<1>3. ASSUME NEW i \in 1..Len(r) + 1, NEW j \in 1..Len(r) + 1, i < j
      PROVE  K[w[i]] <= K[w[j]]
  <2>1. CASE j < at
    <3>1. w[i] = r[i] /\ w[j] = r[j] /\ i \in 1..Len(r) /\ j \in 1..Len(r)
      BY <1>1, <1>3, <2>1
    <3> QED BY <1>3, <3>1 DEF InOrder
  <2>2. CASE j = at
    <3>1. w[i] = r[i] /\ w[j] = c /\ i \in 1..at - 1
      BY <1>1, <1>3, <2>2
    <3> QED BY <3>1 DEF Fits
  <2>3. CASE j > at /\ i < at
    <3>1. w[i] = r[i] /\ w[j] = r[j - 1] /\ i \in 1..Len(r) /\ j - 1 \in 1..Len(r)
      BY <1>1, <1>3, <2>3
    <3>2. i = j - 1 \/ i < j - 1
      BY <1>3
    <3> QED BY <1>2, <3>1, <3>2 DEF InOrder
  <2>4. CASE j > at /\ i = at
    <3>1. w[i] = c /\ w[j] = r[j - 1] /\ j - 1 \in at..Len(r) /\ j - 1 \in 1..Len(r)
      BY <1>1, <1>3, <2>4
    <3>2. K[r[j - 1]] > K[c]
      BY <3>1 DEF Fits
    <3> QED BY <1>2, <3>1, <3>2
  <2>5. CASE i > at
    <3>1. w[i] = r[i - 1] /\ w[j] = r[j - 1] /\ i - 1 \in 1..Len(r) /\ j - 1 \in 1..Len(r)
          /\ i - 1 < j - 1
      BY <1>1, <1>3, <2>5
    <3> QED BY <3>1 DEF InOrder
  <2> QED BY <1>3, <2>1, <2>2, <2>3, <2>4, <2>5
<1> QED BY <1>1, <1>3 DEF InOrder, w


LEMMA InsertedRanks ==
  ASSUME NEW E, IsFiniteSet(E), NEW K \in [E -> Int],
         NEW s \in SUBSET E, NEW c \in s, NEW r, Ranks(r, s \ {c}, K),
         NEW at \in 1..Len(r) + 1, Fits(r, K, c, at)
  PROVE  Ranks(InsertAt(r, at, c), s, K)
<1> DEFINE w == InsertAt(r, at, c)
<1>1. r \in Seq(s) /\ r \in Seq(E) /\ \A i \in 1..Len(r) : r[i] \in s /\ r[i] # c
  <2>1. r \in Seq(s \ {c})
    BY DEF Ranks
  <2>2. \A i \in 1..Len(r) : r[i] \in s \ {c}
    BY <2>1
  <2> QED BY <2>1, <2>2
<1>2. /\ w \in Seq(s) /\ Len(w) = Len(r) + 1 /\ Len(r) \in Nat
      /\ \A j \in 1..Len(r) + 1 : w[j] = IF j < at THEN r[j] ELSE IF j = at THEN c ELSE r[j - 1]
  BY <1>1, Inserted
<1>3. InOrder(w, K)
  BY <1>1, InsertedInOrder DEF Ranks
<1>4. Len(r) + 1 = Cardinality(s)
  <2>1. IsFiniteSet(s \ {c}) /\ IsFiniteSet(s)
    BY FS_Subset, FS_RemoveElement
  <2>2. Cardinality(s \ {c}) = Cardinality(s) - 1 /\ Cardinality(s) \in Nat
    BY <2>1, FS_RemoveElement, FS_CardinalityType
  <2> QED BY <2>2 DEF Ranks
<1> HIDE DEF w
<1>5. ASSUME NEW b \in s
      PROVE  \E i \in 1..Len(w) : w[i] = b
  <2>1. CASE b = c
    <3>1. at \in 1..Len(w) /\ w[at] = c
      BY <1>2
    <3> QED BY <2>1, <3>1
  <2>2. CASE b # c
    <3>1. PICK i \in 1..Len(r) : r[i] = b
      BY <2>2 DEF Ranks
    <3>2. CASE i < at
      <4>1. i \in 1..Len(w) /\ w[i] = b
        BY <1>2, <3>1, <3>2
      <4> QED BY <4>1
    <3>3. CASE ~(i < at)
      <4>1. i + 1 \in 1..Len(w) /\ w[i + 1] = r[(i + 1) - 1]
        BY <1>2, <3>3
      <4>2. (i + 1) - 1 = i
        OBVIOUS
      <4> QED BY <3>1, <4>1, <4>2
    <3> QED BY <3>2, <3>3
  <2> QED BY <2>1, <2>2
<1>6. ASSUME NEW i \in 1..Len(w), NEW j \in 1..Len(w), i < j
      PROVE  w[i] # w[j]
  <2>1. \A k, l \in 1..Len(r) : k # l => r[k] # r[l]
    BY DEF Ranks
  <2>2. CASE j < at
    <3>1. w[i] = r[i] /\ w[j] = r[j] /\ i \in 1..Len(r) /\ j \in 1..Len(r)
      BY <1>2, <1>6, <2>2
    <3> QED BY <1>6, <2>1, <3>1
  <2>3. CASE j = at
    <3>1. w[i] = r[i] /\ w[j] = c /\ i \in 1..Len(r)
      BY <1>2, <1>6, <2>3
    <3> QED BY <1>1, <3>1
  <2>4. CASE j > at /\ i < at
    <3>1. w[i] = r[i] /\ w[j] = r[j - 1] /\ i \in 1..Len(r) /\ j - 1 \in 1..Len(r)
      BY <1>2, <1>6, <2>4
    <3>2. i # j - 1
      BY <2>4, <1>2
    <3> QED BY <2>1, <3>1, <3>2
  <2>5. CASE j > at /\ i = at
    <3>1. w[i] = c /\ w[j] = r[j - 1] /\ j - 1 \in 1..Len(r)
      BY <1>2, <1>6, <2>5
    <3> QED BY <1>1, <3>1
  <2>6. CASE i > at
    <3>1. w[i] = r[i - 1] /\ w[j] = r[j - 1] /\ i - 1 \in 1..Len(r) /\ j - 1 \in 1..Len(r)
          /\ i - 1 # j - 1
      BY <1>2, <1>6, <2>6
    <3> QED BY <2>1, <3>1
  <2> QED BY <1>2, <1>6, <2>2, <2>3, <2>4, <2>5, <2>6
<1>7. \A i, j \in 1..Len(w) : i # j => w[i] # w[j]
  <2>1. \A i, j \in 1..Len(w) : i # j => i < j \/ j < i
    BY <1>2
  <2> QED BY <1>6, <2>1
<1>8. Len(w) = Cardinality(s)
  BY <1>2, <1>4
<1> QED BY <1>2, <1>3, <1>5, <1>7, <1>8 DEF Ranks, w

-----------------------------------------------------------------------------
(* The ranking of the chunks is a fold over a finite set of them.            *)

KeyOf(q) == [c \in DOMAIN entries |-> -Score(q, entries[c])]

Place(q, c, r) ==
  InsertAt(r, CHOOSE i \in 1..Len(r) + 1 :
                /\ \A j \in 1..i - 1 : -Score(q, entries[r[j]]) <= -Score(q, entries[c])
                /\ \A j \in i..Len(r) : -Score(q, entries[r[j]]) > -Score(q, entries[c]), c)

Lists(q) ==
  CHOOSE lists :
    lists = [s \in SUBSET DOMAIN entries |->
               IF s = {} THEN <<>>
               ELSE Place(q, CHOOSE c \in s : TRUE, lists[s \ {CHOOSE c \in s : TRUE}])]

LEMMA RankingByLists ==
  ASSUME NEW q
  PROVE  Ranking(q) = Lists(q)[DOMAIN entries]
BY DEF Ranking, Sorted, FoldSet, MapThenFoldSet, Lists, Place

\* Every chunk has a score.
LEMMA ScoreNumber ==
  ASSUME TypeOK, NEW q \in Queries, NEW c \in DOMAIN entries
  PROVE  Score(q, entries[c]) \in Int
<1> DEFINE chunk == entries[c]
<1>1. /\ chunk \in Chunk /\ chunk.start < chunk.end /\ chunk.end <= chunk.text.len
      /\ chunk.text.len \in Nat
  BY KnowledgeAssumption DEF TypeOK, Chunk, KnowledgeAssumption
<1>2. /\ chunk.doc \in Names /\ chunk.text \in Texts
      /\ chunk.start \in 0..chunk.text.len /\ chunk.end \in 0..chunk.text.len
      /\ chunk = [doc |-> chunk.doc, text |-> chunk.text,
                  start |-> chunk.start, end |-> chunk.end]
  BY <1>1 DEF Chunk
<1> HIDE DEF chunk
<1>3. Score(q, [doc |-> chunk.doc, text |-> chunk.text,
                start |-> chunk.start, end |-> chunk.end]) \in Int
  BY <1>2, ScoreAssumption DEF ScoreAssumption
<1> QED BY <1>2, <1>3 DEF chunk

LEMMA Scored ==
  ASSUME TypeOK, NEW q \in Queries
  PROVE  KeyOf(q) \in [DOMAIN entries -> Int]
  BY ScoreNumber DEF KeyOf

LEMMA PlaceFits ==
  ASSUME TypeOK, NEW q \in Queries, NEW c \in DOMAIN entries,
         NEW r \in Seq(DOMAIN entries), InOrder(r, KeyOf(q))
  PROVE  \E at \in 1..Len(r) + 1 :
           Fits(r, KeyOf(q), c, at) /\ Place(q, c, r) = InsertAt(r, at, c)
<1> DEFINE May(i) ==
             /\ \A j \in 1..i - 1 : -Score(q, entries[r[j]]) <= -Score(q, entries[c])
             /\ \A j \in i..Len(r) : -Score(q, entries[r[j]]) > -Score(q, entries[c])
<1>1. KeyOf(q) \in [DOMAIN entries -> Int] /\ Len(r) \in Nat
  BY Scored
<1>2. ASSUME NEW at \in 1..Len(r) + 1
      PROVE  Fits(r, KeyOf(q), c, at) <=> May(at)
  <2>1. /\ KeyOf(q)[c] = -Score(q, entries[c])
        /\ \A j \in 1..Len(r) : KeyOf(q)[r[j]] = -Score(q, entries[r[j]])
    BY DEF KeyOf
  <2>2. /\ \A j \in 1..at - 1 : j \in 1..Len(r)
        /\ \A j \in at..Len(r) : j \in 1..Len(r)
    BY <1>1
  <2> QED BY <2>1, <2>2 DEF Fits
<1>3. \E at \in 1..Len(r) + 1 : May(at)
  BY <1>1, <1>2, PlaceExists
<1> DEFINE at == CHOOSE i \in 1..Len(r) + 1 : May(i)
<1>4. at \in 1..Len(r) + 1 /\ May(at)
  <2> HIDE DEF May
  <2> QED BY <1>3
<1>5. Place(q, c, r) = InsertAt(r, at, c)
  BY DEF Place
<1> HIDE DEF at, May
<1> QED BY <1>2, <1>4, <1>5


LEMMA ListsDefined ==
  ASSUME TypeOK, IsFiniteSet(DOMAIN entries), NEW q \in Queries
  PROVE  \A s \in SUBSET DOMAIN entries :
           Lists(q)[s] = IF s = {} THEN <<>>
                         ELSE Place(q, CHOOSE c \in s : TRUE, Lists(q)[s \ {CHOOSE c \in s : TRUE}])
<1> DEFINE S == DOMAIN entries
           R == {r \in Seq(S) : InOrder(r, KeyOf(q))}
           F == [x \in S \X R |-> Place(q, x[1], x[2])]
           pick == [s \in SUBSET S |-> CHOOSE c \in s : TRUE]
           Solves(lists) ==
             lists = [s \in SUBSET S |->
                        IF s = {} THEN <<>>
                        ELSE Place(q, CHOOSE c \in s : TRUE, lists[s \ {CHOOSE c \in s : TRUE}])]
<1>1. <<>> \in R
  BY DEF InOrder
<1>2. ASSUME NEW c \in S, NEW r \in R
      PROVE  Place(q, c, r) \in R
  <2>1. r \in Seq(S) /\ InOrder(r, KeyOf(q)) /\ KeyOf(q) \in [S -> Int]
    BY Scored
  <2>2. PICK at \in 1..Len(r) + 1 :
          Fits(r, KeyOf(q), c, at) /\ Place(q, c, r) = InsertAt(r, at, c)
    BY <2>1, PlaceFits
  <2>3. InsertAt(r, at, c) \in Seq(S) /\ InOrder(InsertAt(r, at, c), KeyOf(q))
    BY <2>1, <2>2, Inserted, InsertedInOrder
  <2> QED BY <2>2, <2>3
<1>3. F \in [S \X R -> R]
  <2>1. ASSUME NEW x \in S \X R
        PROVE  Place(q, x[1], x[2]) \in R
    <3>1. x[1] \in S /\ x[2] \in R
      OBVIOUS
    <3> HIDE DEF S, R
    <3> QED BY <3>1, <1>2
  <2> HIDE DEF S, R
  <2> QED BY <2>1
<1>4. \A s \in SUBSET S : s # {} => pick[s] \in s
  OBVIOUS
<1>5. PICK g \in [SUBSET S -> R] : FoldEquation(S, <<>>, F, pick, g)
  <2> HIDE DEF R, F, pick
  <2> QED BY <1>1, <1>3, <1>4, FoldExists
<1>6. ASSUME NEW s \in SUBSET S, s # {}
      PROVE  F[<<pick[s], g[s \ {pick[s]}]>>] =
               Place(q, CHOOSE c \in s : TRUE, g[s \ {CHOOSE c \in s : TRUE}])
  <2>1. pick[s] = CHOOSE c \in s : TRUE
    OBVIOUS
  <2>2. pick[s] \in S /\ g[s \ {pick[s]}] \in R
    <3>1. pick[s] \in s /\ s \ {pick[s]} \in SUBSET S
      BY <1>4, <1>6
    <3> HIDE DEF S, R, pick
    <3> QED BY <3>1
  <2>3. F[<<pick[s], g[s \ {pick[s]}]>>] = Place(q, pick[s], g[s \ {pick[s]}])
    <3> HIDE DEF S, R, pick
    <3>1. <<pick[s], g[s \ {pick[s]}]>> \in S \X R
      BY <2>2
    <3> QED BY <3>1
  <2> QED BY <2>1, <2>3
<1>7. Solves(g)
  <2>1. \A s \in SUBSET S :
          g[s] = IF s = {} THEN <<>>
                 ELSE Place(q, CHOOSE c \in s : TRUE, g[s \ {CHOOSE c \in s : TRUE}])
    <3> HIDE DEF S, R, F, pick
    <3> QED BY <1>5, <1>6 DEF FoldEquation
  <2> HIDE DEF S, R
  <2> QED BY <2>1
<1>8. Solves(Lists(q))
  <2> HIDE DEF Solves
  <2>1. Lists(q) = CHOOSE lists : Solves(lists)
    BY DEF Lists, Solves
  <2> QED BY <1>7, <2>1
<1> QED BY <1>8

LEMMA ListsRank ==
  ASSUME TypeOK, IsFiniteSet(DOMAIN entries), NEW q \in Queries
  PROVE  \A s \in SUBSET DOMAIN entries : Ranks(Lists(q)[s], s, KeyOf(q))
<1> DEFINE E == DOMAIN entries
           Right(s) == Ranks(Lists(q)[s], s, KeyOf(q))
           wrong == {s \in SUBSET E : ~Right(s)}
<1>1. SUFFICES ASSUME wrong # {}
               PROVE  FALSE
  OBVIOUS
<1>2. PICK s \in wrong : \A t \in wrong : t \subseteq s => t = s
  <2>1. wrong \in SUBSET SUBSET E
    OBVIOUS
  <2> HIDE DEF wrong
  <2> QED BY <1>1, <2>1, MinimalSet
<1>3. s \in SUBSET E /\ ~Right(s)
  OBVIOUS
<1>4. CASE s = {}
  <2>1. Lists(q)[s] = <<>>
    BY <1>3, <1>4, ListsDefined
  <2>2. Ranks(<<>>, {}, KeyOf(q))
    BY FS_EmptySet DEF Ranks, InOrder
  <2> QED BY <1>3, <1>4, <2>1, <2>2
<1>5. CASE s # {}
  <2> DEFINE c == CHOOSE x \in s : TRUE
             r == Lists(q)[s \ {c}]
  <2>1. c \in s
    BY <1>5
  <2>2. Ranks(r, s \ {c}, KeyOf(q))
    <3>1. s \ {c} \in SUBSET E /\ s \ {c} \subseteq s /\ s \ {c} # s
      BY <1>3, <2>1
    <3> HIDE DEF c
    <3> QED BY <1>2, <3>1
  <2>3. Lists(q)[s] = Place(q, c, r)
    BY <1>3, <1>5, ListsDefined
  <2> HIDE DEF c, r
  <2>4. c \in E /\ r \in Seq(E) /\ InOrder(r, KeyOf(q)) /\ KeyOf(q) \in [E -> Int]
    <3>1. r \in Seq(s \ {c}) /\ InOrder(r, KeyOf(q))
      BY <2>2 DEF Ranks
    <3>2. r \in Seq(E)
      BY <1>3, <3>1
    <3> QED BY <1>3, <2>1, <3>1, <3>2, Scored
  <2>5. PICK at \in 1..Len(r) + 1 :
          Fits(r, KeyOf(q), c, at) /\ Place(q, c, r) = InsertAt(r, at, c)
    BY <2>4, PlaceFits
  <2>6. Ranks(InsertAt(r, at, c), s, KeyOf(q))
    BY <1>3, <2>1, <2>2, <2>4, <2>5, InsertedRanks
  <2> QED BY <1>3, <2>3, <2>5, <2>6
<1> QED BY <1>4, <1>5

LEMMA RankingRanks ==
  ASSUME TypeOK, IsFiniteSet(DOMAIN entries), NEW q \in Queries
  PROVE  Ranks(Ranking(q), DOMAIN entries, KeyOf(q))
BY RankingByLists, ListsRank


-----------------------------------------------------------------------------
(* The search takes a prefix of the ranking.                                 *)

Value(q, c) == Score(q, entries[c])
Good(q, least) == {c \in DOMAIN entries : Value(q, c) >= least}

\* What BestFirst says of a list that was found.
Best(q, k, least, found) ==
  LET good == Good(q, least)
      n    == Len(found)
  IN /\ ToSet(found) \subseteq good /\ Cardinality(ToSet(found)) = n
     /\ n = IF Cardinality(good) < k THEN Cardinality(good) ELSE k
     /\ \A i, j \in 1..n : i < j => Value(q, found[i]) >= Value(q, found[j])
     /\ \A c \in good \ ToSet(found), b \in ToSet(found) : Value(q, b) >= Value(q, c)

Taken(q, k, least, n) ==
  n <= k /\ \A i \in 1..n : Score(q, entries[Ranking(q)[i]]) >= least

Cut(q, k, least) ==
  CHOOSE n \in 0..Len(Ranking(q)) :
    Taken(q, k, least, n) /\ \A m \in n + 1..Len(Ranking(q)) : ~Taken(q, k, least, m)

LEMMA RankingFacts ==
  ASSUME TypeOK, IsFiniteSet(DOMAIN entries), NEW q \in Queries
  PROVE  /\ Ranking(q) \in Seq(DOMAIN entries) /\ Len(Ranking(q)) \in Nat
         /\ \A c \in DOMAIN entries : Value(q, c) \in Int
         /\ \A i \in 1..Len(Ranking(q)) : Ranking(q)[i] \in DOMAIN entries
         /\ \A c \in DOMAIN entries : \E i \in 1..Len(Ranking(q)) : Ranking(q)[i] = c
         /\ \A i, j \in 1..Len(Ranking(q)) : i # j => Ranking(q)[i] # Ranking(q)[j]
         /\ \A i, j \in 1..Len(Ranking(q)) :
              i < j => Value(q, Ranking(q)[i]) >= Value(q, Ranking(q)[j])
<1> DEFINE E == DOMAIN entries
           r == Ranking(q)
<1>1. Ranks(r, E, KeyOf(q)) /\ KeyOf(q) \in [E -> Int]
  BY RankingRanks, Scored
<1> HIDE DEF r
<1>2. r \in Seq(E) /\ Len(r) \in Nat /\ \A i \in 1..Len(r) : r[i] \in E
  BY <1>1 DEF Ranks
<1>3. ASSUME NEW c \in E
      PROVE  Value(q, c) \in Int /\ KeyOf(q)[c] = -Value(q, c)
  <2>1. KeyOf(q)[c] = -Score(q, entries[c])
    BY DEF KeyOf
  <2>2. Score(q, entries[c]) \in Int
    BY ScoreNumber
  <2> QED BY <2>1, <2>2 DEF Value
<1>4. ASSUME NEW i \in 1..Len(r), NEW j \in 1..Len(r), i < j
      PROVE  Value(q, r[i]) >= Value(q, r[j])
  <2>1. KeyOf(q)[r[i]] <= KeyOf(q)[r[j]]
    BY <1>1, <1>4 DEF Ranks, InOrder
  <2>2. r[i] \in E /\ r[j] \in E
    BY <1>2
  <2> DEFINE a == Value(q, r[i])
             b == Value(q, r[j])
  <2>3. a \in Int /\ b \in Int /\ -a <= -b
    BY <1>3, <2>1, <2>2
  <2> QED BY <2>3
<1> QED BY <1>1, <1>2, <1>3, <1>4 DEF Ranks, r

LEMMA CutFacts ==
  ASSUME TypeOK, IsFiniteSet(DOMAIN entries), NEW q \in Queries,
         NEW k \in Int, k >= 1, NEW least \in Int
  PROVE  LET n == Cut(q, k, least) IN
         /\ n \in 0..Len(Ranking(q)) /\ Taken(q, k, least, n)
         /\ \A m \in n + 1..Len(Ranking(q)) : ~Taken(q, k, least, m)
<1> DEFINE r == Ranking(q)
           T == {n \in 0..Len(r) : Taken(q, k, least, n)}
<1>1. Len(r) \in Nat
  BY RankingFacts
<1>2. 0 \in T
  <2>1. Taken(q, k, least, 0)
    BY DEF Taken
  <2> QED BY <1>1, <2>1
<1>3. PICK n \in T : \A m \in T : m <= n
  <2>1. T \in SUBSET (0..Len(r))
    OBVIOUS
  <2> HIDE DEF T, r
  <2> QED BY <1>1, <1>2, <2>1, LargestNumber
<1>4. n \in 0..Len(r) /\ Taken(q, k, least, n)
  OBVIOUS
<1>5. ASSUME NEW m \in n + 1..Len(r), Taken(q, k, least, m)
      PROVE  FALSE
  <2>1. m \in 0..Len(r) /\ ~(m <= n)
    BY <1>1, <1>4
  <2> QED BY <1>3, <1>5, <2>1
<1> HIDE DEF T, r
<1>6. \E l \in 0..Len(r) :
        Taken(q, k, least, l) /\ \A m \in l + 1..Len(r) : ~Taken(q, k, least, m)
  BY <1>4, <1>5
<1> QED BY <1>6 DEF Cut, r

LEMMA RetrievedBest ==
  ASSUME TypeOK, IsFiniteSet(DOMAIN entries), NEW q \in Queries,
         NEW k \in Int, k >= 1, NEW least \in Int
  PROVE  Best(q, k, least, Retrieved(q, k, least))
<1> DEFINE E == DOMAIN entries
           r == Ranking(q)
           n == Cut(q, k, least)
           found == SubSeq(r, 1, n)
           good == Good(q, least)
<1>1. Retrieved(q, k, least) = found
  BY DEF Retrieved, Cut, Taken
<1>2. /\ n \in 0..Len(r) /\ Taken(q, k, least, n)
      /\ \A m \in n + 1..Len(r) : ~Taken(q, k, least, m)
  BY CutFacts
<1>3. /\ r \in Seq(E) /\ Len(r) \in Nat
      /\ \A c \in E : Value(q, c) \in Int
      /\ \A i \in 1..Len(r) : r[i] \in E
      /\ \A c \in E : \E i \in 1..Len(r) : r[i] = c
      /\ \A i, j \in 1..Len(r) : i # j => r[i] # r[j]
      /\ \A i, j \in 1..Len(r) : i < j => Value(q, r[i]) >= Value(q, r[j])
  BY RankingFacts
<1> HIDE DEF r, n
<1>4. Len(found) = n /\ \A i \in 1..n : found[i] = r[i]
  <2>1. 1 \in 1..Len(r) + 1 /\ n \in 1 - 1..Len(r)
    BY <1>2, <1>3
  <2>2. /\ Len(found) = n
        /\ \A i \in 1..n : found[i] = r[1 + i - 1]
    <3>1. IF 1 <= n THEN n - 1 + 1 = n ELSE n = 0
      BY <1>2, <1>3
    <3>2. n \in Int /\ n - 1 + 1 = n
      BY <1>2, <1>3
    <3> QED BY <1>3, <2>1, <3>1, <3>2, SubSeqProperties
  <2>3. \A i \in 1..n : 1 + i - 1 = i
    BY <1>2, <1>3
  <2> QED BY <2>2, <2>3
<1>5. ToSet(found) = {r[i] : i \in 1..n}
  <2>1. DOMAIN found = 1..n
    <3>1. found \in Seq(E)
      BY <1>2, <1>3, SubSeqProperties
    <3> QED BY <3>1, <1>4
  <2> QED BY <1>4, <2>1 DEF ToSet
<1> DEFINE top == {r[i] : i \in 1..n}
<1>6. \A i \in 1..n : i \in 1..Len(r) /\ r[i] \in good
  <2>1. \A i \in 1..n : i \in 1..Len(r)
    BY <1>2, <1>3
  <2>2. \A i \in 1..n : Value(q, r[i]) >= least
    BY <1>2 DEF Taken, Value, r
  <2> QED BY <1>3, <2>1, <2>2 DEF Good
<1>7. Cardinality(top) = n /\ IsFiniteSet(top)
  <2> DEFINE f == [i \in 1..n |-> r[i]]
  <2>1. f \in Bijection(1..n, top)
    BY <1>3, <1>6 DEF Bijection, Injection, Surjection, IsInjective
  <2>2. IsFiniteSet(1..n) /\ Cardinality(1..n) = n
    BY <1>2, FS_Interval
  <2>3. ExistsBijection(1..n, top)
    BY <2>1 DEF ExistsBijection
  <2> HIDE DEF top
  <2> QED BY <2>2, <2>3, FS_Bijection
<1>8. IsFiniteSet(good) /\ Cardinality(good) \in Nat
  <2>1. good \in SUBSET E
    BY DEF Good
  <2> QED BY <2>1, FS_Subset, FS_CardinalityType
<1>9. ASSUME NEW j \in 1..Len(r), j > n, n < k
      PROVE  r[j] \notin good
  <2>1. /\ n + 1 \in 1..Len(r) /\ n + 1 \in n + 1..Len(r) /\ n + 1 <= k
        /\ n + 1 = j \/ n + 1 < j
    <3>1. n \in Nat /\ j \in Nat /\ Len(r) \in Nat /\ n < j /\ j <= Len(r)
      BY <1>2, <1>3, <1>9
    <3>2. n + 1 \in 1..Len(r) /\ n + 1 \in n + 1..Len(r) /\ (n + 1 = j \/ n + 1 < j)
      BY <3>1
    <3>3. n + 1 <= k
      BY <1>9, <3>1
    <3> QED BY <3>2, <3>3
  <2>2. ~Taken(q, k, least, n + 1)
    BY <1>2, <2>1
  <2>3. PICK i \in 1..n + 1 : ~(Value(q, r[i]) >= least)
    BY <2>1, <2>2 DEF Taken, Value, r
  <2>4. i = n + 1
    <3>1. i \notin 1..n
      BY <1>6, <2>3 DEF Good
    <3> QED BY <1>2, <3>1
  <2>5. Value(q, r[i]) \in Int /\ Value(q, r[j]) \in Int
    BY <1>3, <2>1, <2>4
  <2>6. Value(q, r[i]) >= Value(q, r[j])
    <3>1. CASE n + 1 = j
      BY <2>4, <2>5, <3>1
    <3>2. CASE n + 1 < j
      BY <1>3, <2>1, <2>4, <3>2
    <3> QED BY <2>1, <3>1, <3>2
  <2>7. ~(Value(q, r[j]) >= least)
    BY <2>3, <2>5, <2>6
  <2> QED BY <2>7 DEF Good
<1>10. ASSUME n < k
       PROVE  good = top
  <2>1. ASSUME NEW c \in good
        PROVE  c \in top
    <3>1. PICK j \in 1..Len(r) : r[j] = c
      BY <1>3 DEF Good
    <3>2. j \in 1..n
      BY <1>2, <1>9, <1>10, <3>1
    <3> QED BY <3>1, <3>2
  <2> QED BY <1>6, <2>1
<1>11. n = IF Cardinality(good) < k THEN Cardinality(good) ELSE k
  <2>1. n <= k /\ n \in Nat
    BY <1>2 DEF Taken
  <2>2. CASE n < k
    BY <1>7, <1>10, <2>1, <2>2
  <2>3. CASE n = k
    <3>1. top \in SUBSET good
      BY <1>6
    <3>2. n <= Cardinality(good)
      BY <1>7, <1>8, <3>1, FS_Subset
    <3> QED BY <1>8, <2>1, <2>3, <3>2
  <2> QED BY <2>1, <2>2, <2>3
<1>12. \A i, j \in 1..n : i < j => Value(q, found[i]) >= Value(q, found[j])
  BY <1>3, <1>4, <1>6
<1>13. ASSUME NEW c \in good \ top, NEW b \in top
       PROVE  Value(q, b) >= Value(q, c)
  <2>1. PICK i \in 1..n : b = r[i]
    OBVIOUS
  <2>2. PICK j \in 1..Len(r) : c = r[j]
    BY <1>3 DEF Good
  <2>3. j \notin 1..n
    BY <1>13, <2>2
  <2>4. i < j /\ i \in 1..Len(r)
    BY <1>2, <1>6, <2>3
  <2> QED BY <1>3, <2>1, <2>2, <2>4
<1> HIDE DEF found, good
<1>14. top \subseteq good
  BY <1>6
<1> HIDE DEF top
<1>15. ToSet(found) = top
  BY <1>5 DEF top
<1> QED BY <1>1, <1>4, <1>7, <1>11, <1>12, <1>13, <1>14, <1>15 DEF Best, good

(* Searches *)

\* The index stays finite: a ranking goes through all of it.
FiniteInv == IndexInv /\ IsFiniteSet(DOMAIN entries)

\* A text has finitely many chunks.
LEMMA FewChunks ==
  ASSUME NEW d \in Names, NEW text \in Texts
  PROVE  IsFiniteSet(DOMAIN Chunks(d, text))
<1> DEFINE ids == {ChunkId(d, k) : k \in Cuts(text)}
           f == [k \in Cuts(text) |-> ChunkId(d, k)]
<1>1. text.len \in Nat
  BY KnowledgeAssumption DEF KnowledgeAssumption
<1>2. IsFiniteSet(Cuts(text))
  <2>1. Cuts(text) \in SUBSET (0..text.len)
    BY DEF Cuts
  <2>2. IsFiniteSet(0..text.len)
    BY <1>1, FS_Interval
  <2> QED BY <2>1, <2>2, FS_Subset
<1>3. f \in Surjection(Cuts(text), ids)
  BY DEF Surjection
<1>4. DOMAIN Chunks(d, text) = ids
  BY DEF Chunks
<1> HIDE DEF ids, f
<1> QED BY <1>2, <1>3, <1>4, FS_Surjection

LEMMA FiniteNext ==
  ASSUME FiniteInv, [Next]_vars
  PROVE  FiniteInv'
<1>1. IndexInv'
  BY NextInv DEF FiniteInv
<1> SUFFICES IsFiniteSet(DOMAIN entries')
  BY <1>1 DEF FiniteInv
<1>2. ASSUME DOMAIN entries' \subseteq DOMAIN entries
      PROVE  IsFiniteSet(DOMAIN entries')
  BY <1>2, FS_Subset DEF FiniteInv
<1>3. CASE Reads \/ UNCHANGED vars
  <2>1. UNCHANGED index
    BY <1>3, ReadsFacts DEF FiniteInv
  <2> QED BY <2>1, <1>2 DEF index
<1>4. CASE Clear
  <2>1. DOMAIN entries' = {}
    BY <1>4, Cleared DEF FiniteInv
  <2> QED BY <2>1, <1>2
<1>5. ASSUME NEW d \in Names, Ingest(d)
      PROVE  IsFiniteSet(DOMAIN entries')
  <2> DEFINE text == disk[FileOf[d]]
             kept == DOMAIN entries \ Owned(d)
  <2>1. text \in Texts
    BY <1>5, Ingested DEF FiniteInv
  <2>2. DOMAIN entries' = kept \cup DOMAIN Chunks(d, text)
    BY <1>5 DEF Ingest, Store, Updated, Without
  <2>3. IsFiniteSet(kept)
    BY FS_Subset DEF FiniteInv
  <2>4. IsFiniteSet(DOMAIN Chunks(d, text))
    BY <2>1, FewChunks
  <2> HIDE DEF text, kept
  <2> QED BY <2>2, <2>3, <2>4, FS_Union
<1>6. ASSUME NEW d \in Names, Drop(d)
      PROVE  IsFiniteSet(DOMAIN entries')
  <2>1. DOMAIN entries' \subseteq DOMAIN entries
    BY <1>6 DEF Drop, Without
  <2> QED BY <2>1, <1>2
<1> QED
  BY <1>3, <1>4, <1>5, <1>6, NextCases DEF IngestUnembedded, RemoveDocument

LEMMA SearchStep ==
  ASSUME FiniteInv, NEW q \in Queries, NEW k \in TopK, NEW least \in MinScore,
         Search(q, k, least)
  PROVE  BestFirst'
<1>1. k \in Int /\ k >= 1 /\ least \in Int
  BY KnowledgeAssumption DEF KnowledgeAssumption, Search
<1>2. Best(q, k, least, Retrieved(q, k, least))
  BY <1>1, RetrievedBest DEF FiniteInv, IndexInv
<1>3. /\ answer'.query = q /\ answer'.top_k = k /\ answer'.min_score = least
      /\ answer'.found = Retrieved(q, k, least) /\ entries' = entries
  BY DEF Search, index
<1> HIDE DEF Search
<1> QED BY <1>2, <1>3 DEF BestFirst, Best, Good, Value

LEMMA BestNext ==
  ASSUME FiniteInv, BestFirst, [Next]_vars
  PROVE  BestFirst'
<1>1. CASE UNCHANGED vars
  BY <1>1 DEF vars, BestFirst
<1>2. ASSUME NEW q \in Queries, NEW k \in TopK, NEW least \in MinScore, Search(q, k, least)
      PROVE  BestFirst'
  BY <1>2, SearchStep
<1>3. ASSUME answer'.call # "search" \/ answer'.query = NoQuery
      PROVE  BestFirst'
  BY <1>3 DEF BestFirst
<1>4. ASSUME NEW f \in Files, NEW content \in Contents, Write(f, content)
      PROVE  BestFirst'
  BY <1>3, <1>4 DEF Write, NoAnswer
<1>5. ASSUME NEW d \in Names,
             \/ Ingest(d) \/ IngestUnembedded(d)
             \/ IngestUnusable(d) \/ IngestInvalid(d) \/ RemoveDocument(d)
      PROVE  BestFirst'
  <2>1. answer'.call \in {"ingest", "error", "remove"}
    BY <1>5 DEF Ingest, Store, IngestUnembedded, IngestUnusable, IngestInvalid,
                RemoveDocument, Error
  <2> QED BY <2>1, <1>3
<1>6. CASE Clear
  BY <1>3, <1>6 DEF Clear
<1>7. ASSUME NEW q \in Queries, NEW k \in TopK, NEW least \in MinScore,
             SearchInvalid(q, k, least)
      PROVE  BestFirst'
  BY <1>3, <1>7 DEF SearchInvalid, Error
<1>8. CASE SearchNothing
  BY <1>3, <1>8 DEF SearchNothing
<1> QED BY <1>1, <1>2, <1>4, <1>5, <1>6, <1>7, <1>8 DEF Next

\* A search finds the best chunks there are (BestFirst), whatever the score,
\* the number asked for and the least score, and however the sort breaks ties.
THEOREM BestCorrect == Spec => []BestFirst
<1>1. Init => FiniteInv /\ BestFirst
  <2> SUFFICES ASSUME Init PROVE FiniteInv /\ BestFirst
    OBVIOUS
  <2>1. DOMAIN entries = {}
    BY DEF Init
  <2>2. IsFiniteSet(DOMAIN entries)
    BY <2>1, FS_EmptySet
  <2>3. BestFirst
    BY DEF Init, NoAnswer, BestFirst
  <2> QED BY <2>2, <2>3, InitInv DEF FiniteInv
<1>2. FiniteInv /\ BestFirst /\ [Next]_vars => FiniteInv' /\ BestFirst'
  BY FiniteNext, BestNext
<1> QED BY <1>1, <1>2, PTL DEF Spec

=============================================================================
