--------------------------- MODULE ToolboxProofs ---------------------------
(* Theorems about Toolbox, for any workspace, contents, limits, batches of  *)
(* uploads and any configuration of the policy.                             *)
EXTENDS Toolbox, TLAPS

Data  == Contents \cup Documents \cup {<<>>}
ToolNames == {"none", "write_file", "create_document"}
Stages == {"idle", "next", "read", "failed"}
Lists == Batches \cup {<<>>}
UploadState == [batch : Lists, done : Nat, stage : Stages]
Steps == {"none", "build", "temp", "rename", "image", "fill"}
Kept(d) == d.kind \in {"file", "partial"}

\* What the disk holds: only images in pieces, and no text larger than can be read.
DiskOK ==
  /\ disk \in [Paths -> [kind : {"absent", "dir", "partial", "file"}, data : Data]]
  /\ WholeFiles
  /\ \A p \in Paths : Suffix[p] = "text" /\ disk[p].kind = "file" => ~(Size(disk[p].data) > MaxText)

\* A write under way has a target, and is of a kind that fits it; an upload's is
\* for the file it has got to.
OpOK ==
  /\ op \in [tool : ToolNames, path : Paths \cup {Root}, data : Data, step : Steps,
             by : Clients \cup {Agent}]
  /\ op.step # "none" => op.path \in Paths
  /\ op.step \in {"image", "fill"} => Suffix[op.path] = "image"
  /\ op.step = "build" => Suffix[op.path] = "docx"
  /\ op.step \in {"temp", "rename"} /\ Suffix[op.path] = "text" => ~(Size(op.data) > MaxText)
  /\ op.step # "none" /\ op.by # Agent =>
       uploads[op.by].stage = "read" /\ resolve(Current(op.by).name) = op.path

\* An upload whose body is awaited has a file left, at a path that was accepted.
UploadsOK ==
  /\ uploads \in [Clients -> UploadState]
  /\ \A c \in Clients : uploads[c].done <= Len(uploads[c].batch)
  /\ \A c \in Clients : uploads[c].stage = "read" =>
       Left(c) > 0 /\ resolve(Current(c).name) # Refused

\* What is denied is not allowed.
DenialsOK == answer.outcome = "denied" => ~Allowed(policy, answer.tool)

ToolboxInv == DiskOK /\ OpOK /\ UploadsOK /\ UploadReport /\ DenialsOK

\* What no step of the disk does: lose a file.
Safe == DiskOK' /\ \A p \in Paths : Kept(disk[p]) => Kept(disk'[p])

-----------------------------------------------------------------------------
(* The pieces all writes are made of *)

LEMMA SafeSame == ASSUME DiskOK, UNCHANGED disk PROVE Safe
  BY DEF Safe, DiskOK, WholeFiles

\* The n-th file of an upload.
LEMMA FileOf ==
  ASSUME UploadsOK, NEW c \in Clients, NEW n \in 1..Len(uploads[c].batch)
  PROVE  LET file == uploads[c].batch[n] IN
         /\ file \in [name : Spellings, data : Contents]
         /\ resolve(file.name) # Refused => resolve(file.name) \in Paths
<1> DEFINE b == uploads[c].batch
           F == [name : Spellings, data : Contents]
<1>1. b \in Batches \/ b = <<>>
  BY DEF UploadsOK, UploadState, Lists
<1>2. b \in Seq(F)
  <2>1. \A x \in Batches : x \in Seq(F)
    BY ToolboxAssumption DEF ToolboxAssumption
  <2>2. <<>> \in Seq(F)
    OBVIOUS
  <2> HIDE DEF b, F
  <2> QED BY <1>1, <2>1, <2>2
<1>3. b[n] \in F
  <2> HIDE DEF F
  <2> QED BY <1>2
<1> QED BY <1>3, ToolboxAssumption DEF ToolboxAssumption

\* The length of a batch is a number, and a file that is left has a place in it.
LEMMA LeftFacts ==
  ASSUME UploadsOK, NEW c \in Clients
  PROVE  /\ Len(uploads[c].batch) \in Nat /\ uploads[c].done \in 0..Len(uploads[c].batch)
         /\ Left(c) > 0 => uploads[c].done + 1 \in 1..Len(uploads[c].batch)
<1>1. uploads[c].done \in Nat /\ (uploads[c].batch \in Batches \/ uploads[c].batch = <<>>)
  BY DEF UploadsOK, UploadState, Lists
<1>2. \A x \in Batches : Len(x) \in Nat
  BY ToolboxAssumption DEF ToolboxAssumption
<1>3. Len(uploads[c].batch) \in Nat
  BY <1>1, <1>2
<1> QED BY <1>1, <1>3 DEF UploadsOK, Left

\* What has been reported stays on disk.
LEMMA ReportedStay ==
  ASSUME UploadsOK, UploadReport, Safe, NEW c \in Clients, NEW i \in 1..uploads[c].done
  PROVE  LET p == resolve(uploads[c].batch[i].name) IN
         p # Refused /\ disk'[p].kind \in {"file", "partial"}
<1>1. i \in 1..Len(uploads[c].batch)
  BY LeftFacts
<1> QED BY <1>1, FileOf DEF UploadReport, Safe, Kept

\* A tool returns: to the agent, or to the upload it works for.
LEMMA Ends ==
  ASSUME ToolboxInv, Safe, NEW tool, NEW by \in Clients \cup {Agent},
         NEW outcome \in {"ok", "error", "denied"}, End(tool, by, outcome),
         UNCHANGED policy, outcome = "denied" => ~Allowed(policy, tool),
         outcome = "ok" /\ by # Agent =>
           /\ uploads[by].stage = "read"
           /\ Kept(disk'[resolve(Current(by).name)])
  PROVE  ToolboxInv'
<1> USE DEF ToolboxInv
<1>1. DiskOK'
  BY DEF Safe
<1>2. OpOK'
  <2>1. op' = [tool |-> "none", path |-> Root, data |-> <<>>, step |-> "none", by |-> Agent]
    BY DEF End, NoOp
  <2>2. op' \in [tool : ToolNames, path : Paths \cup {Root}, data : Data, step : Steps,
                 by : Clients \cup {Agent}]
    <3>1. <<>> \in Data /\ "none" \in Steps /\ "none" \in ToolNames
      BY DEF Data, Steps, ToolNames
    <3> QED BY <2>1, <3>1
  <2> QED BY <2>1, <2>2 DEF OpOK
<1>3. DenialsOK'
  BY DEF End, Say, DenialsOK
<1>4. CASE by = Agent
  <2>1. UNCHANGED uploads
    BY <1>4 DEF End
  <2>2. UploadsOK'
    BY <2>1 DEF UploadsOK, Left, Current
  <2>3. UploadReport'
    BY <2>1, ReportedStay DEF UploadReport
  <2> QED BY <1>1, <1>2, <1>3, <2>2, <2>3
<1>5. CASE by # Agent
  <2> DEFINE u == uploads[by]
  <2>1. by \in Clients /\ u.done \in Nat /\ u.batch \in Lists
    BY <1>5 DEF UploadsOK, UploadState
  <2>2. /\ \A c \in Clients \ {by} : uploads'[c] = uploads[c]
        /\ uploads'[by].batch = u.batch
        /\ uploads'[by].stage \in {"next", "failed"}
        /\ uploads'[by].done = IF outcome = "ok" THEN u.done + 1 ELSE u.done
        /\ uploads' \in [Clients -> UploadState]
    <3>1. CASE outcome = "ok"
      <4>1. uploads' = [uploads EXCEPT ![by].done = @ + 1, ![by].stage = "next"]
        BY <1>5, <3>1 DEF End
      <4>2. uploads'[by] = [[u EXCEPT !.done = @ + 1] EXCEPT !.stage = "next"]
        BY <2>1, <4>1 DEF UploadsOK
      <4>3. u \in UploadState
        BY <2>1 DEF UploadsOK
      <4> HIDE DEF u
      <4>4. uploads'[by] = [batch |-> u.batch, done |-> u.done + 1, stage |-> "next"]
        BY <4>2, <4>3, Zenon DEF UploadState
      <4>5. /\ DOMAIN uploads' = Clients /\ uploads' = [c \in Clients |-> uploads'[c]]
            /\ \A c \in Clients \ {by} : uploads'[c] = uploads[c]
        BY <2>1, <4>1 DEF UploadsOK
      <4>6. \A c \in Clients : uploads[c] \in UploadState
        BY DEF UploadsOK
      <4>7. uploads'[by] \in UploadState
        BY <2>1, <4>4 DEF UploadState, Stages
      <4>8. uploads' \in [Clients -> UploadState]
        BY <2>1, <4>5, <4>6, <4>7
      <4> QED BY <3>1, <4>4, <4>5, <4>8
    <3>2. CASE outcome # "ok"
      <4>1. uploads' = [uploads EXCEPT ![by].stage = "failed"]
        BY <1>5, <3>2 DEF End
      <4> QED BY <2>1, <3>2, <4>1 DEF UploadsOK, UploadState, Stages
    <3> QED BY <3>1, <3>2
  <2>3. outcome = "ok" => /\ u.done + 1 \in 1..Len(u.batch)
                          /\ resolve(u.batch[u.done + 1].name) # Refused
                          /\ Kept(disk'[resolve(u.batch[u.done + 1].name)])
    BY <1>5, <2>1, LeftFacts DEF UploadsOK, Current
  <2>4. UploadsOK'
    <3>1. \A c \in Clients : uploads'[c].done <= Len(uploads'[c].batch)
      BY <2>2, <2>3, LeftFacts
    <3>2. ASSUME NEW c \in Clients, uploads'[c].stage = "read"
          PROVE  Left(c)' > 0 /\ resolve(Current(c)'.name) # Refused
      <4>1. c # by
        BY <2>2, <3>2
      <4>2. uploads'[c] = uploads[c]
        BY <2>2, <4>1
      <4> QED BY <3>2, <4>2 DEF UploadsOK, Left, Current
    <3> QED BY <2>2, <3>1, <3>2 DEF UploadsOK
  <2>5. ASSUME NEW c \in Clients, NEW i \in 1..uploads'[c].done
        PROVE  LET p == resolve(uploads'[c].batch[i].name)
               IN p # Refused /\ disk'[p].kind \in {"file", "partial"}
    <3>1. CASE i \in 1..uploads[c].done
      BY <2>2, <3>1, ReportedStay
    <3>2. CASE i \notin 1..uploads[c].done
      <4>1. c = by /\ i = u.done + 1 /\ outcome = "ok"
        BY <2>1, <2>2, <3>2
      <4> QED BY <2>2, <2>3, <4>1 DEF Kept
    <3> QED BY <3>1, <3>2
  <2>6. UploadReport'
    BY <2>5 DEF UploadReport
  <2> QED BY <1>1, <1>2, <1>3, <2>4, <2>6
<1> QED BY <1>4, <1>5

\* What is assumed of a write that begins.
Fits(p, data, step, by) ==
  /\ step \in {"image", "fill"} => Suffix[p] = "image"
  /\ step = "build" => Suffix[p] = "docx"
  /\ step \in {"temp", "rename"} /\ Suffix[p] = "text" => ~(Size(data) > MaxText)
  /\ by # Agent => uploads[by].stage = "read" /\ resolve(Current(by).name) = p

LEMMA Unmoved ==
  ASSUME UploadsOK, UploadReport, Safe, UNCHANGED uploads
  PROVE  UploadsOK' /\ UploadReport'
<1>1. UploadsOK'
  BY DEF UploadsOK, Left, Current
<1>2. UploadReport'
  BY ReportedStay DEF UploadReport
<1> QED BY <1>1, <1>2

LEMMA Begins ==
  ASSUME ToolboxInv, Safe, NEW tool \in ToolNames, NEW p \in Paths, NEW data \in Data,
         NEW step \in Steps, NEW by \in Clients \cup {Agent}, Fits(p, data, step, by),
         op' = [tool |-> tool, path |-> p, data |-> data, step |-> step, by |-> by],
         UNCHANGED <<policy, uploads, answer>>
  PROVE  ToolboxInv'
<1>1. OpOK'
  <2>1. op' \in [tool : ToolNames, path : Paths \cup {Root}, data : Data, step : Steps,
                 by : Clients \cup {Agent}]
    OBVIOUS
  <2>2. op'.path = p /\ op'.data = data /\ op'.step = step /\ op'.by = by
    OBVIOUS
  <2>3. step # "none" /\ by # Agent =>
          uploads'[by].stage = "read" /\ resolve(Current(by)'.name) = p
    BY DEF Fits, Current
  <2> QED BY <2>1, <2>2, <2>3 DEF OpOK, Fits, Current
<1>2. DenialsOK'
  BY DEF ToolboxInv, DenialsOK
<1> QED BY <1>1, <1>2, Unmoved DEF ToolboxInv, Safe

LEMMA MadeSafe ==
  ASSUME DiskOK, NEW p, NEW n, disk' = Made(p, n)
  PROVE  Safe
<1>1. \A q \in Paths : \/ disk'[q] = disk[q]
                       \/ ~Exists(q) /\ disk'[q] = Directory
  BY DEF Made
<1>2. Directory \in [kind : {"absent", "dir", "partial", "file"}, data : Data]
  BY DEF Directory, Data
<1>3. disk' \in [Paths -> [kind : {"absent", "dir", "partial", "file"}, data : Data]]
  BY <1>1, <1>2 DEF Made, DiskOK
<1>4. \A q \in Paths : Kept(disk[q]) => disk'[q] = disk[q]
  BY <1>1 DEF Kept, Exists
<1>5. \A q \in Paths : Kept(disk'[q]) => disk'[q] = disk[q]
  BY <1>1 DEF Kept, Directory
<1>6. WholeFiles'
  BY <1>5 DEF WholeFiles, DiskOK, Kept
<1>7. DiskOK'
  BY <1>3, <1>5, <1>6 DEF DiskOK, Kept
<1> QED BY <1>4, <1>7 DEF Safe

LEMMA Opens ==
  ASSUME ToolboxInv, NEW tool \in ToolNames, NEW p \in Paths, NEW data \in Data,
         NEW step \in Steps, NEW by \in Clients \cup {Agent}, NEW create,
         Fits(p, data, step, by), Open(tool, p, data, step, create, by), UNCHANGED policy
  PROVE  ToolboxInv'
<1>1. CASE Begin(tool, p, data, step, by) /\ UNCHANGED <<disk, uploads, answer>>
  BY <1>1, SafeSame, Begins DEF Begin, ToolboxInv
<1>2. CASE Fail(tool, by)
  BY <1>2, SafeSame, Ends DEF Fail, ToolboxInv
<1>3. CASE CreateParents(tool, p, data, step, by)
  <2>1. CASE disk' = Made(p, Len(p) - 1) /\ Begin(tool, p, data, step, by)
             /\ UNCHANGED <<uploads, answer>>
    BY <2>1, MadeSafe, Begins DEF Begin, ToolboxInv
  <2>2. CASE (\E n \in 0..(Len(p) - 2) : disk' = Made(p, n)) /\ End(tool, by, "error")
    BY <2>2, MadeSafe, Ends DEF ToolboxInv
  <2> QED BY <1>3, <2>1, <2>2 DEF CreateParents
<1> QED BY <1>1, <1>2, <1>3 DEF Open

LEMMA Writes ==
  ASSUME ToolboxInv, NEW s \in Spellings, NEW data \in Contents, NEW create,
         NEW by \in Clients \cup {Agent}, WriteFile(s, data, create, by), UNCHANGED policy,
         by # Agent => uploads[by].stage = "read" /\ Current(by).name = s
  PROVE  ToolboxInv'
<1>1. CASE Fail("write_file", by)
  BY <1>1, SafeSame, Ends DEF Fail, ToolboxInv
<1>2. CASE /\ ~(Size(data) > MaxText) /\ resolve(s) # Refused
           /\ Open("write_file", resolve(s), data, "temp", create, by)
  <2>1. resolve(s) \in Paths /\ data \in Data /\ "temp" \in Steps /\ "write_file" \in ToolNames
    BY <1>2, ToolboxAssumption DEF ToolboxAssumption, Data, Steps, ToolNames
  <2>2. Fits(resolve(s), data, "temp", by)
    BY <1>2 DEF Fits
  <2> QED BY <1>2, <2>1, <2>2, Opens
<1> QED BY <1>1, <1>2 DEF WriteFile
-----------------------------------------------------------------------------
(* The actions *)

\* A tool has been refused, or has read: nothing but the answer changes.
LEMMA Says ==
  ASSUME ToolboxInv, UNCHANGED <<policy, disk, op, uploads>>,
         DenialsOK'
  PROVE  ToolboxInv'
<1>1. OpOK'
  BY DEF ToolboxInv, OpOK, Current
<1> QED BY <1>1, SafeSame, Unmoved DEF ToolboxInv, Safe

LEMMA AgentCallInv == ASSUME ToolboxInv, AgentCall PROVE ToolboxInv'
<1>1. CASE RefuseDocument
  BY <1>1, SafeSame, Ends DEF RefuseDocument, Fail, ToolboxInv
<1>2. ASSUME NEW t \in Tools, Block(t) PROVE ToolboxInv'
  BY <1>2, Says DEF Block, Say, DenialsOK
<1>3. ASSUME NEW s \in Spellings, ReadFile(s) PROVE ToolboxInv'
  BY <1>3, Says DEF ReadFile, Say, DenialsOK
<1>4. ASSUME NEW s \in Spellings, ListFiles(s) PROVE ToolboxInv'
  BY <1>4, Says DEF ListFiles, Say, DenialsOK
<1>5. ASSUME NEW s \in Spellings, CreateDocument(s) PROVE ToolboxInv'
  <2>1. resolve(s) \in Paths /\ <<>> \in Data /\ "build" \in Steps
        /\ "create_document" \in ToolNames
    BY <1>5, ToolboxAssumption DEF CreateDocument, ToolboxAssumption, Data, Steps, ToolNames
  <2>2. Fits(resolve(s), <<>>, "build", Agent)
    BY <1>5 DEF CreateDocument, Fits
  <2> QED BY <1>5, <2>1, <2>2, Opens DEF CreateDocument
<1>6. ASSUME NEW s \in Spellings, NEW d \in Contents, NEW create \in BOOLEAN,
             AgentWrites(s, d, create)
      PROVE  ToolboxInv'
  BY <1>6, Writes DEF AgentWrites
<1> QED BY <1>1, <1>2, <1>3, <1>4, <1>5, <1>6 DEF AgentCall

\* Whoever writes has a target in the workspace.
LEMMA OpFacts ==
  ASSUME OpOK, op.step # "none"
  PROVE  /\ op.tool \in ToolNames /\ op.path \in Paths /\ op.data \in Data
         /\ op.by \in Clients \cup {Agent}
  BY DEF OpOK

\* A write fails.
LEMMA Fails == ASSUME ToolboxInv, op.step # "none", Fail(op.tool, op.by), UNCHANGED policy
               PROVE  ToolboxInv'
  BY OpFacts, SafeSame, Ends DEF Fail, ToolboxInv

\* A write gets to its next step.
LEMMA Moves ==
  ASSUME ToolboxInv, Safe, NEW step \in Steps, op.step # "none",
         op' = [op EXCEPT !.step = step], UNCHANGED <<policy, uploads, answer>>,
         Fits(op.path, op.data, step, Agent)
  PROVE  ToolboxInv'
<1>1. op' = [tool |-> op.tool, path |-> op.path, data |-> op.data, step |-> step, by |-> op.by]
  BY Zenon DEF ToolboxInv, OpOK
<1>2. Fits(op.path, op.data, step, op.by)
  BY DEF Fits, ToolboxInv, OpOK
<1> QED BY <1>1, <1>2, OpFacts, Begins DEF ToolboxInv

\* The path of a write gets a content that its suffix allows.
LEMMA PutSafe ==
  ASSUME DiskOK, NEW p \in Paths, NEW entry,
         entry \in [kind : {"partial", "file"}, data : Data],
         disk' = [disk EXCEPT ![p] = entry],
         entry.kind = "partial" => Suffix[p] = "image",
         Suffix[p] = "text" => ~(Size(entry.data) > MaxText)
  PROVE  Safe /\ Kept(disk'[p])
<1>1. disk'[p] = entry /\ \A q \in Paths \ {p} : disk'[q] = disk[q]
  BY DEF DiskOK
<1>2. disk' \in [Paths -> [kind : {"absent", "dir", "partial", "file"}, data : Data]]
  BY DEF DiskOK
<1>3. WholeFiles'
  BY <1>1 DEF DiskOK, WholeFiles
<1>4. DiskOK'
  BY <1>1, <1>2, <1>3 DEF DiskOK
<1>5. Kept(disk'[p])
  BY <1>1 DEF Kept
<1> QED BY <1>1, <1>4, <1>5 DEF Safe

\* A write is done: the file is there, and its upload reports it.
LEMMA DoneInv ==
  ASSUME ToolboxInv, op.step \in {"rename", "fill"},
         disk' = [disk EXCEPT ![op.path] = File(op.data)], End(op.tool, op.by, "ok"),
         UNCHANGED policy
  PROVE  ToolboxInv'
<1>1. op.path \in Paths /\ op.data \in Data /\ op.by \in Clients \cup {Agent}
  BY OpFacts DEF ToolboxInv
<1>2. File(op.data) \in [kind : {"partial", "file"}, data : Data]
      /\ File(op.data).kind = "file" /\ File(op.data).data = op.data
  BY <1>1 DEF File
<1>3. Suffix[op.path] = "text" => ~(Size(op.data) > MaxText)
  BY DEF ToolboxInv, OpOK
<1>4. Safe /\ Kept(disk'[op.path])
  BY <1>1, <1>2, <1>3, PutSafe DEF ToolboxInv
<1>5. op.by # Agent =>
        uploads[op.by].stage = "read" /\ resolve(Current(op.by).name) = op.path
  BY DEF ToolboxInv, OpOK
<1> QED BY <1>1, <1>4, <1>5, Ends

\* Nothing is being written, and an upload gets to its next stage.
LEMMA StagedInv ==
  ASSUME ToolboxInv, op = NoOp, NEW c \in Clients, NEW new \in UploadState,
         uploads' = [uploads EXCEPT ![c] = new], UNCHANGED <<policy, disk, op>>,
         UNCHANGED answer \/ answer'.outcome = "ok",
         new.done <= Len(new.batch),
         new.stage = "read" => Left(c)' > 0 /\ resolve(Current(c)'.name) # Refused,
         new.done = 0 \/ (new.done = uploads[c].done /\ new.batch = uploads[c].batch)
  PROVE  ToolboxInv'
<1>1. uploads'[c] = new /\ \A d \in Clients \ {c} : uploads'[d] = uploads[d]
  BY DEF ToolboxInv, UploadsOK
<1>2. Safe
  BY SafeSame DEF ToolboxInv
<1>3. OpOK'
  BY DEF ToolboxInv, OpOK, NoOp
<1>4. UploadsOK'
  <2>1. uploads' \in [Clients -> UploadState]
    BY DEF ToolboxInv, UploadsOK
  <2>2. \A d \in Clients : uploads'[d].done <= Len(uploads'[d].batch)
    BY <1>1 DEF ToolboxInv, UploadsOK
  <2>3. ASSUME NEW d \in Clients, uploads'[d].stage = "read"
        PROVE  Left(d)' > 0 /\ resolve(Current(d)'.name) # Refused
    <3>1. CASE d = c
      BY <1>1, <2>3, <3>1
    <3>2. CASE d # c
      BY <1>1, <2>3, <3>2 DEF ToolboxInv, UploadsOK, Left, Current
    <3> QED BY <3>1, <3>2
  <2> QED BY <2>1, <2>2, <2>3 DEF UploadsOK
<1>5. UploadReport'
  <2>1. ASSUME NEW d \in Clients, NEW i \in 1..uploads'[d].done
        PROVE  LET p == resolve(uploads'[d].batch[i].name)
               IN p # Refused /\ disk'[p].kind \in {"file", "partial"}
    <3>1. uploads'[d].batch = uploads[d].batch /\ uploads'[d].done = uploads[d].done
      BY <1>1, <2>1
    <3> QED BY <1>2, <3>1, ReportedStay DEF ToolboxInv
  <2> QED BY <2>1 DEF UploadReport
<1>6. DenialsOK'
  BY DEF ToolboxInv, DenialsOK
<1> QED BY <1>2, <1>3, <1>4, <1>5, <1>6 DEF ToolboxInv, Safe

LEMMA WritingInv == ASSUME ToolboxInv, Writing PROVE ToolboxInv'
<1>1. CASE BuildDocument
  <2>1. op.step = "build" /\ UNCHANGED policy
    BY <1>1 DEF BuildDocument
  <2>2. CASE Fail(op.tool, op.by)
    BY <2>1, <2>2, Fails
  <2>3. ASSUME NEW doc \in Documents,
               op' = [op EXCEPT !.step = "temp", !.data = doc], UNCHANGED <<disk, uploads, answer>>
        PROVE  ToolboxInv'
    <3>1. op' = [tool |-> op.tool, path |-> op.path, data |-> doc, step |-> "temp", by |-> op.by]
      BY <2>3, Zenon DEF ToolboxInv, OpOK
    <3>2. Fits(op.path, doc, "temp", op.by)
      BY <2>1 DEF Fits, ToolboxInv, OpOK
    <3>3. doc \in Data /\ "temp" \in Steps
      BY DEF Data, Steps
    <3> QED BY <2>1, <2>3, <3>1, <3>2, <3>3, OpFacts, SafeSame, Begins DEF ToolboxInv
  <2> QED BY <1>1, <2>2, <2>3 DEF BuildDocument
<1>2. CASE WriteTemp
  <2>1. op.step = "temp" /\ UNCHANGED policy
    BY <1>2 DEF WriteTemp
  <2>2. CASE Fail(op.tool, op.by)
    BY <2>1, <2>2, Fails
  <2>3. CASE op' = [op EXCEPT !.step = "rename"] /\ UNCHANGED <<disk, uploads, answer>>
    <3>1. Fits(op.path, op.data, "rename", Agent) /\ "rename" \in Steps
      BY <2>1 DEF Fits, ToolboxInv, OpOK, Steps
    <3> QED BY <2>1, <2>3, <3>1, SafeSame, Moves DEF ToolboxInv
  <2> QED BY <1>2, <2>2, <2>3 DEF WriteTemp
<1>3. CASE Rename
  <2>1. op.step = "rename" /\ UNCHANGED policy
    BY <1>3 DEF Rename
  <2>2. CASE Fail(op.tool, op.by)
    BY <2>1, <2>2, Fails
  <2>3. CASE /\ disk' = [disk EXCEPT ![op.path] = File(op.data)]
             /\ End(op.tool, op.by, "ok")
    BY <2>1, <2>3, DoneInv
  <2> QED BY <1>3, <2>2, <2>3 DEF Rename
<1>4. CASE OpenImage
  <2>1. op.step = "image" /\ UNCHANGED policy
    BY <1>4 DEF OpenImage
  <2>2. CASE Fail(op.tool, op.by)
    BY <2>1, <2>2, Fails
  <2>3. CASE /\ op' = [op EXCEPT !.step = "fill"]
             /\ disk' = [disk EXCEPT ![op.path] = Partial] /\ UNCHANGED <<uploads, answer>>
    <3>1. Suffix[op.path] = "image" /\ op.path \in Paths 
      BY <2>1 DEF ToolboxInv, OpOK
    <3>2. Partial \in [kind : {"partial", "file"}, data : Data] /\ Partial.kind = "partial"
      BY DEF Partial, Data
    <3>3. Safe
      BY <2>3, <3>1, <3>2, PutSafe DEF ToolboxInv
    <3>4. Fits(op.path, op.data, "fill", Agent) /\ "fill" \in Steps
      BY <3>1 DEF Fits, Steps
    <3> QED BY <2>1, <2>3, <3>3, <3>4, Moves
  <2> QED BY <1>4, <2>2, <2>3 DEF OpenImage
<1>5. CASE FillImage
  <2>1. op.step = "fill" /\ UNCHANGED policy
    BY <1>5 DEF FillImage
  <2>2. CASE Fail(op.tool, op.by)
    BY <2>1, <2>2, Fails
  <2>3. CASE disk' = [disk EXCEPT ![op.path] = File(op.data)] /\ End(op.tool, op.by, "ok")
    BY <2>1, <2>3, DoneInv
  <2> QED BY <1>5, <2>2, <2>3 DEF FillImage
<1> QED BY <1>1, <1>2, <1>3, <1>4, <1>5 DEF Writing

LEMMA UploadingInv == ASSUME ToolboxInv, NEW c \in Clients,
                             \/ \E b \in Batches : Upload(c, b)
                             \/ CheckName(c) \/ BodyRead(c) \/ UploadDone(c)
                      PROVE  ToolboxInv'
<1>1. ASSUME NEW b \in Batches, Upload(c, b) PROVE ToolboxInv'
  <2> DEFINE new == [batch |-> b, done |-> 0, stage |-> "next"]
  <2>1. uploads' = [uploads EXCEPT ![c] = new] /\ UNCHANGED <<policy, disk, op, answer>>
        /\ op = NoOp
    BY <1>1 DEF Upload, Free
  <2>2. new \in UploadState /\ new.done = 0 /\ new.stage = "next" /\ new.done <= Len(new.batch)
    BY ToolboxAssumption DEF UploadState, Lists, Stages, ToolboxAssumption
  <2> HIDE DEF new
  <2> QED BY <2>1, <2>2, StagedInv
<1>2. CASE CheckName(c)
  <2>1. UNCHANGED policy /\ op = NoOp /\ Left(c) > 0
    BY <1>2 DEF CheckName, Free
  <2>2. CASE Fail("write_file", c)
    BY <2>1, <2>2, SafeSame, Ends DEF Fail, ToolboxInv
  <2>3. CASE /\ resolve(Current(c).name) # Refused
             /\ uploads' = [uploads EXCEPT ![c].stage = "read"]
             /\ UNCHANGED <<disk, op, answer>>
    <3> DEFINE new == [uploads[c] EXCEPT !.stage = "read"]
    <3>1. uploads' = [uploads EXCEPT ![c] = new]
      BY <2>3
    <3>2. new \in UploadState /\ new.batch = uploads[c].batch /\ new.done = uploads[c].done
      BY DEF ToolboxInv, UploadsOK, UploadState, Stages
    <3> HIDE DEF new
    <3>3. uploads'[c] = new
      BY <3>1 DEF ToolboxInv, UploadsOK
    <3>4. Left(c)' > 0 /\ resolve(Current(c)'.name) # Refused
      BY <2>1, <2>3, <3>2, <3>3 DEF Left, Current
    <3>5. new.done <= Len(new.batch)
      BY <3>2 DEF ToolboxInv, UploadsOK
    <3> QED BY <2>1, <2>3, <3>1, <3>2, <3>4, <3>5, StagedInv
  <2> QED BY <1>2, <2>2, <2>3 DEF CheckName
<1>3. CASE BodyRead(c)
  <2> DEFINE file == Current(c)
             p == resolve(file.name)
  <2>1. UNCHANGED policy /\ op = NoOp /\ uploads[c].stage = "read" /\ Left(c) > 0
        /\ p # Refused
    BY <1>3 DEF BodyRead, Free, ToolboxInv, UploadsOK
  <2>2. file \in [name : Spellings, data : Contents] /\ p \in Paths
    BY <2>1, LeftFacts, FileOf DEF ToolboxInv, Current
  <2>3. CASE Fail("write_file", c)
    BY <2>1, <2>3, SafeSame, Ends DEF Fail, ToolboxInv
  <2>4. CASE ~Allowed(policy, "write_file") /\ End("write_file", c, "denied") /\ UNCHANGED disk
    BY <2>1, <2>4, SafeSame, Ends DEF ToolboxInv
  <2>5. CASE /\ Suffix[p] = "image" /\ Begin("write_file", p, file.data, "image", c)
             /\ UNCHANGED <<disk, uploads, answer>>
    <3>1. file.data \in Data /\ "image" \in Steps /\ "write_file" \in ToolNames
      BY <2>2 DEF Data, Steps, ToolNames
    <3>2. Fits(p, file.data, "image", c)
      BY <2>1, <2>5 DEF Fits
    <3> QED BY <2>1, <2>2, <2>5, <3>1, <3>2, SafeSame, Begins DEF Begin, ToolboxInv
  <2>6. CASE WriteFile(file.name, file.data, TRUE, c)
    BY <2>1, <2>2, <2>6, Writes
  <2> QED BY <1>3, <2>3, <2>4, <2>5, <2>6 DEF BodyRead
<1>4. CASE UploadDone(c)
  <2> DEFINE new == [uploads[c] EXCEPT !.stage = "idle"]
  <2>1. /\ uploads' = [uploads EXCEPT ![c] = new] /\ UNCHANGED <<policy, disk, op>> /\ op = NoOp
        /\ answer'.outcome = "ok"
    BY <1>4 DEF UploadDone, Free, Say
  <2>2. /\ new \in UploadState /\ new.batch = uploads[c].batch /\ new.done = uploads[c].done
        /\ new.stage = "idle"
    BY DEF ToolboxInv, UploadsOK, UploadState, Stages
  <2>3. new.done <= Len(new.batch)
    BY <2>2 DEF ToolboxInv, UploadsOK
  <2> HIDE DEF new
  <2> QED BY <2>1, <2>2, <2>3, StagedInv
<1> QED BY <1>1, <1>2, <1>3, <1>4
-----------------------------------------------------------------------------
(* The theorems *)

LEMMA InitInv == Init => ToolboxInv
<1> SUFFICES ASSUME Init PROVE ToolboxInv
  OBVIOUS
<1>1. DiskOK
  BY DEF Init, DiskOK, WholeFiles, Absent, Data
<1>2. OpOK
  <2>1. op = [tool |-> "none", path |-> Root, data |-> <<>>, step |-> "none", by |-> Agent]
    BY DEF Init, NoOp
  <2>2. op \in [tool : ToolNames, path : Paths \cup {Root}, data : Data, step : Steps,
                by : Clients \cup {Agent}]
    <3>1. <<>> \in Data /\ "none" \in Steps /\ "none" \in ToolNames
      BY DEF Data, Steps, ToolNames
    <3> QED BY <2>1, <3>1
  <2> QED BY <2>1, <2>2 DEF OpOK
<1>3. \A c \in Clients : uploads[c] = [batch |-> <<>>, done |-> 0, stage |-> "idle"]
  BY DEF Init, Idle
<1>4. UploadsOK
  <2>1. uploads \in [Clients -> UploadState]
    BY <1>3 DEF Init, UploadState, Lists, Stages
  <2>2. Len(<<>>) = 0
    OBVIOUS
  <2> QED BY <1>3, <2>1, <2>2 DEF UploadsOK
<1>5. UploadReport
  BY <1>3 DEF UploadReport
<1>6. DenialsOK
  BY DEF Init, DenialsOK
<1> QED BY <1>1, <1>2, <1>4, <1>5, <1>6 DEF ToolboxInv

\* The process may die in the middle of any write.
LEMMA CrashInv == ASSUME ToolboxInv, Crash PROVE ToolboxInv'
<1>1. DiskOK'
  BY SafeSame DEF Crash, ToolboxInv, Safe
<1>2. OpOK'
  <2>1. op' = [tool |-> "none", path |-> Root, data |-> <<>>, step |-> "none", by |-> Agent]
    BY DEF Crash, NoOp
  <2>2. op' \in [tool : ToolNames, path : Paths \cup {Root}, data : Data, step : Steps,
                 by : Clients \cup {Agent}]
    <3>1. <<>> \in Data /\ "none" \in Steps /\ "none" \in ToolNames
      BY DEF Data, Steps, ToolNames
    <3> QED BY <2>1, <3>1
  <2> QED BY <2>1, <2>2 DEF OpOK
<1>3. \A c \in Clients : uploads'[c] = [batch |-> <<>>, done |-> 0, stage |-> "idle"]
  BY DEF Crash, Idle
<1>4. UploadsOK'
  <2>1. uploads' \in [Clients -> UploadState]
    BY <1>3 DEF Crash, UploadState, Lists, Stages
  <2>2. Len(<<>>) = 0
    OBVIOUS
  <2> QED BY <1>3, <2>1, <2>2 DEF UploadsOK
<1>5. UploadReport'
  BY <1>3 DEF UploadReport
<1>6. DenialsOK'
  BY DEF Crash, DenialsOK
<1> QED BY <1>1, <1>2, <1>4, <1>5, <1>6 DEF ToolboxInv

\* Every step keeps the invariant.
LEMMA NextInv == ToolboxInv /\ [Next]_vars => ToolboxInv'
<1> SUFFICES ASSUME ToolboxInv, [Next]_vars PROVE ToolboxInv'
  OBVIOUS
<1>1. CASE UNCHANGED <<policy, disk, op, uploads, answer>>
  BY <1>1, Says DEF ToolboxInv, DenialsOK
<1>2. ASSUME NEW p \in Paths, DownloadFile(p) PROVE ToolboxInv'
  <2>1. Download(p) # "denied"
    BY DEF Download
  <2> QED BY <1>2, <2>1, Says DEF DownloadFile, Say, DenialsOK
<1>3. CASE Uploading
  BY <1>3, UploadingInv DEF Uploading
<1> QED BY <1>1, <1>2, <1>3, AgentCallInv, WritingInv, CrashInv DEF Next, Restart, vars

\* What is denied is denied by a rule of the user's, where the defaults allow it.
LEMMA DenialRule == ASSUME DenialsOK PROVE DefaultsSurvive
<1> SUFFICES ASSUME answer.outcome = "denied", RuleOf(answer.tool) \in DOMAIN SecureRules,
                    SecureRules[RuleOf(answer.tool)] = "ALLOW"
             PROVE  RuleOf(answer.tool) \in DOMAIN policy.rules
  BY DEF DefaultsSurvive
<1> DEFINE rule == RuleOf(answer.tool)
<1>1. ~Allowed(policy, answer.tool)
  BY DEF DenialsOK
<1>2. CASE rule \notin DOMAIN policy.rules
  <2>1. /\ DOMAIN Merge(policy) = DOMAIN policy.rules \cup DOMAIN SecureRules
        /\ Merge(policy)[rule] = SecureRules[rule]
    BY <1>2 DEF Merge
  <2>2. Lookup(policy, rule) = "ALLOW"
    BY <2>1 DEF Lookup
  <2> QED BY <1>1, <2>2 DEF Allowed, Evaluate
<1> QED BY <1>2

\* A text at a text's path is neither too large nor takes the sniffed bytes for
\* binary.
LEMMA TextReads == ASSUME DiskOK PROVE RoundTrip
<1> SUFFICES ASSUME NEW p \in Downloadable, Suffix[p] = "text", Text(disk[p].data),
                    ~CutAt(disk[p].data, Sniff)
             PROVE  Download(p) = "ok"
  BY DEF RoundTrip
<1>1. p \in Paths /\ p \in Listed /\ ~IsDir(p) /\ Exists(p)
  BY DEF Downloadable, Listed
<1>2. p # Root
  BY <1>1, ToolboxAssumption DEF ToolboxAssumption
<1>3. disk[p].kind = "file"
  BY <1>1, <1>2 DEF IsDir, Exists, DiskOK, WholeFiles
<1>4. ~LooksBinary(disk[p].data) /\ Utf8(disk[p].data)
  BY DEF LooksBinary, Utf8, Text, Nul, Bad
<1>5. CanRead(p)
  BY <1>1, <1>3, <1>4 DEF CanRead, DiskOK
<1> QED BY <1>1, <1>5 DEF Download

\* The invariant holds throughout.
LEMMA ToolboxAlways == Spec => []ToolboxInv
  BY InitInv, NextInv, PTL DEF Spec

\* A crash in the middle of a write leaves the old or the new content of anything
\* but an image, which is written where it is (_atomic_write).
THEOREM WholeFilesAlways == Spec => []WholeFiles
<1>1. ToolboxInv => WholeFiles
  BY DEF ToolboxInv, DiskOK
<1> QED BY <1>1, ToolboxAlways, PTL

\* What an upload reports is on disk, whoever writes while its bodies are awaited
\* (upload_files).
THEOREM UploadReportAlways == Spec => []UploadReport
<1>1. ToolboxInv => UploadReport
  BY DEF ToolboxInv
<1> QED BY <1>1, ToolboxAlways, PTL

\* What is accepted as a text can be downloaded as one, for any sizes and limits
\* (_write_file, _read_file, download_file).
THEOREM RoundTripAlways == Spec => []RoundTrip
<1>1. ToolboxInv => RoundTrip
  BY TextReads DEF ToolboxInv
<1> QED BY <1>1, ToolboxAlways, PTL

\* A user's file takes away only what it names, for any rules, defaults and names
\* of tools (_merge_config).
THEOREM DefaultsSurviveAlways == Spec => []DefaultsSurvive
<1>1. ToolboxInv => DefaultsSurvive
  BY DenialRule DEF ToolboxInv
<1> QED BY <1>1, ToolboxAlways, PTL
=============================================================================
