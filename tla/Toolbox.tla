------------------------------ MODULE Toolbox ------------------------------
(***************************************************************************)
(* The workspace and the programs that write to it: the file and document  *)
(* tools the agent calls, and the endpoints that upload, list and download *)
(* files.  The policy is asked before each of them, and fixed at start-up. *)
(*                                                                         *)
(* Tools run on one event loop and await nothing, so one write is under way *)
(* at a time; an upload awaits the body of each of its files, and anything *)
(* may happen meanwhile.  A crash may strike within a write.               *)
(*                                                                         *)
(* A text is the sequence of the widths of its characters, which is what   *)
(* sizes and cuts depend on.  Symbolic links, the root itself as a target, *)
(* temporary files that a crash leaves and MIME types are left out.        *)
(***************************************************************************)
EXTENDS PolicyEngine, Integers, Sequences, SequencesExt

CONSTANTS
  Paths,         \* canonical paths below the root: sequences of names
  Suffix,        \* what the extension of each says
  Spellings,     \* paths as callers write them
  BadNames,      \* names with characters no file name may have
  MaxDepth,      \* _MAX_PATH_DEPTH
  Contents,      \* contents that are written or uploaded
  Documents,     \* what python-docx makes of a title and its elements
  MaxText,       \* _MAX_READ_BYTES = _MAX_WRITE_BYTES
  MaxUpload,     \* MAX_FILE_BYTES of the upload endpoint
  MaxDocument,   \* _MAX_OUTPUT_BYTES
  Sniff,         \* _BINARY_SNIFF_BYTES
  AllowCreate,   \* Workspace.allow_create_dirs
  Overlays,      \* configurations a user may have written
  Clients,       \* requests that upload
  Batches        \* the lists of files they send

\* The root, and the answer of resolve to a path it refuses.
Root    == <<>>
Refused == <<"..">>

\* Characters: their width in UTF-8, NUL, and a byte that is none.
Nul == 0
Bad == 5
Width(ch) == IF ch \in 1..4 THEN ch ELSE 1
Text(data) == \A i \in DOMAIN data : data[i] \in 1..4
Utf8(data) == \A i \in DOMAIN data : data[i] # Bad
Size(data) == FoldLeft(LAMBDA sum, ch : sum + Width(ch), 0, data)

\* The position at which the k-th character starts.
Offset(data, k) == Size(SubSeq(data, 1, k - 1))

\* Reading n bytes ends within a character.
CutAt(data, n) ==
  n < Size(data) /\ \A k \in DOMAIN data : Offset(data, k) # n

\* Workspace.resolve: neither absolute, empty, too deep, going up nor with a
\* name that no file may have; single dots are dropped.
resolve(s) ==
  IF \/ s.absolute \/ s.segments = <<>> \/ Len(s.segments) > MaxDepth
     \/ \E i \in DOMAIN s.segments : s.segments[i] \in BadNames \cup {".."}
  THEN Refused
  ELSE SelectSeq(s.segments, LAMBDA seg : seg # ".")

Parent(p)   == SubSeq(p, 1, Len(p) - 1)
Above(p, q) == Len(q) < Len(p) /\ q = SubSeq(p, 1, Len(q))

ASSUME ToolboxAssumption ==
  /\ \A p \in Paths : p # Root /\ (Parent(p) = Root \/ Parent(p) \in Paths)
  /\ Suffix \in [Paths -> {"text", "image", "docx", "other"}]
  /\ \A s \in Spellings : resolve(s) \in Paths \cup {Refused}
  /\ Refused \notin Paths
  /\ {MaxText, MaxUpload, MaxDocument, Sniff} \subseteq Nat
  /\ \A b \in Batches : b \in Seq([name : Spellings, data : Contents])

VARIABLES
  policy,   \* the user's configuration
  up,       \* whether the application runs
  disk,     \* what is at each path
  op,       \* the write under way
  uploads,  \* what each client's request still has to do
  answer    \* the last answer given

vars == <<policy, up, disk, op, uploads, answer>>

Absent     == [kind |-> "absent",  data |-> <<>>]
Directory  == [kind |-> "dir",     data |-> <<>>]
Partial    == [kind |-> "partial", data |-> <<>>]
File(data) == [kind |-> "file",    data |-> data]

Agent == "agent"
NoOp  == [tool |-> "none", path |-> Root, data |-> <<>>, step |-> "none", by |-> Agent]
Idle  == [batch |-> <<>>, done |-> 0, stage |-> "idle"]

\* A configuration that does not validate stops the start-up.
Init ==
  /\ policy \in Overlays
  /\ up = Valid(policy)
  /\ disk = [p \in Paths |-> Absent]
  /\ op = NoOp
  /\ uploads = [c \in Clients |-> Idle]
  /\ answer = [tool |-> "none", outcome |-> "none"]

Exists(p) == p \in {Root} \cup {q \in Paths : disk[q].kind # "absent"}
IsDir(p)  == p \in {Root} \cup {q \in Paths : disk[q].kind = "dir"}
Free      == up /\ op = NoOp
-----------------------------------------------------------------------------
(* Answers *)

Say(tool, outcome) == answer' = [tool |-> tool, outcome |-> outcome]

Left(c) == Len(uploads[c].batch) - uploads[c].done

\* Variant: the name is noted before the file is written.
EndNotedEarly(tool, by, outcome) ==
  /\ op' = NoOp
  /\ IF by = Agent
     THEN Say(tool, outcome) /\ UNCHANGED uploads
     ELSE /\ uploads' = [uploads EXCEPT ![by].done = @ + 1,
                           ![by].stage = IF outcome = "ok" THEN "next" ELSE "failed"]
          /\ IF outcome = "ok" THEN UNCHANGED answer ELSE Say(tool, outcome)

\* A tool has returned: to the agent, or to an upload, which goes on to its
\* next file or ends with the first error.
End(tool, by, outcome) ==
  /\ op' = NoOp
  /\ IF by = Agent
     THEN Say(tool, outcome) /\ UNCHANGED uploads
     ELSE IF outcome = "ok"
     THEN /\ uploads' = [uploads EXCEPT ![by].done = @ + 1, ![by].stage = "next"]
          /\ UNCHANGED answer
     ELSE /\ uploads' = [uploads EXCEPT ![by].stage = "failed"]
          /\ Say(tool, outcome)

Fail(tool, by) == End(tool, by, "error") /\ UNCHANGED disk

\* The agent's _policy_blocked: a tool that is not allowed is not called.
Block(tool) ==
  /\ Free /\ ~Allowed(policy, tool)
  /\ Say(tool, "denied")
  /\ UNCHANGED <<policy, up, disk, op, uploads>>
-----------------------------------------------------------------------------
(* Reading *)

\* _looks_like_binary, of the first bytes: a NUL, or no UTF-8.
LooksBinary(data) ==
  \/ \E k \in DOMAIN data : Offset(data, k) < Sniff /\ data[k] \in {Nul, Bad}
  \/ CutAt(data, Sniff)

\* Variant: what can be read is smaller than what can be written.
CanReadLess(p) ==
  /\ Suffix[p] = "text" /\ disk[p].kind = "file"
  /\ Size(disk[p].data) < MaxText
  /\ ~LooksBinary(disk[p].data) /\ Utf8(disk[p].data)

\* read_file: a text extension, a file, not too large, text at its start and
\* text as a whole.
CanRead(p) ==
  /\ Suffix[p] = "text" /\ disk[p].kind = "file"
  /\ ~(Size(disk[p].data) > MaxText)
  /\ ~LooksBinary(disk[p].data) /\ Utf8(disk[p].data)

ReadFile(s) ==
  /\ Free /\ Allowed(policy, "read_file")
  /\ IF resolve(s) # Refused /\ CanRead(resolve(s))
     THEN Say("read_file", "ok") ELSE Say("read_file", "error")
  /\ UNCHANGED <<policy, up, disk, op, uploads>>

\* What list_files takes for the directory: no argument means the root.
Directed(s) == IF ~s.absolute /\ s.segments = <<>> THEN Root ELSE resolve(s)

ListFiles(s) ==
  /\ Free /\ Allowed(policy, "list_files")
  /\ IF Directed(s) # Refused /\ IsDir(Directed(s))
     THEN Say("list_files", "ok") ELSE Say("list_files", "error")
  /\ UNCHANGED <<policy, up, disk, op, uploads>>

\* What the endpoint lists: the entries of the root, files as downloadable.
Listed       == {p \in Paths : Parent(p) = Root /\ Exists(p)}
Downloadable == {p \in Listed : ~IsDir(p)}

\* download_file: found in the list, an image as it is, anything else as text.
Download(p) ==
  IF p \notin Listed THEN "missing"
  ELSE IF Suffix[p] = "image" THEN IF IsDir(p) THEN "error" ELSE "ok"
  ELSE IF CanRead(p) THEN "ok" ELSE "error"

DownloadFile(p) ==
  /\ Free
  /\ IF ~Allowed(policy, "list_files") THEN Say("list_files", "denied")
     ELSE IF p \in Listed /\ ~Allowed(policy, "read_file") THEN Say("read_file", "denied")
     ELSE Say("read_file", Download(p))
  /\ UNCHANGED <<policy, up, disk, op, uploads>>
-----------------------------------------------------------------------------
(* Writing *)

Begin(tool, p, data, step, by) ==
  op' = [tool |-> tool, path |-> p, data |-> data, step |-> step, by |-> by]

\* mkdir(parents=True) has got as far as depth n.
Made(p, n) ==
  [q \in Paths |-> IF Above(p, q) /\ Len(q) <= n /\ ~Exists(q) THEN Directory ELSE disk[q]]

\* _create_parents, when the parent is not there: it fails where something
\* above is no directory, or half-way.
CreateParents(tool, p, data, step, by) ==
  \/ /\ \A q \in Paths : Above(p, q) /\ Exists(q) => IsDir(q)
     /\ disk' = Made(p, Len(p) - 1)
     /\ Begin(tool, p, data, step, by)
     /\ UNCHANGED <<uploads, answer>>
  \/ /\ \E n \in 0..(Len(p) - 2) : disk' = Made(p, n)
     /\ End(tool, by, "error")

\* Both writing tools from the resolved path on.
Open(tool, p, data, step, create, by) ==
  IF Exists(Parent(p))
  THEN Begin(tool, p, data, step, by) /\ UNCHANGED <<disk, uploads, answer>>
  ELSE IF AllowCreate /\ create THEN CreateParents(tool, p, data, step, by)
  ELSE Fail(tool, by)

\* write_file: the size is checked before the path.
WriteFile(s, data, create, by) ==
  IF Size(data) > MaxText \/ resolve(s) = Refused
  THEN Fail("write_file", by)
  ELSE Open("write_file", resolve(s), data, "temp", create, by)

AgentWrites(s, data, create) ==
  /\ Free /\ Allowed(policy, "write_file")
  /\ Utf8(data)
  /\ WriteFile(s, data, create, Agent)
  /\ UNCHANGED <<policy, up>>

\* create_document: an argument is missing, or the elements are not as they
\* should be; nothing has been touched yet.
RefuseDocument ==
  /\ Free /\ Allowed(policy, "create_document")
  /\ Fail("create_document", Agent)
  /\ UNCHANGED <<policy, up>>

\* Path, extension and directories come before the document is built.
CreateDocument(s) ==
  /\ Free /\ Allowed(policy, "create_document")
  /\ resolve(s) # Refused /\ Suffix[resolve(s)] = "docx"
  /\ Open("create_document", resolve(s), <<>>, "build", TRUE, Agent)
  /\ UNCHANGED <<policy, up>>

\* _build_docx: it may raise, or make too much.
BuildDocument ==
  /\ up /\ op.step = "build"
  /\ \/ Fail(op.tool, op.by)
     \/ \E doc \in Documents :
          IF Size(doc) > MaxDocument \/ IsDir(op.path)
          THEN Fail(op.tool, op.by)
          ELSE /\ op' = [op EXCEPT !.step = "temp", !.data = doc]
               /\ UNCHANGED <<disk, uploads, answer>>
  /\ UNCHANGED <<policy, up>>

\* Variant: the file is opened and filled where it is.
TempInPlace ==
  /\ up /\ op.step = "temp"
  /\ IF IsDir(Parent(op.path)) /\ ~IsDir(op.path)
     THEN /\ op' = [op EXCEPT !.step = "rename"]
          /\ disk' = [disk EXCEPT ![op.path] = Partial]
          /\ UNCHANGED <<uploads, answer>>
     ELSE Fail(op.tool, op.by)
  /\ UNCHANGED <<policy, up>>

\* _atomic_write, up to fsync: nothing is seen at the path itself.
WriteTemp ==
  /\ up /\ op.step = "temp"
  /\ \/ IsDir(Parent(op.path)) /\ op' = [op EXCEPT !.step = "rename"]
        /\ UNCHANGED <<disk, uploads, answer>>
     \/ Fail(op.tool, op.by)
  /\ UNCHANGED <<policy, up>>

\* os.replace: all at once, and never over a directory.
Rename ==
  /\ up /\ op.step = "rename"
  /\ \/ /\ ~IsDir(op.path)
        /\ disk' = [disk EXCEPT ![op.path] = File(op.data)]
        /\ End(op.tool, op.by, "ok")
     \/ Fail(op.tool, op.by)
  /\ UNCHANGED <<policy, up>>

\* write_bytes on an image: opened, and thereby emptied, where it is, or not.
OpenImage ==
  /\ up /\ op.step = "image"
  /\ \/ /\ IsDir(Parent(op.path)) /\ ~IsDir(op.path)
        /\ op' = [op EXCEPT !.step = "fill"]
        /\ disk' = [disk EXCEPT ![op.path] = Partial]
        /\ UNCHANGED <<uploads, answer>>
     \/ Fail(op.tool, op.by)
  /\ UNCHANGED <<policy, up>>

FillImage ==
  /\ up /\ op.step = "fill"
  /\ \/ /\ disk' = [disk EXCEPT ![op.path] = File(op.data)]
        /\ End(op.tool, op.by, "ok")
     \/ Fail(op.tool, op.by)
  /\ UNCHANGED <<policy, up>>
-----------------------------------------------------------------------------
(* Uploads *)

Upload(c, batch) ==
  /\ Free /\ uploads[c].stage \in {"idle", "failed"}
  /\ uploads' = [uploads EXCEPT ![c] = [batch |-> batch, done |-> 0, stage |-> "next"]]
  /\ UNCHANGED <<policy, up, disk, op, answer>>

Current(c) == uploads[c].batch[uploads[c].done + 1]

\* The path is looked at before the body is awaited.
CheckName(c) ==
  /\ Free /\ uploads[c].stage = "next" /\ Left(c) > 0
  /\ IF resolve(Current(c).name) = Refused
     THEN Fail("write_file", c)
     ELSE /\ uploads' = [uploads EXCEPT ![c].stage = "read"]
          /\ UNCHANGED <<disk, op, answer>>
  /\ UNCHANGED <<policy, up>>

\* The body has been read: size, policy, and then an image as it is and
\* anything else as a text.
BodyRead(c) ==
  LET file == Current(c)
      p    == resolve(file.name)
  IN /\ Free /\ uploads[c].stage = "read"
     /\ IF Size(file.data) > MaxUpload THEN Fail("write_file", c)
        ELSE IF ~Allowed(policy, "write_file")
        THEN End("write_file", c, "denied") /\ UNCHANGED disk
        ELSE IF Suffix[p] = "image"
        THEN Begin("write_file", p, file.data, "image", c) /\ UNCHANGED <<disk, uploads, answer>>
        ELSE IF ~Utf8(file.data) THEN Fail("write_file", c)
        ELSE WriteFile(file.name, file.data, TRUE, c)
     /\ UNCHANGED <<policy, up>>

UploadDone(c) ==
  /\ Free /\ uploads[c].stage = "next" /\ Left(c) = 0
  /\ uploads' = [uploads EXCEPT ![c].stage = "idle"]
  /\ Say("write_file", "ok")
  /\ UNCHANGED <<policy, up, disk, op>>

\* The process dies with its requests; the disk stays as it is.
Crash ==
  /\ up /\ up' = FALSE
  /\ op' = NoOp
  /\ uploads' = [c \in Clients |-> Idle]
  /\ answer' = [tool |-> "none", outcome |-> "none"]
  /\ UNCHANGED <<policy, disk>>

\* lifespan: init_policy_engine raises for a configuration that is not valid.
Restart ==
  /\ ~up /\ Valid(policy) /\ up' = TRUE
  /\ UNCHANGED <<policy, disk, op, uploads, answer>>
-----------------------------------------------------------------------------
AgentCall ==
  \/ RefuseDocument \/ \E t \in Tools : Block(t)
  \/ \E s \in Spellings :
       \/ ReadFile(s) \/ ListFiles(s) \/ CreateDocument(s)
       \/ \E d \in Contents, create \in BOOLEAN : AgentWrites(s, d, create)
Writing   == BuildDocument \/ WriteTemp \/ Rename \/ OpenImage \/ FillImage
Uploading == \E c \in Clients :
               \/ \E b \in Batches : Upload(c, b)
               \/ CheckName(c) \/ BodyRead(c) \/ UploadDone(c)

Next ==
  \/ AgentCall \/ Writing \/ Uploading \/ Crash \/ Restart
  \/ \E p \in Paths : DownloadFile(p)

Spec == Init /\ [][Next]_vars
-----------------------------------------------------------------------------
(* Properties *)

TypeOK ==
  /\ policy \in Overlays /\ up \in BOOLEAN
  /\ \A p \in Paths :
       \/ disk[p] \in {Absent, Directory, Partial}
       \/ disk[p].kind = "file" /\ disk[p].data \in Contents \cup Documents
  /\ op.path \in Paths \cup {Root} /\ op.by \in Clients \cup {Agent}
  /\ op.step \in {"none", "build", "temp", "rename", "image", "fill"}
  /\ op.data \in Contents \cup Documents \cup {<<>>}
  /\ \A c \in Clients :
       /\ uploads[c].batch \in Batches \cup {<<>>}
       /\ uploads[c].done \in 0..Len(uploads[c].batch)
       /\ uploads[c].stage \in {"idle", "next", "read", "failed"}
  /\ answer.outcome \in {"none", "ok", "error", "denied", "missing"}

\* Whenever the process dies, a file that is no image is at its path as a whole,
\* in its old or its new content; only write_bytes leaves pieces.
WholeFiles ==
  \A p \in Paths : disk[p].kind = "partial" => Suffix[p] = "image"

\* A text that was accepted under a text's name can be downloaded again: whatever
\* is written fits what is read.  (The two exceptions are a NUL and a character
\* that the sniffed bytes end in.)
RoundTrip ==
  \A p \in Downloadable :
    Suffix[p] = "text" /\ Text(disk[p].data) /\ ~CutAt(disk[p].data, Sniff)
      => Download(p) = "ok"

\* Nobody is refused a tool that the defaults allow unless the user's own file
\* names it: mentioning one rule keeps the other rules of its capability.
DefaultsSurvive ==
  answer.outcome = "denied" =>
    LET rule == RuleOf(answer.tool)
    IN rule \in DOMAIN SecureRules /\ SecureRules[rule] = "ALLOW"
         => rule \in DOMAIN policy.rules

\* The files an upload reports are on disk, also those before the one it failed
\* at, and also when others wrote to the same paths meanwhile.
UploadReport ==
  \A c \in Clients : \A i \in 1..uploads[c].done :
    LET p == resolve(uploads[c].batch[i].name)
    IN p # Refused /\ disk[p].kind \in {"file", "partial"}

\* "Downloads (including generated DOCX) go through the backend's own authorized
\* download route." (api.ts)  What create_document has made, and the list offers,
\* can be downloaded.
Generated(p) == disk[p].kind = "file" /\ Suffix[p] = "docx" /\ disk[p].data \in Documents
GeneratedDownload ==
  \A p \in Downloadable : Generated(p) => Download(p) = "ok"
=============================================================================
