----------------------------- MODULE MCToolbox -----------------------------
(* Toolbox on a small workspace: a text and a directory with another one, an *)
(* image and a document; sizes are a few bytes, limits accordingly.          *)
EXTENDS Toolbox

MCUnknown == {"audit_files"}
MCWords == [t \in MCUnknown |-> {"audit", "file"}]

Txt  == <<"a.txt">>
Dir  == <<"d">>
Deep == <<"d", "b.txt">>
Png  == <<"p.png">>
Docx == <<"r.docx">>

MCPaths  == {Txt, Dir, Deep, Png, Docx}
MCSuffix == [p \in MCPaths |-> CASE p = Png -> "image" [] p = Docx -> "docx"
                                 [] OTHER -> "text"]

Rel(segments) == [absolute |-> FALSE, segments |-> segments]
MCSpellings ==
  {Rel(p) : p \in MCPaths} \cup
  {Rel(<<".", "a.txt">>), Rel(<<"..", "a.txt">>), Rel(<<>>), Rel(<<"?">>),
   Rel(<<".", ".", "a.txt">>), [absolute |-> TRUE, segments |-> Txt]}

\* A text whose sniffed bytes end in a character, one cut between two, no text,
\* and a text that only an upload of an image takes.
MCContents  == {<<1, 2>>, <<2, 1>>, <<5>>, <<3, 1>>}
MCDocuments == {<<0>>, <<4, 1>>}

User(rules, default, scalars) == [rules |-> rules, default |-> default, scalars |-> scalars]
MCOverlays ==
  {User(<<>>, Unset, {}),
   User(<<"file_system", "write_file">> :> "REQUIRE_APPROVAL", Unset, {}),
   User(<<>>, Unset, {"vision"})}

Sent(segments, data) == [name |-> Rel(segments), data |-> data]
MCBatches ==
  {<<Sent(Png, <<5>>), Sent(Deep, <<3, 1>>)>>,
   <<Sent(Deep, <<1, 2>>), Sent(<<"..", "a.txt">>, <<1, 2>>)>>,
   <<Sent(Dir, <<1, 2>>)>>}
=============================================================================
