--------------------------- MODULE MCMarkerLines ---------------------------
(* Small files for MarkerLines: every sequence of at most MaxParts parts. *)
EXTENDS MarkerLines

CONSTANTS MaxParts, n1

Visible(s) == <<Fence("ipmt", 3), Src(s), Fence("none", 3)>>
Wrapped(s) == <<DOpen, Blank>> \o Visible(s) \o <<DClose>>
MarkerOf(id, src, pos) == FormatLines(Comment(id, src, pos, {}))
Marked(s, id) == Visible(s) \o MarkerOf(id, <<Src(s)>>, "")
Led(s, id) == MarkerOf(id, <<Src(s)>>, "before") \o Visible(s)
Nested == <<Fence("md", 4), Fence("ipmt", 3), Src(9), Fence("none", 3)>>
            \o MarkerOf(9, NoHash, "") \o <<Inline(TRUE), Text, Fence("none", 4)>>

MCParts ==
  {<<Text>>, <<Inline(TRUE)>>, <<Blank>>, <<Blank, Blank, Blank>>, Visible(2), <<Incl(n1)>>, Wrapped(3),
   FormatLines(Comment(2, NoHash, "", {"since"})), MarkerOf(4, <<Src(2)>>, "before"), Nested,
   <<Fence("ipmt embed=false", 3), Fence("none", 3)>>, <<Fence("ipmt", 3), Src(4)>>}
MCInitDocs == {FlattenSeq(ps) : ps \in UNION {[1 .. n -> MCParts] : n \in 0 .. MaxParts}}
MCPastes == {Visible(5), Marked(5, 6), Led(5, 8)}
=============================================================================
