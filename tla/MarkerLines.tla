---------------------------- MODULE MarkerLines ----------------------------
(***************************************************************************)
(* One Markdown file as the sequence of its lines: how md-embed finds the  *)
(* marker of a block (pkg/mdembed/scan.go), decides what becomes of it     *)
(* (process.go, AnalyzeMarkdown) and edits the lines (ApplyMarkers), run   *)
(* after run, while the author inserts, pastes and deletes lines.          *)
(*                                                                         *)
(* A line is a record; its field k is its kind.  What a kind leaves out    *)
(* (indentation, wording, attribute syntax) no property tells apart.       *)
(*   text    anything else            blank   white space only             *)
(*   fence   a run of len fence characters and an info string              *)
(*   src     a line of ipmt           incl    <!-- ipm-include src=name -->*)
(*   dopen, dclose   <details>, </details>                                 *)
(*   comment <!-- ipm-svg id= hash= pos= and unknown attributes -->        *)
(*   image   ![](file)                                                     *)
(*   inline  begins with <!--ipmt-->; code: a code span follows the marker *)
(***************************************************************************)
EXTENDS EmbedKeys, FiniteSets, SequencesExt

CONSTANTS
  Names,       \* ids that are no keys: the files an include can name
  MissingSrcs, \* those that cannot be read
  NoHash,      \* the placeholder hash of a marker the author wrote
  InitDocs,    \* the files the system may start from
  Pastes,      \* the line sequences the author may insert
  MaxEdits,    \* bound
  MaxBlanksAroundMarker

ASSUME LinesAssumption ==
  /\ MissingSrcs \subseteq Names
  /\ NoId \notin Names
  /\ MaxBlanksAroundMarker \in Nat

Text == [k |-> "text"]
Blank == [k |-> "blank"]
DOpen == [k |-> "dopen"]
DClose == [k |-> "dclose"]
Src(s) == [k |-> "src", src |-> s]
Fence(info, len) == [k |-> "fence", info |-> info, len |-> len]
Incl(name) == [k |-> "incl", name |-> name]
Inline(code) == [k |-> "inline", code |-> code]

\* A marker is the record its comment line holds; pos "" is the default, "after".
Comment(id, hash, pos, unknown) ==
  [k |-> "comment", id |-> id, hash |-> hash, pos |-> pos, unknown |-> unknown]
Image(id) == [k |-> "image", id |-> id]
FormatLines(m) == <<m, Image(m.id)>>

VARIABLES
  doc,      \* the lines of the file
  crashed,  \* history: a run ended in an index out of range
  edits     \* counter the bound caps

vars == <<doc, crashed, edits>>

-----------------------------------------------------------------------------
(* ScanBlocks. *)

IsBlank(ls, i) == i \in DOMAIN ls /\ ls[i].k = "blank"
Is(ls, i, kind) == i \in DOMAIN ls /\ ls[i].k = kind

\* ClosedBy: a bare fence at least as long as the opening one.
Closes(line, f) == line.k = "fence" /\ line.info = "none" /\ line.len >= f.len

\* The line that closes the fence opened at i, 0 when none does.
CloseOf(ls, i) ==
  LET closers == {j \in i + 1 .. Len(ls) : Closes(ls[j], ls[i])}
  IN  IF closers = {} THEN 0 ELSE CHOOSE j \in closers : \A k \in closers : j <= k

\* ParseMarker on lines i and i+1: one with an id and a hash, and an image below.
MarkerAt(ls, i) == Is(ls, i, "comment") /\ Is(ls, i + 1, "image")

\* detailsWrapBounds: both tags, at most one blank line between each and the fence.
DetailsWrap(ls, open, close) ==
  LET up   == IF IsBlank(ls, open - 1) THEN open - 2 ELSE open - 1
      down == IF IsBlank(ls, close + 1) THEN close + 2 ELSE close + 1
  IN  IF Is(ls, up, "dopen") /\ Is(ls, down, "dclose") THEN <<up, down>> ELSE <<open, close>>

Block(kind, open, anchor, content, flag) ==
  [kind |-> kind, open |-> open, anchor |-> anchor, content |-> content, flag |-> flag]

\* scanVisible: a fence with no closing line (close = 0) is a block that is skipped.
VisibleBlock(ls, i, close) ==
  LET bounds == DetailsWrap(ls, i, close)
  IN  IF close = 0 THEN Block("visible", i, i, <<>>, "unterminated")
      ELSE Block("visible", bounds[1], bounds[2], SubSeq(ls, i + 1, close - 1), ls[i].info)

IpmtInfos == {"ipmt", "ipmt embed=false", "ipmt nonsense"}

(***************************************************************************)
(* The blocks in source order, without their markers.  Any other fence is  *)
(* skipped with everything in it: it is an example, not a block.           *)
(***************************************************************************)
BlocksOf(ls) ==
  LET from[i \in 1 .. Len(ls) + 1] ==
        IF i > Len(ls) THEN <<>>
        ELSE IF ls[i].k = "incl"
             THEN <<Block("include", i, i, <<ls[i]>>, ls[i].name)>> \o from[i + 1]
        ELSE IF ls[i].k # "fence" THEN from[i + 1]
        ELSE LET close == CloseOf(ls, i)
                 b     == VisibleBlock(ls, i, close)
             IN  (IF ls[i].info \in IpmtInfos THEN <<b>> ELSE <<>>) \o
                 (IF close = 0 THEN <<>>
                  ELSE from[(IF ls[i].info \in IpmtInfos /\ b.open < i THEN b.anchor ELSE close) + 1])
  IN  from[1]

\* findMarkerAfter and findMarkerBefore: one optional blank line in between; 0 for none.
FindMarkerAfter(ls, anchor) ==
  LET probe == IF IsBlank(ls, anchor + 1) THEN anchor + 2 ELSE anchor + 1
  IN  IF MarkerAt(ls, probe) THEN probe ELSE 0
FindMarkerBefore(ls, open) ==
  LET image == IF IsBlank(ls, open - 1) THEN open - 2 ELSE open - 1
  IN  IF MarkerAt(ls, image - 1) THEN image - 1 ELSE 0

None == [line |-> 0, pos |-> ""]

\* attachMarker: below the block, else above it, unless an earlier block has claimed it.
Attach(ls, b, consumed) ==
  IF b.flag = "unterminated" THEN None
  ELSE IF FindMarkerAfter(ls, b.anchor) \notin consumed \cup {0}
       THEN [line |-> FindMarkerAfter(ls, b.anchor), pos |-> ""]
  ELSE IF FindMarkerBefore(ls, b.open) \notin consumed \cup {0}
       THEN [line |-> FindMarkerBefore(ls, b.open), pos |-> "before"]
  ELSE None

\* The marker of every block: its line and the side it is on.
MarkersOf(ls, bs) ==
  FoldLeft(LAMBDA ms, b : Append(ms, Attach(ls, b, {m.line : m \in ToSet(ms)})), <<>>, bs)

-----------------------------------------------------------------------------
(* AnalyzeMarkdown. *)

\* The flags of a block that is left alone, and of one with no source to hash.
Live(b) == b.flag \notin {"unterminated", "ipmt embed=false", "ipmt nonsense"} \cup MissingSrcs

\* The id of the first pass.
FirstId(ls, b, m) ==
  IF m.line # 0 THEN ls[m.line].id ELSE IF b.kind = "include" THEN b.flag ELSE NoId

\* The marker the block is to have: rebuilt from the attributes the tool knows.
NewMarker(b, m, id) == Comment(id, b.content, m.pos, {})

\* The outcome after both passes; claimedLine never differs from the lines consumed above.
Outcome(ls, b, m, rekeyed) ==
  IF ~Live(b) THEN "skip"
  ELSE IF m.line = 0 THEN "InsertMarker"
  ELSE IF rekeyed \/ ls[m.line].hash # b.content THEN "Rehash" ELSE "OK"

\* The first pass: which blocks are live, and the ids they have.
FirstPass(ls, bs, ms) ==
  [j \in DOMAIN bs |->
    IF Live(bs[j]) THEN [live |-> TRUE, id |-> FirstId(ls, bs[j], ms[j])]
    ELSE [live |-> FALSE, id |-> NoId]]

Analyze(ls) ==
  LET Results(bs, ms, es) ==
        LET ids == AssignIds(es)
            rekeyed == Rekeyed(es)
        IN  [j \in DOMAIN bs |->
              [outcome    |-> Outcome(ls, bs[j], ms[j], j \in rekeyed),
               open       |-> bs[j].open,
               anchor     |-> bs[j].anchor,
               markerLine |-> ms[j].line,
               content    |-> bs[j].content,
               new        |-> NewMarker(bs[j], ms[j], ids[j])]]
      Second(bs, ms) == Results(bs, ms, FirstPass(ls, bs, ms))
      First(bs) == Second(bs, MarkersOf(ls, bs))
  IN  First(BlocksOf(ls))

-----------------------------------------------------------------------------
(* ApplyMarkers. *)

Splice(ls, at, items) == SubSeq(ls, 1, at) \o items \o SubSeq(ls, at + 1, Len(ls))
RemoveRange(ls, first, count) ==
  SubSeq(ls, 1, first - 1) \o SubSeq(ls, first + count, Len(ls))

\* rewriteMarker: both lines, in place.
RewriteMarker(ls, at, m) == [ls EXCEPT ![at] = FormatLines(m)[1], ![at + 1] = FormatLines(m)[2]]

\* Mutant of InsertMarker: below the opening line instead of the last one.
InsertMarkerAtOpen(ls, r) == Splice(ls, r.open, FormatLines(r.new))

\* insertMarker: above the block for pos=before, else right below its last line.
InsertMarker(ls, r) ==
  IF r.new.pos = "before" /\ r.open > 1 THEN Splice(ls, r.open - 1, FormatLines(r.new))
  ELSE Splice(ls, r.anchor, FormatLines(r.new))

\* trimStaleSeparator: the one blank line between the block and its marker.
TrimStaleSeparator(ls, r) ==
  IF r.markerLine = 0 THEN ls
  ELSE IF r.new.pos = "before"
       THEN IF r.markerLine + 3 = r.open /\ IsBlank(ls, r.markerLine + 2)
            THEN RemoveRange(ls, r.markerLine + 2, 1) ELSE ls
  ELSE IF r.markerLine = r.anchor + 2 /\ IsBlank(ls, r.anchor + 1)
       THEN RemoveRange(ls, r.anchor + 1, 1) ELSE ls

\* One block; the indices of the analysis hold because later blocks are handled first.
ApplyOne(ls, r) ==
  CASE r.outcome = "skip"                                 -> ls
    [] r.outcome \in {"Rehash", "Rerender"} /\ r.markerLine # 0
                                                          -> TrimStaleSeparator(RewriteMarker(ls, r.markerLine, r.new), r)
    [] r.outcome = "InsertMarker" \/ (r.outcome = "Rerender" /\ r.markerLine = 0)
                                                          -> InsertMarker(ls, r)
    [] OTHER                                              -> TrimStaleSeparator(ls, r)

OutOfRange == <<[k |-> "out of range"]>>

\* The blank lines that follow line i, and those that precede it.
BlanksBelow(ls, i) ==
  Cardinality({j \in i + 1 .. Len(ls) : \A k \in i + 1 .. j : ls[k].k = "blank"})
BlanksAbove(ls, i) ==
  Cardinality({j \in 1 .. i - 1 : \A k \in j .. i - 1 : ls[k].k = "blank"})

\* The blank lines beyond the cap on the away side of the marker at i, removed.
CapAt(ls, i) ==
  LET before == ls[i].pos = "before"
      excess == (IF before THEN BlanksAbove(ls, i) ELSE BlanksBelow(ls, i + 1))
                  - MaxBlanksAroundMarker
  IN  IF excess <= 0 THEN ls
      ELSE RemoveRange(ls, IF before THEN i - excess ELSE i + 2 + MaxBlanksAroundMarker, excess)

(***************************************************************************)
(* capAwaySideBlanks: i goes down over the lines while they are removed    *)
(* also above i, so that i + 1 may lie behind the last line.  No fence is  *)
(* looked at.                                                              *)
(***************************************************************************)
CapAwaySideBlanks(ls) ==
  LET RECURSIVE Down(_, _)
      Down(out, i) ==
        IF i < 1 THEN out
        ELSE IF i + 1 > Len(out) THEN OutOfRange
        ELSE IF MarkerAt(out, i) THEN Down(CapAt(out, i), i - 2)
        ELSE Down(out, i - 1)
  IN  Down(ls, Len(ls) - 1)

\* Mutant of ApplyMarkers: first block first, with the indices of the analysis.
ApplyMarkersForward(ls, rs) == CapAwaySideBlanks(FoldLeft(ApplyOne, ls, rs))

\* ApplyMarkers over the results, last block first.
ApplyMarkers(ls, rs) == CapAwaySideBlanks(FoldRight(LAMBDA r, acc : ApplyOne(acc, r), rs, ls))

\* The outcome of a block the caller re-renders although its marker is current.
Rerendered(rs, js) ==
  [j \in DOMAIN rs |-> IF j \in js THEN [rs[j] EXCEPT !.outcome = "Rerender"] ELSE rs[j]]
Current(rs) == {j \in DOMAIN rs : rs[j].outcome = "OK"}

\* The file after a run that re-renders the blocks js although their markers are current.
Embedded(ls, js) == ApplyMarkers(ls, Rerendered(Analyze(ls), js))

-----------------------------------------------------------------------------
(***************************************************************************)
(* The other readers of the same file.  Each walks the fences by itself.   *)
(***************************************************************************)

\* ScanIPMTBlocks, the blocks ipm-validate and the language server read; end 0 for unterminated.
ScanIPMTBlocks(ls) ==
  LET from[i \in 1 .. Len(ls) + 1] ==
        IF i > Len(ls) THEN <<>>
        ELSE IF ls[i].k # "fence" THEN from[i + 1]
        ELSE LET close == CloseOf(ls, i)
                 last  == IF close = 0 THEN Len(ls) ELSE close - 1
                 b     == [start |-> i, end |-> close, content |-> SubSeq(ls, i + 1, last)]
             IN  (IF ls[i].info \in IpmtInfos THEN <<b>> ELSE <<>>) \o
                 (IF close = 0 THEN <<>> ELSE from[close + 1])
  IN  from[1]

\* The blocks whose tokens are coloured: semanticTokensFull skips the unterminated one.
Coloured(ls) == SelectSeq(ScanIPMTBlocks(ls), LAMBDA b : b.end # 0)

\* The whole-file line of line n of a block: the opening fence is one line up.
FileLine(b, n) == b.start + n

\* FencedByteRanges: the lines of fences, delimiters included; open is the fence read last.
FencedLines(ls) ==
  LET Step(acc, i) ==
        IF acc.open # 0
        THEN [open |-> IF Closes(ls[i], ls[acc.open]) THEN 0 ELSE acc.open,
              fenced |-> acc.fenced \cup {i}]
        ELSE IF ls[i].k = "fence" THEN [open |-> i, fenced |-> acc.fenced \cup {i}]
        ELSE acc
  IN  FoldLeft(Step, [open |-> 0, fenced |-> {}], [i \in DOMAIN ls |-> i]).fenced

\* LineStartInlineIpmt: the lines that would render broken.
LineStartInlineIpmt(ls) == {i \in DOMAIN ls \ FencedLines(ls) : ls[i].k = "inline"}

\* FindInlineIpmt; without a code span on its line, the only one to come is a fence: dropped.
FindInlineIpmt(ls) == {i \in DOMAIN ls : ls[i].k = "inline" /\ ls[i].code} \ FencedLines(ls)

\* extractTitle: the first line outside fences a heading can be read from, 0 for none.
TitleLine(ls) ==
  LET heads == {i \in DOMAIN ls \ FencedLines(ls) : ls[i].k \in {"text", "src"}}
  IN  IF heads = {} THEN 0 ELSE CHOOSE i \in heads : \A j \in heads : i <= j

(***************************************************************************)
(* renderBody of md-html, the figures of a page: the marker line of each   *)
(* and the fence it is drawn with, 0 for a marker that stands alone.       *)
(* Every blank line below a fence is skipped, where md-embed skips one.    *)
(***************************************************************************)
Figures(ls) ==
  LET Below(i) == i + Cardinality({j \in i .. Len(ls) : \A k \in i .. j : ls[k].k = "blank"})
      from[i \in 1 .. Len(ls) + 1] ==
        IF i > Len(ls) THEN <<>>
        ELSE IF MarkerAt(ls, i) THEN <<[marker |-> i, fence |-> 0]>> \o from[i + 2]
        ELSE IF ls[i].k # "fence" THEN from[i + 1]
        ELSE LET close  == CloseOf(ls, i)
                 next   == IF close = 0 THEN Len(ls) + 1 ELSE close + 1
                 marker == Below(next)
             IN  IF ls[i].info \in IpmtInfos /\ MarkerAt(ls, marker)
                 THEN <<[marker |-> marker, fence |-> i]>> \o from[marker + 2]
                 ELSE from[next]
  IN  from[1]

(***************************************************************************)
(* extractMarkdownLanguageBlocks of sync-test-cases counts no fence        *)
(* characters: every fence line closes what is open, and only a fence of   *)
(* three characters whose info is ipmt alone opens a block.                *)
(***************************************************************************)
ExtractedBlocks(ls) ==
  LET Step(acc, line) ==
        CASE line.k # "fence"    -> [acc EXCEPT !.cur = Append(@, line)]
          [] acc.in = "ipmt"     -> [in |-> "text", cur |-> <<>>, blocks |-> Append(acc.blocks, acc.cur)]
          [] acc.in = "foreign"  -> [acc EXCEPT !.in = "text"]
          [] OTHER               -> [acc EXCEPT !.cur = <<>>,
                                       !.in = IF line.info = "ipmt" /\ line.len = 3 THEN "ipmt"
                                              ELSE "foreign"]
  IN  FoldLeft(Step, [in |-> "text", cur |-> <<>>, blocks |-> <<>>], ls).blocks

-----------------------------------------------------------------------------
(* The machine. *)

Init ==
  /\ doc \in InitDocs
  /\ crashed = FALSE
  /\ edits = 0

\* One run of md-embed; js are the blocks whose SVG is stale or missing.
Run(js) ==
  /\ ~crashed
  /\ js \subseteq Current(Analyze(doc))
  /\ LET out == Embedded(doc, js)
     IN  IF out = OutOfRange THEN crashed' = TRUE /\ UNCHANGED doc
         ELSE doc' = out /\ UNCHANGED crashed
  /\ UNCHANGED edits

\* The lines of a block and its marker, but for the last: nothing is inserted after them.
Bound(ls) ==
  UNION {IF r.markerLine = 0 THEN r.open .. r.anchor - 1
         ELSE IF r.markerLine < r.open THEN r.markerLine .. r.anchor - 1
         ELSE r.open .. r.markerLine : r \in ToSet(Analyze(ls))}

\* The author inserts lines: new text, a block, a copied block with its marker.
Insert(at, lines) ==
  /\ ~crashed
  /\ edits < MaxEdits
  /\ doc' = Splice(doc, at, lines)
  /\ edits' = edits + 1
  /\ UNCHANGED crashed

\* The author deletes a block and leaves its marker, or the marker alone.
Delete(first, last) ==
  /\ ~crashed
  /\ edits < MaxEdits
  /\ doc' = RemoveRange(doc, first, last - first + 1)
  /\ edits' = edits + 1
  /\ UNCHANGED crashed

InsertSomewhere ==
  \E at \in (0 .. Len(doc)) \ Bound(doc), lines \in Pastes : Insert(at, lines)
DeleteBlock == \E r \in ToSet(Analyze(doc)) : Delete(r.open, r.anchor)
DeleteMarker ==
  \E i \in DOMAIN doc : MarkerAt(doc, i) /\ Delete(i, i + 1)

Next ==
  \/ \E js \in SUBSET Current(Analyze(doc)) : Run(js)
  \/ InsertSomewhere
  \/ DeleteBlock
  \/ DeleteMarker

Spec == Init /\ [][Next]_vars

-----------------------------------------------------------------------------

\* The files a run may leave, with and without re-rendering.
RunsOf(ls) ==
  LET Runs(rs) == {ApplyMarkers(ls, Rerendered(rs, js)) : js \in {{}, Current(rs)}}
  IN  Runs(Analyze(ls)) \ {OutOfRange}
LiveResults(ls) == {r \in ToSet(Analyze(ls)) : r.outcome # "skip"}

\* No block of the file has a marker pair in its source.
PlainSources(ls) == \A b \in ToSet(BlocksOf(ls)) : \A i \in DOMAIN b.content : ~MarkerAt(b.content, i)

\* The keys the scanner finds ascend: no keyed block was moved.
KeysInOrder(ls) ==
  LET Keyed(r) == r.markerLine # 0 /\ r.outcome # "skip" /\ IsKey(ls[r.markerLine].id)
      Ascend(rs) ==
        \A j, k \in DOMAIN rs : j < k => ls[rs[j].markerLine].id <= ls[rs[k].markerLine].id
  IN  Ascend(SelectSeq(Analyze(ls), Keyed))

(***************************************************************************)
(* A second run changes no line (docs/md-embed.md:3), whatever state the   *)
(* author left the markers in: what a run wrote is what the next one       *)
(* reads, every live block has a marker the scanner finds at it, with its  *)
(* source and an id of its own, and the blank lines a run removes give the *)
(* next run nothing to do.  A marker pair inside a source is excepted:     *)
(* capAwaySideBlanks edits the source.                                     *)
(***************************************************************************)
Idempotent ==
  PlainSources(doc) /\ KeysInOrder(doc) =>
     \A out \in RunsOf(doc) :
        /\ Embedded(out, {}) = out
        /\ \A r \in LiveResults(out) : r.outcome = "OK"

\* The elements of a sequence at the given indices, in order.
Pick(ls, is) ==
  [n \in 1 .. Cardinality(is) |-> ls[CHOOSE i \in is : Cardinality({j \in is : j <= i}) = n]]

\* The lines of the author: neither blank nor of a marker.
Skeleton(ls) ==
  Pick(ls, {i \in DOMAIN ls : ~(ls[i].k = "blank" \/ MarkerAt(ls, i) \/ MarkerAt(ls, i - 1))})

\* The markers that belong to no live block: those of skipped and of deleted blocks, and of
\* examples.
Foreign(ls) ==
  LET Unowned(owned) == {i \in DOMAIN ls : MarkerAt(ls, i) /\ i \notin owned}
  IN  Pick(ls, Unowned({r.markerLine : r \in LiveResults(ls)}))

\* The sources a reader is shown, and the text of the lines a predicate selects.
Contents(bs) == [n \in DOMAIN bs |-> bs[n].content]

\* Every reader that tracks fences finds the blocks of md-embed, each finding on its own line.
SameBlocks(ls) ==
  LET embedded == SelectSeq(BlocksOf(ls), LAMBDA b : b.kind = "visible" /\ b.flag # "unterminated")
      coloured == Coloured(ls)
  IN  /\ Contents(coloured) = Contents(embedded)
      /\ \A b \in ToSet(coloured) : \A n \in DOMAIN b.content : ls[FileLine(b, n)] = b.content[n]

\* Flat fences: three characters each, every other one bare, none left open.
FlatFences(ls) ==
  LET fences == SelectSeq(ls, LAMBDA line : line.k = "fence")
  IN  /\ Len(fences) % 2 = 0
      /\ \A i \in DOMAIN fences : fences[i].len = 3 /\ (i % 2 = 0 => fences[i].info = "none")

\* The corpus tool extracts the blocks that carry no metadata.
SameCorpus(ls) ==
  FlatFences(ls) =>
    ExtractedBlocks(ls) =
      Contents(SelectSeq(Coloured(ls), LAMBDA b : ls[b.start].info = "ipmt"))

\* A page shows every marker outside fences once, and with a block the block's own.
SamePage(ls, plain) ==
  LET figures == Figures(ls)
  IN  /\ \A f, g \in DOMAIN figures : figures[f].marker = figures[g].marker => f = g
      /\ {f.marker : f \in ToSet(figures)} = {i \in DOMAIN ls : MarkerAt(ls, i)} \ FencedLines(ls)
      /\ plain => \A r \in LiveResults(ls), f \in ToSet(figures) :
           f.fence = r.open /\ r.new.pos = "" => f.marker = r.markerLine

\* What a file tells its other readers: the sources, the title, the inline fragments.
Told(ls) ==
  LET titled == TitleLine(ls)
  IN  <<Contents(Coloured(ls)),
        IF titled = 0 THEN Text ELSE ls[titled],
        Cardinality(LineStartInlineIpmt(ls)), Cardinality(FindInlineIpmt(ls))>>

(***************************************************************************)
(* A run inserts and removes lines at indices that were found before its   *)
(* first edit: no line of the author is lost, duplicated or overwritten by *)
(* it, and no foreign marker is changed, adopted or left behind.  The      *)
(* other readers, which walk the fences by themselves (fence.go:3), are    *)
(* told the same by the file before and after, find the blocks md-embed    *)
(* finds, and none of the markers a run wrote lies in a fence.             *)
(***************************************************************************)
TextKept ==
  \A out \in RunsOf(doc) :
     /\ Skeleton(out) = Skeleton(doc) /\ Foreign(out) = Foreign(doc)
     /\ SameBlocks(out) /\ SameCorpus(out) /\ SamePage(out, PlainSources(doc))
     /\ PlainSources(doc) => Told(out) = Told(doc)
     /\ {r.markerLine : r \in LiveResults(out)} \cap FencedLines(out) = {}

=============================================================================
