------------------------------ MODULE Columns ------------------------------
(***************************************************************************)
(* cmd-dev/layout-timeline: which columns a report has (weeks.go,          *)
(* config.go, published.go, and the resolution in main.go).  Boundaries in *)
(* time are answered by the commits standing there, in the lineage that    *)
(* owns the date; the newest work, the working tree and what the remote    *)
(* holds get columns of their own, put where they belong in time.          *)
(* An instant is a number of hours since a Monday 00:00.  Histories are    *)
(* linear.  Labels, subjects and what is marked unpublished are left out.  *)
(***************************************************************************)
EXTENDS Integers, Sequences, FiniteSets
LOCAL INSTANCE SequencesExt
LOCAL INSTANCE FiniteSetsExt

CONSTANTS
  Log,          \* commit -> history: the commits up to it, oldest first, itself last; date;
                \* touches: the packages it changes, <<tree, name>>; layout: its message says so; repos: who holds it
  MonthStarts,  \* when months begin
  Ordinary      \* the recipe of a lineage that names none

Workdir == "workdir"
NoSHA == "no commits yet"
Undated == -1
Day == 24
Week == 7 * Day

ASSUME LogAssumption ==
  \A c \in DOMAIN Log :
    LET h == Log[c].history
    IN  /\ h # <<>> /\ Last(h) = c /\ Log[c].date \in Nat
        /\ \A i \in DOMAIN h : Log[h[i]].history = SubSeq(h, 1, i) /\ Log[h[i]].date <= Log[c].date
        /\ Log[c].layout \in BOOLEAN

DateOf(c) == Log[c].date
Line(rev) == Log[rev].history
Reach(c) == ToSet(Line(c))
Touches(c, paths) == paths = {} \/ Log[c].touches \cap paths # {}

\* A column; engine counts the engine commits in its span.
Standing(sha, repo) ==
  [sha |-> sha, repo |-> repo, recipe |-> Ordinary, paths |-> {}, same |-> FALSE, engine |-> 0,
   date |-> IF sha \in DOMAIN Log THEN DateOf(sha) ELSE Undated]
InLineage(sha, src) == [Standing(sha, src.repo) EXCEPT !.recipe = src.recipe, !.paths = src.paths]

-----------------------------------------------------------------------------
(* Boundaries: days at the end, weeks before them, months before those. *)

Midnight(t) == t - (t % Day)
StartOfWeek(t) == t - (t % Week)

Cadence(from, to, days, weeks) ==
  LET dayFrom == Midnight(to) - Day * (days - 1)
      weekFrom == IF weeks = 0 THEN dayFrom ELSE StartOfWeek(dayFrom) - Week * (weeks - 1)
      Months == {m \in MonthStarts : m < weekFrom}
      Weeks == {w \in {weekFrom + Week * k : k \in 0 .. weeks} : w < dayFrom}
      Days == {dayFrom + Day * k : k \in 0 .. days - 1}
  IN  SetToSortSeq({t \in Months \cup Weeks \cup Days : from <= t /\ t <= to}, <)

\* The commit of a boundary: the last before it, or the first of the week it begins.
CommitAt(rev, at, mode) ==
  LET h == Line(rev)
      Days7 == {i \in DOMAIN h : at <= DateOf(h[i]) /\ DateOf(h[i]) < at + Week}
      Earlier == {i \in DOMAIN h : DateOf(h[i]) < at}
  IN  IF mode = "first-of-week" THEN IF Days7 = {} THEN NoSHA ELSE h[Min(Days7)]
      ELSE IF Earlier = {} THEN NoSHA ELSE h[Max(Earlier)]

\* The lineage that owns a date: the first whose span reaches it, or the newest.
WindowFor(wins, at) ==
  LET Reaching == {i \in DOMAIN wins : at <= wins[i].to}
  IN  IF Reaching = {} THEN Last(wins) ELSE wins[Min(Reaching)]

\* A boundary without a commit repeats the column before it.
Resolved(wins, at, mode, cols) ==
  LET src == WindowFor(wins, at).src
      own == CommitAt(src.rev, at, mode)
      prev == IF cols = <<>> THEN NoSHA ELSE Last(cols).sha
      sha == IF own = NoSHA THEN prev ELSE own
  IN  [InLineage(sha, src) EXCEPT !.same = sha # NoSHA /\ sha = prev]
ResolveAcrossWindows(wins, bounds, mode) ==
  FoldLeft(LAMBDA cols, at : Append(cols, Resolved(wins, at, mode, cols)), <<>>, bounds)

EngineCommits(win) ==
  LET mine == SelectSeq(Line(win.src.rev),
                LAMBDA c : Touches(c, win.src.paths) /\ win.from <= DateOf(c) /\ DateOf(c) <= win.to)
  IN  [i \in DOMAIN mine |-> InLineage(mine[i], win.src)]
EngineCommitsAcross(wins) == FlattenSeq([i \in DOMAIN wins |-> EngineCommits(wins[i])])

-----------------------------------------------------------------------------
(* The newest work. *)

Newest(s, n) == SubSeq(s, Max({1, Len(s) - n + 1}), Len(s))
\* What the report itself is built from cannot move a diagram.
AuditsItself(p) == p \in {<<"pkg", "layoutaudit">>, <<"pkg", "layoutdiff">>} \/ p[1] = "cmd-dev"
TopLevels(paths) == {p[1] : p \in paths}
SaysLayout(c, paths) ==
  /\ Log[c].layout
  /\ paths = {} \/ \E p \in Log[c].touches : p[1] \in TopLevels(paths) /\ ~AuditsItself(p)

\* Commits that touch the engine or say layout: the newest n, and all of the last hours (since, 0 for off).
RecentLayoutCommits(rev, paths, n, since) ==
  LET Found(P(_)) == ToSet(Newest(SelectSeq(Line(rev), P), 8 * n))
      found == Found(LAMBDA c : Touches(c, paths)) \cup Found(LAMBDA c : SaysLayout(c, paths))
      all == SelectSeq(Line(rev), LAMBDA c : c \in found)
      burst == {k \in DOMAIN all : \A i \in Len(all) - k + 1 .. Len(all) : DateOf(all[i]) >= since}
  IN  Newest(all, IF since = 0 THEN n ELSE Max({n} \cup burst))

\* Mutant of InsertByDate: the newest work goes on the end.
InsertLast(cols, s) == Append(cols, s)
\* After the last column that is no newer, or before all that have a date.
InsertByDate(cols, s) ==
  LET Dated == {i \in DOMAIN cols : cols[i].date # Undated}
      NoNewer == {i \in Dated : cols[i].date <= s.date}
  IN  IF s.date = Undated \/ Dated = {} THEN Append(cols, s)
      ELSE InsertAt(cols, IF NoNewer = {} THEN Min(Dated) ELSE Max(NoNewer) + 1, s)

Shas(cols) == {cols[i].sha : i \in DOMAIN cols}

\* The working tree if it is dirty, else the tip if no column stands there yet; neither has a date.
AppendHead(src, dirty, cols) ==
  LET Standings == {i \in DOMAIN cols : cols[i].sha # NoSHA}
      last == IF Standings = {} THEN NoSHA ELSE cols[Max(Standings)].sha
  IN  IF dirty THEN Append(cols, Standing(Workdir, src.repo))
      ELSE IF src.rev = last THEN cols
      ELSE Append(cols, [Standing(src.rev, src.repo) EXCEPT !.date = Undated])

\* These columns carry neither the recipe nor the engine paths of their lineage.
AppendRecent(src, n, since, dirty, cols) ==
  LET recent == SelectSeq(RecentLayoutCommits(src.rev, src.paths, n, since), LAMBDA c : c \notin Shas(cols))
      tail == [i \in DOMAIN recent |-> Standing(recent[i], src.repo)]
  IN  AppendHead(src, dirty, FoldLeft(InsertByDate, cols, tail))

\* What the remote holds, NoSHA without one; after the spans are counted.
AppendPublished(repo, published, cols) ==
  IF published = NoSHA \/ published \in Shas(cols) THEN cols
  ELSE InsertByDate(cols, Standing(published, repo))

\* How many engine commits came in since the column before, or ever if that is in another repository;
\* heads: repository -> what is checked out.
CountSpan(heads, paths, cols) ==
  LET Cur(i) == IF cols[i].sha = Workdir THEN heads[cols[i].repo] ELSE cols[i].sha
      Earlier(i) == {j \in 1 .. i - 1 : Cur(j) # NoSHA}
      Prev(i) == IF Earlier(i) = {} THEN NoSHA ELSE Cur(Max(Earlier(i)))
      Counted(i) == Cur(i) # NoSHA /\ Cur(i) # Prev(i)
      PrevRepo(i) == cols[Max({j \in 1 .. i - 1 : Counted(j)})].repo
      Span(i) == IF Prev(i) = NoSHA \/ PrevRepo(i) # cols[i].repo THEN Reach(Cur(i))
                 ELSE Reach(Cur(i)) \ Reach(Prev(i))
      Paths(i) == IF cols[i].paths = {} THEN paths ELSE cols[i].paths
  IN  [i \in DOMAIN cols |-> IF ~Counted(i) THEN cols[i]
         ELSE [cols[i] EXCEPT !.engine = Cardinality({c \in Span(i) : Touches(c, Paths(i))})]]

-----------------------------------------------------------------------------
(* One repository, or the lineages of a config.  A request (v) is the      *)
(* flags and the day: now, since and until (0 for unset), days, weeks, at, *)
(* by, head, count and hours of the newest work, rev in repo, the engine's *)
(* paths, heads, dirty, published, and sources: <<>> without a config.     *)

From(v, src) == IF v.since # 0 THEN v.since ELSE DateOf(Head(Line(src.rev)))
Until(v) == IF v.until # 0 THEN v.until ELSE v.now
Since(v) == IF v.hours = 0 THEN 0 ELSE v.now - v.hours

\* Without a config, the one lineage there is; its window has no beginning.
Itself(v) == [repo |-> v.repo, rev |-> v.rev, recipe |-> Ordinary, paths |-> v.paths, from |-> 0, until |-> 0]

\* resolveTips: by the date of their tips, unless a source pins its own span.
Chained(srcs) ==
  LET order == SetToSortSeq(DOMAIN srcs, LAMBDA i, j : \/ DateOf(srcs[i].rev) < DateOf(srcs[j].rev)
                                                       \/ DateOf(srcs[i].rev) = DateOf(srcs[j].rev) /\ i < j)
  IN  IF \E i \in DOMAIN srcs : srcs[i].from # 0 \/ srcs[i].until # 0 THEN srcs
      ELSE [i \in DOMAIN srcs |-> srcs[order[i]]]
\* chainWindows: everything after the tips before it, up to its own.
ChainWindows(srcs, until) ==
  LET End(i) == Min({until, IF srcs[i].until # 0 THEN srcs[i].until ELSE DateOf(srcs[i].rev)})
      Start(i) == IF srcs[i].from # 0 THEN srcs[i].from ELSE Max({0} \cup {End(j) : j \in 1 .. i - 1})
  IN  [i \in DOMAIN srcs |-> [src |-> srcs[i], from |-> Start(i), to |-> End(i)]]

\* --by engine-commit of one repository counts weeks back; everything else covers the whole history.
FirstOfRange(v, srcs) ==
  IF v.sources = <<>> /\ v.by = "engine-commit" /\ v.weeks > 0
  THEN StartOfWeek(Until(v)) - Week * (v.weeks - 1) ELSE From(v, Head(srcs))

Lineages(v) == IF v.sources = <<>> THEN <<Itself(v)>> ELSE Chained(v.sources)
Resolve(v) ==
  LET srcs == Lineages(v)
      from == FirstOfRange(v, srcs)
      wins == IF v.sources = <<>> THEN <<[src |-> Itself(v), from |-> from, to |-> Until(v)]>>
              ELSE ChainWindows(srcs, Until(v))
      cols == IF v.by = "engine-commit" THEN EngineCommitsAcross(wins)
              ELSE ResolveAcrossWindows(wins, Cadence(from, Until(v), v.days, v.weeks), v.at)
  IN  IF v.head THEN AppendRecent(Last(srcs), v.count, Since(v), v.dirty, cols) ELSE cols

\* What --list prints; a run goes on to add what is published.
Listed(v) == CountSpan(v.heads, v.paths, Resolve(v))
ColumnsOf(v) == AppendPublished(v.repo, v.published, Listed(v))

-----------------------------------------------------------------------------
(* What the columns are to mean; see Timeline!RowsCompareEngines. *)

\* Dates tell the commits of the columns apart.
Timely(cols) ==
  \A i, j \in DOMAIN cols : cols[i].sha # cols[j].sha /\ {cols[i].sha, cols[j].sha} \subseteq DOMAIN Log =>
    DateOf(cols[i].sha) # DateOf(cols[j].sha)
\* No column is older than one before it; the working tree is last.
ReadForward(cols) ==
  \A j \in DOMAIN cols : \A i \in 1 .. j - 1 :
    /\ cols[i].sha # Workdir
    /\ {cols[i].sha, cols[j].sha} \subseteq DOMAIN Log /\ cols[i].sha # cols[j].sha =>
         cols[j].sha \notin Reach(cols[i].sha)

\* The remote holds more than what is walked, or no column has a date to place it by.
Misplaced(v, cols) ==
  /\ v.published # NoSHA
  /\ \/ v.rev \in Reach(v.published) \ {v.published}
     \/ \A i \in DOMAIN cols : cols[i].date = Undated
\* Lineages that were written over, rather than continued.
Apart(v) == \A i, j \in DOMAIN v.sources : i # j => Reach(v.sources[i].rev) \cap Reach(v.sources[j].rev) = {}
\* A commit is compared with itself nowhere: it has one column, and others right after it that say so.
NoneTwice(v, cols) ==
  \A j \in DOMAIN cols : \A i \in 1 .. j - 1 : cols[i].sha \in DOMAIN Log /\ cols[i].sha = cols[j].sha =>
    \/ cols[j].same /\ cols[j - 1].sha = cols[j].sha
    \/ ~Apart(v)

\* The engine commits of the last hours have their columns.
NewestWorkShows(v, cols) ==
  LET src == Last(Lineages(v))
  IN  v.head /\ v.count > 0 /\ v.hours > 0 =>
        \A c \in Reach(src.rev) : Touches(c, src.paths) /\ DateOf(c) >= Since(v) => c \in Shas(cols)

\* In one repository every engine commit up to the last column is in the span of one.
SpansAddUp(v, cols) ==
  LET tip == IF Last(cols).sha = Workdir THEN v.heads[v.repo] ELSE Last(cols).sha
  IN  v.sources = <<>> /\ tip # NoSHA =>
        FoldLeft(LAMBDA n, col : n + col.engine, 0, cols) = Cardinality({c \in Reach(tip) : Touches(c, v.paths)})
=============================================================================
