----------------------------- MODULE LayoutDiff -----------------------------
(* What changed between two layouts of one source (pkg/layoutdiff/match.go,  *)
(* diff.go).  A pair is <<o, n>>, positions in the old and in the new        *)
(* drawing, 0 for the side where there is none; a change is a tuple: its     *)
(* kind, what it is about, the detail.  The old and new bounds are those of  *)
(* the drawings.                                                             *)
EXTENDS LayoutCheck, SequencesExt

IdentityKey(n) == <<n.type, n.label, n.alias>>

(* matchNodes: by id where the type is the same; what is left is paired by   *)
(* what a reader calls it, first with first.                                 *)
MatchNodes(old, new) ==
  LET ByID(o, n) == old.nodes[o].id = new.nodes[n].id /\ old.nodes[o].type = new.nodes[n].type
      byId == {p \in Index(old.nodes) \X Index(new.nodes) : ByID(p[1], p[2])}
      restO == {o \in Index(old.nodes) : \A p \in byId : p[1] # o}
      restN == {n \in Index(new.nodes) : \A p \in byId : p[2] # n}
      RankO(o) == Cardinality({i \in restO : i <= o /\ IdentityKey(old.nodes[i])
                                                         = IdentityKey(old.nodes[o])})
      RankN(n) == Cardinality({i \in restN : i <= n /\ IdentityKey(new.nodes[i])
                                                         = IdentityKey(new.nodes[n])})
      byKey == {p \in restO \X restN : /\ IdentityKey(old.nodes[p[1]]) = IdentityKey(new.nodes[p[2]])
                                       /\ RankO(p[1]) = RankN(p[2])}
      paired == byId \cup byKey
  IN  paired
        \cup {<<o, 0>> : o \in {i \in restO : \A p \in paired : p[1] # i}}
        \cup {<<0, n>> : n \in {i \in restN : \A p \in paired : p[2] # i}}

(* edgeKey: the ends, the kind, and the how-manyeth of these it is.          *)
EdgeKey(g, i) ==
  LET e == g.edges[i]
  IN  <<e.from, e.to, e.base,
        Cardinality({j \in 1 .. i - 1 : LET d == g.edges[j]
                                        IN  <<d.from, d.to, d.base>> = <<e.from, e.to, e.base>>})>>

MatchEdges(old, new) ==
  LET paired == {p \in Index(old.edges) \X Index(new.edges) : EdgeKey(old, p[1]) = EdgeKey(new, p[2])}
  IN  paired
        \cup {<<o, 0>> : o \in {i \in Index(old.edges) : \A p \in paired : p[1] # i}}
        \cup {<<0, n>> : n \in {i \in Index(new.edges) : \A p \in paired : p[2] # i}}
-----------------------------------------------------------------------------
ModeLeast(deltas) ==
  LET values == {deltas[p] : p \in DOMAIN deltas}
  IN  IF values = {} THEN 0
      ELSE CHOOSE a \in values : \A b \in values \ {a} : Abs(a) < Abs(b) \/ (Abs(a) = Abs(b) /\ a < b)

(* mode: the most frequent value, of these the closest to zero, of these the *)
(* lower.  deltas is a function.                                             *)
Mode(deltas) ==
  LET values == {deltas[p] : p \in DOMAIN deltas}
      Freq(d) == Cardinality({p \in DOMAIN deltas : deltas[p] = d})
      Better(a, b) == \/ Freq(a) > Freq(b)
                      \/ Freq(a) = Freq(b) /\ Abs(a) < Abs(b)
                      \/ Freq(a) = Freq(b) /\ Abs(a) = Abs(b) /\ a < b
  IN  IF values = {} THEN 0
      ELSE CHOOSE a \in values : \A b \in values \ {a} : Better(a, b)

Translation(old, new) ==
  LET kept == {p \in MatchNodes(old, new) : p[1] # 0 /\ p[2] # 0}
  IN  <<Mode([p \in kept |-> new.nodes[p[2]].x - old.nodes[p[1]].x]),
        Mode([p \in kept |-> new.nodes[p[2]].y - old.nodes[p[1]].y])>>
-----------------------------------------------------------------------------
(* The kinds of change and their tiers: the lower, the worse.                *)
Tier(kind) ==
  CASE kind = "finding-added" -> 1
    [] kind \in {"node-added", "node-removed", "node-relabelled", "container-shell",
                 "edge-added", "edge-removed", "edge-visibility", "edge-deferred", "port-side",
                 "bend-count"} -> 2
    [] kind \in {"node-moved", "node-resized", "port-slide", "bend-moved", "bounds-changed",
                 "finding-fixed"} -> 3

ChangeIf(cond, change) == IF cond THEN {change} ELSE {}

DiffNode(o, n, shift) ==
  LET moved == <<n.x - o.x - shift[1], n.y - o.y - shift[2]>>
  IN  ChangeIf(moved # <<0, 0>>, <<"node-moved", n.id, moved>>)
        \cup ChangeIf(<<n.w, n.h>> # <<o.w, o.h>>, <<"node-resized", n.id, <<n.w, n.h>>>>)
        \cup ChangeIf(n.label # o.label, <<"node-relabelled", n.id, <<>>>>)
        \cup ChangeIf(n.shell # o.shell, <<"container-shell", n.id, <<>>>>)

(* diffEdge: without a route on both sides only the class is compared, and   *)
(* the stubs of a hidden edge never are.                                     *)
DiffEdge(o, n, shift) ==
  LET ref == <<n.from, n.to>>
      PortChange(end, p, q) ==
        ChangeIf(p.side # q.side, <<"port-side", ref, end>>)
          \cup ChangeIf(p.side = q.side /\ p.pos # q.pos, <<"port-slide", ref, end>>)
      drift == Len(o.route.bends) = Len(n.route.bends)
                 /\ \E i \in Index(o.route.bends) :
                      \E k \in {1, 2} : o.route.bends[i][k] + shift[k] # n.route.bends[i][k]
  IN  ChangeIf(o.vis # n.vis, <<"edge-visibility", ref, <<>>>>)
        \cup ChangeIf(o.deferred # n.deferred, <<"edge-deferred", ref, <<>>>>)
        \cup (IF ~ Has(o.route) \/ ~ Has(n.route) THEN {}
              ELSE PortChange("source", o.route.source, n.route.source)
                     \cup PortChange("target", o.route.target, n.route.target)
                     \cup ChangeIf(Len(o.route.bends) # Len(n.route.bends), <<"bend-count", ref, <<>>>>)
                     \cup ChangeIf(drift, <<"bend-moved", ref, <<>>>>))

(* diffStrings: the difference of the two bags of texts, both ways.          *)
FindingTexts(g) == [f \in Findings(g, FALSE) |-> FindingText(g, f)]

DiffStrings(was, is) ==
  LET Count(bag, text) == Cardinality({f \in DOMAIN bag : bag[f] = text})
      texts == {was[f] : f \in DOMAIN was} \cup {is[f] : f \in DOMAIN is}
  IN  UNION {ChangeIf(Count(is, t) > Count(was, t), <<"finding-added", t, <<>>>>)
               \cup ChangeIf(Count(is, t) < Count(was, t), <<"finding-fixed", t, <<>>>>)
             : t \in texts}

ChangesBeyond(old, new, shift) ==
  LET Node(p) == CASE p[1] = 0 -> {<<"node-added", new.nodes[p[2]].id, <<>>>>}
                   [] p[2] = 0 -> {<<"node-removed", old.nodes[p[1]].id, <<>>>>}
                   [] OTHER    -> DiffNode(old.nodes[p[1]], new.nodes[p[2]], shift)
      Edge(p) == CASE p[1] = 0 -> {<<"edge-added", EdgeKey(new, p[2]), <<>>>>}
                   [] p[2] = 0 -> {<<"edge-removed", EdgeKey(old, p[1]), <<>>>>}
                   [] OTHER    -> DiffEdge(old.edges[p[1]], new.edges[p[2]], shift)
  IN  UNION {Node(p) : p \in MatchNodes(old, new)}
        \cup UNION {Edge(p) : p \in MatchEdges(old, new)}
        \cup ChangeIf(old.bounds # new.bounds, <<"bounds-changed", "canvas", new.bounds>>)
        \cup DiffStrings(FindingTexts(old), FindingTexts(new))

Diff(old, new) == ChangesBeyond(old, new, Translation(old, new))

Identical(report) == report = {}
ReportTier(report) == IF report = {} THEN 9
                      ELSE CHOOSE t \in {Tier(c[1]) : c \in report} :
                             \A c \in report : t <= Tier(c[1])
=============================================================================
