--------------------------- MODULE TimelineProofs ---------------------------
(***************************************************************************)
(* Theorems about the layout timeline and the cache of engines it builds   *)
(* in, for every history, every pool of builders and every corpus.         *)
(***************************************************************************)
EXTENDS Timeline, SetInduction, TLAPS

(* ---------------------------------------------------------------------- *)
(* One step of one builder. *)

\* A builder that is somewhere is at a commit, with a recipe.
LEMMA AtIsACall ==
  ASSUME CacheTypeOK, NEW b \in Builders, call[b].pc # "none"
  PROVE  /\ call[b] \in Calls /\ Of(b) \in Commits /\ call[b].r \in Recipes
         /\ By(b).pkgs \in Seq(Packages) /\ By(b).pipe \in BOOLEAN /\ By(b).merge \in BOOLEAN
<1>1. call[b] \in Calls
  BY DEF CacheTypeOK, NoCall
<1>2. call[b].r \in Recipes /\ Of(b) \in Commits
  BY <1>1 DEF Calls, Of
<1>3. Recipe[call[b].r] \in [pkgs : Seq(Packages), pipe : BOOLEAN, merge : BOOLEAN]
  BY <1>2, CacheAssumption
<1> QED
  BY <1>1, <1>2, <1>3 DEF By

\* A call goes on to another step, or to its next package and another step.
LEMMA CallMoves ==
  ASSUME CacheTypeOK, NEW b \in Builders, call[b] \in Calls, NEW n \in Nat,
         NEW pc \in {"stat", "export", "untar", "build", "lock", "helper", "compile", "adapter", "fill", "clean",
                     "ok", "failed"},
         \/ call' = [call EXCEPT ![b].pc = pc]
         \/ call' = [call EXCEPT ![b].n = n, ![b].pc = pc]
  PROVE  /\ call' \in [Builders -> Calls \cup {NoCall}]
         /\ \A o \in Builders \ {b} : call'[o] = call[o]
         /\ Of(b)' = Of(b) /\ By(b)' = By(b) /\ call'[b].pc = pc
<1>1. call \in [Builders -> Calls \cup {NoCall}]
  BY DEF CacheTypeOK
<1>2. CASE call' = [call EXCEPT ![b].pc = pc]
  <2>1. call'[b] = [call[b] EXCEPT !.pc = pc] /\ \A o \in Builders \ {b} : call'[o] = call[o]
    BY <1>1, <1>2
  <2>2. call'[b] \in Calls /\ call'[b].c = call[b].c /\ call'[b].r = call[b].r /\ call'[b].pc = pc
    BY <2>1 DEF Calls
  <2>3. call' \in [Builders -> Calls \cup {NoCall}]
    BY <1>1, <1>2, <2>1, <2>2
  <2> QED
    BY <2>1, <2>2, <2>3 DEF Of, By
<1>3. CASE call' = [call EXCEPT ![b].n = n, ![b].pc = pc]
  <2>1. call'[b] = [[call[b] EXCEPT !.n = n] EXCEPT !.pc = pc] /\ \A o \in Builders \ {b} : call'[o] = call[o]
    BY <1>1, <1>3
  <2>2. call'[b] \in Calls /\ call'[b].c = call[b].c /\ call'[b].r = call[b].r /\ call'[b].pc = pc
    BY <2>1 DEF Calls
  <2>3. call' \in [Builders -> Calls \cup {NoCall}]
    BY <1>1, <1>3, <2>1, <2>2
  <2> QED
    BY <2>1, <2>2, <2>3 DEF Of, By
<1> QED
  BY <1>2, <1>3

\* A step of b changes its own call only, which stays at its commit and recipe.
LEMMA StepIsLocal ==
  ASSUME CacheTypeOK, NEW b \in Builders, BuildStep(b)
  PROVE  /\ Busy(b) /\ tools' = tools
         /\ call' \in [Builders -> Calls \cup {NoCall}]
         /\ \A o \in Builders \ {b} : call'[o] = call[o]
         /\ Of(b)' = Of(b) /\ By(b)' = By(b)
<1>1. Busy(b) /\ tools' = tools
  BY DEF BuildStep, Stat, ExportStart, ExportEnd, ExportFails, BuildPackage, LockMerge, EnsureMergeTool,
         CompileHelper, HelperFails, WriteAdapter, FillAdapter, CleanUp, At, Busy
<1>2. call[b] \in Calls /\ call[b].n \in Nat
  BY <1>1, AtIsACall DEF Busy, Calls
<1>3. CASE BuildPackage(b)
  <2>1. call[b].n + 1 \in Nat /\ AfterPackages(b) \in {"lock", "adapter", "clean", "failed"}
    BY <1>2 DEF AfterPackages
  <2>2. \/ call' = [call EXCEPT ![b].pc = "failed"]
        \/ \E pc \in {"build", AfterPackages(b)} : call' = [call EXCEPT ![b].n = @ + 1, ![b].pc = pc]
    BY <1>3, Zenon DEF BuildPackage, Goto
  <2>3. CASE call' = [call EXCEPT ![b].pc = "failed"]
    BY <1>1, <1>2, <2>3, CallMoves
  <2>4. ASSUME NEW pc \in {"build", AfterPackages(b)}, call' = [call EXCEPT ![b].n = @ + 1, ![b].pc = pc]
        PROVE  /\ call' \in [Builders -> Calls \cup {NoCall}]
               /\ \A o \in Builders \ {b} : call'[o] = call[o]
               /\ Of(b)' = Of(b) /\ By(b)' = By(b)
    <3>1. call' = [call EXCEPT ![b].n = call[b].n + 1, ![b].pc = pc]
      BY <2>4
    <3> QED
      BY <1>2, <2>1, <3>1, CallMoves
  <2> QED
    BY <1>1, <2>2, <2>3, <2>4
<1>4. CASE ~BuildPackage(b)
  <2>1. \E pc \in {"export", "untar", "build", "helper", "compile", "adapter", "fill", "clean", "ok",
              "failed"} : call' = [call EXCEPT ![b].pc = pc]
    BY <1>4 DEF BuildStep, Stat, ExportStart, ExportEnd, ExportFails, LockMerge, EnsureMergeTool, CompileHelper,
           HelperFails, WriteAdapter, FillAdapter, CleanUp, Goto
  <2> QED
    BY <1>1, <1>2, <2>1, CallMoves
<1> QED
  BY <1>3, <1>4

\* What is left to show of a step of b: its own place, and what it does to the cache.
LEMMA StepIsSound ==
  ASSUME BuildInv, NEW b \in Builders, BuildStep(b), NEW pc, call'[b].pc = pc,
         tree' \in [Commits -> {None, "part", "whole"}],
         bins' \in [Commits -> [Packages -> {None, "good", "bad"}]],
         adapter' \in [Commits -> {None, "empty"} \cup Recipes],
         helper' \in 0 .. tools, mergeBuilt' \in BOOLEAN,
         \A c \in Commits : c # Of(b) => tree'[c] = tree[c],
         \A c \in Commits, p \in Packages : bins'[c][p] # "bad",
         mergeBuilt => mergeBuilt', mergeBuilt' => helper' = tools,
         pc = "build" => tree'[Of(b)] = "whole",
         pc \in {"adapter", "fill"} /\ By(b).merge => mergeBuilt',
         mergeMu' = b \/ mergeMu' = None \/ mergeMu' = mergeMu,
         mergeMu' # mergeMu => mergeMu \in {b, None},
         mergeMu' = b <=> pc \in {"helper", "compile"}
  PROVE  CacheTypeOK' /\ BuildsAreSound'
<1>1. /\ CacheTypeOK /\ Busy(b) /\ tools' = tools /\ tools \in Nat /\ None \notin Builders
      /\ call' \in [Builders -> Calls \cup {NoCall}]
      /\ \A o \in Builders \ {b} : call'[o] = call[o]
      /\ Of(b)' = Of(b) /\ By(b)' = By(b)
  BY StepIsLocal, CacheAssumption DEF BuildInv, CacheTypeOK
<1>2. \A o \in Builders \ {b} : Busy(o) => Of(o) \in Commits /\ Of(o) # Of(b)
  BY <1>1, AtIsACall DEF BuildInv, NeverMeet, Busy
<1>3. \A o \in Builders \ {b} : Of(o)' = Of(o) /\ By(o)' = By(o)
  BY <1>1 DEF Of, By
<1>4. ASSUME NEW o \in Builders PROVE At(o, "build")' => tree'[Of(o)'] = "whole"
  <2>1. CASE o = b
    BY <1>1, <2>1 DEF At
  <2>2. CASE o # b
    BY <1>1, <1>2, <1>3, <2>2 DEF At, Busy, BuildInv, BuildsAreSound
  <2> QED
    BY <2>1, <2>2
<1>5. ASSUME NEW o \in Builders, At(o, "helper")' \/ At(o, "compile")' PROVE mergeMu' = o
  <2>1. CASE o = b
    BY <1>5, <2>1 DEF At
  <2>2. CASE o # b
    <3>1. mergeMu = o
      BY <1>1, <1>5, <2>2 DEF At, BuildInv, BuildsAreSound
    <3> QED
      BY <1>1, <2>2, <3>1
  <2> QED
    BY <2>1, <2>2
<1>6. ASSUME NEW o \in Builders, At(o, "adapter")' \/ At(o, "fill")', By(o)'.merge PROVE mergeBuilt'
  <2>1. CASE o = b
    BY <1>1, <1>6, <2>1 DEF At
  <2>2. CASE o # b
    BY <1>1, <1>3, <1>6, <2>2 DEF At, BuildInv, BuildsAreSound
  <2> QED
    BY <2>1, <2>2
<1>7. mergeMu' \in {None} \cup {o \in Builders : At(o, "helper")' \/ At(o, "compile")'}
  <2>1. CASE mergeMu' = b
    BY <2>1 DEF At
  <2>2. CASE mergeMu' = mergeMu /\ mergeMu # b
    BY <1>1, <2>2 DEF At, CacheTypeOK
  <2> QED
    BY <2>1, <2>2
<1>8. CacheTypeOK'
  BY <1>1, <1>7 DEF CacheTypeOK
<1> QED
  BY <1>1, <1>4, <1>5, <1>6, <1>8 DEF BuildsAreSound

LEMMA BuildStepSound ==
  ASSUME BuildInv, NEW b \in Builders, BuildStep(b)
  PROVE  CacheTypeOK' /\ BuildsAreSound'
<1>1. /\ CacheTypeOK /\ Busy(b) /\ Of(b) \in Commits /\ call[b] \in Calls
      /\ call \in [Builders -> Calls \cup {NoCall}]
      /\ None \notin Builders /\ LayoutGen \in Packages
  BY StepIsLocal, AtIsACall, CacheAssumption DEF BuildInv, Busy, CacheTypeOK
<1>2. /\ tree \in [Commits -> {None, "part", "whole"}]
      /\ bins \in [Commits -> [Packages -> {None, "good", "bad"}]]
      /\ adapter \in [Commits -> {None, "empty"} \cup Recipes]
      /\ tools \in Nat /\ helper \in 0 .. tools /\ mergeBuilt \in BOOLEAN
      /\ mergeMu \in {None} \cup {o \in Builders : At(o, "helper") \/ At(o, "compile")}
  BY <1>1 DEF CacheTypeOK
<1>3. /\ At(b, "build") => tree[Of(b)] = "whole"
      /\ At(b, "helper") \/ At(b, "compile") <=> mergeMu = b
      /\ mergeBuilt => helper = tools
      /\ (At(b, "adapter") \/ At(b, "fill")) /\ By(b).merge => mergeBuilt
      /\ \A c \in Commits, p \in Packages : bins[c][p] # "bad"
  BY <1>1, <1>2 DEF BuildInv, BuildsAreSound
<1>4. ASSUME NEW pc, Goto(b, pc) PROVE call'[b].pc = pc
  <2>1. call'[b] = [call[b] EXCEPT !.pc = pc]
    BY <1>1, <1>4 DEF Goto
  <2> QED
    BY <1>1, <2>1 DEF Calls
<1>5. CASE Stat(b)
  <2>1. PICK pc \in {"ok", "export"} : call'[b].pc = pc
    BY <1>4, <1>5 DEF Stat
  <2>2. UNCHANGED <<tree, bins, adapter, helper, mergeBuilt, mergeMu>> /\ At(b, "stat")
    BY <1>5 DEF Stat, disk
  <2> QED
    BY <1>1, <1>2, <1>3, <2>1, <2>2, StepIsSound DEF At
<1>6. CASE ExportStart(b)
  <2>1. /\ call'[b].pc = "untar" /\ At(b, "export")
        /\ UNCHANGED <<bins, adapter, helper, mergeBuilt, mergeMu>>
        /\ tree' \in [Commits -> {None, "part", "whole"}]
        /\ \A c \in Commits : c # Of(b) => tree'[c] = tree[c]
    BY <1>1, <1>2, <1>4, <1>6 DEF ExportStart
  <2> QED
    BY <1>1, <1>2, <1>3, <2>1, StepIsSound DEF At
<1>7. CASE ExportEnd(b)
  <2>1. /\ call'[b].pc = "build" /\ At(b, "untar")
        /\ UNCHANGED <<bins, adapter, helper, mergeBuilt, mergeMu>>
        /\ tree' \in [Commits -> {None, "part", "whole"}] /\ tree'[Of(b)] = "whole"
        /\ \A c \in Commits : c # Of(b) => tree'[c] = tree[c]
    BY <1>1, <1>2, <1>4, <1>7 DEF ExportEnd
  <2> QED
    BY <1>1, <1>2, <1>3, <2>1, StepIsSound DEF At
<1>8. CASE BuildPackage(b)
  <2> DEFINE p == By(b).pkgs[call[b].n]
             done == call[b].n = Len(By(b).pkgs)
  <2>1. UNCHANGED <<tree, adapter, helper, mergeBuilt, mergeMu>> /\ At(b, "build") /\ tree[Of(b)] = "whole"
    BY <1>3, <1>8 DEF BuildPackage
  <2>2. CASE p \notin Compiles[Of(b)]
    <3>1. call'[b].pc = "failed" /\ bins' = bins
      BY <1>4, <1>8, <2>2 DEF BuildPackage
    <3> QED
      BY <1>1, <1>2, <1>3, <2>1, <3>1, StepIsSound DEF At
  <2>3. CASE p \in Compiles[Of(b)]
    <3>1. /\ bins' = [bins EXCEPT ![Of(b)][p] = "good"]
          /\ call' = [call EXCEPT ![b].n = @ + 1, ![b].pc = IF done THEN AfterPackages(b) ELSE "build"]
      BY <1>8, <2>1, <2>3 DEF BuildPackage
    <3>2. /\ bins' \in [Commits -> [Packages -> {None, "good", "bad"}]]
          /\ \A c \in Commits, q \in Packages : bins'[c][q] # "bad"
      BY <1>1, <1>2, <1>3, <3>1
    <3>3. PICK pc \in {"build", AfterPackages(b)} : call'[b].pc = pc
      <4>1. PICK pc \in {"build", AfterPackages(b)} : pc = IF done THEN AfterPackages(b) ELSE "build"
        OBVIOUS
      <4>2. call'[b] = [[call[b] EXCEPT !.n = call[b].n + 1] EXCEPT !.pc = pc]
        BY <1>1, <3>1, <4>1
      <4>3. call'[b].pc = pc
        BY <1>1, <4>2 DEF Calls
      <4> QED
        BY <4>3
    <3>4. /\ AfterPackages(b) \in {"lock", "adapter", "clean", "failed"}
          /\ AfterPackages(b) = "adapter" => ~By(b).merge
      BY DEF AfterPackages
    <3>5. pc \notin {"helper", "compile", "fill"} /\ (pc = "adapter" => ~By(b).merge)
      BY <3>3, <3>4
    <3> QED
      BY <1>1, <1>2, <1>3, <2>1, <3>2, <3>3, <3>5, StepIsSound DEF At
  <2> QED
    BY <2>2, <2>3
<1>9. CASE LockMerge(b)
  <2>1. /\ call'[b].pc = "helper" /\ At(b, "lock") /\ mergeMu = None /\ mergeMu' = b
        /\ UNCHANGED <<tree, bins, adapter, helper, mergeBuilt>>
    BY <1>4, <1>9 DEF LockMerge, disk
  <2> QED
    BY <1>1, <1>2, <1>3, <2>1, StepIsSound DEF At
<1>10. CASE EnsureMergeTool(b)
  <2>1. /\ At(b, "helper") /\ mergeMu = b
        /\ UNCHANGED <<tree, bins, adapter, helper, mergeBuilt>>
    BY <1>3, <1>10 DEF EnsureMergeTool, disk
  <2>2. CASE mergeBuilt
    <3>1. call'[b].pc = "adapter" /\ mergeMu' = None
      BY <1>4, <1>10, <2>2 DEF EnsureMergeTool
    <3> QED
      BY <1>1, <1>2, <1>3, <2>1, <2>2, <3>1, StepIsSound DEF At
  <2>3. CASE ~mergeBuilt
    <3>1. call'[b].pc = "compile" /\ mergeMu' = mergeMu
      BY <1>4, <1>10, <2>3 DEF EnsureMergeTool
    <3> QED
      BY <1>1, <1>2, <1>3, <2>1, <2>3, <3>1, StepIsSound DEF At
  <2> QED
    BY <2>2, <2>3
<1>11. CASE CompileHelper(b)
  <2>1. /\ call'[b].pc = "adapter" /\ At(b, "compile") /\ mergeMu = b /\ mergeMu' = None
        /\ helper' = tools /\ mergeBuilt' = TRUE
        /\ UNCHANGED <<tree, bins, adapter>>
    BY <1>3, <1>4, <1>11 DEF CompileHelper
  <2> QED
    BY <1>1, <1>2, <1>3, <2>1, StepIsSound DEF At
<1>12. CASE WriteAdapter(b)
  <2>1. /\ call'[b].pc = "fill" /\ At(b, "adapter")
        /\ adapter' \in [Commits -> {None, "empty"} \cup Recipes]
        /\ UNCHANGED <<tree, bins, helper, mergeBuilt, mergeMu>>
    BY <1>1, <1>2, <1>4, <1>12 DEF WriteAdapter
  <2> QED
    BY <1>1, <1>2, <1>3, <2>1, StepIsSound DEF At
<1>13. CASE FillAdapter(b)
  <2>1. call[b].r \in Recipes
    BY <1>1 DEF Calls, Busy, NoCall
  <2>2. /\ call'[b].pc = "clean" /\ At(b, "fill")
        /\ adapter' \in [Commits -> {None, "empty"} \cup Recipes]
        /\ UNCHANGED <<tree, bins, helper, mergeBuilt, mergeMu>>
    BY <1>1, <1>2, <1>4, <1>13, <2>1 DEF FillAdapter
  <2> QED
    BY <1>1, <1>2, <1>3, <2>2, StepIsSound DEF At
<1>14. CASE CleanUp(b)
  <2>1. /\ call'[b].pc = "ok" /\ At(b, "clean")
        /\ UNCHANGED <<bins, adapter, helper, mergeBuilt, mergeMu>>
        /\ tree' \in [Commits -> {None, "part", "whole"}]
        /\ \A c \in Commits : c # Of(b) => tree'[c] = tree[c]
    BY <1>1, <1>2, <1>4, <1>14 DEF CleanUp
  <2> QED
    BY <1>1, <1>2, <1>3, <2>1, StepIsSound DEF At
<1>15. CASE ExportFails(b)
  <2>1. /\ call'[b].pc = "failed" /\ At(b, "untar")
        /\ UNCHANGED <<tree, bins, adapter, helper, mergeBuilt, mergeMu>>
    BY <1>4, <1>15 DEF ExportFails, disk
  <2> QED
    BY <1>1, <1>2, <1>3, <2>1, StepIsSound DEF At
<1>16. CASE HelperFails(b)
  <2>1. /\ call'[b].pc = "failed" /\ At(b, "compile") /\ mergeMu = b /\ mergeMu' = None
        /\ UNCHANGED <<tree, bins, adapter, helper, mergeBuilt>>
    BY <1>3, <1>4, <1>16 DEF HelperFails, disk
  <2> QED
    BY <1>1, <1>2, <1>3, <2>1, StepIsSound DEF At
<1> QED
  BY <1>5, <1>6, <1>7, <1>8, <1>9, <1>10, <1>11, <1>12, <1>13, <1>14, <1>15, <1>16 DEF BuildStep

(* ---------------------------------------------------------------------- *)
(* The steps of a run. *)

\* Whoever is nowhere has no call.
LEMMA NowhereIsNoCall ==
  ASSUME CacheTypeOK, NEW b \in Builders, At(b, "none")
  PROVE  call[b] = NoCall
BY DEF CacheTypeOK, At, Calls

LEMMA BuildingInv == ASSUME BuildInv, NEW b \in Builders, Building(b) PROVE BuildInv'
<1>1. CacheTypeOK' /\ BuildsAreSound'
  BY BuildStepSound DEF Building
<1>2. /\ UNCHANGED <<phase, snaps, jobs>> /\ Busy(b) /\ CacheTypeOK
      /\ \A o \in Builders \ {b} : call'[o] = call[o]
      /\ Of(b)' = Of(b)
  BY StepIsLocal DEF Building, runVars, BuildInv
<1>3. call[b] # NoCall /\ phase \in {"build", "compare", "sweep"}
  BY <1>2 DEF Resting, Busy, NoCall, BuildInv, WhoBuilds
<1>4. WhoBuilds'
  <2>1. phase = "build" => b # Main /\ call'[Main] = call[Main]
    BY <1>2, <1>3, TimelineAssumption DEF WhoBuilds, BuildInv, Resting
  <2>2. phase \in {"compare", "sweep"} => b = Main /\ phase = "compare" /\ \A o \in Pool : call'[o] = call[o]
    BY <1>2, <1>3 DEF WhoBuilds, BuildInv, Resting, Pool
  <2>3. phase = "compare" => (InCompare /\ NewSnap.sha \in Commits /\ ~NewSnap.same)'
    BY <1>2, <1>3, <2>2 DEF WhoBuilds, BuildInv, InCompare, NewSnap, Building
  <2> QED
    BY <1>2, <1>3, <2>1, <2>2, <2>3 DEF WhoBuilds, BuildInv, Resting, Pool
<1>5. \A o \in Builders : Of(o)' = Of(o) /\ (Busy(o)' => Busy(o))
  BY <1>2 DEF Of, Busy
<1>6. NeverMeet'
  <2>1. Jobs(snaps)' = Jobs(snaps) /\ \A i : Held(snaps[i])' = Held(snaps[i])
    BY <1>2 DEF Jobs, Held
  <2> QED
    BY <1>2, <1>5, <2>1 DEF BuildInv, NeverMeet
<1> QED
  BY <1>1, <1>2, <1>4, <1>6 DEF BuildInv

\* A call begins, of a builder that rests, at a commit where no other one is.
LEMMA AskInv ==
  ASSUME BuildInv, NEW b \in Builders, At(b, "none"), NEW i \in DOMAIN snaps, snaps[i].sha \in Commits,
         Ask(b, snaps[i]), UNCHANGED <<disk, tools, mergeBuilt, mergeMu>>,
         \A o \in Builders : Busy(o) /\ Held(snaps[i]) => Of(o) # snaps[i].sha
  PROVE  /\ CacheTypeOK' /\ BuildsAreSound'
         /\ \A o \in Builders : o # b => call'[o] = call[o]
         /\ \A o, p \in Builders : Busy(o)' /\ Busy(p)' /\ Of(o)' = Of(p)' => o = p
         /\ Busy(b)' => Of(b)' = snaps[i].sha /\ Held(snaps[i])
<1> DEFINE new == [pc |-> IF Held(snaps[i]) THEN "stat" ELSE "failed", c |-> snaps[i].sha, r |-> snaps[i].recipe, n |-> 1]
<1>1. call' = [call EXCEPT ![b] = new]
  BY DEF Ask, Called
<1>2. snaps[i] \in Snapshot
  BY DEF BuildInv
<1>3. new \in Calls
  BY <1>2 DEF Calls, Snapshot
<1>4. /\ CacheTypeOK /\ call \in [Builders -> Calls \cup {NoCall}] /\ call[b].pc = "none"
  BY DEF BuildInv, CacheTypeOK, At
<1>5. call' \in [Builders -> Calls \cup {NoCall}] /\ call'[b] = new /\ \A o \in Builders : o # b => call'[o] = call[o]
  BY <1>1, <1>3, <1>4
<1>6. /\ call'[b].pc \in {"stat", "failed"} /\ call'[b].c = snaps[i].sha
      /\ Busy(b)' => Of(b)' = snaps[i].sha /\ Held(snaps[i])
  BY <1>5 DEF Of, Busy
<1> HIDE DEF new
<1>7. CacheTypeOK'
  BY <1>4, <1>5, <1>6 DEF CacheTypeOK, disk, At
<1>8. BuildsAreSound'
  <2>1. \A o \in Builders : o # b => Of(o)' = Of(o) /\ By(o)' = By(o)
    BY <1>5 DEF Of, By
  <2>2. \A x : At(b, x)' => x \in {"stat", "failed"}
    BY <1>6 DEF At
  <2>3. \A o \in Builders : \A x : o # b => (At(o, x)' <=> At(o, x))
    BY <1>5 DEF At
  <2> QED
    BY <2>1, <2>2, <2>3 DEF BuildInv, BuildsAreSound, disk
<1>9. \A o, p \in Builders : Busy(o)' /\ Busy(p)' /\ Of(o)' = Of(p)' => o = p
  <2>1. \A o \in Builders : o # b => (Busy(o)' <=> Busy(o)) /\ Of(o)' = Of(o)
    BY <1>5 DEF Busy, Of
  <2> QED
    BY <1>6, <2>1 DEF BuildInv, NeverMeet
<1> QED
  BY <1>5, <1>6, <1>7, <1>8, <1>9

LEMMA TakeJobInv == ASSUME BuildInv, NEW w \in Pool, TakeJob(w) PROVE BuildInv'
<1>1. /\ phase = "build" /\ At(w, "none") /\ w \in Builders /\ w # Main /\ Main \in Builders
      /\ UNCHANGED <<phase, snaps, disk, tools, mergeBuilt, mergeMu>>
  BY TimelineAssumption DEF TakeJob, Pool, runVars
<1>2. PICK i \in jobs : Ask(w, snaps[i]) /\ jobs' = jobs \ {i}
  BY DEF TakeJob
<1>3. jobs \subseteq Jobs(snaps) /\ snaps \in Seq(Snapshot)
  BY <1>1 DEF BuildInv, NeverMeet
<1>4. i \in DOMAIN snaps /\ snaps[i].sha \in Commits
  BY <1>2, <1>3 DEF Jobs
<1>5. \A o \in Builders : Busy(o) /\ Held(snaps[i]) => Of(o) # snaps[i].sha
  BY <1>1, <1>2 DEF BuildInv, NeverMeet
<1>6. /\ CacheTypeOK' /\ BuildsAreSound'
      /\ \A o \in Builders : o # w => call'[o] = call[o]
      /\ \A o, p \in Builders : Busy(o)' /\ Busy(p)' /\ Of(o)' = Of(p)' => o = p
      /\ Busy(w)' => Of(w)' = snaps[i].sha /\ Held(snaps[i])
  BY <1>1, <1>2, <1>4, <1>5, AskInv
<1>7. WhoBuilds'
  BY <1>1, <1>6 DEF BuildInv, WhoBuilds, Resting
<1>8. ASSUME NEW o \in Builders, NEW k \in jobs', Busy(o)', Held(snaps[k]) PROVE Of(o)' # snaps[k].sha
  <2>1. CASE o # w
    BY <1>1, <1>2, <1>6, <1>8, <2>1 DEF BuildInv, NeverMeet, Busy, Of
  <2>2. CASE o = w /\ snaps[k].sha = snaps[i].sha
    <3>1. k \in Jobs(snaps) /\ i \in Jobs(snaps) /\ k # i /\ k \in Nat /\ i \in Nat
      BY <1>2, <1>3 DEF Jobs
    <3>2. snaps[k].repo = snaps[i].repo
      BY <1>4, <1>6, <1>8, <2>2, LineagesAssumption DEF Held
    <3>3. k \in 1 .. i - 1 \/ i \in 1 .. k - 1
      BY <1>3, <3>1 DEF Jobs
    <3> QED
      BY <2>2, <3>1, <3>2, <3>3 DEF Jobs
  <2> QED
    BY <1>6, <1>8, <2>1, <2>2
<1>9. NeverMeet'
  <2>1. jobs' \subseteq Jobs(snaps)'
    BY <1>1, <1>2, <1>3 DEF Jobs
  <2>2. \A k : Held(snaps[k])' = Held(snaps[k]) /\ snaps'[k] = snaps[k]
    BY <1>1 DEF Held
  <2> QED
    BY <1>6, <1>8, <2>1, <2>2 DEF NeverMeet
<1> QED
  BY <1>1, <1>3, <1>6, <1>7, <1>9 DEF BuildInv

LEMMA AskEngineInv == BuildInv /\ AskEngine => BuildInv'
<1> SUFFICES ASSUME BuildInv, AskEngine PROVE BuildInv'
  OBVIOUS
<1> DEFINE i == Len(weeks) + 1
<1>1. /\ phase = "compare" /\ At(Main, "none") /\ Main \in Builders /\ snaps[i].sha \in Commits
      /\ Ask(Main, snaps[i]) /\ UNCHANGED <<phase, snaps, jobs, disk, tools, mergeBuilt, mergeMu>>
  BY TimelineAssumption DEF AskEngine, InCompare, NewSnap, runVars
<1>2. i \in DOMAIN snaps
  BY DEF AskEngine, InCompare, BuildInv
<1>3. \A o \in Builders : ~Busy(o)
  BY <1>1 DEF BuildInv, WhoBuilds, Resting, Pool, Busy, At, NoCall
<1> HIDE DEF i
<1>4. /\ CacheTypeOK' /\ BuildsAreSound'
      /\ \A o \in Builders : o # Main => call'[o] = call[o]
      /\ \A o, p \in Builders : Busy(o)' /\ Busy(p)' /\ Of(o)' = Of(p)' => o = p
  BY <1>1, <1>2, <1>3, AskInv
<1>5. WhoBuilds'
  <2>1. (InCompare /\ NewSnap.sha \in Commits /\ ~NewSnap.same)'
    BY <1>1 DEF AskEngine, InCompare, NewSnap, runVars
  <2> QED
    BY <1>1, <1>4, <2>1 DEF BuildInv, WhoBuilds, Resting, Pool
<1>6. NeverMeet'
  BY <1>1, <1>4 DEF NeverMeet
<1> QED
  BY <1>1, <1>4, <1>5, <1>6 DEF BuildInv

\* A call ends: its builder rests again.
LEMMA CallEnds ==
  ASSUME BuildInv, NEW b \in Builders, ~Busy(b), call' = [call EXCEPT ![b] = NoCall],
         UNCHANGED <<disk, tools, mergeBuilt, mergeMu, snaps, jobs>>,
         phase \in {"build", "compare", "sweep"}, phase' \in {phase, "compare"},
         b = Main => phase # "build",
         b # Main => phase = "build" /\ phase' = phase
  PROVE  BuildInv'
<1>1. /\ CacheTypeOK /\ call' \in [Builders -> Calls \cup {NoCall}] /\ call'[b] = NoCall
      /\ \A o \in Builders \ {b} : call'[o] = call[o]
  BY DEF BuildInv, CacheTypeOK
<1>2. CacheTypeOK'
  BY <1>1 DEF CacheTypeOK, disk, At, NoCall, Busy
<1>3. BuildsAreSound'
  <2>1. \A o \in Builders \ {b} : Of(o)' = Of(o) /\ By(o)' = By(o)
    BY <1>1 DEF Of, By
  <2> QED
    BY <1>1, <2>1 DEF BuildInv, BuildsAreSound, disk, At, NoCall
<1>4. \A o \in Builders : Busy(o)' => Busy(o) /\ Of(o)' = Of(o)
  BY <1>1 DEF Busy, NoCall, Of
<1>5. NeverMeet'
  <2>1. Jobs(snaps)' = Jobs(snaps) /\ \A k : Held(snaps[k])' = Held(snaps[k])
    BY DEF Jobs, Held
  <2> QED
    BY <1>4, <2>1 DEF BuildInv, NeverMeet
<1>6. WhoBuilds'
  <2>1. CASE b = Main
    BY <1>1, <2>1 DEF BuildInv, WhoBuilds, Resting, Pool, Busy, NoCall
  <2>2. CASE b # Main
    BY <1>1, <2>2 DEF BuildInv, WhoBuilds, Resting, Pool
  <2> QED
    BY <2>1, <2>2
<1> QED
  BY <1>2, <1>3, <1>5, <1>6 DEF BuildInv

\* Nothing of the cache moves, and nobody is left building who may not.
LEMMA CacheRests ==
  ASSUME BuildInv, cacheVars' = cacheVars, snaps' = snaps,
         phase' = "build" => phase = "build" /\ jobs' = jobs,
         phase' \in {"compare", "sweep"} => Resting(Pool),
         phase' = "sweep" => ~Busy(Main),
         phase' = "compare" => call[Main] = NoCall \/ (phase = "compare" /\ weeks' = weeks),
         phase' \notin {"build", "compare", "sweep"} => Resting(Builders),
         phase' = "off" => phase = "off"
  PROVE  BuildInv'
<1>1. CacheTypeOK' /\ BuildsAreSound'
  BY DEF BuildInv, CacheTypeOK, BuildsAreSound, cacheVars, disk, process, At, Of, By
<1>2. /\ \A o \in Builders : (Busy(o)' <=> Busy(o)) /\ Of(o)' = Of(o)
      /\ \A bs : Resting(bs)' <=> Resting(bs)
      /\ Jobs(snaps)' = Jobs(snaps) /\ \A k : Held(snaps[k])' = Held(snaps[k])
  BY DEF cacheVars, process, Busy, Of, Resting, Jobs, Held
<1>3. NeverMeet'
  BY <1>2 DEF BuildInv, NeverMeet
<1>4. WhoBuilds'
  <2>1. ASSUME phase' = "compare", call'[Main] # NoCall
        PROVE  (InCompare /\ NewSnap.sha \in Commits /\ ~NewSnap.same)'
    BY <2>1 DEF BuildInv, WhoBuilds, cacheVars, process, InCompare, NewSnap
  <2>2. phase' = "sweep" => ~Busy(Main)'
    BY <1>2, TimelineAssumption
  <2>3. phase' = "off" => ~mergeBuilt' /\ mergeMu' = None
    BY DEF BuildInv, WhoBuilds, cacheVars, process
  <2>4. phase' = "build" => Resting({Main})'
    BY <1>2 DEF BuildInv, WhoBuilds
  <2> QED
    BY <1>2, <2>1, <2>2, <2>3, <2>4 DEF WhoBuilds
<1> QED
  BY <1>1, <1>3, <1>4 DEF BuildInv

\* The process is gone: nobody builds.
LEMMA ProcessGoneInv ==
  ASSUME BuildInv, ProcessGone, UNCHANGED <<disk, tools, snaps>>, phase' = "off"
  PROVE  BuildInv'
<1>1. \A b \in Builders : call'[b] = NoCall /\ call'[b].pc = "none"
  BY DEF ProcessGone, NoCall
<1>2. CacheTypeOK'
  BY DEF BuildInv, CacheTypeOK, ProcessGone, disk
<1>3. BuildsAreSound'
  BY <1>1 DEF BuildInv, BuildsAreSound, ProcessGone, disk, At
<1>4. WhoBuilds' /\ NeverMeet'
  BY <1>1 DEF WhoBuilds, NeverMeet, Resting, Busy, ProcessGone
<1> QED
  BY <1>2, <1>3, <1>4 DEF BuildInv

LEMMA StartRunInv == BuildInv /\ StartRun => BuildInv'
<1> SUFFICES ASSUME BuildInv, StartRun PROVE BuildInv'
  OBVIOUS
<1>1. /\ Resting(Builders) /\ ~mergeBuilt /\ mergeMu = None
      /\ UNCHANGED <<tree, bins, adapter, helper, mergeBuilt, mergeMu, call>>
      /\ phase' = "build" /\ jobs' = Jobs(snaps') /\ snaps' \in Plans /\ tools' \in {tools, tools + 1}
  BY DEF BuildInv, WhoBuilds, StartRun, disk, process
<1>2. \A b \in Builders : call'[b] = NoCall /\ call'[b].pc = "none"
  BY <1>1 DEF Resting, NoCall
<1>3. snaps' \in Seq(Snapshot)
  BY <1>1, TimelineAssumption DEF Plans
<1>4. CacheTypeOK'
  BY <1>1 DEF BuildInv, CacheTypeOK
<1>5. BuildsAreSound'
  BY <1>1, <1>2 DEF BuildInv, BuildsAreSound, At
<1>6. WhoBuilds'
  BY <1>1, <1>2, TimelineAssumption DEF WhoBuilds, Resting
<1>7. NeverMeet'
  <2>1. Jobs(snaps)' = Jobs(snaps')
    BY DEF Jobs
  <2> QED
    BY <1>1, <1>2, <2>1 DEF NeverMeet, Busy
<1> QED
  BY <1>3, <1>4, <1>5, <1>6, <1>7 DEF BuildInv

LEMMA BuildInvInit == Init => BuildInv
<1> SUFFICES ASSUME Init PROVE BuildInv
  OBVIOUS
<1>1. /\ \A b \in Builders : call[b] = NoCall /\ call[b].pc = "none"
      /\ call \in [Builders -> Calls \cup {NoCall}]
  BY DEF Init, CacheInit, NoCall
<1>2. CacheTypeOK
  <2>1. /\ tree \in [Commits -> {None, "part", "whole"}]
        /\ bins \in [Commits -> [Packages -> {None, "good", "bad"}]]
        /\ adapter \in [Commits -> {None, "empty"} \cup Recipes]
    BY DEF Init, CacheInit
  <2>2. helper = 0 /\ tools = 1 /\ mergeBuilt = FALSE /\ mergeMu = None
    BY DEF Init, CacheInit
  <2>3. tools \in Nat /\ helper \in 0 .. tools
    BY <2>2
  <2>5. mergeBuilt \in BOOLEAN
    BY <2>2, Zenon
  <2>4. mergeMu \in {None} \cup {b \in Builders : At(b, "helper") \/ At(b, "compile")}
    BY <2>2
  <2> QED
    BY <1>1, <2>1, <2>3, <2>4, <2>5, Zenon DEF CacheTypeOK
<1>3. BuildsAreSound
  <2>1. \A c \in Commits, p \in Packages : bins[c][p] # "bad"
    BY DEF Init, CacheInit, None
  <2>2. \A b \in Builders : \A pc : At(b, pc) => pc = "none"
    BY <1>1 DEF At
  <2>3. ~mergeBuilt
    BY DEF Init, CacheInit
  <2> QED
    BY <2>1, <2>2, <2>3 DEF BuildsAreSound
<1>4. WhoBuilds /\ NeverMeet
  BY <1>1 DEF Init, CacheInit, WhoBuilds, NeverMeet, Resting, Busy
<1> QED
  BY <1>2, <1>3, <1>4 DEF Init, BuildInv

LEMMA BuildInvStep == BuildInv /\ [Next]_vars => BuildInv'
<1> SUFFICES ASSUME BuildInv, [Next]_vars PROVE BuildInv'
  OBVIOUS
<1>1. /\ phase = "off" => Resting(Builders)
      /\ phase \in {"compare", "sweep"} => Resting(Pool)
      /\ phase \notin {"build", "compare", "sweep"} => Resting(Builders)
      /\ phase = "sweep" => ~Busy(Main)
      /\ phase = "compare" /\ call[Main] # NoCall => InCompare /\ NewSnap.sha \in Commits /\ ~NewSnap.same
      /\ Main \in Builders /\ {Workdir, NoSHA} \cap Commits = {}
  BY TimelineAssumption DEF BuildInv, WhoBuilds
<1>2. CASE UNCHANGED vars
  BY <1>1, <1>2, CacheRests DEF vars, runVars
<1>3. CASE List
  BY <1>1, <1>3, CacheRests DEF List
<1>4. CASE StartRun
  BY <1>4, StartRunInv
<1>5. ASSUME NEW b \in Builders, Building(b) PROVE BuildInv'
  BY <1>5, BuildingInv
<1>6. ASSUME NEW w \in Pool, TakeJob(w) PROVE BuildInv'
  BY <1>6, TakeJobInv
<1>7. ASSUME NEW w \in Pool, JobDone(w) PROVE BuildInv'
  BY <1>7, CallEnds DEF JobDone, Pool, runVars, Busy, At
<1>8. CASE BuildAllDone
  <2>1. Resting(Pool) /\ call[Main] = NoCall /\ phase = "build" /\ phase' = "compare"
    BY <1>8, NowhereIsNoCall DEF BuildAllDone, Resting, Pool, BuildInv, WhoBuilds
  <2> QED
    BY <1>8, <2>1, CacheRests DEF BuildAllDone, runVars
<1>9. CASE SkipColumn
  <2>1. call[Main] = NoCall /\ phase = "compare"
    BY <1>1, <1>9 DEF SkipColumn, InCompare
  <2>2. phase' = "compare" /\ cacheVars' = cacheVars /\ snaps' = snaps
    BY <2>1, <1>9 DEF SkipColumn, runVars
  <2>3. Resting(Pool)
    BY <1>1, <2>1
  <2> QED
    BY <2>1, <2>2, <2>3, CacheRests
<1>10. CASE AskEngine
  BY <1>10, AskEngineInv
<1>11. CASE NoEngine
  <2>1. /\ phase = "compare" /\ phase' = "compare" /\ call' = [call EXCEPT ![Main] = NoCall] /\ ~Busy(Main)
        /\ UNCHANGED <<disk, tools, mergeBuilt, mergeMu, snaps, jobs>>
    BY <1>11 DEF NoEngine, runVars, Busy, At
  <2> QED
    BY <1>1, <2>1, CallEnds
<1>12. CASE BuildWorkdir
  <2>1. call[Main] = NoCall /\ phase = "compare"
    BY <1>1, <1>12 DEF BuildWorkdir, InCompare
  <2>2. phase' \in {"compare", "sweep"} /\ cacheVars' = cacheVars /\ snaps' = snaps /\ ~Busy(Main)
    BY <2>1, <1>12 DEF BuildWorkdir, runVars, Busy, NoCall
  <2>3. Resting(Pool)
    BY <1>1, <2>1
  <2> QED
    BY <2>1, <2>2, <2>3, CacheRests
<1>13. CASE StartSweep
  BY <1>1, <1>13, CacheRests DEF StartSweep, runVars, Busy, At
<1>14. ASSUME NEW d \in Ids, SweepDiagram(d) PROVE BuildInv'
  BY <1>1, <1>14, CacheRests DEF SweepDiagram, runVars
<1>15. CASE SweepDone
  <2>1. /\ phase = "sweep" /\ phase' = "compare" /\ call' = [call EXCEPT ![Main] = NoCall]
        /\ UNCHANGED <<disk, tools, mergeBuilt, mergeMu, snaps, jobs>> /\ ~Busy(Main)
    BY <1>1, <1>15 DEF SweepDone, runVars
  <2> QED
    BY <1>1, <2>1, CallEnds
<1>16. CASE CompareDone
  <2>1. Resting(Builders)
    BY <1>1, <1>16, NowhereIsNoCall DEF CompareDone, Resting, Pool, BuildInv
  <2> QED
    BY <1>16, <2>1, CacheRests DEF CompareDone, runVars
<1>17. CASE PutPane \/ RemoveOrphan
  BY <1>1, <1>17, CacheRests DEF PutPane, RemoveOrphan, runVars
<1>18. CASE PanesDone \/ PruneDone \/ ClearPages
  BY <1>1, <1>18, CacheRests DEF PanesDone, PruneDone, ClearPages, runVars
<1>19. CASE WritePages
  BY <1>19, ProcessGoneInv DEF WritePages, runVars
<1>20. ASSUME NEW d \in Ids, EditDiagram(d) PROVE BuildInv'
  BY <1>1, <1>20, CacheRests DEF EditDiagram, runVars
<1>21. CASE Crash
  BY <1>21, ProcessGoneInv DEF Crash, runVars
<1> QED
  BY <1>2, <1>3, <1>4, <1>5, <1>6, <1>7, <1>8, <1>9, <1>10, <1>11, <1>12, <1>13, <1>14, <1>15, <1>16, <1>17, <1>18,
     <1>19, <1>20, <1>21 DEF Next, Progress

\* What the goroutines of a run build in the shared cache is sound (pkg/layoutaudit/engine.go), at every step.
THEOREM BuildInvariant == Spec => []BuildInv
<1>1. Init => BuildInv
  BY BuildInvInit
<1>2. BuildInv /\ [Next]_vars => BuildInv'
  BY BuildInvStep
<1> QED
  BY <1>1, <1>2, PTL DEF Spec

\* No binary comes of a source another builder replaces, no two compile the helper at once, and no adapter is
\* written while the helper it names is not today's (engine.go:303-310).
THEOREM BuildersNeverMeet == Spec => []BuildersDoNotMeet
<1>1. BuildInv => BuildersDoNotMeet
  BY DEF BuildInv, BuildsAreSound, BuildersDoNotMeet
<1> QED
  BY <1>1, BuildInvariant, PTL

(* ---------------------------------------------------------------------- *)
(* The report. *)

LEMMA RefsOfWeeks == weeks' = weeks => Refs' = Refs
BY DEF Refs, Shown, Befores, Picture

LEMMA ReportInvStep == ReportInv /\ [Next]_vars => ReportInv'
<1> SUFFICES ASSUME ReportInv, [Next]_vars PROVE ReportInv'
  OBVIOUS
<1> DEFINE writing(ph) == ph \in {"prune", "clear", "pages"}
<1>1. /\ phase # "off" => ~whole
      /\ writing(phase) => Refs \subseteq pool
      /\ phase = "off" /\ whole => pages \subseteq pool
  BY DEF ReportInv, ReportIsServed
<1>2. ASSUME weeks' = weeks, phase' = phase, pool' = pool, pages' = pages, whole' = whole PROVE ReportInv'
  BY <1>1, <1>2, RefsOfWeeks DEF ReportInv, ReportIsServed
<1>3. ASSUME phase # "off", phase' # "off", ~writing(phase'), whole' = whole PROVE ReportInv'
  BY <1>1, <1>3 DEF ReportInv, ReportIsServed
<1> HIDE DEF writing
<1>4. CASE UNCHANGED vars
  BY <1>2, <1>4 DEF vars, report, ending
<1>5. CASE List
  BY <1>2, <1>5 DEF List, report, ending
<1>6. CASE StartRun
  BY <1>6 DEF StartRun, ReportInv, ReportIsServed
<1>7. CASE \E b \in Builders : Building(b)
  BY <1>2, <1>7 DEF Building, report, ending
<1>8. CASE \E w \in Pool : TakeJob(w) \/ JobDone(w)
  BY <1>2, <1>8 DEF TakeJob, JobDone, report, ending
<1>9. CASE AskEngine \/ (\E d \in Ids : SweepDiagram(d)) \/ (\E d \in Ids : EditDiagram(d))
  BY <1>2, <1>9 DEF AskEngine, SweepDiagram, EditDiagram, report, ending
<1>10. CASE BuildAllDone \/ SkipColumn \/ NoEngine \/ BuildWorkdir \/ StartSweep \/ SweepDone \/ CompareDone
  <2>1. phase \in {"build", "compare", "sweep"} /\ phase' \in {"compare", "sweep", "panes"} /\ whole' = whole
    BY <1>10 DEF BuildAllDone, SkipColumn, NoEngine, BuildWorkdir, StartSweep, SweepDone, CompareDone, InCompare,
                 ending
  <2> QED
    BY <1>3, <2>1 DEF writing
<1>11. CASE PutPane
  BY <1>3, <1>11 DEF PutPane, ending, writing
<1>12. CASE PanesDone
  BY <1>1, <1>12, RefsOfWeeks DEF PanesDone, report, ending, ReportInv, ReportIsServed
<1>13. CASE RemoveOrphan
  <2>1. PICK p \in Orphans : pool' = pool \ {p}
    BY <1>13 DEF RemoveOrphan
  <2>2. p \notin Refs
    BY DEF Orphans
  <2>3. phase = "prune" /\ phase' = phase /\ weeks' = weeks /\ whole' = whole
    BY <1>13 DEF RemoveOrphan, ending
  <2> QED
    BY <1>1, <2>1, <2>2, <2>3, RefsOfWeeks DEF ReportInv, ReportIsServed, writing
<1>14. CASE PruneDone \/ ClearPages
  <2>1. /\ phase \in {"prune", "clear"} /\ phase' \in {"clear", "pages"}
        /\ weeks' = weeks /\ whole' = whole /\ pool' = pool
    BY <1>14 DEF PruneDone, ClearPages, report, ending
  <2> QED
    BY <1>1, <2>1, RefsOfWeeks DEF ReportInv, ReportIsServed, writing
<1>15. CASE WritePages
  <2>1. phase = "pages" /\ phase' = "off" /\ pages' = Refs /\ pool' = pool
    BY <1>15 DEF WritePages
  <2> QED
    BY <1>1, <2>1 DEF ReportInv, ReportIsServed, writing
<1>16. CASE Crash
  <2>1. phase # "off" /\ phase' = "off" /\ whole' = whole
    BY <1>16 DEF Crash
  <2> QED
    BY <1>1, <2>1 DEF ReportInv, ReportIsServed
<1> QED
  BY <1>4, <1>5, <1>6, <1>7, <1>8, <1>9, <1>10, <1>11, <1>12, <1>13, <1>14, <1>15, <1>16 DEF Next, Progress

\* What the pages of a finished report refer to is in the pool of pictures: a later run prunes what it does not
\* show itself, and only after its own pictures are in (gallery.go, main.go prunePanes).
THEOREM ReportsAreServed == Spec => []ReportIsServed
<1>1. Init => ReportInv
  BY DEF Init, ReportInv, ReportIsServed
<1>2. ReportInv /\ [Next]_vars => ReportInv'
  BY ReportInvStep
<1>3. ReportInv => ReportIsServed
  BY DEF ReportInv
<1> QED
  BY <1>1, <1>2, <1>3, PTL DEF Spec

(* ---------------------------------------------------------------------- *)
(* The columns. *)

\* Nothing of the columns changes.
LEMMA HistoryRests ==
  ASSUME HistoryInv, weeks' = weeks, cap' = cap, prevAt' = prevAt, snaps' = snaps,
         phase' = "sweep" => phase = "sweep" \/ (Len(weeks) < Len(snaps) /\ NewSnap.sha # NoSHA)
  PROVE  HistoryInv'
<1>1. \A k : Swept(k)' = Swept(k)
  BY DEF Swept
<1>2. \A j, k : NewestSwept(j, k)' = NewestSwept(j, k)
  BY <1>1 DEF NewestSwept
<1>3. \A k : Compared(k)' = Compared(k)
  BY DEF Compared, Moved
<1> QED
  BY <1>1, <1>2, <1>3 DEF HistoryInv, NewSnap

\* A column is added.
LEMMA HistoryGrows ==
  ASSUME HistoryInv, weeks \in Seq(Column1), NEW w \in Column1, weeks' = Append(weeks, w), cap' = cap,
         prevAt \in 0 .. Len(weeks), phase' # "sweep",
         IF w.swept
         THEN /\ prevAt' = Len(weeks) + 1 /\ w.against = prevAt /\ w.gen \in [Ids -> Results]
              /\ IF prevAt = 0 THEN w.rows = <<>> /\ w.drawn = (IF cap = 0 THEN {} ELSE Ids)
                 ELSE w.rows = [d \in Ids |-> Status(weeks[prevAt].gen[d], w.gen[d])] /\ w.drawn \subseteq Moved(w)
         ELSE prevAt' = prevAt /\ w.rows = <<>> /\ w.drawn = {}
  PROVE  HistoryInv'
<1>0. PICK n \in Nat : n = Len(weeks)
  OBVIOUS
<1>1. /\ Len(weeks) = n /\ Len(weeks') = n + 1 /\ weeks' \in Seq(Column1)
      /\ DOMAIN weeks = 1 .. n /\ DOMAIN weeks' = 1 .. n + 1
      /\ weeks'[n + 1] = w /\ \A k \in 1 .. n : weeks'[k] = weeks[k]
  BY <1>0
<1>2. (\A k \in 1 .. n : Swept(k)' = Swept(k)) /\ Swept(n + 1)' = w.swept
  BY <1>1 DEF Swept
<1>3. \A k \in 1 .. n + 1 : \A j \in 0 .. n : NewestSwept(j, k)' <=> NewestSwept(j, k)
  <2> SUFFICES ASSUME NEW k \in 1 .. n + 1, NEW j \in 0 .. n PROVE NewestSwept(j, k)' <=> NewestSwept(j, k)
    OBVIOUS
  <2>1. j # 0 /\ j \in 1 .. k - 1 => (Swept(j)' <=> Swept(j))
    BY <1>1, <1>2
  <2>2. \A i \in j + 1 .. k - 1 : i \in 1 .. n
    BY <1>1
  <2>3. \A i \in j + 1 .. k - 1 : Swept(i)' <=> Swept(i)
    BY <1>2, <2>2
  <2> QED
    BY <2>1, <2>3 DEF NewestSwept
<1>4. ASSUME NEW k \in 1 .. n, Swept(k) PROVE (weeks[k].gen \in [Ids -> Results] /\ NewestSwept(weeks[k].against, k) /\ Compared(k))'
  <2>1. weeks[k].gen \in [Ids -> Results] /\ NewestSwept(weeks[k].against, k) /\ Compared(k)
    BY <1>1, <1>4 DEF HistoryInv
  <2>2. weeks[k].against \in 0 .. n
    BY <1>1, <2>1 DEF NewestSwept
  <2>3. weeks'[k] = weeks[k] /\ NewestSwept(weeks[k].against, k)'
    <3>1. weeks'[k] = weeks[k]
      BY <1>1
    <3>2. PICK j \in 0 .. n : j = weeks[k].against
      BY <2>2
    <3>3. NewestSwept(j, k)'
      BY <1>3, <2>1, <3>2
    <3> QED
      BY <3>1, <3>2, <3>3
  <2>4. weeks[k].against # 0 => weeks'[weeks[k].against] = weeks[weeks[k].against]
    BY <1>1, <2>2
  <2>5. Compared(k)'
    BY <2>1, <2>3, <2>4 DEF Compared, Moved
  <2> QED
    BY <2>1, <2>3, <2>5
<1>5. CASE w.swept
  <2>1. NewestSwept(prevAt, Len(weeks) + 1)'
    <3>0. prevAt' = Len(weeks) + 1
      BY <1>5, Zenon
    <3>1. Swept(n + 1)'
      BY <1>2, <1>5, Zenon
    <3>2. prevAt' = n + 1 /\ n + 1 \in 1 .. Len(weeks') /\ Len(weeks') + 1 = n + 2
      BY <1>1, <3>0
    <3> QED
      BY <1>1, <3>1, <3>2 DEF NewestSwept
  <2>2. NewestSwept(weeks[n + 1].against, n + 1)'
    <3>1. PICK j \in 0 .. n : j = prevAt /\ j = weeks'[n + 1].against
      BY <1>1, <1>5
    <3>2. NewestSwept(j, n + 1)'
      BY <1>1, <1>3, <3>1 DEF HistoryInv
    <3> QED
      BY <3>1, <3>2
  <2>3. Compared(n + 1)'
    BY <1>1, <1>5 DEF Compared, Moved
  <2>4. \A k \in 1 .. n : ~Swept(k) => weeks'[k].rows = <<>> /\ weeks'[k].drawn = {}
    BY <1>1 DEF HistoryInv
  <2>5. weeks'[n + 1].gen \in [Ids -> Results] /\ Swept(n + 1)'
    BY <1>1, <1>2, <1>5
  <2>6. ASSUME NEW k \in DOMAIN weeks'
        PROVE  IF Swept(k)' THEN (weeks[k].gen \in [Ids -> Results] /\ NewestSwept(weeks[k].against, k) /\ Compared(k))'
               ELSE weeks'[k].rows = <<>> /\ weeks'[k].drawn = {}
    <3>1. CASE k \in 1 .. n
      BY <1>2, <1>4, <2>4, <3>1
    <3>2. CASE k = n + 1
      BY <2>2, <2>3, <2>5, <3>2
    <3> QED
      BY <1>1, <3>1, <3>2
  <2> QED
    BY <2>1, <2>6 DEF HistoryInv
<1>6. CASE ~w.swept
  <2>1. NewestSwept(prevAt, n + 1)'
    <3>1. PICK j \in 0 .. n : j = prevAt /\ j = prevAt'
      BY <1>1, <1>6
    <3>2. NewestSwept(j, n + 1)'
      BY <1>1, <1>3, <3>1 DEF HistoryInv
    <3> QED
      BY <3>1, <3>2
  <2>2. NewestSwept(prevAt, Len(weeks) + 1)'
    BY <1>1, <1>2, <1>6, <2>1 DEF NewestSwept
  <2>4. \A k \in 1 .. n : ~Swept(k) => weeks'[k].rows = <<>> /\ weeks'[k].drawn = {}
    BY <1>1 DEF HistoryInv
  <2> QED
    BY <1>1, <1>2, <1>4, <1>6, <2>2, <2>4 DEF HistoryInv
<1> QED
  BY <1>5, <1>6

\* A column nothing was swept for has no rows, and nothing is drawn for it.
LEMMA BlankColumns ==
  ASSUME NEW note \in {"none_yet", "same", "unbuildable"}
  PROVE  Blank(note) \in Column1 /\ ~Blank(note).swept /\ Blank(note).rows = <<>> /\ Blank(note).drawn = {}
BY DEF Blank, Column1

\* An engine gives layouts.
LEMMA RunsGiveResults ==
  ASSUME BuildInv, TypeOK, HistoryInv, phase = "sweep", NEW d \in Ids
  PROVE  Runs(d) \subseteq Results
<1>1. NewSnap.sha \in Commits \cup {Workdir}
  <2>1. Len(weeks) \in Nat /\ Len(snaps) \in Nat /\ DOMAIN snaps = 1 .. Len(snaps) /\ Len(weeks) < Len(snaps)
    BY DEF TypeOK, HistoryInv
  <2>2. NewSnap \in Snapshot
    BY <2>1 DEF TypeOK, NewSnap
  <2> QED
    BY <2>2 DEF HistoryInv, Snapshot
<1>2. Lays[NewSnap.sha][d][text[d]] \subseteq Results /\ 0 \in Results
  BY <1>1, TimelineAssumption DEF TypeOK
<1> QED
  BY <1>2 DEF Runs

\* The column of a sweep.
LEMMA SweptColumn ==
  ASSUME TypeOK, HistoryInv, SweepDone
  PROVE  \E w \in Column1 :
           /\ weeks' = Append(weeks, w)
           /\ w.swept /\ w.against = prevAt /\ w.gen \in [Ids -> Results]
           /\ \A d \in Ids : w.gen[d] = sweep[d].r /\ w.texts[d] = sweep[d].t
           /\ IF prevAt = 0 THEN w.rows = <<>> /\ w.drawn = (IF cap = 0 THEN {} ELSE Ids)
              ELSE w.rows = [d \in Ids |-> Status(weeks[prevAt].gen[d], w.gen[d])] /\ w.drawn \subseteq Moved(w)
<1> DEFINE first == Against = 0
           rows == IF first THEN <<>> ELSE [d \in Ids |-> Status(weeks[Against].gen[d], sweep[d].r)]
           gen == [d \in Ids |-> sweep[d].r]
           texts == [d \in Ids |-> sweep[d].t]
           w0(shaky) == [Blank("first") EXCEPT !.swept = TRUE, !.gen = gen, !.texts = texts, !.shaky = shaky,
                           !.against = Against, !.rows = rows,
                           !.notes = (IF first THEN {"first"} ELSE {}) \cup (IF shaky THEN {"shaky"} ELSE {})]
           w1(shaky) == [w0(shaky) EXCEPT !.drawn = IF ~first THEN DrawnRows(w0(shaky)) ELSE IF cap = 0 THEN {} ELSE Ids,
                           !.notes = IF first THEN @ ELSE QuietNote(w0(shaky))]
<1>1. \A d \in Ids : sweep[d] \in [r : Results, t : 0 .. MaxEdits]
  BY DEF SweepDone, TypeOK
<1>2. PICK shaky \in BOOLEAN : weeks' = Append(weeks, w1(shaky))
  BY DEF SweepDone, Column
<1>3. /\ gen \in [Ids -> Results] /\ texts \in [Ids -> 0 .. MaxEdits]
      /\ \A d \in Ids : gen[d] = sweep[d].r /\ texts[d] = sweep[d].t
  BY <1>1
<1>4. rows \in {<<>>} \cup [Ids -> {"skipped", "broken", "repaired", "identical", "changed"}]
  BY DEF Status
<1>5. Against = prevAt /\ prevAt \in Nat
  BY DEF Against, TypeOK
<1> HIDE DEF rows, gen, texts, first
<1>6. /\ w0(shaky).rows = rows /\ w0(shaky).gen = gen /\ w0(shaky).texts = texts /\ w0(shaky).against = prevAt /\ w0(shaky).swept
      /\ w0(shaky) \in Column1
  BY <1>3, <1>4, <1>5 DEF Blank, Column1
<1>7. DrawnRows(w0(shaky)) \subseteq Moved(w0(shaky)) /\ Moved(w0(shaky)) \subseteq DOMAIN rows
  BY <1>6 DEF DrawnRows, Moved
<1>8. DOMAIN rows \subseteq Ids
  BY DEF rows
<1>9. QuietNote(w0(shaky)) \in SUBSET {"none_yet", "same", "unbuildable", "first", "shaky", "quiet", "nothing_ran"}
  BY <1>6 DEF QuietNote, Column1
<1> HIDE DEF w0
<1>10. /\ w1(shaky) \in Column1 /\ w1(shaky).rows = rows /\ w1(shaky).gen = gen /\ w1(shaky).texts = texts
       /\ w1(shaky).against = prevAt
       /\ w1(shaky).swept
       /\ w1(shaky).drawn = IF ~first THEN DrawnRows(w0(shaky)) ELSE IF cap = 0 THEN {} ELSE Ids
  BY <1>6, <1>7, <1>8, <1>9 DEF Column1
<1>11. Moved(w1(shaky)) = Moved(w0(shaky))
  BY <1>6, <1>10 DEF Moved
<1> HIDE DEF w1
<1>12. CASE prevAt = 0
  <2>1. first /\ rows = <<>>
    BY <1>5, <1>12 DEF first, rows
  <2> QED
    BY <1>2, <1>3, <1>10, <1>12, <2>1
<1>13. CASE prevAt # 0
  <2>1. ~first /\ rows = [d \in Ids |-> Status(weeks[prevAt].gen[d], gen[d])]
    BY <1>5, <1>13 DEF first, rows, gen
  <2> QED
    BY <1>2, <1>3, <1>7, <1>10, <1>11, <1>13, <2>1
<1> QED
  BY <1>12, <1>13

\* A picture that is shown is of a diagram, and of a layout.
LEMMA RefsArePictures ==
  ASSUME TypeOK, HistoryInv
  PROVE  Refs \subseteq Ids \X (Results \ {0})
<1> SUFFICES ASSUME NEW k \in DOMAIN weeks
             PROVE  Shown(weeks[k]) \subseteq Ids \X (Results \ {0}) /\ Befores(weeks[k]) \subseteq Ids \X (Results \ {0})
  BY DEF Refs
<1>0. weeks \in Seq(Column1)
  BY DEF TypeOK
<1>1. k \in 1 .. Len(weeks) /\ Len(weeks) \in Nat /\ weeks[k] \in Column1 /\ weeks[k].drawn \subseteq Ids
  <2>1. k \in 1 .. Len(weeks) /\ Len(weeks) \in Nat /\ weeks[k] \in Column1
    BY <1>0
  <2> QED
    BY <2>1 DEF Column1
<1>2. CASE ~Swept(k)
  BY <1>2 DEF HistoryInv, Shown, Befores
<1>3. CASE Swept(k)
  <2> DEFINE j == weeks[k].against
  <2>1. weeks[k].gen \in [Ids -> Results]
    BY <1>3 DEF HistoryInv
  <2>2. weeks[k].rows # <<>> => j \in DOMAIN weeks /\ Swept(j)
    <3>1. NewestSwept(j, k) /\ (j = 0 => weeks[k].rows = <<>>)
      BY <1>3 DEF HistoryInv, Compared
    <3> QED
      BY <1>0, <1>1, <3>1 DEF NewestSwept
  <2>3. weeks[k].rows # <<>> => weeks[j].gen \in [Ids -> Results]
    BY <2>2 DEF HistoryInv
  <2> HIDE DEF j
  <2>4. Shown(weeks[k]) \subseteq Ids \X (Results \ {0})
    BY <1>1, <2>1 DEF Shown, Picture
  <2>5. Befores(weeks[k]) \subseteq Ids \X (Results \ {0})
    BY <1>1, <2>3 DEF Befores, Picture, j
  <2> QED
    BY <2>4, <2>5
<1> QED
  BY <1>2, <1>3

\* The next column is asked for only while there is one.
LEMMA ThereIsANext ==
  ASSUME BuildInv, TypeOK, HistoryInv, InCompare \/ phase = "sweep" \/ (phase = "compare" /\ call[Main] # NoCall)
  PROVE  Len(weeks) < Len(snaps)
BY DEF BuildInv, WhoBuilds, InCompare, HistoryInv

\* The columns a step adds, if any.
LEMMA StepOfColumns ==
  ASSUME BuildInv, TypeOK, HistoryInv, [Next]_vars
  PROVE  \/ weeks' = weeks /\ prevAt' = prevAt /\ snaps' = snaps /\ cap' = cap
         \/ StartRun
         \/ Len(weeks) < Len(snaps) /\ snaps' = snaps /\ cap' = cap /\ phase' # "sweep" /\ \E w \in Column1 :
              /\ weeks' = Append(weeks, w)
              /\ IF w.swept
                 THEN /\ prevAt' = Len(weeks) + 1 /\ w.against = prevAt /\ w.gen \in [Ids -> Results]
                      /\ IF prevAt = 0 THEN w.rows = <<>> /\ w.drawn = (IF cap = 0 THEN {} ELSE Ids)
                         ELSE w.rows = [d \in Ids |-> Status(weeks[prevAt].gen[d], w.gen[d])] /\ w.drawn \subseteq Moved(w)
                 ELSE prevAt' = prevAt /\ w.rows = <<>> /\ w.drawn = {}
<1>1. CASE UNCHANGED vars
  BY <1>1 DEF vars, runVars
<1>2. CASE List \/ (\E d \in Ids : EditDiagram(d)) \/ Crash
  BY <1>2 DEF List, EditDiagram, Crash, runVars
<1>3. CASE StartRun
  BY <1>3
<1>4. CASE (\E b \in Builders : Building(b)) \/ (\E w \in Pool : TakeJob(w) \/ JobDone(w))
  BY <1>4 DEF Building, TakeJob, JobDone, runVars
<1>5. CASE BuildAllDone \/ AskEngine \/ StartSweep \/ (\E d \in Ids : SweepDiagram(d)) \/ CompareDone
  BY <1>5 DEF BuildAllDone, AskEngine, StartSweep, SweepDiagram, CompareDone, runVars
<1>6. CASE PutPane \/ PanesDone \/ RemoveOrphan \/ PruneDone \/ ClearPages \/ WritePages
  BY <1>6 DEF PutPane, PanesDone, RemoveOrphan, PruneDone, ClearPages, WritePages, runVars
<1>7. ASSUME NEW note \in {"none_yet", "same", "unbuildable"}, Column(Blank(note)), phase' = phase, phase = "compare",
             InCompare \/ call[Main] # NoCall, prevAt' = prevAt, snaps' = snaps, cap' = cap
      PROVE  /\ Len(weeks) < Len(snaps) /\ snaps' = snaps /\ cap' = cap /\ phase' # "sweep"
             /\ \E w \in Column1 : /\ weeks' = Append(weeks, w)
                                   /\ ~w.swept /\ prevAt' = prevAt /\ w.rows = <<>> /\ w.drawn = {}
  <2>1. Len(weeks) < Len(snaps)
    BY <1>7, ThereIsANext
  <2>2. /\ Blank(note) \in Column1 /\ ~Blank(note).swept /\ Blank(note).rows = <<>> /\ Blank(note).drawn = {}
        /\ weeks' = Append(weeks, Blank(note))
    BY <1>7, BlankColumns DEF Column
  <2> QED
    BY <1>7, <2>1, <2>2
<1>8. CASE SkipColumn
  <2>1. PICK note \in {"none_yet", "same", "unbuildable"} : Column(Blank(note))
    BY <1>8 DEF SkipColumn
  <2>2. phase' = phase /\ phase = "compare" /\ InCompare /\ prevAt' = prevAt /\ snaps' = snaps /\ cap' = cap
    BY <1>8 DEF SkipColumn, InCompare, runVars
  <2> QED
    BY <1>7, <2>1, <2>2
<1>9. CASE NoEngine
  <2>1. call[Main] # NoCall
    BY <1>9 DEF NoEngine, At, NoCall
  <2> QED
    BY <1>7, <1>9, <2>1 DEF NoEngine, runVars
<1>10. CASE BuildWorkdir
  <2>1. CASE weeks' = weeks
    BY <1>10, <2>1 DEF BuildWorkdir, runVars
  <2>2. CASE Column(Blank("unbuildable")) /\ phase' = phase
    BY <1>7, <1>10, <2>2 DEF BuildWorkdir, InCompare, runVars
  <2> QED
    BY <1>10, <2>1, <2>2 DEF BuildWorkdir
<1>11. CASE SweepDone
  <2>1. prevAt' = Len(weeks) + 1 /\ snaps' = snaps /\ cap' = cap /\ phase' # "sweep" /\ Len(weeks) < Len(snaps)
    BY <1>11, ThereIsANext DEF SweepDone, runVars
  <2> QED
    BY <1>11, <2>1, SweptColumn
<1> QED
  BY <1>1, <1>2, <1>3, <1>4, <1>5, <1>6, <1>8, <1>9, <1>10, <1>11 DEF Next, Progress

LEMMA HistoryStep == BuildInv /\ TypeOK /\ HistoryInv /\ [Next]_vars => HistoryInv'
<1> SUFFICES ASSUME BuildInv, TypeOK, HistoryInv, [Next]_vars PROVE HistoryInv'
  OBVIOUS
<1>1. weeks \in Seq(Column1) /\ prevAt \in 0 .. Len(weeks)
  BY DEF TypeOK
<1>2. CASE weeks' = weeks /\ prevAt' = prevAt /\ snaps' = snaps /\ cap' = cap
  <2>1. ASSUME phase' = "sweep", phase # "sweep" PROVE BuildWorkdir \/ StartSweep
    BY <2>1 DEF Next, Progress, vars, runVars, List, StartRun, Building, TakeJob, JobDone, BuildAllDone, SkipColumn, AskEngine,
           NoEngine, SweepDiagram, SweepDone, CompareDone, PutPane, PanesDone, RemoveOrphan, PruneDone, ClearPages,
           WritePages, EditDiagram, Crash, InCompare
  <2>2. CASE BuildWorkdir
    BY <1>2, <2>2, HistoryRests DEF BuildWorkdir, InCompare, Workdir, NoSHA
  <2>3. CASE StartSweep
    <3>1. phase = "compare" /\ call[Main] # NoCall
      BY <2>3 DEF StartSweep, At, NoCall
    <3>2. Len(weeks) < Len(snaps) /\ NewSnap.sha # NoSHA
      BY <3>1, TimelineAssumption DEF BuildInv, WhoBuilds, InCompare
    <3> QED
      BY <1>2, <3>2, HistoryRests
  <2>4. CASE phase' = "sweep" => phase = "sweep"
    BY <1>2, <2>4, HistoryRests
  <2> QED
    BY <2>1, <2>2, <2>3, <2>4
<1>3. CASE StartRun
  <2>1. weeks' = <<>> /\ prevAt' = 0 /\ phase' = "build"
    BY <1>3 DEF StartRun
  <2>2. DOMAIN weeks' = {} /\ Len(weeks') = 0
    BY <2>1
  <2>3. NewestSwept(prevAt, Len(weeks) + 1)'
    BY <2>1, <2>2 DEF NewestSwept
  <2> QED
    BY <2>1, <2>2, <2>3 DEF HistoryInv
<1>4. CASE ~(weeks' = weeks /\ prevAt' = prevAt /\ snaps' = snaps /\ cap' = cap) /\ ~StartRun
  <2>1. PICK w \in Column1 :
              /\ weeks' = Append(weeks, w) /\ cap' = cap /\ phase' # "sweep"
              /\ IF w.swept
                 THEN /\ prevAt' = Len(weeks) + 1 /\ w.against = prevAt /\ w.gen \in [Ids -> Results]
                      /\ IF prevAt = 0 THEN w.rows = <<>> /\ w.drawn = (IF cap = 0 THEN {} ELSE Ids)
                         ELSE w.rows = [d \in Ids |-> Status(weeks[prevAt].gen[d], w.gen[d])] /\ w.drawn \subseteq Moved(w)
                 ELSE prevAt' = prevAt /\ w.rows = <<>> /\ w.drawn = {}
    BY <1>4, StepOfColumns, Zenon
  <2> QED
    BY <1>1, <2>1, HistoryGrows
<1> QED
  BY <1>2, <1>3, <1>4

LEMMA TypeOKStep == BuildInv /\ TypeOK /\ HistoryInv /\ [Next]_vars /\ BuildInv' => TypeOK'
<1> SUFFICES ASSUME BuildInv, TypeOK, HistoryInv, [Next]_vars, BuildInv' PROVE TypeOK'
  OBVIOUS
<1>1. CacheTypeOK' /\ snaps' \in Seq(Snapshot)
  BY DEF BuildInv
<1>2. weeks' \in Seq(Column1) /\ Len(weeks') <= Len(snaps') /\ prevAt' \in 0 .. Len(weeks')
  <2>1. weeks \in Seq(Column1) /\ Len(weeks) \in Nat /\ Len(snaps) \in Nat /\ Len(weeks) <= Len(snaps) /\ prevAt \in 0 .. Len(weeks)
    BY DEF TypeOK
  <2>2. CASE StartRun
    BY <1>1, <2>2 DEF StartRun
  <2>3. ASSUME NEW w \in Column1, weeks' = Append(weeks, w), Len(weeks) < Len(snaps), snaps' = snaps, prevAt' \in {prevAt, Len(weeks) + 1}
        PROVE  weeks' \in Seq(Column1) /\ Len(weeks') <= Len(snaps') /\ prevAt' \in 0 .. Len(weeks')
    <3>1. weeks' \in Seq(Column1) /\ Len(weeks') = Len(weeks) + 1
      BY <2>1, <2>3
    <3> QED
      BY <2>1, <2>3, <3>1
  <2> QED
    BY <2>1, <2>2, <2>3, StepOfColumns DEF StartRun
<1>0. ASSUME NEW d \in Ids, EditDiagram(d) PROVE text' \in [Ids -> 0 .. MaxEdits]
  <2>1. text[d] \in 0 .. MaxEdits /\ MaxEdits \in Nat /\ text[d] < MaxEdits
    BY <1>0, TimelineAssumption DEF TypeOK, EditDiagram
  <2>2. text[d] + 1 \in 0 .. MaxEdits
    BY <2>1
  <2> QED
    BY <1>0, <2>2 DEF TypeOK, EditDiagram
<1> USE DEF Next, Progress, vars, runVars, report, ending, List, StartRun, Building, BuildAllDone, SkipColumn, AskEngine,
        NoEngine, BuildWorkdir, StartSweep, CompareDone, PanesDone, PruneDone, Crash, InCompare
<1>3. jobs' \subseteq DOMAIN snaps'
  BY DEF TypeOK, Jobs, TakeJob, JobDone, SweepDiagram, SweepDone, PutPane, RemoveOrphan, ClearPages, WritePages, EditDiagram
<1>4. ready' \subseteq Commits /\ unbuildable' \subseteq Commits
  <2>1. \A w \in Pool : At(w, "ok") \/ At(w, "failed") => Of(w) \in Commits
    BY AtIsACall DEF Pool, At, BuildInv
  <2> QED
    <3>1. CASE \E w \in Pool : JobDone(w)
      BY <2>1, <3>1 DEF TypeOK, JobDone
    <3>2. CASE ~\E w \in Pool : JobDone(w)
      BY <3>2 DEF TypeOK, TakeJob, SweepDiagram, SweepDone, PutPane, RemoveOrphan, ClearPages, WritePages, EditDiagram
    <3> QED
      BY <3>1, <3>2
<1>5. text' \in [Ids -> 0 .. MaxEdits]
  <2>2. CASE ~\E d \in Ids : EditDiagram(d)
    <3>1. text' = text
      BY <2>2 DEF TakeJob, JobDone, SweepDiagram, SweepDone, PutPane, RemoveOrphan, ClearPages, WritePages
    <3> QED
      BY <3>1 DEF TypeOK
  <2> QED
    BY <1>0, <2>2
<1>6. sweep' \in [Ids -> {Todo} \cup [r : Results, t : 0 .. MaxEdits]]
  <2>1. NoSweep \in [Ids -> {Todo} \cup [r : Results, t : 0 .. MaxEdits]]
    BY DEF NoSweep
  <2>2. CASE \E d \in Ids : SweepDiagram(d)
    BY <2>2, RunsGiveResults DEF TypeOK, SweepDiagram
  <2>3. CASE ~\E d \in Ids : SweepDiagram(d)
    BY <2>1, <2>3 DEF TypeOK, TakeJob, JobDone, SweepDone, PutPane, RemoveOrphan, ClearPages, WritePages, EditDiagram
  <2> QED
    BY <2>2, <2>3
<1>7. pool' \subseteq Ids \X (Results \ {0}) /\ pages' \subseteq Ids \X (Results \ {0})
  <2>1. Refs \subseteq Ids \X (Results \ {0})
    BY RefsArePictures
  <2>2. CASE PutPane \/ RemoveOrphan \/ ClearPages \/ WritePages
    BY <2>1, <2>2 DEF TypeOK, PutPane, RemoveOrphan, ClearPages, WritePages
  <2>3. CASE ~(PutPane \/ RemoveOrphan \/ ClearPages \/ WritePages)
    BY <2>3 DEF TypeOK, TakeJob, JobDone, SweepDiagram, SweepDone, EditDiagram
  <2> QED
    BY <2>2, <2>3
<1>8. runs' \in 0 .. MaxRuns
  <2>1. CASE StartRun
    BY <2>1, TimelineAssumption DEF TypeOK
  <2>2. CASE ~StartRun
    <3>1. runs' = runs
      BY <2>2 DEF TakeJob, JobDone, SweepDiagram, SweepDone, PutPane, RemoveOrphan, ClearPages, WritePages, EditDiagram
    <3> QED
      BY <3>1 DEF TypeOK
  <2> QED
    BY <2>1, <2>2
<1>9. phase' \in {"off", "build", "compare", "sweep", "panes", "prune", "clear", "pages"}
  BY DEF TypeOK, TakeJob, JobDone, SweepDiagram, SweepDone, PutPane, RemoveOrphan, ClearPages, WritePages, EditDiagram
<1>10. screen' \in Listings \cup {<<>>}
  BY DEF TypeOK, TakeJob, JobDone, SweepDiagram, SweepDone, PutPane, RemoveOrphan, ClearPages, WritePages, EditDiagram
<1>11. cap' \in Caps \cup {0}
  BY DEF TypeOK, TakeJob, JobDone, SweepDiagram, SweepDone, PutPane, RemoveOrphan, ClearPages, WritePages, EditDiagram
<1>12. {whole', killed'} \subseteq BOOLEAN
  BY DEF TypeOK, TakeJob, JobDone, SweepDiagram, SweepDone, PutPane, RemoveOrphan, ClearPages, WritePages, EditDiagram
<1> QED
  BY <1>1, <1>2, <1>3, <1>4, <1>5, <1>6, <1>7, <1>8, <1>9, <1>10, <1>11, <1>12 DEF TypeOK

LEMMA ColumnsInit == Init => TypeOK /\ HistoryInv
<1> SUFFICES ASSUME Init PROVE TypeOK /\ HistoryInv
  OBVIOUS
<1>1. CacheTypeOK
  BY BuildInvInit DEF BuildInv
<1>2. /\ snaps = <<>> /\ weeks = <<>> /\ Len(weeks) = 0 /\ Len(snaps) = 0 /\ DOMAIN weeks = {} /\ prevAt = 0 /\ phase = "off"
  BY DEF Init
<1>3. weeks \in Seq(Column1) /\ snaps \in Seq(Snapshot) /\ Len(weeks) <= Len(snaps) /\ prevAt \in 0 .. Len(weeks)
  BY <1>2
<1>4. HistoryInv
  BY <1>2 DEF HistoryInv, NewestSwept
<1>5. sweep \in [Ids -> {Todo} \cup [r : Results, t : 0 .. MaxEdits]] /\ text \in [Ids -> 0 .. MaxEdits] /\ runs \in 0 .. MaxRuns
  BY TimelineAssumption DEF Init, NoSweep
<1>6. /\ screen \in Listings \cup {<<>>} /\ cap \in Caps \cup {0} /\ jobs = {} /\ ready = {} /\ unbuildable = {}
      /\ pool = {} /\ pages = {}
  BY DEF Init
<1>7. {whole, killed} \subseteq BOOLEAN
  BY DEF Init
<1>8. TypeOK
  BY <1>1, <1>2, <1>3, <1>5, <1>6, <1>7 DEF TypeOK
<1> QED
  BY <1>4, <1>8

\* Every variable of the timeline keeps its type, and what a run has written of its columns is of engines it swept.
THEOREM ColumnsAreTold == Spec => [](TypeOK /\ HistoryInv)
<1>1. Init => TypeOK /\ HistoryInv
  BY ColumnsInit
<1>2. BuildInv /\ BuildInv' /\ (TypeOK /\ HistoryInv) /\ [Next]_vars => (TypeOK /\ HistoryInv)'
  BY HistoryStep, TypeOKStep
<1> QED
  BY <1>1, <1>2, BuildInvariant, PTL DEF Spec

(* ---------------------------------------------------------------------- *)
(* What a column says of two engines. *)

\* A row has moved exactly if the two engines gave different layouts of the diagram.
LEMMA MovedIfDifferent ==
  ASSUME TypeOK, HistoryInv, NEW k \in DOMAIN weeks, Swept(k), weeks[k].against # 0, NEW d \in Ids
  PROVE  d \in Moved(weeks[k]) <=> weeks[weeks[k].against].gen[d] # weeks[k].gen[d]
<1>1. weeks[k].rows = [e \in Ids |-> Status(weeks[weeks[k].against].gen[e], weeks[k].gen[e])]
  BY DEF HistoryInv, Compared
<1> QED
  BY <1>1 DEF Moved, Status

\* A column with rows compares its engine with the newest earlier one that was swept, and a diagram has moved
\* exactly if the two gave different layouts of it (main.go, collect and diffPair).
RowsAreOfTheNewest ==
  \A k \in DOMAIN weeks : weeks[k].rows # <<>> =>
    LET j == weeks[k].against
    IN  /\ j \in 1 .. k - 1 /\ Swept(j) /\ \A i \in j + 1 .. k - 1 : ~Swept(i)
        /\ \A d \in Ids : d \in Moved(weeks[k]) <=> weeks[j].gen[d] # weeks[k].gen[d]
THEOREM RowsCompareNeighbours == Spec => []RowsAreOfTheNewest
<1>1. ASSUME TypeOK, HistoryInv PROVE RowsAreOfTheNewest
  <2> SUFFICES ASSUME NEW k \in DOMAIN weeks, weeks[k].rows # <<>>
               PROVE  LET j == weeks[k].against
                      IN  /\ j \in 1 .. k - 1 /\ Swept(j) /\ \A i \in j + 1 .. k - 1 : ~Swept(i)
                          /\ \A d \in Ids : d \in Moved(weeks[k]) <=> weeks[j].gen[d] # weeks[k].gen[d]
    BY DEF RowsAreOfTheNewest
  <2>1. Swept(k) /\ weeks[k].against # 0 /\ NewestSwept(weeks[k].against, k)
    BY <1>1 DEF HistoryInv, Compared
  <2>2. \A d \in Ids : d \in Moved(weeks[k]) <=> weeks[weeks[k].against].gen[d] # weeks[k].gen[d]
    BY <1>1, <2>1, MovedIfDifferent
  <2>3. /\ weeks[k].against \in 1 .. k - 1 /\ Swept(weeks[k].against)
        /\ \A i \in weeks[k].against + 1 .. k - 1 : ~Swept(i)
    BY <2>1 DEF NewestSwept
  <2> QED
    BY <2>2, <2>3
<1> QED
  BY <1>1, ColumnsAreTold, PTL

(* ---------------------------------------------------------------------- *)
(* The engines that are swept are all there. *)

\* What has been built stays built.
LEMMA BuiltStays ==
  ASSUME \A c \in Commits, p \in Packages : bins[c][p] # None => bins'[c][p] # None,
         NEW c \in Commits, NEW r \in Recipes, Built(c, r)
  PROVE  Built(c, r)'
<1>1. Recipe[r].pkgs \in Seq(Packages)
  BY CacheAssumption
<1>2. \A i \in DOMAIN Recipe[r].pkgs : Recipe[r].pkgs[i] \in Packages
  BY <1>1
<1> QED
  BY <1>2 DEF Built

\* A step of b is nothing to the others, nor to the adapters of other commits.
LEMMA OthersGoOn ==
  ASSUME BuildInv, EnginesInv, NEW b \in Builders, BuildStep(b), snaps' = snaps,
         \A c \in Commits, p \in Packages : bins[c][p] # None => bins'[c][p] # None,
         \A c \in Commits : c # Of(b) => adapter'[c] = adapter[c],
         call'[b].r = call[b].r, Along(b)',
         call'[b].pc = "ok" => Finished(Of(b), call[b].r)',
         \/ adapter'[Of(b)] = adapter[Of(b)] /\ ~At(b, "fill")
         \/ adapter'[Of(b)] = "empty" /\ call'[b].pc = "fill"
         \/ adapter'[Of(b)] = call[b].r /\ By(b).pipe /\ Built(Of(b), call[b].r)
  PROVE  EnginesInv'
<1>1. /\ CacheTypeOK /\ Busy(b) /\ Of(b) \in Commits /\ call[b].r \in Recipes /\ call[b] # NoCall
      /\ \A o \in Builders \ {b} : call'[o] = call[o] /\ Of(o)' = Of(o) /\ By(o)' = By(o)
      /\ Of(b)' = Of(b) /\ "empty" \notin Recipes
  BY StepIsLocal, AtIsACall, CacheAssumption DEF BuildInv, Busy, NoCall, Of, By
<1>2. \A o \in Builders : Busy(o) /\ Of(o) = Of(b) => o = b
  BY <1>1 DEF BuildInv, NeverMeet
<1>3. ASSUME NEW o \in Builders, call'[o] # NoCall PROVE Asked(Of(o)', call'[o].r) /\ Along(o)'
  <2>1. CASE o = b
    BY <1>1, <2>1 DEF EnginesInv
  <2>2. CASE o # b
    <3>1. call[o] # NoCall /\ call'[o] = call[o] /\ Of(o)' = Of(o) /\ By(o)' = By(o) /\ Along(o)
          /\ Asked(Of(o), call[o].r)
      BY <1>1, <1>3, <2>2 DEF EnginesInv
    <3>2. call[o].pc # "none" /\ Of(o) \in Commits /\ call[o].r \in Recipes /\ By(o).pkgs \in Seq(Packages)
      BY <1>1, <3>1, AtIsACall, NowhereIsNoCall DEF At
    <3>3. Built(Of(o), call[o].r) => Built(Of(o), call[o].r)'
      BY <3>1, <3>2, BuiltStays
    <3>4. At(o, "clean") => adapter'[Of(o)] = adapter[Of(o)]
      BY <1>1, <1>2, <2>2, <3>2 DEF At, Busy
    <3>5. At(o, "clean") /\ Finished(Of(o), call[o].r) => Finished(Of(o), call[o].r)'
      BY <3>1, <3>3, <3>4 DEF Finished
    <3>6. At(o, "build") => \A i \in 1 .. call[o].n - 1 : bins'[Of(o)][By(o).pkgs[i]] # None
      <4> SUFFICES ASSUME At(o, "build"), NEW i \in 1 .. call[o].n - 1 PROVE bins'[Of(o)][By(o).pkgs[i]] # None
        OBVIOUS
      <4>1. call[o].n \in DOMAIN By(o).pkgs /\ bins[Of(o)][By(o).pkgs[i]] # None
        BY <3>1 DEF Along
      <4>2. i \in DOMAIN By(o).pkgs /\ By(o).pkgs[i] \in Packages
        BY <3>2, <4>1
      <4> QED
        BY <3>2, <4>1, <4>2
    <3> QED
      BY <3>1, <3>3, <3>5, <3>6 DEF Along, At
  <2> QED
    BY <2>1, <2>2
<1>4. At(Main, "ok")' => Finished(Of(Main), call[Main].r)'
  <2> SUFFICES ASSUME At(Main, "ok")' PROVE Finished(Of(Main), call[Main].r)'
    OBVIOUS
  <2>1. CASE b = Main
    BY <1>1, <2>1 DEF At
  <2>2. CASE b # Main
    <3>1. call[Main].pc = "ok" /\ call[Main] # NoCall /\ Main \in Builders /\ b \in Pool
      BY <1>1, <2>2, TimelineAssumption DEF At, NoCall, Pool
    <3>2. Resting(Pool)
      BY <3>1 DEF BuildInv, WhoBuilds, Resting
    <3> QED
      BY <1>1, <3>1, <3>2 DEF Resting
  <2> QED
    BY <2>1, <2>2
<1>5. ASSUME NEW c \in Commits
      PROVE  /\ adapter'[c] \in Recipes =>
                  Asked(c, adapter'[c]) /\ Recipe[adapter'[c]].pipe /\ Built(c, adapter[c])'
             /\ adapter'[c] = "empty" => \E o \in Builders : At(o, "fill")' /\ Of(o)' = c
  <2>1. /\ adapter[c] \in Recipes => Asked(c, adapter[c]) /\ Recipe[adapter[c]].pipe /\ Built(c, adapter[c])
        /\ adapter[c] = "empty" => \E o \in Builders : At(o, "fill") /\ Of(o) = c
    BY DEF EnginesInv, AdaptersAreSound
  <2>2. \A r \in Recipes : Built(c, r) => Built(c, r)'
    BY BuiltStays
  <2>3. adapter'[c] = adapter[c] /\ adapter[c] \in Recipes => Built(c, adapter[c])'
    BY <2>1, <2>2 DEF Built
  <2>4. CASE c # Of(b)
    <3>1. \A o \in Builders : Of(o) = c => At(o, "fill")' = At(o, "fill") /\ Of(o)' = Of(o)
      BY <1>1, <2>4 DEF At
    <3> QED
      BY <2>1, <2>3, <2>4, <3>1
  <2>5. CASE c = Of(b) /\ adapter'[Of(b)] = adapter[Of(b)] /\ ~At(b, "fill")
    <3>1. adapter[c] # "empty"
      BY <1>2, <2>1, <2>5 DEF At, Busy
    <3> QED
      BY <2>1, <2>3, <2>5, <3>1
  <2>6. CASE c = Of(b) /\ adapter'[Of(b)] = "empty" /\ call'[b].pc = "fill"
    BY <1>1, <2>6 DEF At
  <2>7. CASE c = Of(b) /\ adapter'[Of(b)] = call[b].r /\ By(b).pipe /\ Built(Of(b), call[b].r)
    <3>1. Asked(c, call[b].r) /\ Recipe[call[b].r].pipe
      BY <1>1, <2>7 DEF EnginesInv, By
    <3>2. Built(c, adapter[c])'
      BY <1>1, <2>2, <2>7 DEF Built
    <3> QED
      BY <1>1, <2>7, <3>1, <3>2
  <2> QED
    BY <2>4, <2>5, <2>6, <2>7
<1>6. AdaptersAreSound'
  BY <1>5 DEF AdaptersAreSound
<1>7. \A o \in Builders : call'[o] # NoCall => Asked(Of(o), call[o].r)' /\ Along(o)'
  BY <1>3 DEF Asked
<1>8. snaps' = <<>> \/ snaps' \in Plans
  BY DEF EnginesInv
<1> QED
  BY <1>4, <1>6, <1>7, <1>8 DEF EnginesInv, Plans

\* The call of b goes on to another step, and no further.
LEMMA GotoGoes ==
  ASSUME CacheTypeOK, NEW b \in Builders, call[b].pc # "none", NEW pc, Goto(b, pc)
  PROVE  /\ call'[b].pc = pc /\ call'[b].n = call[b].n /\ call'[b].r = call[b].r
         /\ Of(b)' = Of(b) /\ By(b)' = By(b)
<1>1. call'[b] = [call[b] EXCEPT !.pc = pc]
  BY DEF Goto, CacheTypeOK
<1>2. call[b] \in Calls
  BY AtIsACall
<1> QED
  BY <1>1, <1>2 DEF Calls, Of, By

\* What a cached engine is recognised by is the last of it to be written.
LEMMA CachedIsFinished ==
  ASSUME OneRecipeEach, BuildInv, EnginesInv, NEW b \in Builders, At(b, "stat"), Cached(Of(b), call[b].r)
  PROVE  Finished(Of(b), call[b].r)
<1> DEFINE c == Of(b)
           r == call[b].r
<1>1. /\ CacheTypeOK /\ c \in Commits /\ r \in Recipes /\ Busy(b) /\ Asked(c, r)
      /\ Recipe[r].pipe \in BOOLEAN /\ adapter[c] \in {None, "empty"} \cup Recipes
  <2>1. CacheTypeOK /\ call[b].pc # "none" /\ call[b] # NoCall /\ Busy(b)
    BY DEF BuildInv, At, NoCall, Busy
  <2>2. c \in Commits /\ r \in Recipes /\ Recipe[r].pipe \in BOOLEAN
    BY <2>1, AtIsACall DEF By
  <2> QED
    BY <2>1, <2>2 DEF EnginesInv, CacheTypeOK
<1>2. CASE Recipe[r].pipe
  <2>1. adapter[c] # "empty"
    <3>1. \A o \in Builders : At(o, "fill") => Busy(o) /\ o # b
      BY DEF At, Busy
    <3> QED
      BY <1>1, <3>1 DEF BuildInv, NeverMeet, EnginesInv, AdaptersAreSound
  <2>2. adapter[c] \in Recipes
    BY <1>1, <1>2, <2>1 DEF Cached
  <2>3. Asked(c, adapter[c]) /\ Recipe[adapter[c]].pipe /\ Built(c, adapter[c])
    BY <1>1, <2>2 DEF EnginesInv, AdaptersAreSound
  <2>4. adapter[c] = r
    BY <1>1, <1>2, <2>2, <2>3 DEF OneRecipeEach
  <2> QED
    BY <2>3, <2>4 DEF Finished
<1>3. CASE ~Recipe[r].pipe
  <2>1. bins[c][LayoutGen] # None
    BY <1>3 DEF Cached
  <2>2. Built(c, r)
    BY <1>1, <1>3, <2>1 DEF Built, OneRecipeEach
  <2> QED
    BY <1>3, <2>2 DEF Finished
<1> QED
  BY <1>1, <1>2, <1>3

LEMMA BuildingEngines ==
  ASSUME OneRecipeEach, BuildInv, EnginesInv, NEW b \in Builders, BuildStep(b), snaps' = snaps
  PROVE  EnginesInv'
<1>1. /\ CacheTypeOK /\ Busy(b) /\ call[b].pc # "none" /\ call[b] # NoCall
      /\ Of(b) \in Commits /\ call[b].r \in Recipes /\ call[b] \in Calls
      /\ By(b).pkgs \in Seq(Packages) /\ By(b).pkgs # <<>>
      /\ By(b).pipe \in BOOLEAN /\ By(b).merge \in BOOLEAN /\ (By(b).merge => By(b).pipe)
      /\ Of(b)' = Of(b) /\ By(b)' = By(b)
  <2>1. CacheTypeOK /\ Busy(b) /\ call[b].pc # "none" /\ call[b] # NoCall /\ Of(b)' = Of(b) /\ By(b)' = By(b)
    BY StepIsLocal DEF BuildInv, Busy, NoCall
  <2> QED
    BY <2>1, AtIsACall, CacheAssumption DEF By
<1>2. Along(b) /\ call[b].n \in Nat
  BY <1>1 DEF EnginesInv, Calls
<1>3. /\ bins \in [Commits -> [Packages -> {None, "good", "bad"}]]
      /\ adapter \in [Commits -> {None, "empty"} \cup Recipes]
  BY <1>1 DEF CacheTypeOK
<1>4. ASSUME UNCHANGED <<bins, adapter>>, NEW pc, Goto(b, pc), ~At(b, "fill"), Along(b)',
             pc = "ok" => Finished(Of(b), call[b].r)
      PROVE  EnginesInv'
  <2>1. call'[b].pc = pc /\ call'[b].r = call[b].r
    BY <1>1, <1>4, GotoGoes
  <2>2. pc = "ok" => Finished(Of(b), call[b].r)'
    BY <1>1, <1>4, <2>1 DEF Finished, Built
  <2> QED
    BY <1>4, <2>1, <2>2, OthersGoOn
<1>5. CASE Stat(b)
  <2> DEFINE pc == IF Cached(Of(b), call[b].r) THEN "ok" ELSE "export"
  <2>1. Goto(b, pc) /\ At(b, "stat") /\ UNCHANGED <<bins, adapter>> /\ call[b].n = 1
    BY <1>2, <1>5 DEF Stat, disk, Along, At
  <2>2. call'[b].pc = pc /\ call'[b].n = 1
    BY <1>1, <2>1, GotoGoes
  <2>3. Along(b)'
    BY <2>2 DEF Along, At
  <2>4. pc = "ok" => Finished(Of(b), call[b].r)
    BY <2>1, CachedIsFinished
  <2> HIDE DEF pc
  <2> QED
    BY <1>4, <2>1, <2>3, <2>4 DEF At
<1>6. CASE ExportStart(b)
  <2>1. Goto(b, "untar") /\ At(b, "export") /\ UNCHANGED <<bins, adapter>> /\ call[b].n = 1
    BY <1>2, <1>6 DEF ExportStart, Along, At
  <2>2. Along(b)'
    BY <1>1, <2>1, GotoGoes DEF Along, At
  <2> QED
    BY <1>4, <2>1, <2>2 DEF At
<1>7. CASE ExportEnd(b)
  <2>1. Goto(b, "build") /\ At(b, "untar") /\ UNCHANGED <<bins, adapter>> /\ call[b].n = 1
    BY <1>2, <1>7 DEF ExportEnd, Along, At
  <2>2. 1 \in DOMAIN By(b).pkgs
    BY <1>1
  <2>3. Along(b)'
    BY <1>1, <2>1, <2>2, GotoGoes DEF Along, At
  <2> QED
    BY <1>4, <2>1, <2>3 DEF At
<1>8. CASE BuildPackage(b)
  <2> DEFINE n == call[b].n
             p == By(b).pkgs[n]
             done == n = Len(By(b).pkgs)
             next == IF done THEN AfterPackages(b) ELSE "build"
  <2>1. At(b, "build") /\ UNCHANGED adapter /\ n \in DOMAIN By(b).pkgs /\ p \in Packages
    BY <1>1, <1>2, <1>8 DEF BuildPackage, Along
  <2>2. CASE p \notin Compiles[Of(b)]
    <3>1. Goto(b, "failed") /\ UNCHANGED bins
      BY <1>8, <2>2 DEF BuildPackage
    <3>2. Along(b)'
      BY <1>1, <3>1, GotoGoes DEF Along, At
    <3> QED
      BY <1>4, <2>1, <3>1, <3>2 DEF At
  <2>3. CASE p \in Compiles[Of(b)]
    <3>1. /\ bins' = [bins EXCEPT ![Of(b)][p] = IF tree[Of(b)] = "whole" THEN "good" ELSE "bad"]
          /\ call' = [call EXCEPT ![b].n = @ + 1, ![b].pc = next]
      BY <1>8, <2>3 DEF BuildPackage
    <3>2. /\ bins'[Of(b)][p] # None
          /\ \A c \in Commits, q \in Packages : bins[c][q] # None => bins'[c][q] # None
      BY <1>1, <1>3, <2>1, <3>1 DEF None
    <3>3. call'[b].pc = next /\ call'[b].n = n + 1 /\ call'[b].r = call[b].r
      <4> HIDE DEF next
      <4>1. call'[b] = [[call[b] EXCEPT !.n = call[b].n + 1] EXCEPT !.pc = next]
        BY <1>1, <3>1 DEF CacheTypeOK
      <4> QED
        BY <1>1, <4>1 DEF Calls
    <3>4. \A i \in 1 .. n : bins'[Of(b)][By(b).pkgs[i]] # None
      <4> SUFFICES ASSUME NEW i \in 1 .. n PROVE bins'[Of(b)][By(b).pkgs[i]] # None
        OBVIOUS
      <4>1. CASE i = n
        BY <3>2, <4>1
      <4>2. CASE i # n
        <5>1. i \in 1 .. n - 1 /\ i \in DOMAIN By(b).pkgs /\ By(b).pkgs[i] \in Packages
          BY <1>1, <1>2, <2>1, <4>2
        <5>2. bins[Of(b)][By(b).pkgs[i]] # None
          BY <1>2, <2>1, <5>1 DEF Along
        <5> QED
          BY <1>1, <3>2, <5>1, <5>2
      <4> QED
        BY <4>1, <4>2
    <3>5. CASE ~done
      <4>1. next = "build" /\ n + 1 \in DOMAIN By(b).pkgs /\ n + 1 - 1 = n
        BY <1>1, <1>2, <2>1, <3>5
      <4> HIDE DEF next, done
      <4>2. call'[b].pc = "build" /\ call'[b].n \in DOMAIN By(b)'.pkgs
        BY <1>1, <3>3, <4>1
      <4>3. 1 .. call'[b].n - 1 = 1 .. n
        BY <1>2, <3>3, <4>1
      <4>4. \A i \in 1 .. call'[b].n - 1 : bins'[Of(b)'][By(b)'.pkgs[i]] # None
        BY <1>1, <3>4, <4>3
      <4> HIDE DEF n
      <4>5. Along(b)'
        BY <4>2, <4>4 DEF Along, At
      <4> QED
        BY <2>1, <3>2, <3>3, <4>2, <4>5, OthersGoOn DEF At
    <3>6. CASE done
      <4>1. next = AfterPackages(b)
        BY <3>6
      <4>2. Built(Of(b), call[b].r)'
        <5>1. DOMAIN By(b).pkgs = 1 .. n
          BY <1>1, <2>1, <3>6
        <5> QED
          BY <1>1, <3>3, <3>4, <5>1 DEF Built, By
      <4>3. /\ AfterPackages(b) \in {"lock", "adapter", "clean", "failed"}
            /\ AfterPackages(b) = "lock" => By(b).merge
            /\ AfterPackages(b) = "adapter" => By(b).pipe
            /\ AfterPackages(b) = "clean" => ~By(b).pipe
        BY <1>1 DEF AfterPackages
      <4>4. ~By(b).pipe => Finished(Of(b), call[b].r)'
        BY <1>1, <3>3, <4>2 DEF Finished, By
      <4>5. Along(b)'
        BY <1>1, <3>3, <4>1, <4>2, <4>3, <4>4 DEF Along, At
      <4> QED
        BY <2>1, <3>2, <3>3, <4>1, <4>3, <4>5, OthersGoOn DEF At
    <3> QED
      BY <3>5, <3>6
  <2> QED
    BY <2>2, <2>3
<1>9. ASSUME NEW pc \in {"helper", "compile", "adapter"}, Goto(b, pc), UNCHANGED <<bins, adapter>>,
             At(b, "lock") \/ At(b, "helper") \/ At(b, "compile")
      PROVE  EnginesInv'
  <2>1. By(b).merge /\ Built(Of(b), call[b].r)
    BY <1>2, <1>9 DEF Along, At
  <2>2. call'[b].pc = pc /\ call'[b].r = call[b].r
    BY <1>1, <1>9, GotoGoes
  <2>3. Built(Of(b), call[b].r)'
    BY <1>1, <1>9, <2>1, <2>2 DEF Built
  <2>4. Along(b)'
    BY <1>1, <2>1, <2>2, <2>3 DEF Along, At
  <2> QED
    BY <1>4, <1>9, <2>4 DEF At
<1>10. CASE LockMerge(b)
  BY <1>9, <1>10 DEF LockMerge, disk
<1>11. CASE EnsureMergeTool(b)
  <2>1. PICK pc \in {"compile", "adapter"} : Goto(b, pc)
    BY <1>11 DEF EnsureMergeTool
  <2> QED
    BY <1>9, <1>11, <2>1 DEF EnsureMergeTool, disk
<1>12. CASE CompileHelper(b)
  BY <1>9, <1>12 DEF CompileHelper
<1>13. CASE WriteAdapter(b)
  <2>1. Goto(b, "fill") /\ At(b, "adapter") /\ UNCHANGED bins /\ adapter' = [adapter EXCEPT ![Of(b)] = "empty"]
    BY <1>13 DEF WriteAdapter
  <2>2. call'[b].pc = "fill" /\ call'[b].r = call[b].r /\ By(b).pipe /\ Built(Of(b), call[b].r)
    BY <1>1, <1>2, <2>1, GotoGoes DEF Along, At
  <2>3. adapter'[Of(b)] = "empty" /\ \A c \in Commits : c # Of(b) => adapter'[c] = adapter[c]
    BY <1>1, <1>3, <2>1
  <2>4. Along(b)'
    BY <1>1, <2>1, <2>2 DEF Along, At, Built
  <2> QED
    BY <2>1, <2>2, <2>3, <2>4, OthersGoOn
<1>14. CASE FillAdapter(b)
  <2>1. Goto(b, "clean") /\ At(b, "fill") /\ UNCHANGED bins /\ adapter' = [adapter EXCEPT ![Of(b)] = call[b].r]
    BY <1>14 DEF FillAdapter
  <2>2. call'[b].pc = "clean" /\ call'[b].r = call[b].r /\ By(b).pipe /\ Built(Of(b), call[b].r)
    BY <1>1, <1>2, <2>1, GotoGoes DEF Along, At
  <2>3. adapter'[Of(b)] = call[b].r /\ \A c \in Commits : c # Of(b) => adapter'[c] = adapter[c]
    BY <1>1, <1>3, <2>1
  <2>4. Finished(Of(b), call[b].r)'
    BY <1>1, <2>1, <2>2, <2>3 DEF Finished, Built
  <2>5. Along(b)'
    BY <1>1, <2>2, <2>4 DEF Along, At
  <2> QED
    BY <2>1, <2>2, <2>3, <2>5, OthersGoOn
<1>15. CASE CleanUp(b)
  <2>1. Goto(b, "ok") /\ At(b, "clean") /\ UNCHANGED <<bins, adapter>>
    BY <1>15 DEF CleanUp
  <2>2. Finished(Of(b), call[b].r)
    BY <1>2, <2>1 DEF Along
  <2>3. Along(b)'
    BY <1>1, <2>1, GotoGoes DEF Along, At
  <2> QED
    BY <1>4, <2>1, <2>2, <2>3 DEF At
<1>16. CASE ExportFails(b) \/ HelperFails(b)
  <2>1. Goto(b, "failed") /\ ~At(b, "fill") /\ UNCHANGED <<bins, adapter>>
    BY <1>16 DEF ExportFails, HelperFails, disk, At
  <2>2. Along(b)'
    BY <1>1, <2>1, GotoGoes DEF Along, At
  <2> QED
    BY <1>4, <2>1, <2>2
<1> QED
  BY <1>5, <1>6, <1>7, <1>8, <1>10, <1>11, <1>12, <1>13, <1>14, <1>15, <1>16 DEF BuildStep

\* Nothing of the cache moves, and no call begins.
LEMMA EnginesRest ==
  ASSUME EnginesInv, disk' = disk, snaps' = snaps,
         \A b \in Builders : call'[b] = call[b] \/ (call'[b] = NoCall /\ ~At(b, "fill")),
         Main \in Builders
  PROVE  EnginesInv'
<1>1. /\ \A c \in Commits, r \in Recipes : (Built(c, r)' <=> Built(c, r)) /\ (Finished(c, r)' <=> Finished(c, r))
      /\ adapter' = adapter /\ bins' = bins
  BY DEF disk, Built, Finished
<1>2. ASSUME NEW b \in Builders, call'[b] # NoCall PROVE Asked(Of(b), call[b].r)' /\ Along(b)'
  <2>1. call'[b] = call[b] /\ Asked(Of(b), call[b].r) /\ Along(b)
    BY <1>2 DEF EnginesInv
  <2> QED
    BY <1>1, <2>1 DEF Asked, Along, At, Of, By, Built, Finished
<1>3. At(Main, "ok")' => Finished(Of(Main), call[Main].r)'
  <2> SUFFICES ASSUME At(Main, "ok")' PROVE Finished(Of(Main), call[Main].r)'
    OBVIOUS
  <2>1. call'[Main] = call[Main]
    BY DEF At, NoCall
  <2> QED
    BY <1>1, <2>1 DEF EnginesInv, At, Of, Finished, Built
<1>4. AdaptersAreSound'
  <2> SUFFICES ASSUME NEW c \in Commits
               PROVE  /\ adapter'[c] \in Recipes => /\ Asked(c, adapter[c])' /\ Recipe[adapter'[c]].pipe
                                                    /\ Built(c, adapter[c])'
                      /\ adapter'[c] = "empty" => \E b \in Builders : At(b, "fill")' /\ Of(b)' = c
    BY DEF AdaptersAreSound
  <2>1. /\ adapter[c] \in Recipes => Asked(c, adapter[c]) /\ Recipe[adapter[c]].pipe /\ Built(c, adapter[c])
        /\ adapter[c] = "empty" => \E b \in Builders : At(b, "fill") /\ Of(b) = c
    BY DEF EnginesInv, AdaptersAreSound
  <2>2. adapter[c] \in Recipes => Asked(c, adapter[c])' /\ Built(c, adapter[c])'
    BY <1>1, <2>1 DEF Asked, Built
  <2>3. \A b \in Builders : At(b, "fill") => At(b, "fill")' /\ Of(b)' = Of(b)
    BY DEF At, Of
  <2> QED
    BY <1>1, <2>1, <2>2, <2>3
<1> QED
  BY <1>2, <1>3, <1>4 DEF EnginesInv

\* A call begins, for a column that is asked for.
LEMMA AskEngines ==
  ASSUME EnginesInv, CacheTypeOK, NEW b \in Builders, At(b, "none"), NEW i \in DOMAIN snaps, Ask(b, snaps[i]),
         disk' = disk, snaps' = snaps, Main \in Builders
  PROVE  EnginesInv'
<1> DEFINE new == [pc |-> IF Held(snaps[i]) THEN "stat" ELSE "failed", c |-> snaps[i].sha, r |-> snaps[i].recipe, n |-> 1]
<1>1. call'[b] = new /\ \A o \in Builders \ {b} : call'[o] = call[o]
  BY DEF Ask, Called, CacheTypeOK
<1>2. /\ call'[b].pc \in {"stat", "failed"} /\ call'[b].n = 1 /\ call'[b].r = snaps[i].recipe
      /\ Of(b)' = snaps[i].sha
  BY <1>1 DEF Of
<1> HIDE DEF new
<1>3. Asked(snaps[i].sha, snaps[i].recipe)
  <2>1. snaps \in Plans
    BY DEF EnginesInv
  <2> QED
    BY <2>1 DEF Asked
<1>4. Along(b)'
  BY <1>2 DEF Along, At
<1>5. /\ \A c \in Commits, r \in Recipes : (Built(c, r)' <=> Built(c, r)) /\ (Finished(c, r)' <=> Finished(c, r))
      /\ adapter' = adapter /\ bins' = bins
  BY DEF disk, Built, Finished
<1>6. ASSUME NEW o \in Builders, call'[o] # NoCall PROVE Asked(Of(o), call[o].r)' /\ Along(o)'
  <2>1. CASE o = b
    BY <1>2, <1>3, <1>4, <2>1 DEF Asked
  <2>2. CASE o # b
    <3>1. call'[o] = call[o] /\ Asked(Of(o), call[o].r) /\ Along(o)
      BY <1>1, <1>6, <2>2 DEF EnginesInv
    <3> QED
      BY <1>5, <3>1 DEF Asked, Along, At, Of, By, Built, Finished
  <2> QED
    BY <2>1, <2>2
<1>7. At(Main, "ok")' => Finished(Of(Main), call[Main].r)'
  <2> SUFFICES ASSUME At(Main, "ok")' PROVE Finished(Of(Main), call[Main].r)'
    OBVIOUS
  <2>1. Main # b /\ call'[Main] = call[Main]
    BY <1>1, <1>2 DEF At
  <2> QED
    BY <1>5, <2>1 DEF EnginesInv, At, Of, Finished, Built
<1>8. AdaptersAreSound'
  <2> SUFFICES ASSUME NEW c \in Commits
               PROVE  /\ adapter'[c] \in Recipes => /\ Asked(c, adapter[c])' /\ Recipe[adapter'[c]].pipe
                                                    /\ Built(c, adapter[c])'
                      /\ adapter'[c] = "empty" => \E o \in Builders : At(o, "fill")' /\ Of(o)' = c
    BY DEF AdaptersAreSound
  <2>1. /\ adapter[c] \in Recipes => Asked(c, adapter[c]) /\ Recipe[adapter[c]].pipe /\ Built(c, adapter[c])
        /\ adapter[c] = "empty" => \E o \in Builders : At(o, "fill") /\ Of(o) = c
    BY DEF EnginesInv, AdaptersAreSound
  <2>2. adapter[c] \in Recipes => Asked(c, adapter[c])' /\ Built(c, adapter[c])'
    BY <1>5, <2>1 DEF Asked, Built
  <2>3. \A o \in Builders : At(o, "fill") => At(o, "fill")' /\ Of(o)' = Of(o)
    BY <1>1 DEF At, Of
  <2> QED
    BY <1>5, <2>1, <2>2, <2>3
<1> QED
  BY <1>6, <1>7, <1>8 DEF EnginesInv

LEMMA EnginesInit == Init => EnginesInv
<1> SUFFICES ASSUME Init PROVE EnginesInv
  OBVIOUS
<1>1. snaps = <<>> /\ \A b \in Builders : call[b] = NoCall
  BY DEF Init, CacheInit
<1>2. At(Main, "ok") => FALSE
  BY <1>1, TimelineAssumption DEF At, NoCall
<1>3. AdaptersAreSound
  <2>1. \A c \in Commits : adapter[c] = None
    BY DEF Init, CacheInit
  <2> QED
    BY <2>1, CacheAssumption DEF AdaptersAreSound, None
<1> QED
  BY <1>1, <1>2, <1>3 DEF EnginesInv

LEMMA EnginesStep == OneRecipeEach /\ BuildInv /\ EnginesInv /\ [Next]_vars => EnginesInv'
<1> SUFFICES ASSUME OneRecipeEach, BuildInv, EnginesInv, [Next]_vars PROVE EnginesInv'
  OBVIOUS
<1>0. CacheTypeOK /\ snaps \in Seq(Snapshot) /\ Main \in Builders
  BY TimelineAssumption DEF BuildInv
<1>1. ASSUME cacheVars' = cacheVars, snaps' = snaps PROVE EnginesInv'
  BY <1>0, <1>1, EnginesRest DEF cacheVars, process
<1>2. CASE UNCHANGED vars
  BY <1>1, <1>2 DEF vars, runVars
<1>3. CASE List \/ \E d \in Ids : EditDiagram(d)
  BY <1>1, <1>3 DEF List, EditDiagram, runVars
<1>4. CASE StartRun
  <2>1. snaps' \in Plans /\ disk' = disk /\ call' = call
    BY <1>4 DEF StartRun, process
  <2>2. (disk' = disk /\ call' = call) => (\A b \in Builders : call'[b] # NoCall => Asked(Of(b), call[b].r)' /\ Along(b)')
    <3> SUFFICES ASSUME disk' = disk, call' = call, NEW b \in Builders, call[b] # NoCall
                 PROVE  Asked(Of(b), call[b].r)' /\ Along(b)'
      OBVIOUS
    <3>1. Asked(Of(b), call[b].r) /\ Along(b)
      BY DEF EnginesInv
    <3> QED
      BY <3>1 DEF Asked, Along, At, Of, By, Built, Finished, disk
  <2>3. (At(Main, "ok") => Finished(Of(Main), call[Main].r))'
    BY <2>1 DEF EnginesInv, At, Of, Finished, Built, disk
  <2>4. AdaptersAreSound'
    BY <2>1 DEF EnginesInv, AdaptersAreSound, Asked, Built, At, Of, disk
  <2> QED
    BY <2>1, <2>2, <2>3, <2>4 DEF EnginesInv
<1>5. ASSUME NEW b \in Builders, Building(b) PROVE EnginesInv'
  BY <1>5, BuildingEngines DEF Building, runVars
<1>6. ASSUME NEW w \in Pool, TakeJob(w) PROVE EnginesInv'
  <2>1. PICK i \in jobs : Ask(w, snaps[i])
    BY <1>6 DEF TakeJob
  <2>2. jobs \subseteq Jobs(snaps)
    BY <1>6 DEF TakeJob, BuildInv, NeverMeet
  <2>3. i \in DOMAIN snaps /\ w \in Builders /\ At(w, "none") /\ disk' = disk /\ snaps' = snaps
    BY <1>6, <2>2 DEF TakeJob, Jobs, Pool, runVars
  <2> QED
    BY <1>0, <2>1, <2>3, AskEngines
<1>7. ASSUME NEW b \in Builders, ~At(b, "fill"), call' = [call EXCEPT ![b] = NoCall], disk' = disk, snaps' = snaps
      PROVE  EnginesInv'
  <2>1. \A o \in Builders : call'[o] = call[o] \/ (call'[o] = NoCall /\ ~At(o, "fill"))
    BY <1>0, <1>7 DEF CacheTypeOK
  <2> QED
    BY <1>0, <1>7, <2>1, EnginesRest
<1>8. ASSUME NEW w \in Pool, JobDone(w) PROVE EnginesInv'
  <2>1. ~At(w, "fill") /\ w \in Builders
    BY <1>8 DEF JobDone, At, Pool
  <2> QED
    BY <1>7, <1>8, <2>1 DEF JobDone, runVars
<1>9. CASE BuildAllDone \/ SkipColumn \/ BuildWorkdir \/ StartSweep \/ (\E d \in Ids : SweepDiagram(d)) \/ CompareDone
  BY <1>1, <1>9 DEF BuildAllDone, SkipColumn, BuildWorkdir, StartSweep, SweepDiagram, CompareDone, runVars
<1>10. CASE AskEngine
  <2>1. Len(weeks) + 1 \in DOMAIN snaps
    BY <1>0, <1>10 DEF AskEngine, InCompare
  <2> QED
    BY <1>0, <1>10, <2>1, AskEngines DEF AskEngine, NewSnap, runVars
<1>11. CASE NoEngine
  <2>1. ~At(Main, "fill")
    BY <1>11 DEF NoEngine, At
  <2> QED
    BY <1>0, <1>7, <1>11, <2>1 DEF NoEngine, runVars
<1>12. CASE SweepDone
  <2>1. ~At(Main, "fill")
    BY <1>12 DEF SweepDone, BuildInv, WhoBuilds, Busy, At
  <2> QED
    BY <1>0, <1>7, <1>12, <2>1 DEF SweepDone, runVars
<1>13. CASE PutPane \/ PanesDone \/ RemoveOrphan \/ PruneDone \/ ClearPages
  BY <1>1, <1>13 DEF PutPane, PanesDone, RemoveOrphan, PruneDone, ClearPages, runVars
<1>14. ASSUME ProcessGone, disk' = disk, snaps' = snaps, \A b \in Builders : ~At(b, "fill") PROVE EnginesInv'
  BY <1>0, <1>14, EnginesRest DEF ProcessGone
<1>15. CASE WritePages
  <2>1. \A b \in Builders : ~At(b, "fill")
    BY <1>15 DEF WritePages, BuildInv, WhoBuilds, Resting, At, NoCall
  <2> QED
    BY <1>14, <1>15, <2>1 DEF WritePages, runVars
<1>16. CASE Crash
  BY <1>14, <1>16 DEF Crash, runVars
<1> QED
  BY <1>2, <1>3, <1>4, <1>5, <1>6, <1>8, <1>9, <1>10, <1>11, <1>12, <1>13, <1>15, <1>16 DEF Next, Progress

\* An engine of a run that is asked for twice, in two ways, is recognised for what it is (engine.go), and one that
\* main goes on with is all there.
THEOREM EnginesAreWhole == ASSUME OneRecipeEach PROVE Spec => []EnginesInv
<1>1. Init => EnginesInv
  BY EnginesInit
<1>2. BuildInv /\ EnginesInv /\ [Next]_vars => EnginesInv'
  BY EnginesStep
<1> QED
  BY <1>1, <1>2, BuildInvariant, PTL DEF Spec

(* ---------------------------------------------------------------------- *)
(* What a column holds its own engine gave. *)

\* Nothing of the columns changes, nor of the engine main has in hand.
LEMMA SweptRests ==
  ASSUME SweptInv, weeks' = weeks, snaps' = snaps,
         phase' \in {"build", "compare", "sweep"} => phase' = phase /\ sweep' = sweep,
         phase' \in {"compare", "sweep"} => call'[Main] = call[Main]
  PROVE  SweptInv'
<1>1. NewSnap' = NewSnap /\ (\A k : Swept(k)' = Swept(k) /\ Engine(k)' = Engine(k))
  BY DEF NewSnap, Swept, Engine
<1> QED
  BY <1>1 DEF SweptInv, Gave, Of, At

\* A column is added.
LEMMA SweptGrows ==
  ASSUME SweptInv, weeks \in Seq(Column1), NEW w \in Column1, weeks' = Append(weeks, w), snaps' = snaps,
         phase' = "compare", sweep' = NoSweep, call'[Main] = NoCall,
         w.swept => \A d \in Ids : Gave(NewSnap.sha, d, w.gen[d], w.texts[d])
  PROVE  SweptInv'
<1>1. PICK n \in Nat : n = Len(weeks)
  OBVIOUS
<1>2. /\ DOMAIN weeks = 1 .. n /\ DOMAIN weeks' = 1 .. n + 1
      /\ weeks'[n + 1] = w /\ \A k \in 1 .. n : weeks'[k] = weeks[k]
  BY <1>1
<1>3. ASSUME NEW k \in DOMAIN weeks', Swept(k)', NEW d \in Ids
      PROVE  Gave(Engine(k), d, weeks[k].gen[d], weeks[k].texts[d])'
  <2>1. CASE k = n + 1
    <3>1. weeks'[k] = w /\ snaps'[k] = NewSnap
      BY <1>1, <1>2, <2>1 DEF NewSnap
    <3>2. w.swept
      BY <1>3, <3>1 DEF Swept
    <3> QED
      BY <3>1, <3>2 DEF Gave, Engine
  <2>2. CASE k # n + 1
    <3>1. k \in DOMAIN weeks /\ weeks'[k] = weeks[k]
      BY <1>2, <2>2
    <3> QED
      BY <1>3, <3>1 DEF SweptInv, Swept, Gave, Engine
  <2> QED
    BY <2>1, <2>2
<1> QED
  BY <1>3 DEF SweptInv

\* The engine main sweeps gives one of its own layouts.
LEMMA RunsAreItsOwn ==
  ASSUME BuildInv, TypeOK, EnginesInv, SweptInv, phase = "sweep", NEW d \in Ids
  PROVE  Runs(d) = Lays[NewSnap.sha][d][text[d]]
<1>1. CASE NewSnap.sha = Workdir
  BY <1>1 DEF Runs
<1>2. CASE NewSnap.sha # Workdir
  <2>1. At(Main, "ok") /\ call[Main] # NoCall /\ Main \in Builders /\ call[Main].pc # "none"
    BY <1>2, TimelineAssumption DEF SweptInv, At, NoCall
  <2>2. Of(Main) = NewSnap.sha /\ call[Main].r = NewSnap.recipe /\ Finished(Of(Main), call[Main].r)
    BY <2>1 DEF SweptInv, EnginesInv
  <2>3. Of(Main) \in Commits /\ call[Main].r \in Recipes /\ By(Main).pkgs \in Seq(Packages)
    BY <2>1, AtIsACall DEF BuildInv
  <2>4. \A c \in Commits, p \in Packages : bins[c][p] \in {None, "good"}
    BY DEF BuildInv, CacheTypeOK, BuildsAreSound
  <2>5. \A i \in DOMAIN By(Main).pkgs : bins[Of(Main)][By(Main).pkgs[i]] = "good"
    <3> SUFFICES ASSUME NEW i \in DOMAIN By(Main).pkgs PROVE bins[Of(Main)][By(Main).pkgs[i]] = "good"
      OBVIOUS
    <3>1. By(Main).pkgs[i] \in Packages
      BY <2>3
    <3>2. bins[Of(Main)][By(Main).pkgs[i]] # None
      BY <2>2 DEF Finished, Built, By
    <3> QED
      BY <2>3, <2>4, <3>1, <3>2
  <2>6. Complete(NewSnap.sha, NewSnap.recipe)
    BY <2>2, <2>5 DEF Complete, Finished, By
  <2> QED
    BY <2>6 DEF Runs
<1> QED
  BY <1>1, <1>2

LEMMA SweptInit == Init => SweptInv
<1> SUFFICES ASSUME Init PROVE SweptInv
  OBVIOUS
<1>1. phase = "off" /\ DOMAIN weeks = {}
  BY DEF Init
<1> QED
  BY <1>1 DEF SweptInv

LEMMA SweptStep ==
  BuildInv /\ TypeOK /\ HistoryInv /\ EnginesInv /\ SweptInv /\ [Next]_vars => SweptInv'
<1> SUFFICES ASSUME BuildInv, TypeOK, HistoryInv, EnginesInv, SweptInv, [Next]_vars PROVE SweptInv'
  OBVIOUS
<1>0. /\ CacheTypeOK /\ Main \in Builders /\ {Workdir, NoSHA} \cap Commits = {}
      /\ weeks \in Seq(Column1) /\ snaps \in Seq(Snapshot)
      /\ sweep \in [Ids -> {Todo} \cup [r : Results, t : 0 .. MaxEdits]]
      /\ phase = "build" => call[Main] = NoCall
      /\ phase = "compare" /\ call[Main] # NoCall => NewSnap.sha \in Commits /\ ~NewSnap.same
  BY TimelineAssumption DEF BuildInv, WhoBuilds, Resting, TypeOK
<1>1. CASE UNCHANGED vars
  BY <1>1, SweptRests DEF vars, runVars, cacheVars, process
<1>2. CASE List \/ \E d \in Ids : EditDiagram(d)
  BY <1>2, SweptRests DEF List, EditDiagram, runVars, cacheVars, process
<1>3. CASE StartRun
  <2>1. phase' = "build" /\ weeks' = <<>> /\ sweep' = NoSweep
    BY <1>3 DEF StartRun
  <2>2. DOMAIN weeks' = {}
    BY <2>1
  <2> QED
    BY <2>1, <2>2 DEF SweptInv
<1>4. ASSUME NEW b \in Builders, Building(b) PROVE SweptInv'
  <2>1. /\ UNCHANGED <<weeks, snaps, phase, sweep>> /\ Busy(b)
        /\ \A o \in Builders \ {b} : call'[o] = call[o]
        /\ Of(b)' = Of(b)
    BY <1>0, <1>4, StepIsLocal DEF Building, runVars
  <2>2. CASE b # Main
    BY <1>0, <2>1, <2>2, SweptRests
  <2>3. CASE b = Main
    <3>1. phase # "sweep" /\ call[Main] # NoCall /\ call[Main].pc # "none"
      BY <2>1, <2>3 DEF BuildInv, WhoBuilds, Busy, NoCall
    <3>2. call'[Main].r = call[Main].r
      <4>1. CASE BuildPackage(Main)
        <5>1. call[Main] \in Calls
          BY <1>0, <3>1, AtIsACall
        <5> DEFINE pc == IF call[Main].n = Len(By(Main).pkgs) THEN AfterPackages(Main) ELSE "build"
        <5>2. \/ call' = [call EXCEPT ![Main].pc = "failed"]
              \/ call' = [call EXCEPT ![Main].n = @ + 1, ![Main].pc = pc]
          BY <4>1 DEF BuildPackage, Goto
        <5> HIDE DEF pc
        <5>3. \/ call'[Main] = [call[Main] EXCEPT !.pc = "failed"]
              \/ call'[Main] = [[call[Main] EXCEPT !.n = @ + 1] EXCEPT !.pc = pc]
          BY <1>0, <5>2 DEF CacheTypeOK
        <5> QED
          BY <5>1, <5>3 DEF Calls
      <4>2. CASE ~BuildPackage(Main)
        <5>1. \E pc : Goto(Main, pc)
          BY <1>4, <2>3, <4>2 DEF Building, BuildStep, Stat, ExportStart, ExportEnd, ExportFails, LockMerge,
                 EnsureMergeTool, CompileHelper, HelperFails, WriteAdapter, FillAdapter, CleanUp
        <5> QED
          BY <1>0, <3>1, <5>1, GotoGoes
      <4> QED
        BY <4>1, <4>2
    <3>3. NewSnap' = NewSnap /\ (\A k : Swept(k)' = Swept(k) /\ Engine(k)' = Engine(k))
      BY <2>1 DEF NewSnap, Swept, Engine
    <3>4. phase' = "compare" => Of(Main)' = NewSnap'.sha /\ call'[Main].r = NewSnap'.recipe
      BY <2>1, <2>3, <3>1, <3>2, <3>3 DEF SweptInv
    <3> QED
      BY <2>1, <3>1, <3>3, <3>4 DEF SweptInv, Gave
  <2> QED
    BY <2>2, <2>3
<1>5. ASSUME NEW w \in Pool, TakeJob(w) \/ JobDone(w) PROVE SweptInv'
  BY <1>5, SweptRests DEF TakeJob, JobDone, runVars
<1>6. CASE BuildAllDone
  <2>1. phase = "build" /\ phase' = "compare" /\ UNCHANGED <<weeks, snaps, call, sweep>>
    BY <1>6 DEF BuildAllDone, runVars, cacheVars, process
  <2>2. call'[Main] = NoCall /\ sweep' = NoSweep
    BY <1>0, <2>1 DEF SweptInv
  <2> QED
    BY <2>1, <2>2 DEF SweptInv, Swept, Gave, Engine
<1>7. ASSUME NEW note \in {"none_yet", "same", "unbuildable"}, Column(Blank(note)), phase = "compare",
             UNCHANGED <<snaps, phase, sweep>>, call'[Main] = NoCall
      PROVE  SweptInv'
  <2>1. Blank(note) \in Column1 /\ ~Blank(note).swept /\ weeks' = Append(weeks, Blank(note)) /\ sweep' = NoSweep
    BY <1>7, BlankColumns DEF Column, SweptInv
  <2> QED
    BY <1>0, <1>7, <2>1, SweptGrows
<1>8. CASE SkipColumn
  <2>1. PICK note \in {"none_yet", "same", "unbuildable"} : Column(Blank(note))
    BY <1>8 DEF SkipColumn
  <2>2. phase = "compare" /\ UNCHANGED <<snaps, phase, sweep, call>> /\ (NewSnap.sha = NoSHA \/ NewSnap.same)
    BY <1>8 DEF SkipColumn, InCompare, runVars, cacheVars, process
  <2>3. call[Main] = NoCall
    BY <1>0, <2>2
  <2> QED
    BY <1>7, <2>1, <2>2, <2>3
<1>9. CASE AskEngine
  <2>1. phase = "compare" /\ UNCHANGED <<weeks, snaps, phase, sweep>> /\ NewSnap' = NewSnap
    BY <1>9 DEF AskEngine, InCompare, NewSnap, runVars
  <2>2. call'[Main].r = NewSnap.recipe /\ Of(Main)' = NewSnap.sha
    BY <1>0, <1>9 DEF AskEngine, Ask, Called, CacheTypeOK, Of
  <2> QED
    BY <2>1, <2>2 DEF SweptInv, Swept, Gave, Engine
<1>10. CASE NoEngine
  <2>1. call'[Main] = NoCall
    BY <1>0, <1>10 DEF NoEngine, CacheTypeOK
  <2> QED
    BY <1>7, <1>10, <2>1 DEF NoEngine, runVars
<1>11. CASE BuildWorkdir
  <2>1. /\ phase = "compare" /\ UNCHANGED <<snaps, sweep, call>> /\ NewSnap.sha = Workdir
        /\ (phase' = "sweep" /\ weeks' = weeks) \/ (Column(Blank("unbuildable")) /\ phase' = phase)
    BY <1>11 DEF BuildWorkdir, InCompare, runVars, cacheVars, process
  <2>2. call'[Main] = NoCall /\ sweep' = NoSweep
    BY <1>0, <2>1 DEF SweptInv
  <2>3. CASE phase' = "sweep" /\ weeks' = weeks
    BY <2>1, <2>2, <2>3 DEF SweptInv, Swept, Gave, Engine, NewSnap, NoSweep
  <2>4. CASE Column(Blank("unbuildable")) /\ phase' = phase
    BY <1>7, <2>1, <2>2, <2>4
  <2> QED
    BY <2>1, <2>3, <2>4
<1>12. CASE StartSweep
  <2>1. phase = "compare" /\ phase' = "sweep" /\ At(Main, "ok") /\ UNCHANGED <<weeks, snaps, sweep, call>>
    BY <1>12 DEF StartSweep, runVars, cacheVars, process
  <2>2. sweep = NoSweep /\ NewSnap' = NewSnap /\ At(Main, "ok")' /\ Of(Main)' = Of(Main)
    BY <2>1 DEF SweptInv, NewSnap, At, Of
  <2> QED
    BY <2>1, <2>2 DEF SweptInv, Swept, Gave, Engine, NoSweep
<1>13. ASSUME NEW d \in Ids, SweepDiagram(d) PROVE SweptInv'
  <2>1. phase = "sweep" /\ UNCHANGED <<weeks, snaps, phase, call>> /\ NewSnap' = NewSnap
    BY <1>13 DEF SweepDiagram, runVars, cacheVars, process, NewSnap
  <2>2. PICK r \in Runs(d) : sweep' = [sweep EXCEPT ![d] = [r |-> r, t |-> text[d]]]
    BY <1>13 DEF SweepDiagram
  <2>3. Gave(NewSnap.sha, d, r, text[d])
    BY <2>1, <2>2, RunsAreItsOwn DEF Gave
  <2>4. \A e \in Ids : sweep'[e] # Todo => Gave(NewSnap.sha, e, sweep'[e].r, sweep'[e].t)
    <3> SUFFICES ASSUME NEW e \in Ids, sweep'[e] # Todo PROVE Gave(NewSnap.sha, e, sweep'[e].r, sweep'[e].t)
      OBVIOUS
    <3>1. CASE e = d
      BY <1>0, <2>2, <2>3, <3>1
    <3>2. CASE e # d
      BY <1>0, <2>1, <2>2, <3>2 DEF SweptInv
    <3> QED
      BY <3>1, <3>2
  <2> QED
    BY <2>1, <2>4 DEF SweptInv, Swept, Gave, Engine, At, Of
<1>14. CASE SweepDone
  <2>1. phase = "sweep" /\ phase' = "compare" /\ snaps' = snaps /\ sweep' = NoSweep /\ \A d \in Ids : sweep[d] # Todo
    BY <1>14 DEF SweepDone, runVars
  <2>2. call'[Main] = NoCall
    BY <1>0, <1>14 DEF SweepDone, CacheTypeOK
  <2>3. PICK w \in Column1 : /\ weeks' = Append(weeks, w)
                             /\ \A d \in Ids : w.gen[d] = sweep[d].r /\ w.texts[d] = sweep[d].t
    BY <1>14, SweptColumn
  <2>4. \A d \in Ids : Gave(NewSnap.sha, d, w.gen[d], w.texts[d])
    BY <2>1, <2>3 DEF SweptInv
  <2> QED
    BY <1>0, <2>1, <2>2, <2>3, <2>4, SweptGrows
<1>15. CASE CompareDone \/ PutPane \/ PanesDone \/ RemoveOrphan \/ PruneDone \/ ClearPages \/ WritePages \/ Crash
  <2>1. weeks' = weeks /\ snaps' = snaps /\ phase' \notin {"build", "compare", "sweep"}
    BY <1>15 DEF CompareDone, PutPane, PanesDone, RemoveOrphan, PruneDone, ClearPages, WritePages, Crash, runVars
  <2> QED
    BY <2>1, SweptRests
<1> QED
  BY <1>1, <1>2, <1>3, <1>4, <1>5, <1>6, <1>8, <1>9, <1>10, <1>11, <1>12, <1>13, <1>14, <1>15 DEF Next, Progress

\* For a diagram that both engines lay out always the same, a row says that it has moved exactly if they disagree:
\* with the columns telling the history, which is about the requests alone, that is all of RowsCompareEngines.
THEOREM RowsCompareTheEngines ==
  ASSUME OneRecipeEach
  PROVE  Spec => [](ColumnsAreTheHistory => RowsCompareEngines)
<1>1. Init => SweptInv
  BY SweptInit
<1>2. BuildInv /\ (TypeOK /\ HistoryInv) /\ EnginesInv /\ SweptInv /\ [Next]_vars => SweptInv'
  BY SweptStep
<1>3. ASSUME TypeOK, HistoryInv, SweptInv, ColumnsAreTheHistory PROVE RowsCompareEngines
  <2> SUFFICES ASSUME NEW k \in DOMAIN weeks, weeks[k].rows # <<>>
               PROVE  LET j == weeks[k].against
                      IN  /\ j < k /\ Swept(j) /\ \A i \in j + 1 .. k - 1 : ~Swept(i)
                          /\ \A d \in Ids : Steady(j, d) /\ Steady(k, d) /\ weeks[j].texts[d] = weeks[k].texts[d] =>
                               (d \in Moved(weeks[k]) <=>
                                  Lays[Engine(j)][d][weeks[j].texts[d]] # Lays[Engine(k)][d][weeks[k].texts[d]])
    BY <1>3 DEF RowsCompareEngines
  <2> DEFINE j == weeks[k].against
  <2>1. Swept(k) /\ j # 0 /\ NewestSwept(j, k)
    BY <1>3 DEF HistoryInv, Compared
  <2>2. k \in 1 .. Len(weeks) /\ Len(weeks) \in Nat
    BY <1>3 DEF TypeOK
  <2>3. j \in 1 .. k - 1 /\ j \in DOMAIN weeks /\ Swept(j) /\ \A i \in j + 1 .. k - 1 : ~Swept(i)
    <3>1. j \in 1 .. k - 1 /\ Swept(j) /\ \A i \in j + 1 .. k - 1 : ~Swept(i)
      BY <2>1 DEF NewestSwept
    <3>2. j \in 1 .. Len(weeks)
      BY <2>2, <3>1
    <3> QED
      BY <1>3, <3>1, <3>2 DEF TypeOK
  <2>4. ASSUME NEW d \in Ids, Steady(j, d), Steady(k, d)
        PROVE  d \in Moved(weeks[k]) <=>
                 Lays[Engine(j)][d][weeks[j].texts[d]] # Lays[Engine(k)][d][weeks[k].texts[d]]
    <3>1. d \in Moved(weeks[k]) <=> weeks[j].gen[d] # weeks[k].gen[d]
      BY <1>3, <2>1, MovedIfDifferent
    <3>2. /\ weeks[j].gen[d] \in Lays[Engine(j)][d][weeks[j].texts[d]]
          /\ weeks[k].gen[d] \in Lays[Engine(k)][d][weeks[k].texts[d]]
      BY <1>3, <2>1, <2>3 DEF SweptInv, Gave
    <3> HIDE DEF j
    <3>3. /\ Lays[Engine(j)][d][weeks[j].texts[d]] = {weeks[j].gen[d]}
          /\ Lays[Engine(k)][d][weeks[k].texts[d]] = {weeks[k].gen[d]}
      BY <2>4, <3>2 DEF Steady
    <3> QED
      BY <3>1, <3>3
  <2>5. j < k
    BY <2>2, <2>3
  <2> QED
    BY <2>3, <2>4, <2>5
<1> QED
  BY <1>1, <1>2, <1>3, BuildInvariant, ColumnsAreTold, EnginesAreWhole, PTL DEF Spec

(* ---------------------------------------------------------------------- *)
(* The gallery. *)

\* The gallery of a column is what the column makes of the gallery before it.
NoPictures == [d \in Ids |-> 0]
LEMMA GalleryIsCarried ==
  ASSUME weeks \in Seq(Column1)
  PROVE  Gallery[0] = NoPictures /\ \A k \in 1 .. Len(weeks) : Gallery[k] = Carried(weeks[k], Gallery[k - 1])
<1>0. PICK n \in Nat : n = Len(weeks)
  OBVIOUS
<1> DEFINE Upto(m, g) == g = [k \in 0 .. m |-> IF k = 0 THEN NoPictures ELSE Carried(weeks[k], g[k - 1])]
           Missing == {m \in 0 .. n : ~\E g : Upto(m, g)}
<1>1. Missing = {}
  <2>1. SUFFICES ASSUME Missing # {} PROVE FALSE
    OBVIOUS
  <2>2. PICK m \in Missing : \A k \in Missing : m <= k
    <3>1. Missing \in SUBSET Nat
      OBVIOUS
    <3> HIDE DEF Missing
    <3> QED
      BY <2>1, <3>1, LeastElement
  <2>3. CASE m = 0
    <3> DEFINE g == [k \in 0 .. 0 |-> NoPictures]
    <3>1. g = [k \in 0 .. 0 |-> IF k = 0 THEN NoPictures ELSE Carried(weeks[k], g[k - 1])]
      OBVIOUS
    <3> QED
      BY <2>2, <2>3, <3>1
  <2>4. CASE m # 0
    <3>1. m - 1 \in 0 .. n /\ m - 1 \notin Missing
      BY <2>2, <2>4
    <3>2. PICK g : Upto(m - 1, g)
      BY <3>1
    <3> DEFINE h == [k \in 0 .. m |-> IF k = m THEN Carried(weeks[m], g[m - 1]) ELSE g[k]]
    <3>3. \A k \in 0 .. m - 1 : h[k] = g[k]
      BY <2>2
    <3>4. \A k \in 0 .. m - 1 : g[k] = IF k = 0 THEN NoPictures ELSE Carried(weeks[k], g[k - 1])
      BY <3>2
    <3>5. \A k \in 0 .. m : h[k] = IF k = 0 THEN NoPictures ELSE Carried(weeks[k], h[k - 1])
      <4> SUFFICES ASSUME NEW k \in 0 .. m PROVE h[k] = IF k = 0 THEN NoPictures ELSE Carried(weeks[k], h[k - 1])
        OBVIOUS
      <4>1. CASE k = m
        <5>1. h[k] = Carried(weeks[m], g[m - 1]) /\ h[m - 1] = g[m - 1]
          BY <2>2, <2>4, <3>3, <4>1
        <5> HIDE DEF h
        <5> QED
          BY <2>4, <4>1, <5>1
      <4>2. CASE k # m
        <5>1. k \in 0 .. m - 1 /\ h[k] = g[k] /\ (k # 0 => k - 1 \in 0 .. m - 1)
          BY <2>2, <3>3, <4>2
        <5>2. k # 0 => h[k - 1] = g[k - 1]
          BY <3>3, <5>1
        <5> HIDE DEF h
        <5> QED
          BY <3>4, <5>1, <5>2
      <4> QED
        BY <4>1, <4>2
    <3>6. h = [k \in 0 .. m |-> IF k = 0 THEN NoPictures ELSE Carried(weeks[k], h[k - 1])]
      <4>1. h = [k \in 0 .. m |-> h[k]]
        OBVIOUS
      <4> HIDE DEF h
      <4> QED
        BY <3>5, <4>1
    <3> HIDE DEF h
    <3> QED
      BY <2>2, <3>6
  <2> QED
    BY <2>3, <2>4
<1>2. PICK g : Upto(n, g)
  BY <1>1
<1>3. Upto(n, Gallery)
  BY <1>0, <1>2 DEF Gallery, NoPictures
<1> QED
  BY <1>0, <1>3

\* What the gallery shows of a diagram: nothing as long as no engine was swept; then the picture of the newest
\* engine that was, or none if a row of the diagram was not drawn.
GalleryShows(k, d) ==
  /\ (\A i \in 1 .. k : ~Swept(i)) => Gallery[k][d] = 0
  /\ \A j \in 1 .. k : NewestSwept(j, k + 1) =>
       \/ Gallery[k][d] = weeks[j].gen[d]
       \/ Gallery[k][d] = 0 /\ \E i \in 1 .. k : d \in Moved(weeks[i]) \ weeks[i].drawn

LEMMA GalleryOfUnswept ==
  ASSUME TypeOK, HistoryInv, NEW k \in 1 .. Len(weeks), ~Swept(k), NEW d \in Ids,
         Gallery[k] = Carried(weeks[k], Gallery[k - 1]), GalleryShows(k - 1, d)
  PROVE  GalleryShows(k, d)
<1>1. weeks[k].rows = <<>> /\ weeks[k].drawn = {}
  BY DEF HistoryInv, TypeOK
<1>2. Gallery[k][d] = Gallery[k - 1][d]
  BY <1>1 DEF Carried, Moved
<1>3. (\A i \in 1 .. k : ~Swept(i)) => Gallery[k - 1][d] = 0
  BY DEF GalleryShows
<1>4. ASSUME NEW j \in 1 .. k, NewestSwept(j, k + 1)
      PROVE  \/ Gallery[k][d] = weeks[j].gen[d]
             \/ Gallery[k][d] = 0 /\ \E i \in 1 .. k : d \in Moved(weeks[i]) \ weeks[i].drawn
  <2>1. j \in 1 .. k - 1 /\ NewestSwept(j, (k - 1) + 1)
    BY <1>4 DEF NewestSwept
  <2>2. 1 .. k - 1 \subseteq 1 .. k
    OBVIOUS
  <2> QED
    BY <1>2, <2>1, <2>2 DEF GalleryShows
<1> QED
  BY <1>2, <1>3, <1>4 DEF GalleryShows

LEMMA GalleryOfSwept ==
  ASSUME TypeOK, HistoryInv, cap # 0, NEW k \in 1 .. Len(weeks), Swept(k), NEW d \in Ids,
         Gallery[k] = Carried(weeks[k], Gallery[k - 1]), GalleryShows(k - 1, d)
  PROVE  GalleryShows(k, d)
<1> DEFINE w == weeks[k]
           undrawn(n) == \E i \in 1 .. n : d \in Moved(weeks[i]) \ weeks[i].drawn
<1>1. k \in DOMAIN weeks /\ NewestSwept(w.against, k) /\ Compared(k)
  BY DEF HistoryInv, TypeOK
<1>2. Gallery[k][d] = IF d \in w.drawn /\ w.gen[d] # 0 THEN w.gen[d] ELSE IF d \in Moved(w) THEN 0 ELSE Gallery[k - 1][d]
  BY DEF Carried
<1>3. Gallery[k][d] = w.gen[d] \/ (Gallery[k][d] = 0 /\ undrawn(k))
  <2>1. CASE w.against = 0
    <3>1. w.rows = <<>> /\ w.drawn = Ids /\ Moved(w) = {}
      BY <1>1, <2>1 DEF Compared, Moved
    <3>2. Gallery[k - 1][d] = 0
      BY <1>1, <2>1 DEF NewestSwept, GalleryShows
    <3> QED
      BY <1>2, <3>1, <3>2
  <2>2. CASE w.against # 0
    <3>1. w.against \in 1 .. k - 1 /\ NewestSwept(w.against, (k - 1) + 1)
      BY <1>1, <2>2 DEF NewestSwept
    <3>2. \/ Gallery[k - 1][d] = weeks[w.against].gen[d]
          \/ Gallery[k - 1][d] = 0 /\ undrawn(k - 1)
      BY <3>1 DEF GalleryShows
    <3>3. d \in Moved(w) <=> weeks[w.against].gen[d] # w.gen[d]
      BY <1>1, <2>2, MovedIfDifferent
    <3>4. undrawn(k - 1) => undrawn(k)
      <4>1. 1 .. k - 1 \subseteq 1 .. k
        OBVIOUS
      <4> QED
        BY <4>1
    <3>5. d \in Moved(w) /\ d \notin w.drawn => undrawn(k)
      BY k \in 1 .. k
    <3> HIDE DEF undrawn, w
    <3> QED
      BY <1>2, <3>2, <3>3, <3>4, <3>5
  <2> QED
    BY <2>1, <2>2
<1>4. ~\A i \in 1 .. k : ~Swept(i)
  BY k \in 1 .. k
<1>5. ASSUME NEW j \in 1 .. k, NewestSwept(j, k + 1) PROVE j = k
  BY <1>5 DEF NewestSwept
<1> QED
  BY <1>3, <1>4, <1>5 DEF GalleryShows

\* What the gallery of a column shows is what its engine drew, although only what moved was drawn for it; a picture
\* is missing only where a row of the diagram was over the cap (gallery.go:3-13 and 53-56).
THEOREM GalleriesAreOfTheirColumns == Spec => []GalleryIsTheColumn
<1>1. ASSUME TypeOK, HistoryInv PROVE GalleryIsTheColumn
  <2> SUFFICES ASSUME cap # 0, NEW k \in DOMAIN weeks, Swept(k), NEW d \in Ids
               PROVE  \/ Gallery[k][d] = weeks[k].gen[d]
                      \/ /\ Gallery[k][d] = 0
                         /\ \E i \in 1 .. k : d \in Moved(weeks[i]) \ weeks[i].drawn
    BY DEF GalleryIsTheColumn
  <2>1. weeks \in Seq(Column1) /\ Len(weeks) \in Nat /\ DOMAIN weeks = 1 .. Len(weeks)
    BY <1>1 DEF TypeOK
  <2>2. Gallery[0] = NoPictures /\ \A i \in 1 .. Len(weeks) : Gallery[i] = Carried(weeks[i], Gallery[i - 1])
    BY <2>1, GalleryIsCarried
  <2> DEFINE Wrong == {i \in 0 .. Len(weeks) : ~GalleryShows(i, d)}
  <2>3. Wrong = {}
    <3>1. SUFFICES ASSUME Wrong # {} PROVE FALSE
      OBVIOUS
    <3>2. PICK m \in Wrong : \A i \in Wrong : m <= i
      <4>1. Wrong \in SUBSET Nat
        BY <2>1
      <4> HIDE DEF Wrong
      <4> QED
        BY <3>1, <4>1, LeastElement
    <3>3. CASE m = 0
      <4>1. GalleryShows(0, d)
        BY <2>2 DEF GalleryShows, NoPictures
      <4> QED
        BY <3>2, <3>3, <4>1
    <3>4. CASE m # 0
      <4>1. m \in 1 .. Len(weeks) /\ GalleryShows(m - 1, d)
        BY <2>1, <3>2, <3>4
      <4>2. GalleryShows(m, d)
        BY <1>1, <2>2, <4>1, GalleryOfSwept, GalleryOfUnswept
      <4> QED
        BY <3>2, <4>2
    <3> QED
      BY <3>3, <3>4
  <2>4. GalleryShows(k, d) /\ k \in 1 .. k /\ NewestSwept(k, k + 1)
    <3>1. k \in 1 .. Len(weeks) /\ k \in 0 .. Len(weeks)
      BY <2>1
    <3> QED
      BY <2>3, <3>1 DEF NewestSwept
  <2> QED
    BY <2>4 DEF GalleryShows
<1> QED
  BY <1>1, ColumnsAreTold, PTL
=============================================================================
