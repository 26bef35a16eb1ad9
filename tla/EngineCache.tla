---------------------------- MODULE EngineCache ----------------------------
(***************************************************************************)
(* pkg/layoutaudit/engine.go: BuildEngineWith and the cache directory it   *)
(* shares with every other call of this and of earlier processes.  A       *)
(* builder is one call, step by step over the file system; who calls it,   *)
(* and with what, is Timeline's business.  git, tar and go are external:   *)
(* a package of a commit compiles or it does not; an export, and a build   *)
(* of the helper, may fail in a call for one of the commits of `Faults`.   *)
(***************************************************************************)
EXTENDS Naturals, Sequences, FiniteSets

CONSTANTS
  Commits,     \* by short hash, which names their directories in the cache
  Builders,    \* the goroutines that call BuildEngineWith
  Packages,    \* what the recipes may build
  Compiles,    \* commit -> the packages that compile there
  Faults,      \* the commits in whose calls git, tar, or go for the helper, may fail, any time
  LayoutGen,   \* ./cmd/layout-gen, what a recipe without packages of its own builds
  Recipe       \* the name of a recipe -> how an era is built: the packages; whether it is entered
               \* through an adapter (pipe), and whether that pipes through {merge}
None == "none"
Recipes == DOMAIN Recipe

ASSUME CacheAssumption ==
  /\ LayoutGen \in Packages
  /\ Compiles \in [Commits -> SUBSET Packages]
  /\ Recipe \in [Recipes -> [pkgs : Seq(Packages), pipe : BOOLEAN, merge : BOOLEAN]]
  /\ \A r \in Recipes : Recipe[r].pkgs # <<>> /\ (Recipe[r].merge => Recipe[r].pipe)
  /\ {None, "empty"} \cap Recipes = {} /\ None \notin Builders

VARIABLES
  tree,        \* commit -> its exported source: "none", "part" or "whole"
  bins,        \* commit -> package -> its binary: "none", "good", or "bad" if the source was not whole
  adapter,     \* commit -> "none", "empty" while it is written, or the recipe it was written from
  helper,      \* the version of ipmt-name-merge in the cache, 0 for none
  tools,       \* the version of its source, today
  mergeBuilt,  \* this process has rebuilt the helper
  mergeMu,     \* who holds mergeMu
  call         \* builder -> its call of BuildEngineWith, NoCall between two

disk == <<tree, bins, adapter, helper>>
process == <<mergeBuilt, mergeMu, call>>
cacheVars == <<disk, tools, process>>

NoCall == [pc |-> "none"]

CacheInit ==
  /\ tree = [c \in Commits |-> None]
  /\ bins = [c \in Commits |-> [p \in Packages |-> None]]
  /\ adapter = [c \in Commits |-> None]
  /\ helper = 0 /\ tools = 1
  /\ mergeBuilt = FALSE /\ mergeMu = None
  /\ call = [b \in Builders |-> NoCall]

\* A call for a commit the repository does not hold fails at once.
Called(b, c, r, known) ==
  call' = [call EXCEPT ![b] = [pc |-> IF known THEN "stat" ELSE "failed", c |-> c, r |-> r, n |-> 1]]
At(b, pc) == call[b].pc = pc
Goto(b, pc) == call' = [call EXCEPT ![b].pc = pc]
Of(b) == call[b].c
By(b) == Recipe[call[b].r]

\* What a cached engine is recognised by: the adapter of an era with a recipe, else layout-gen.
Cached(c, r) == IF Recipe[r].pipe THEN adapter[c] # None ELSE bins[c][LayoutGen] # None

Stat(b) ==
  /\ At(b, "stat")
  /\ Goto(b, IF Cached(Of(b), call[b].r) THEN "ok" ELSE "export")
  /\ UNCHANGED <<disk, tools, mergeBuilt, mergeMu>>

\* exportTree: what was there is removed, then the archive is unpacked.
ExportStart(b) ==
  /\ At(b, "export")
  /\ tree' = [tree EXCEPT ![Of(b)] = "part"]
  /\ Goto(b, "untar")
  /\ UNCHANGED <<bins, adapter, helper, tools, mergeBuilt, mergeMu>>
ExportEnd(b) ==
  /\ At(b, "untar")
  /\ tree' = [tree EXCEPT ![Of(b)] = "whole"]
  /\ Goto(b, "build")
  /\ UNCHANGED <<bins, adapter, helper, tools, mergeBuilt, mergeMu>>

\* git or tar fails: what was unpacked stays.
ExportFails(b) ==
  /\ At(b, "untar")
  /\ Of(b) \in Faults
  /\ Goto(b, "failed")
  /\ UNCHANGED <<disk, tools, mergeBuilt, mergeMu>>

\* What follows the last package in goBuild.
AfterPackages(b) ==
  IF By(b).merge THEN "lock"
  ELSE IF By(b).pipe THEN "adapter"
  ELSE IF bins'[Of(b)][LayoutGen] # None THEN "clean" ELSE "failed"

\* goBuildOne for the next package; the first that does not compile ends the call.
BuildPackage(b) ==
  /\ At(b, "build")
  /\ LET p == By(b).pkgs[call[b].n]
         done == call[b].n = Len(By(b).pkgs)
     IN  IF p \in Compiles[Of(b)]
         THEN /\ bins' = [bins EXCEPT ![Of(b)][p] = IF tree[Of(b)] = "whole" THEN "good" ELSE "bad"]
              /\ call' = [call EXCEPT ![b].n = @ + 1, ![b].pc = IF done THEN AfterPackages(b) ELSE "build"]
         ELSE Goto(b, "failed") /\ UNCHANGED bins
  /\ UNCHANGED <<tree, adapter, helper, tools, mergeBuilt, mergeMu>>

\* Mutant of LockMerge: nothing is locked.
LockMergeNot(b) ==
  /\ At(b, "lock")
  /\ Goto(b, "helper")
  /\ UNCHANGED <<disk, tools, mergeBuilt, mergeMu>>

\* ensureMergeTool: once per process, under mergeMu.
LockMerge(b) ==
  /\ At(b, "lock")
  /\ mergeMu = None
  /\ mergeMu' = b
  /\ Goto(b, "helper")
  /\ UNCHANGED <<disk, tools, mergeBuilt>>

EnsureMergeTool(b) ==
  /\ At(b, "helper")
  /\ Goto(b, IF mergeBuilt THEN "adapter" ELSE "compile")
  /\ mergeMu' = IF mergeBuilt THEN None ELSE mergeMu
  /\ UNCHANGED <<disk, tools, mergeBuilt>>
CompileHelper(b) ==
  /\ At(b, "compile")
  /\ helper' = tools
  /\ mergeBuilt' = TRUE
  /\ mergeMu' = None
  /\ Goto(b, "adapter")
  /\ UNCHANGED <<tree, bins, adapter, tools>>

\* The helper does not build: nothing is noted, so that the next call tries again.
HelperFails(b) ==
  /\ At(b, "compile")
  /\ Of(b) \in Faults
  /\ mergeMu' = None
  /\ Goto(b, "failed")
  /\ UNCHANGED <<disk, tools, mergeBuilt>>

\* writeAdapter: the file is created, then filled.
WriteAdapter(b) ==
  /\ At(b, "adapter")
  /\ adapter' = [adapter EXCEPT ![Of(b)] = "empty"]
  /\ Goto(b, "fill")
  /\ UNCHANGED <<tree, bins, helper, tools, mergeBuilt, mergeMu>>
FillAdapter(b) ==
  /\ At(b, "fill")
  /\ adapter' = [adapter EXCEPT ![Of(b)] = call[b].r]
  /\ Goto(b, "clean")
  /\ UNCHANGED <<tree, bins, helper, tools, mergeBuilt, mergeMu>>

\* The source of a build that succeeded is removed; that of one that failed stays.
CleanUp(b) ==
  /\ At(b, "clean")
  /\ tree' = [tree EXCEPT ![Of(b)] = None]
  /\ Goto(b, "ok")
  /\ UNCHANGED <<bins, adapter, helper, tools, mergeBuilt, mergeMu>>

BuildStep(b) ==
  \/ Stat(b) \/ ExportStart(b) \/ ExportEnd(b) \/ ExportFails(b) \/ BuildPackage(b)
  \/ LockMerge(b) \/ EnsureMergeTool(b) \/ CompileHelper(b) \/ HelperFails(b)
  \/ WriteAdapter(b) \/ FillAdapter(b) \/ CleanUp(b)

\* The process ends: what is on the disk stays as it is.
ProcessGone ==
  /\ mergeBuilt' = FALSE /\ mergeMu' = None
  /\ call' = [b \in Builders |-> NoCall]

\* An engine that can be run: its binaries, and the adapter if it is entered through one.
Complete(c, r) ==
  /\ \A i \in DOMAIN Recipe[r].pkgs : bins[c][Recipe[r].pkgs[i]] = "good"
  /\ Recipe[r].pipe => adapter[c] = r

Calls == [pc : {"stat", "export", "untar", "build", "lock", "helper", "compile", "adapter", "fill", "clean",
                "ok", "failed"}, c : Commits, r : Recipes, n : Nat]
CacheTypeOK ==
  /\ call \in [Builders -> Calls \cup {NoCall}]
  /\ tree \in [Commits -> {None, "part", "whole"}]
  /\ bins \in [Commits -> [Packages -> {None, "good", "bad"}]]
  /\ adapter \in [Commits -> {None, "empty"} \cup Recipes]
  /\ tools \in Nat /\ helper \in 0 .. tools /\ mergeBuilt \in BOOLEAN
  /\ mergeMu \in {None} \cup {b \in Builders : At(b, "helper") \/ At(b, "compile")}

=============================================================================
