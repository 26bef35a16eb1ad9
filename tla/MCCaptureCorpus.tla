-------------------------- MODULE MCCaptureCorpus --------------------------
(* Two scenes, one document each, for CaptureCorpus. *)
EXTENDS CaptureCorpus

CONSTANTS a, b, s1, s2, bad1, bad2

MCDir == (a :> <<"", "out", "workspaces", "life", "docs">>) @@ (b :> <<"", "tmp", "solo">>)
MCTexts == (a :> {<<s1, bad1>>, <<bad2, s2>>}) @@ (b :> {<<s1>>})
MCLayout == (s1 :> "L") @@ (s2 :> "L") @@ (bad1 :> Rejected) @@ (bad2 :> Rejected)
MCScenes == <<".", "life", "other", "solo">>
MCOld == ("other" :> [files |-> {s1}, manifest |-> NoManifest])
         @@ ("life" :> [files |-> {bad2}, manifest |-> NoManifest])
=============================================================================
