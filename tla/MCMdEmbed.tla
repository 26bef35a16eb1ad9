----------------------------- MODULE MCMdEmbed -----------------------------
(* Small trees for MdEmbed. *)
EXTENDS MdEmbed

CONSTANTS f1, f2, f3, s1, s2, bad, n1, a1, o1, c1, r1

OneFile == <<f1>>
ThreeFiles == <<f1, f2, f3>>

Doc(srcs) == [j \in DOMAIN srcs |-> NewBlock(srcs[j])]
OneDoc == {f1 :> Doc(<<s1>>)}
ThreeDocs == {f1 :> Doc(<<s1>>) @@ f2 :> Doc(<<n1>>) @@ f3 :> Doc(<<s1>>)}
OneInc == {n1 :> s1}
Embed == [force |-> FALSE, write |-> TRUE, whole |-> TRUE]
OneFileMode == [Embed EXCEPT !.whole = FALSE]
AllCliModes == {o \in Opts : o.force => o.write}
AllRpcModes == {o \in Opts : ~o.whole}
WholeOrCheck == {Embed, [Embed EXCEPT !.write = FALSE]}
EmbedOrCheck == {OneFileMode, [OneFileMode EXCEPT !.write = FALSE]}
=============================================================================
