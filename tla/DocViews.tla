------------------------------ MODULE DocViews ------------------------------
(***************************************************************************)
(* Open documents as an editor means them, and the findings ipm-rpc has    *)
(* for one: what LspSession promises and RpcServer computes are both said  *)
(* in these terms.                                                         *)
(***************************************************************************)
EXTENDS Naturals, Sequences

CONSTANTS
  Uris,       \* the documents
  Langs,      \* the language ids an editor may send; NoLang is the empty one
  NoLang,
  Suffix      \* uri -> the suffix of its file name, one of Suffixes

Suffixes == {"ipmt", "md", "other"}

ASSUME DocAssumption ==
  /\ Uris # {} /\ NoLang \in Langs
  /\ Suffix \in [Uris -> Suffixes]

\* A document as the editor means it: texts are numbered by the edit they come with, 0 is "".
Closed == [open |-> FALSE, text |-> 0, lang |-> NoLang]
DocStates(maxText) == [open : {TRUE}, text : 0 .. maxText, lang : Langs] \cup {Closed}

\* looksLikeIPMT and looksLikeMarkdown: the language, else the file name.
LooksLikeIPMT(u, d) == d.lang = "ipmt" \/ (d.lang # "markdown" /\ Suffix[u] = "ipmt")
LooksLikeMarkdown(u, d) == d.lang = "markdown" \/ Suffix[u] = "md"

\* The findings of a document: its text read as what it looks like, or none at all.
Nothing == [text |-> 0, as |-> "nothing"]
Diagnose(u, d) ==
  IF ~d.open THEN Nothing
  ELSE IF LooksLikeIPMT(u, d) THEN [text |-> d.text, as |-> "ipmt"]
  ELSE IF LooksLikeMarkdown(u, d) THEN [text |-> d.text, as |-> "markdown"]
  ELSE Nothing

\* What the three notifications mean for a document.
Opened(text, lang) == [open |-> TRUE, text |-> text, lang |-> lang]
Changed(d, text) == [open |-> TRUE, text |-> text, lang |-> d.lang]

=============================================================================
