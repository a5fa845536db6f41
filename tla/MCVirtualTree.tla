--------------------------- MODULE MCVirtualTree ---------------------------
(* Small packs over colliding names. *)
EXTENDS VirtualTree, TLC

\* "A" and "a" are one name; "0" and "2" are also what to_string gives.
SmallFolded == [s \in Stems |-> IF s = "A" THEN "a" ELSE s]
SmallWidth == [s \in Stems |-> CASE s = "long" -> 9 [] s = "wide" -> 4 [] OTHER -> 1]
SmallNumeral == [n \in 0..12 |-> ToString(n)]

C(s, x, e) == [stem |-> s, sfx |-> x, ext |-> e]

\* Physical paths: a, A, a~1, a/b (a is a folder), a number, one that is
\* escaped, one too long, one that a suffix makes too long, a texture, and the file name-map.tsv.
Shown ==
  "a" :> <<C("a", <<>>, "")>> @@ "A" :> <<C("A", <<>>, "")>> @@
  "a~1" :> <<C("a", <<1>>, "")>> @@ "a/b" :> <<C("a", <<>>, ""), C("b", <<>>, "")>> @@
  "b" :> <<C("b", <<>>, "")>> @@ "0" :> <<C("0", <<>>, "")>> @@ "a:" :> <<C("a", <<>>, "")>> @@
  "long" :> <<C("long", <<>>, "")>> @@ "wide" :> <<C("wide", <<>>, "")>> @@ "t.ctex" :> <<C("t", <<>>, ".ctex")>> @@
  "name-map.tsv" :> <<C("name-map", <<>>, ".tsv")>>

Names == DOMAIN Shown
Plain == Names \ {"a:"}

Entry(k, p) == [kind |-> k, path |-> p]
NoHint(n) == [i \in 1..n |-> "no hint"]
Map(p, c) == [shown |-> p, compiled |-> c]

\* Every pack of two or three of the plainer names.
RawInputs ==
  {[entries |-> [i \in DOMAIN s |-> Entry("file", s[i])], maps |-> <<>>, checkpoints |-> <<>>,
    hints |-> NoHint(Len(s))] :
     s \in [1..3 -> {"a", "A", "a~1", "a/b"}] \cup
           [1..2 -> {"0", "a:", "long", "wide", "name-map.tsv", "a/b"}]}

\* A texture two fragments name, beside a removal and a colliding file.
Logo == <<C("a", <<>>, ".png")>>
AliasInputs ==
  {[entries |-> <<Entry("file", "t.ctex"), Entry("file", p), Entry("removal", "0")>>,
    maps |-> <<Map(Logo, "t.ctex"), Map(<<C("A", <<>>, ".png")>>, "t.ctex"), Map(Logo, "a")>>,
    checkpoints |-> <<1, 3>>, hints |-> [NoHint(3) EXCEPT ![1] = h]] :
     p \in {"a", "t.ctex", "a/b"}, h \in {"no hint", ".png"}}

\* One entry more than the limit.
TooMany ==
  {[entries |-> [i \in 1..5 |-> Entry("file", "b")], maps |-> <<>>, checkpoints |-> <<>>,
    hints |-> NoHint(5)]}

SmallInputs == RawInputs \cup AliasInputs \cup TooMany
=============================================================================
