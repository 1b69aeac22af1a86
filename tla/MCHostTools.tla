----------------------------- MODULE MCHostTools -----------------------------
(* Two processes of one group with a device each; they may change places, each *)
(* with its device.                                                            *)
EXTENDS HostTools, TLC
CONSTANTS p1, p2, d1, d2, g
MCOwner == (d1 :> p1) @@ (d2 :> p2)
MCGroup == (p1 :> g) @@ (p2 :> g)
MCSymmetry == {(p1 :> a) @@ (p2 :> b) @@ (d1 :> x) @@ (d2 :> y) :
                 <<a, b, x, y>> \in {<<p1, p2, d1, d2>>, <<p2, p1, d2, d1>>}}

\* Three modules and the base one under two source paths: a imports b and c, b the
\* one of c near it, base, or a again, c base or nothing, or is missing in either
\* path; with each kind of style and with and without the raw script.
Page(i, raw, st, ex, near) ==
  [imports |-> i, raw |-> raw, style |-> st, exports |-> ex, near |-> near]
Tree(a, b, c, d) == [x \in {1, 2} \X {"a", "b", "c", "base"} |->
  CASE x = <<1, "a">> -> a [] x = <<1, "b">> -> b [] x = <<1, "c">> -> c [] x = <<2, "c">> -> d
    [] x = <<1, "base">> -> Page(<<>>, FALSE, "none", FALSE, FALSE)
    [] OTHER -> Missing]
MCTrees == {Tree(a, b, c, d) :
  a \in {Page(<<"b", "c">>, TRUE, "link", FALSE, FALSE),
         Page(<<"c", "b">>, FALSE, "link", TRUE, FALSE)},
  b \in {Page(<<"c">>, TRUE, "link", FALSE, TRUE), Page(<<"a">>, FALSE, "none", TRUE, FALSE),
         Page(<<"base">>, FALSE, "inline", TRUE, FALSE)},
  c \in {Page(<<"base">>, TRUE, "inline", TRUE, FALSE), Page(<<>>, FALSE, "none", FALSE, FALSE),
         Missing},
  d \in {Page(<<"base">>, FALSE, "link", FALSE, TRUE), Missing}}
MCTwins == {{}, {<<2, "b">>}}
MCAsks  == {<<"a">>, <<"b", "a">>}
MCOuts  == {{}, {"raw"}, {"c"}}

\* One hub, or a second on the last port of the first; a phone on a port of the first
\* half of a hub, of its second half, or of the second hub.
MCHubs   == {{<<1>>}, {<<1>>, <<1, 4, 4>>}}
MCPlaces == {<<1, 1>>, <<1, 4, 2>>, <<1, 4, 4, 1>>}
===============================================================================
