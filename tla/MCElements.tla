----------------------------- MODULE MCElements -----------------------------
(* Instances of Elements for TLC.                                          *)
EXTENDS Elements

Px(n) == [n |-> n, percent |-> FALSE]
Percent(n) == [n |-> n, percent |-> TRUE]

SomeInputs ==
  {<<"width", Px(4)>>, <<"width", Percent(50)>>, <<"width", Px(-1)>>,
   <<"x", Percent(50)>>, <<"value", Px(100)>>, <<"value", Percent(50)>>,
   <<"opacity", Px(128)>>, <<"opacity", Px(256)>>, <<"visible", FALSE>>,
   <<"src", 2>>, <<"src", 0>>, <<"fullImage", 2>>, <<"min", Px(20)>>,
   <<"innerText", <<"t">>>>}
  \cup (IF Env = {} THEN {} ELSE {<<"width", Px(6)>>, <<"width", Px(0)>>, <<"src", 3>>})

SomeSizes == {<<8, 2>>, <<0, 0>>}
Frame(l, t, r, b) == [lo |-> <<l, t>>, hi |-> <<r, b>>]
SomeFrames == {Frame(0, 0, 12, 8), Frame(10, 2, 14, 12)}
SomeTexts == {<<"s">>}
SomeStrings == [name |-> <<"s">>]
=============================================================================
