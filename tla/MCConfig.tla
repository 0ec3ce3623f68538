------------------------------ MODULE MCConfig -------------------------------
(* Config on lists of up to three volumes.  The files have a duplicate key, *)
(* an error before or after all keys, a missing key, and empty lines; more  *)
(* volumes than handles occur as well.  Mode lines have from one to five    *)
(* tokens, numbers at and beyond the limits of their fields, numbers that   *)
(* wrap, and characters that are no digits.                                 *)
EXTENDS Config

Line(kind, value) == [kind |-> kind, value |-> value]
K(v) == Line("kernel", v)
I(v) == Line("initrd", v)
C(v) == Line("cmdline", v)
M(tokens) == Line("mode", tokens)
Empty == Line("empty", NULL)
Comment == Line("comment", NULL)
Bad == Line("bad", NULL)

Small == <<<<8>>, <<0, 6>>>>
Other == <<<<1, 5>>, <<3>>, MinusOne>>

Good == <<K("a"), I("a"), Empty, C("a"), M(Small)>>
Twice == <<Comment, M(Small), K("a"), C("b"), M(Other), I("b"), K("b"), C("c")>>
LateError == <<K("c"), I("c"), C("c"), M(Other), Empty, Empty, Bad>>
EarlyError == <<K("d"), Empty, Bad, I("d")>>
NoMode == <<K("e"), I("e"), C("e")>>
NoCmdline == <<M(Small), I("f"), K("f")>>
Nothing == <<>>

Files == {Good, Twice, LateError, EarlyError, NoMode, NoCmdline, Nothing, NULL}

Words == {<<0>>, <<7>>, <<8>>, <<1, 5>>, <<1, 6>>, <<2, 5, 9>>, <<2, 7, 2>>,
           MinusOne, <<1, 10>>, <<Letter>>, <<Minus, 2>>}
Modes == {<<t>> : t \in Words} \cup (Words \X Words)
           \cup {<<<<8>>, <<6>>, f>> : f \in Words}
           \cup {<<<<8>>, <<6>>, f, d>> : f, d \in Words}
           \cup {<<<<8>>, <<6>>, MinusOne, d, d>> : d \in Words}
WithMode(tokens) == <<K("g"), M(tokens), I("g"), C("g")>>

MCVolumeLists ==
  {<<>>} \cup {<<f>> : f \in Files} \cup {<<f, g>> : f, g \in Files}
    \cup {<<f, g, Good>> : f, g \in Files} \cup {<<Good, Good, Good, Good>>}
    \cup {<<WithMode(tokens)>> : tokens \in Modes}
==============================================================================
