------------------------------ MODULE MCFiller ------------------------------
(* Inputs of up to five bytes, the empty one and those that begin with the   *)
(* bytes GasInt and MemInt treat specially among them.  Three strategies, or *)
(* two, with the one that is added: an importance of zero, and weights of    *)
(* one, whose shares have a first number that is also the last.              *)
EXTENDS Selector

MCInputs == {<<>>, <<7>>, <<255>>, <<1, 2>>, <<253, 9>>, <<3, 254, 5>>, <<8, 2, 255, 0>>,
             <<4, 252, 6, 253, 1>>}
MCLens   == {0, 1, 2, 4, 8}

MCImportances == {<<2, 0, 1>>, <<1, 3>>}
=============================================================================
