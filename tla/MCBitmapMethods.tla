-------------------------- MODULE MCBitmapMethods --------------------------
(***************************************************************************)
(* A small instance of BitmapMethods.  Numbers are counted in halves.      *)
(***************************************************************************)
EXTENDS BitmapQueries

MCLists == {<<0>>, <<7, -1, 12>>, <<-2, NaN, 20>>, <<Undefined, 9, 2, 6>>}
MCRanges ==
    {<<Undefined, Undefined>>, <<-3, 5>>, <<3, 14>>, <<8, 12>>, <<12, Undefined>>, <<2, 8>>,
     <<0, 10>>, <<NaN, 4>>, <<18, 25>>, <<6, 6>>}
MCNumbers == {-40, -7, -2, -1, 0, 1, 2, 5, 6, 8, 13, 18, 19, 20, 41, NaN, Undefined}
MCSteps == {Undefined, 0, 4, 6, 12, 24}
MCOffsets == {NaN, 2, 7, 10, -4, -10, 50}

One(k, c) == With(Empty, k, c)
MCCompanions == {One(0, Array({0, 2})), With(One(0, Bitset({0, 2, 4}, 3)), 1, Run({<<0, 4>>}))}
MCOperands == MCCompanions \cup
    {Empty,
     With(One(0, Run({<<0, 4>>})), 1, Bitset({1, 2, 4}, 3)),
     With(One(0, Run({<<1, 3>>})), 1, Array({4})),
     One(1, Run({<<0, 0>>, <<2, 3>>}))}
=============================================================================
