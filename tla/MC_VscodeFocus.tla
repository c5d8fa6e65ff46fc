---- MODULE MC_VscodeFocus ----
(***************************************************************************)
(* Up to three groups, in columns and stacked; one column of one or two.  *)
(***************************************************************************)
EXTENDS VscodeFocus, TLC

UpToThree == {<<1>>, <<2>>, <<1, 1>>, <<1, 2>>, <<1, 1, 1>>}
OneOrTwo == {<<1>>, <<2>>}

Alike == Permutations(Proc)
====
