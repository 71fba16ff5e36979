------------------------------ MODULE MCHostFs ------------------------------
(***************************************************************************)
(* An instance of HostFs: a root with the directory b, two FIL structures, *)
(* files of at most one byte.  In the root the first string means b, and   *)
(* in what the third means another entry beside it; the second is the      *)
(* current directory, by which it may be renamed away.                     *)
(***************************************************************************)
EXTENDS HostFs, TLC

MCLower   == [n \in Name |-> IF n = "B" THEN "b" ELSE n]
MCStrings == {<<"..", "B">>, <<".">>, <<"", "B", "a">>}
MCModes   == {{}, {FA_WRITE, FA_CREATE_ALWAYS}}
MCTexts   == {<<1>>}
MCTree    == [p \in {<<"b">>} |-> Dir]
MCContent == [i \in Inodes |-> <<>>]

FilSymmetry == Permutations(Fils)
=============================================================================
