----------------------------- MODULE MCFileJobs -----------------------------
(***************************************************************************)
(* A small instance of FileJobs: text is written and read in pieces of at  *)
(* most five characters.                                                   *)
(***************************************************************************)
EXTENDS FileJobs

MCContents == {{}, {3, 7, 12}}

(* No file, and the text "-7 99,012". *)
MCInitialFiles == {None, <<<<"-">>, Digit(7), <<"space">>, Digit(9), Digit(9), <<",">>, Digit(0), Digit(1), Digit(2)>>}
=============================================================================
