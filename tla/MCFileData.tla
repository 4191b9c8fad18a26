----------------------------- MODULE MCFileData -----------------------------
(* Instances of FileData: the modes of fopen "r", "w", "a" and "r+",       *)
(* O_CREAT and O_EXCL, and a file opened for nothing but its creation.     *)
EXTENDS FileData, TLC

CONSTANTS f1, h1, h2

MCFile    == {f1}
MCHandles == {h1, h2}
MCModes   == {{"R"}, {"W", "CREAT", "TRUNC"}, {"W", "CREAT"}, {"R", "W"},
              {"R", "W", "CREAT", "EXCL"}, {"CREAT"}}
MCRandom  == {0, 3}
MCTimes   == {1, 4}

Symmetry == Permutations(Handles)
=============================================================================
