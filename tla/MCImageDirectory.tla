---------------------------- MODULE MCImageDirectory ----------------------------
EXTENDS ImageDirectoryProperties, TLC

(* The first and the last of the results, and a client that gives its      *)
(* image the name of one.                                                  *)
MCResults == <<"gauss.png", "canny.png">>
MCUploadNames == {"image.png", "canny.png"}

MCSymmetry == Permutations(Sessions)
===============================================================================
