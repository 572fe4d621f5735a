---------------------------- MODULE MCSessionFiles ----------------------------
(* SessionFiles for TLC: the constants that a cfg cannot write.              *)
EXTENDS SessionFiles, TLC

CONSTANTS s1, s2, local, usb

\* Two shapes that share a key, so that a file's header may have to grow.
TwoShapes == {<<"t", "x">>, <<"t", "y">>}

\* The subjects are interchangeable, and so are the output roots.
Interchangeable == Permutations(Subjects) \cup Permutations(Roots)
=============================================================================
