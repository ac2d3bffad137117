----------------------------- MODULE MCDownload -----------------------------
(* The instances of Download that TLC checks. *)
EXTENDS Download

(* a: a pack of two files and a file; b and c: a file at a path of a. *)
MCLayout == [d \in Datasets |->
    IF d = "a" THEN <<<<"p", "q">>, <<"r">>>> ELSE <<<<"p">>>>]
=============================================================================
