------------------------- MODULE MCMultipartUpload -------------------------
(* The instances of MultipartUpload that TLC checks; the constants are numbers
   and are given in the configurations.                                       *)
EXTENDS MultipartUpload
=============================================================================
