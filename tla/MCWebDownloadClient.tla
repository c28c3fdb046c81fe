------------------------ MODULE MCWebDownloadClient ------------------------
(***************************************************************************)
(* The web download receiver with the containers of a file, and the headers*)
(* at either end of int that payload may make up.                          *)
(***************************************************************************)
EXTENDS WebDownloadClient

MCSeqnos == {0, 2, 4, 9, INT_MIN, INT_MAX}
=============================================================================
