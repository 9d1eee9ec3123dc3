--------------------------- MODULE MCNativeServer ---------------------------
(* Up to three native objects that fill the dirty buffer, or are larger.   *)
EXTENDS NativeServer
=============================================================================
