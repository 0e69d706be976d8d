---------------------------- MODULE MCDownload ----------------------------
\* An instance of Download: an empty version, one of two packets, one of one.
EXTENDS Download, TLC
MCChunks == <<0, 2, 1>> @@ (0 :> 0)
MCOneVersion == (0 :> 0) @@ (1 :> 2)
=============================================================================
