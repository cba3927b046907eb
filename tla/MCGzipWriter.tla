---------------------------- MODULE MCGzipWriter ----------------------------
(* An instance of GzipWriter for TLC. *)
EXTENDS GzipWriter
=============================================================================
