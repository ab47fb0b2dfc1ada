----------------------------- MODULE SgBuildMC ------------------------------
(* Buffers of up to seven pages, with a page missing anywhere or nowhere. *)
EXTENDS SgBuild
SmallBuffers == UNION {[pages : {p}, hole : 0 .. p] : p \in 1 .. 7}
=============================================================================
