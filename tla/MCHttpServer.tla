---------------------------- MODULE MCHttpServer ----------------------------
(* Instances of HttpServer for TLC.                                        *)
EXTENDS HttpServer, TLC

Symmetry == Permutations(Clients)
=============================================================================
