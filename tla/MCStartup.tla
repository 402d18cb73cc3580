----------------------------- MODULE MCStartup ------------------------------
(* Symmetry for model checking Startup.                                    *)
EXTENDS Startup, TLC

Symmetry == Permutations(Daemon) \cup Permutations(Install)
=============================================================================
