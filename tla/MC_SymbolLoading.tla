-------------------------- MODULE MC_SymbolLoading --------------------------
(***************************************************************************)
(* Two vminer processes, each with two threads, load the symbols of one    *)
(* module through a shared symbol directory; each thread makes up to two   *)
(* load_module calls and one process may exit or crash once.  One module   *)
(* suffices: entries of different keys never interact in a OnceMap, and   *)
(* the loader's path depends only on (name, id).                           *)
(***************************************************************************)
EXTENDS SymbolLoading

CONSTANTS p1, p2, w1, w2, m1

MCProcs   == {p1, p2}
MCWorkers == {w1, w2}
MCModules == {m1}
=============================================================================
