----------------------------- MODULE MCProfiler -----------------------------
(***************************************************************************)
(* Bounds for model-checking Profiler: the calls of each context.          *)
(***************************************************************************)
EXTENDS Profiler

MCMaxCalls == [c \in Contexts |-> 3]
=============================================================================
