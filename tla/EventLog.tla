------------------------------ MODULE EventLog ------------------------------
(***************************************************************************)
(* What an indexer promises: events are published one after another, and   *)
(* the log holds a first part of them, each once and in order, that only   *)
(* grows.                                                                  *)
(***************************************************************************)
EXTENDS Naturals, Sequences, SequencesExt

VARIABLES
  published,   \* the events the log is about, in the order of their publication
  log          \* the events recorded so far

vars == <<published, log>>

Init == IsPrefix(log, published)

Next ==
  /\ IsPrefix(published, published')
  /\ IsPrefix(log, log') /\ IsPrefix(log', published')

Spec == Init /\ [][Next]_vars
=============================================================================
