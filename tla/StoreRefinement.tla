-------------------------- MODULE StoreRefinement ---------------------------
(***************************************************************************)
(* The crash-prone store of EventStore refines the store of AtomicStore,   *)
(* in which an append and its fold are one step that cannot fail half-way. *)
(***************************************************************************)
EXTENDS EventStore

(* What a reader sees: the log's events and the healed projections. *)
Atomic == INSTANCE AtomicStore WITH
              events <- Events(log),
              view <- IF published THEN Healed ELSE Rebuilt

(* The crash-prone protocol implements the atomic store: each of its steps *)
(* either appends and folds one event at once, or changes nothing a reader *)
(* sees after healing.  (Nobody reads a run in its staging directory, and  *)
(* a crash there discards it.)                                             *)
ImplementsAtomicStore == Atomic!Spec

=============================================================================
