-------------------------- MODULE EventStoreProofs --------------------------
(***************************************************************************)
(* Safety of the store of one run, for every set of node ids, children and *)
(* requests and every bound: the types, the integrity of the log, the      *)
(* watermark, and what no sequence of appends, replays and crashes does to *)
(* a terminal status, a settlement intent or a settled node.               *)
(*                                                                         *)
(* The invariant that carries the proofs is Consistent: the writes that    *)
(* the lock holder has planned and not yet committed are still the ones    *)
(* that the reducer may make against the files on disk.  It needs that a   *)
(* plan is at most a node write followed by a manifest write, neither of   *)
(* which invalidates the other.                                            *)
(***************************************************************************)
EXTENDS EventStore, ReducerProofs, FiniteSetTheorems

Consistent ==
    /\ TypeOK
    /\ has_manifest(manifest) \/ manifest = NoManifest
    /\ w.pc \in {"refold", "commit"} => OpsOK(manifest, nodes, w.ops)

-----------------------------------------------------------------------------
(* A run without node files has none of the wrong type. *)
LEMMA NoFilesOK == are_node_files(NoFiles)
BY Zenon DEF are_node_files, NoFiles

(* The placeholders of an idle lock are values of their types. *)
LEMMA NoRequestOK == NoRequest \in Request /\ NoEvent \in Event
<1>1. NoReport \in Payload
  BY Zenon, EmptyValues DEF Payload
<1> QED
  BY ZenonT(60), <1>1, EmptyValues, RootAssumption
     DEF NoRequest, Request, NoEvent, Event, Entry, Kind, well_formed

(* A free lock is a writer state. *)
LEMMA IdleOK == Idle \in Writer /\ Idle.pc = "idle"
BY SMTT(60), NoRequestOK DEF Idle, Writer, Phase, Line

(* A planned sequence of writes is typed. *)
LEMMA OpsTyped ==
    ASSUME NEW m, NEW ns, NEW ops, OpsOK(m, ns, ops)
    PROVE  ops \in Seq(ProjectionOp)
<1>1. CASE ops = <<>>
  BY SMTT(60), <1>1
<1>2. CASE \E a : ops = <<a>> /\ OpOK(m, ns, a)
  BY SMTT(60), <1>2 DEF OpOK
<1>3. CASE \E a, b : ops = <<a, b>> /\ OpOK(m, ns, a) /\ OpOK(m, ns, b)
  BY SMTT(60), <1>3 DEF OpOK
<1> QED
  BY ZenonT(60), <1>1, <1>2, <1>3 DEF OpsOK

(* The first planned write keeps the types, and leaves the rest valid. *)
LEMMA CommitOK ==
    ASSUME NEW m \in Manifest, NEW ns, are_node_files(ns),
           NEW ops, OpsOK(m, ns, ops), ops # <<>>
    PROVE  /\ OpOK(m, ns, Head(ops))
           /\ write_manifest(m, Head(ops)) \in Manifest
           /\ are_node_files(write_node(ns, Head(ops)))
           /\ OpsOK(write_manifest(m, Head(ops)), write_node(ns, Head(ops)),
                    Tail(ops))
<1> DEFINE op == Head(ops)
<1>1. /\ OpOK(m, ns, op)
      /\ \/ Tail(ops) = <<>>
         \/ /\ op.file = "node"
            /\ \E b : /\ Tail(ops) = <<b>>
                      /\ b.file = "manifest"
                      /\ OpOK(m, ns, b)
  <2>1. ASSUME NEW a, ops = <<a>>, OpOK(m, ns, a)
        PROVE  Head(ops) = a /\ Tail(ops) = <<>>
    BY SMTT(60), <2>1
  <2>2. ASSUME NEW a, NEW b, ops = <<a, b>>
        PROVE  Head(ops) = a /\ Tail(ops) = <<b>>
    BY SMTT(60), <2>2
  <2> QED
    BY Zenon, <2>1, <2>2 DEF OpsOK
<1> HIDE DEF op
<1>2. write_manifest(m, op) \in Manifest
  BY Zenon, <1>1 DEF OpOK, ManifestStep, write_manifest
<1>3. are_node_files(write_node(ns, op))
  <2>1. CASE op.file = "node"
    <3>1. op.node \in NodeIds /\ op.value \in Node
      BY Zenon, <1>1, <2>1 DEF OpOK, ProjectionOp
    <3> QED
      BY ZenonT(60), <2>1, <3>1 DEF write_node, are_node_files
  <2>2. CASE op.file # "node"
    BY Zenon, <2>2 DEF write_node
  <2> QED
    BY ZenonT(60), <2>1, <2>2
<1>4. OpsOK(write_manifest(m, op), write_node(ns, op), Tail(ops))
  <2>1. CASE Tail(ops) = <<>>
    BY Zenon, <2>1 DEF OpsOK
  <2>2. ASSUME op.file = "node", NEW b, Tail(ops) = <<b>>,
               b.file = "manifest", OpOK(m, ns, b)
        PROVE  OpsOK(write_manifest(m, op), write_node(ns, op), Tail(ops))
    <3>1. write_manifest(m, op) = m
      BY Zenon, <2>2 DEF write_manifest
    <3>2. OpOK(m, write_node(ns, op), b)
      BY Zenon, <2>2 DEF OpOK
    <3> QED
      BY ZenonT(60), <2>2, <3>1, <3>2 DEF OpsOK
  <2> QED
    BY ZenonT(60), <1>1, <2>1, <2>2
<1> QED
  BY ZenonT(60), <1>1, <1>2, <1>3, <1>4 DEF op

(* Raising the watermark changes the watermark and the node count alone. *)
LEMMA AdvanceOK ==
    ASSUME NEW m \in Manifest, NEW ns, are_node_files(ns), NEW k \in Nat
    PROVE  LET x == advance_applied_seq(m, ns, k)
           IN  /\ x \in Manifest
               /\ x.status = m.status
               /\ x.agent_owner = m.agent_owner
               /\ x.caller_settlement_intent = m.caller_settlement_intent
               /\ x.applied_seq \in {m.applied_seq, k}
               /\ ~has_manifest(m) => x = m
<1>1. Cardinality(DOMAIN ns) \in Nat
  <2>1. IsFiniteSet(DOMAIN ns)
    BY ZenonT(60), RootAssumption, FS_Subset DEF are_node_files
  <2> QED
    BY ZenonT(60), <2>1, FS_CardinalityType
<1> QED
  BY Zenon, <1>1 DEF advance_applied_seq, Manifest, has_manifest

-----------------------------------------------------------------------------
(* recover_last_seq returns a number. *)
LEMMA LastSeqOK == TypeOK => recover_last_seq \in Nat
<1> SUFFICES ASSUME TypeOK PROVE recover_last_seq \in Nat
  BY Zenon
<1>1. CASE log = <<>>
  BY Zenon, <1>1 DEF recover_last_seq
<1>2. CASE log # <<>>
  <2>1. log[Len(log)] \in Line
    BY SMTT(60), <1>2 DEF TypeOK
  <2>2. log[Len(log)].ev \in Event
    BY Zenon, <2>1 DEF Line
  <2> QED
    BY ZenonT(60), <1>2, <2>2, EventParts DEF recover_last_seq, Last
<1> QED
  BY ZenonT(60), <1>1, <1>2

(* The event a writer is about to append is well-formed. *)
LEMMA NextEventOK == TypeOK => next_event \in Event
<1> SUFFICES ASSUME TypeOK PROVE next_event \in Event
  BY Zenon
<1>1. w.req \in Request
  BY Zenon DEF TypeOK, Writer
<1>2. recover_last_seq + 1 \in Nat
  BY SMTT(60), LastSeqOK
<1> QED
  BY ZenonT(60), <1>1, <1>2 DEF next_event, Request, Event

(* What is planned against the files on disk is consistent with them. *)
LEMMA PlanOK ==
    ASSUME Consistent, NEW ev \in Event
    PROVE  /\ OpsOK(manifest, nodes, plan(ev).ops)
           /\ plan(ev).ops \in Seq(ProjectionOp)
<1>1. Folding(manifest, nodes, ev)
  BY Zenon DEF Consistent, TypeOK, Folding
<1>2. OpsOK(manifest, nodes, plan(ev).ops)
  BY ZenonT(60), <1>1, ReducerOK DEF plan
<1> QED
  BY ZenonT(60), <1>2, OpsTyped

(* Steps that touch neither the log nor the projections. *)
LEMMA WriterStep ==
    ASSUME Consistent, w' \in Writer, w'.pc \notin {"refold", "commit"},
           UNCHANGED <<log, torn, manifest, nodes, published, faults>>,
           result' \in [kind : ResultKind, seq : Nat]
    PROVE  Consistent'
BY Zenon DEF Consistent, TypeOK, has_manifest

(* Taking the lock starts a replay from a consistent state. *)
LEMMA BeginOK ==
    ASSUME Consistent, NEW req \in Request, Begin(req)
    PROVE  Consistent'
<1>1. manifest.applied_seq \in Nat
  BY Zenon DEF Consistent, TypeOK, Manifest
<1>2. w' \in Writer /\ w'.pc = "replay"
  BY ZenonT(60), <1>1, IdleOK DEF Begin, Writer, Phase
<1> QED
  BY ZenonT(60), <1>2 DEF Begin, Consistent, TypeOK, has_manifest

(* A crash of the lock holder leaves a consistent state. *)
LEMMA DieOK ==
    ASSUME Consistent, NEW t \in BOOLEAN, Die(t)
    PROVE  Consistent'
<1>1. w' \in Writer /\ w'.pc = "idle"
  BY ZenonT(60), IdleOK DEF Die
<1>2. result' \in [kind : ResultKind, seq : Nat]
  BY Zenon DEF Die, Result, ResultKind
<1>3. CASE published
  BY ZenonT(60), <1>1, <1>2, <1>3 DEF Die, Consistent, TypeOK, has_manifest
<1>4. CASE ~published
  <2>0. log' = <<>> /\ torn' = FALSE
    BY Zenon, <1>4 DEF Die
  <2>1. log' \in Seq(Line)
    BY SMTT(60), <2>0
  <2>2. manifest' = NoManifest /\ NoManifest \in Manifest
    BY ZenonT(60), <1>4, EmptyValues DEF Die
  <2>3. are_node_files(nodes')
    BY ZenonT(60), <1>4, NoFilesOK DEF Die
  <2> QED
    BY ZenonT(60), <1>1, <1>2, <1>4, <2>0, <2>1, <2>2, <2>3
       DEF Die, Consistent, TypeOK
<1> QED
  BY ZenonT(60), <1>3, <1>4

(* A call that returns without writing leaves a consistent state. *)
LEMMA ReturnOK ==
    ASSUME Consistent, NEW k \in ResultKind, NEW s \in Nat,
           Return(Result(k, s))
    PROVE  Consistent'
<1>1. result' \in [kind : ResultKind, seq : Nat]
  BY Zenon DEF Return, Result
<1> QED
  BY ZenonT(60), <1>1, IdleOK, WriterStep DEF Return

(* Every step of the store, a crash included, leaves the files and the     *)
(* planned writes consistent.                                              *)
LEMMA NextConsistent == Consistent /\ [Next]_vars => Consistent'
<1> SUFFICES ASSUME Consistent, [Next]_vars PROVE Consistent'
  BY Zenon
<1>0. TypeOK /\ w \in Writer
  BY Zenon DEF Consistent, TypeOK
<1>1. CASE Create
  BY ZenonT(60), <1>1, BeginOK, RequestsAssumption DEF Create
<1>2. CASE Publish
  BY Zenon, <1>2 DEF Publish, Consistent, TypeOK, has_manifest
<1>3. CASE Write
  BY ZenonT(60), <1>3, BeginOK, RequestsAssumption DEF Write
<1>4. CASE ReplayFails
  BY ZenonT(60), <1>4, ReturnOK DEF ReplayFails, Fail, Return, ResultKind
<1>5. CASE ReplayNext
  <2> PICK i \in Unapplied :
        LET p == plan(log[i].ev)
        IN  w' = IF p.ok
                 THEN [w EXCEPT !.pos = i + 1, !.pc = "refold",
                                !.ev = log[i].ev, !.ops = p.ops]
                 ELSE [w EXCEPT !.pos = i + 1]
    BY ZenonT(60), <1>5 DEF ReplayNext
  <2>1. i \in 1..Len(log) /\ i + 1 \in Nat \ {0}
    BY SMTT(60), <1>0 DEF Unapplied, TypeOK, Writer
  <2>2. log[i].ev \in Event
    <3>1. log[i] \in Line
      BY SMTT(30), <1>0, <2>1 DEF TypeOK
    <3> QED
      BY ZenonT(60), <3>1 DEF Line
  <2>3. /\ OpsOK(manifest, nodes, plan(log[i].ev).ops)
        /\ plan(log[i].ev).ops \in Seq(ProjectionOp)
    BY ZenonT(60), <2>2, PlanOK
  <2>4. CASE plan(log[i].ev).ok
    <3>1. w' = [w EXCEPT !.pos = i + 1, !.pc = "refold",
                         !.ev = log[i].ev, !.ops = plan(log[i].ev).ops]
      BY Zenon, <2>4
    <3>2. w' \in Writer /\ w'.ops = plan(log[i].ev).ops
      BY ZenonT(60), <1>0, <2>1, <2>2, <2>3, <3>1 DEF Writer, Phase
    <3> QED
      BY ZenonT(60), <1>5, <2>3, <3>2 DEF ReplayNext, Consistent, TypeOK,
         has_manifest
  <2>5. CASE ~plan(log[i].ev).ok
    <3>1. w' \in Writer /\ w'.pc = "replay"
      BY ZenonT(60), <1>0, <1>5, <2>1, <2>5 DEF Writer, ReplayNext
    <3> QED
      BY ZenonT(60), <1>0, <1>5, <3>1, WriterStep DEF ReplayNext, TypeOK
  <2> QED
    BY ZenonT(60), <2>4, <2>5
<1>6. CASE ReplayDone
  <2>1. w' \in Writer /\ w'.pc = "append"
    BY ZenonT(60), <1>0, <1>6 DEF ReplayDone, Writer, Phase
  <2> QED
    BY ZenonT(60), <1>0, <1>6, <2>1, WriterStep DEF ReplayDone, TypeOK
<1>7. CASE CommitOp
  <2> DEFINE op == Head(w.ops)
  <2>1. /\ OpOK(manifest, nodes, op)
        /\ manifest' \in Manifest
        /\ are_node_files(nodes')
        /\ OpsOK(manifest', nodes', Tail(w.ops))
    BY ZenonT(60), <1>7, CommitOK DEF CommitOp, Consistent, TypeOK
  <2>2. has_manifest(manifest') \/ manifest' = NoManifest
    BY ZenonT(60), <1>7, <2>1
       DEF CommitOp, OpOK, ManifestStep, write_manifest, has_manifest,
           Consistent
  <2>3. Tail(w.ops) \in Seq(ProjectionOp)
    BY ZenonT(60), <2>1, OpsTyped
  <2>4. w' \in Writer /\ w'.ops = Tail(w.ops)
    BY ZenonT(60), <1>0, <1>7, <2>3 DEF CommitOp, Writer
  <2> QED
    BY ZenonT(60), <1>0, <1>7, <2>1, <2>2, <2>4 DEF CommitOp, Consistent, TypeOK
<1>8. CASE AdvanceWatermark
  <2>1. w.ev.seq \in Nat
    BY ZenonT(60), <1>0, EventParts DEF Writer
  <2>2. /\ manifest' \in Manifest
        /\ has_manifest(manifest') \/ manifest' = NoManifest
    BY SMTT(30), <1>8, <2>1, AdvanceOK
       DEF AdvanceWatermark, Consistent, TypeOK, has_manifest
  <2>3. w' \in Writer /\ w'.pc \in {"replay", "idle"}
    <3>1. [w EXCEPT !.pc = "replay"] \in Writer
      BY Zenon, <1>0 DEF Writer, Phase
    <3>2. [w EXCEPT !.pc = "replay"].pc = "replay"
      BY Zenon, <1>0 DEF Writer
    <3> QED
      BY ZenonT(60), <1>8, <3>1, <3>2, IdleOK DEF AdvanceWatermark
  <2>4. result' \in [kind : ResultKind, seq : Nat]
    BY SMTT(30), <1>0, <1>8, <2>1 DEF AdvanceWatermark, TypeOK, Result,
       ResultKind
  <2> QED
    BY ZenonT(60), <1>8, <2>2, <2>3, <2>4 DEF AdvanceWatermark, Consistent,
       TypeOK
<1>9. CASE ReplayOnly
  BY ZenonT(60), <1>9, ReturnOK DEF ReplayOnly, ResultKind
<1>10. CASE ReturnPrior
  <2> PICK prior \in find_prior_with_key(w.req) :
        \/ Return(Result("replayed", prior.seq))
        \/ Return(Result("conflict", prior.seq))
    BY ZenonT(60), <1>10 DEF ReturnPrior
  <2>1. prior \in Event
    <3>1. PICK j \in DOMAIN log : prior = log[j].ev
      BY Zenon DEF find_prior_with_key
    <3>2. log[j] \in Line
      BY SMTT(60), <1>0 DEF TypeOK
    <3> QED
      BY ZenonT(60), <3>1, <3>2 DEF Line
  <2>2. prior.seq \in Nat
    BY ZenonT(60), <2>1, EventParts
  <2> QED
    BY ZenonT(60), <2>2, ReturnOK DEF ResultKind
<1>11. CASE AppendFails
  BY ZenonT(60), <1>11, ReturnOK DEF AppendFails, Fail, Return, ResultKind
<1>12. CASE Reject
  BY ZenonT(60), <1>12, ReturnOK DEF Reject, ResultKind
<1>13. CASE AppendEvent
  <2>1. next_event \in Event
    BY ZenonT(60), <1>0, NextEventOK
  <2>2. /\ OpsOK(manifest, nodes, plan(next_event).ops)
        /\ plan(next_event).ops \in Seq(ProjectionOp)
    BY ZenonT(60), <2>1, PlanOK
  <2>3. w' = [w EXCEPT !.pc = "commit", !.ev = next_event,
                       !.ops = plan(next_event).ops]
    BY Zenon, <1>13 DEF AppendEvent
  <2>4. w' \in Writer /\ w'.ops = plan(next_event).ops
    BY ZenonT(60), <1>0, <2>1, <2>2, <2>3 DEF Writer, Phase
  <2>5. log' \in Seq(Line)
    BY SMTT(60), <1>0, <1>13, <2>1 DEF AppendEvent, TypeOK, Line
  <2> QED
    BY ZenonT(60), <1>13, <2>2, <2>4, <2>5
       DEF AppendEvent, Consistent, TypeOK, has_manifest
<1>14. CASE Crash
  BY ZenonT(60), <1>0, <1>14, DieOK DEF Crash, TypeOK
<1>15. CASE CrashMidAppend
  BY ZenonT(60), <1>15, DieOK DEF CrashMidAppend
<1>16. CASE CorruptLine
  <2>1. PICK i \in DOMAIN log : log' = [log EXCEPT ![i].ok = FALSE]
    BY Zenon, <1>16 DEF CorruptLine
  <2>2. log \in Seq(Line) /\ i \in 1..Len(log) /\ log[i] \in Line
    BY SMTT(60), <1>0 DEF TypeOK
  <2>3. [log[i] EXCEPT !.ok = FALSE] \in Line
    BY Zenon, <2>2 DEF Line
  <2>4. log' \in Seq(Line)
    BY SMTT(60), <2>1, <2>2, <2>3
  <2> QED
    BY SMTT(60), <1>16, <2>4 DEF CorruptLine, Consistent, TypeOK, has_manifest
<1>17. CASE QuarantineRename
  <2> DEFINE good == {i \in DOMAIN log : log[i].ok}
  <2>1. PICK pick \in in_order(good) :
          w' = [Idle EXCEPT !.pc = "quarantine",
                            !.kept = [log |-> kept_lines(pick), torn |-> torn]]
    BY Zenon, <1>17 DEF QuarantineRename
  <2>2. good \subseteq 1..Len(log) /\ Cardinality(good) \in Nat
    <3>1. good \subseteq 1..Len(log) /\ Len(log) \in Nat
      BY SMTT(60), <1>0 DEF TypeOK
    <3>2. IsFiniteSet(good)
      BY SMTT(30), <3>1, FS_Interval, FS_Subset
    <3> QED
      BY ZenonT(60), <3>1, <3>2, FS_CardinalityType
  <2>3. pick \in [1..Cardinality(good) -> good]
    BY Zenon DEF in_order
  <2> HIDE DEF good
  <2>4. \A k \in DOMAIN pick : log[pick[k]] \in Line
    <3>1. \A k \in DOMAIN pick : pick[k] \in 1..Len(log)
      BY ZenonT(60), <2>2, <2>3
    <3>2. \A j \in 1..Len(log) : log[j] \in Line
      BY SMTT(60), <1>0 DEF TypeOK
    <3> QED
      BY ZenonT(60), <3>1, <3>2
  <2>5. kept_lines(pick) \in Seq(Line)
    BY SMTT(60), <2>2, <2>3, <2>4 DEF kept_lines
  <2>6. w' \in Writer /\ w'.pc = "quarantine"
    BY ZenonT(60), <1>0, <2>1, <2>5, IdleOK DEF Writer, Phase, TypeOK
  <2>7. log' = <<>> /\ torn' = FALSE
    BY Zenon, <1>17 DEF QuarantineRename
  <2>8. log' \in Seq(Line)
    BY SMTT(30), <2>7
  <2> QED
    BY ZenonT(60), <1>17, <2>6, <2>7, <2>8
       DEF QuarantineRename, Consistent, TypeOK, has_manifest
<1>18. CASE QuarantineRewrite
  <2>1. w.kept.log \in Seq(Line) /\ w.kept.torn \in BOOLEAN
    BY ZenonT(60), <1>0 DEF Writer
  <2> QED
    BY ZenonT(60), <1>18, <2>1, IdleOK
       DEF QuarantineRewrite, Consistent, TypeOK, has_manifest, Result,
           ResultKind
<1>19. CASE UNCHANGED vars
  BY ZenonT(60), <1>19 DEF vars, Consistent, TypeOK, has_manifest
<1> QED
  BY ZenonT(60), <1>1, <1>2, <1>3, <1>4, <1>5, <1>6, <1>7, <1>8, <1>9, <1>10,
     <1>11,
     <1>12, <1>13, <1>14, <1>15, <1>16, <1>17, <1>18, <1>19 DEF Next

(* An empty staging directory is consistent. *)
LEMMA InitConsistent == Init => Consistent
<1> SUFFICES ASSUME Init PROVE Consistent
  BY Zenon
<1>1. NoManifest \in Manifest /\ are_node_files(NoFiles)
  BY ZenonT(60), EmptyValues, NoFilesOK
<1>2. log \in Seq(Line) /\ result \in [kind : ResultKind, seq : Nat]
  BY SMTT(60) DEF Init, Result, ResultKind
<1> QED
  BY ZenonT(60), <1>1, <1>2, IdleOK DEF Init, Consistent, TypeOK

(* The store is type-correct in every reachable state: what the reducer    *)
(* writes, in any order of appends, replays and crashes, is always a value *)
(* of the schema that the next reader can parse.                           *)
THEOREM TypeCorrect == Spec => []TypeOK
<1>1. Consistent => TypeOK
  BY Zenon DEF Consistent
<1> QED
  BY SMTT(30), <1>1, InitConsistent, NextConsistent, PTL DEF Spec

-----------------------------------------------------------------------------
(* Safety theorems of the store, from the invariant Consistent. *)

(* What a step may do to the projections: nothing, discard them with the   *)
(* staging directory, commit one planned write, or raise the watermark.    *)
LEMMA ProjectionSteps ==
    ASSUME Consistent, [Next]_vars
    PROVE  \/ UNCHANGED <<manifest, nodes>>
           \/ ~published /\ manifest' = NoManifest /\ nodes' = NoFiles
           \/ CommitOp /\ OpOK(manifest, nodes, Head(w.ops))
           \/ AdvanceWatermark
<1>1. CASE CommitOp
  BY ZenonT(60), <1>1, CommitOK DEF CommitOp, Consistent, TypeOK
<1>2. CASE Crash \/ CrashMidAppend
  BY ZenonT(60), <1>2 DEF Crash, CrashMidAppend, Die
<1>3. CASE \/ Create \/ Publish \/ Write \/ ReplayFails \/ ReplayNext
           \/ ReplayDone \/ UNCHANGED vars
  BY ZenonT(60), <1>3 DEF Create, Publish, Write, Begin, ReplayFails, Fail,
     ReplayNext,
              ReplayDone, vars
<1>4. CASE \/ ReplayOnly \/ ReturnPrior \/ AppendFails \/ Reject
           \/ AppendEvent
  BY ZenonT(60), <1>4 DEF ReplayOnly, ReturnPrior, AppendFails, Reject, Return,
     Fail,
              AppendEvent
<1>5. CASE CorruptLine \/ QuarantineRename \/ QuarantineRewrite
  BY ZenonT(60), <1>5 DEF CorruptLine, QuarantineRename, QuarantineRewrite
<1> QED
  BY ZenonT(60), <1>1, <1>2, <1>3, <1>4, <1>5 DEF Next

(* The seq of the event that the lock holder folds is a number. *)
LEMMA HolderSeq == Consistent => w.ev.seq \in Nat
BY ZenonT(60), EventParts DEF Consistent, TypeOK, Writer

(* A published run never leaves a terminal status except from failed to    *)
(* done, nor does any of its nodes, and a node turns from failed to done   *)
(* only with the report of a confirmed merge: not by any order of reports, *)
(* statuses, respawns, replays and crashes.                                *)
THEOREM TerminalSticky == Spec => TerminalIsSticky
<1> DEFINE P == published =>
              /\ \A n \in DOMAIN nodes :
                    n \in DOMAIN nodes' /\ node_may_become(nodes[n], nodes'[n])
              /\ run_may_become(manifest.status, manifest'.status)
<1>1. ASSUME Consistent, [Next]_vars PROVE P
  <2> SUFFICES ASSUME published PROVE P
    BY Zenon
  <2>1. CASE UNCHANGED <<manifest, nodes>>
    BY Zenon, <2>1 DEF node_may_become, run_may_become, Terminal
  <2>2. CASE CommitOp /\ OpOK(manifest, nodes, Head(w.ops))
    <3> DEFINE op == Head(w.ops)
    <3>1. /\ OpOK(manifest, nodes, op)
          /\ manifest' = write_manifest(manifest, op)
          /\ nodes' = write_node(nodes, op)
      BY Zenon, <2>2 DEF CommitOp
    <3> HIDE DEF op
    <3>2. run_may_become(manifest.status, manifest'.status)
      BY Zenon, <3>1 DEF OpOK, ManifestStep, write_manifest, run_may_become
    <3>3. ASSUME NEW n \in DOMAIN nodes
          PROVE  n \in DOMAIN nodes' /\ node_may_become(nodes[n], nodes'[n])
      <4>1. CASE op.file = "node" /\ op.node = n
        BY Zenon, <3>1, <4>1 DEF OpOK, NodeStep, write_node
      <4>2. CASE ~(op.file = "node" /\ op.node = n)
        <5>1. n \in DOMAIN nodes' /\ nodes'[n] = nodes[n]
          BY Zenon, <3>1, <4>2 DEF write_node
        <5> QED
          BY Zenon, <5>1 DEF node_may_become, run_may_become
      <4> QED
        BY Zenon, <4>1, <4>2
    <3> QED
      BY Zenon, <3>2, <3>3
  <2>3. CASE AdvanceWatermark
    <3>1. manifest'.status = manifest.status /\ nodes' = nodes
      BY SMTT(30), <1>1, <2>3, HolderSeq, AdvanceOK
         DEF AdvanceWatermark, Consistent, TypeOK
    <3> QED
      BY ZenonT(60), <3>1 DEF node_may_become, run_may_become
  <2> QED
    BY Zenon, <1>1, <2>1, <2>2, <2>3, ProjectionSteps
<1>2. ASSUME Consistent, [Next]_vars PROVE [P]_vars
  BY ZenonT(60), <1>1, <1>2
<1> QED
  BY SMTT(30), <1>2, InitConsistent, NextConsistent, PTL
     DEF Spec, TerminalIsSticky

(* Once a published run has a settlement intent, no step replaces or drops *)
(* it: a second operation on a caller-owned run finds the first.           *)
THEOREM IntentSticky == Spec => IntentIsSticky
<1> DEFINE P == published /\ manifest.caller_settlement_intent # NoIntent =>
                   manifest'.caller_settlement_intent
                     = manifest.caller_settlement_intent
<1>1. ASSUME Consistent, [Next]_vars PROVE P
  <2> SUFFICES ASSUME published PROVE P
    BY Zenon
  <2>1. CASE UNCHANGED <<manifest, nodes>>
    BY Zenon, <2>1
  <2>2. CASE CommitOp /\ OpOK(manifest, nodes, Head(w.ops))
    BY Zenon, <2>2 DEF CommitOp, OpOK, ManifestStep, write_manifest
  <2>3. CASE AdvanceWatermark
    BY SMTT(30), <1>1, <2>3, HolderSeq, AdvanceOK
       DEF AdvanceWatermark, Consistent, TypeOK
  <2> QED
    BY Zenon, <1>1, <2>1, <2>2, <2>3, ProjectionSteps
<1>2. ASSUME Consistent, [Next]_vars PROVE [P]_vars
  BY Zenon, <1>1, <1>2
<1> QED
  BY SMTT(30), <1>2, InitConsistent, NextConsistent, PTL
     DEF Spec, IntentIsSticky

(* A settled node has no open question and, in a run taskfleet owns, no    *)
(* pending merge, in every reachable state and between any two writes of a *)
(* fold.                                                                   *)
THEOREM SettledQuiet == Spec => []SettledIsQuiet
<1>1. Init => SettledIsQuiet
  BY Zenon DEF Init, SettledIsQuiet, NoFiles
<1>2. ASSUME Consistent, SettledIsQuiet, [Next]_vars PROVE SettledIsQuiet'
  <2>1. CASE UNCHANGED <<manifest, nodes>>
    BY ZenonT(60), <1>2, <2>1 DEF SettledIsQuiet
  <2>2. CASE nodes' = NoFiles
    BY ZenonT(60), <2>2 DEF SettledIsQuiet, NoFiles
  <2>3. CASE CommitOp /\ OpOK(manifest, nodes, Head(w.ops))
    <3> DEFINE op == Head(w.ops)
    <3>1. /\ OpOK(manifest, nodes, op)
          /\ manifest' = write_manifest(manifest, op)
          /\ nodes' = write_node(nodes, op)
      BY ZenonT(60), <2>3 DEF CommitOp
    <3> HIDE DEF op
    <3>2. CASE op.file = "manifest"
      <4>1. /\ nodes' = nodes
            /\ \/ manifest'.agent_owner = manifest.agent_owner
               \/ manifest.agent_owner = "taskfleet"
        BY ZenonT(60), <3>1, <3>2 DEF OpOK, ManifestStep, write_manifest,
           write_node
      <4> QED
        BY ZenonT(60), <1>2, <4>1 DEF SettledIsQuiet, is_quiet
    <3>3. CASE op.file = "node"
      <4>1. manifest' = manifest
        BY ZenonT(60), <3>1, <3>3 DEF write_manifest
      <4>2. ASSUME NEW n \in DOMAIN nodes'
            PROVE  is_quiet(manifest.agent_owner, nodes'[n])
        <5>1. CASE n # op.node
          <6>1. n \in DOMAIN nodes /\ nodes'[n] = nodes[n]
            BY ZenonT(60), <3>1, <3>3, <4>2, <5>1 DEF write_node
          <6> QED
            BY ZenonT(60), <1>2, <6>1 DEF SettledIsQuiet
        <5>2. CASE n = op.node /\ n \in DOMAIN nodes
          <6>1. nodes'[n] = op.value
            BY ZenonT(60), <3>1, <3>3, <5>2 DEF write_node
          <6> QED
            BY ZenonT(60), <1>2, <3>1, <3>3, <5>2, <6>1
               DEF SettledIsQuiet, OpOK, NodeStep
        <5>3. CASE n = op.node /\ n \notin DOMAIN nodes
          <6>1. nodes'[n] = op.value /\ op.value.status \in Live
            BY ZenonT(60), <3>1, <3>3, <5>3 DEF write_node, OpOK
          <6> QED
            BY ZenonT(60), <6>1 DEF is_quiet, is_terminal, Terminal, Live
        <5> QED
          BY ZenonT(60), <5>1, <5>2, <5>3
      <4> QED
        BY ZenonT(60), <4>1, <4>2 DEF SettledIsQuiet
    <3> QED
      BY ZenonT(60), <3>1, <3>2, <3>3 DEF OpOK, ProjectionOp
  <2>4. CASE AdvanceWatermark
    <3>1. manifest'.agent_owner = manifest.agent_owner /\ nodes' = nodes
      BY SMTT(30), <1>2, <2>4, HolderSeq, AdvanceOK
         DEF AdvanceWatermark, Consistent, TypeOK
    <3> QED
      BY ZenonT(60), <1>2, <3>1 DEF SettledIsQuiet
  <2> QED
    BY ZenonT(60), <1>2, <2>1, <2>2, <2>3, <2>4, ProjectionSteps
<1> QED
  BY SMTT(30), <1>1, <1>2, InitConsistent, NextConsistent, PTL DEF Spec

-----------------------------------------------------------------------------
(* The lock holder works on a log without a torn tail, an undamaged log is *)
(* never quarantined, and the event being folded is in the log.            *)
HolderInv ==
    /\ w.pc \in {"replay", "refold", "append", "commit"} => torn = FALSE
    /\ faults = 0 =>
          /\ w.pc # "quarantine"
          /\ w.pc = "commit" =>
                w.ev.seq = Len(log) /\ manifest.applied_seq < Len(log)
          /\ w.pc = "refold" => w.ev.seq <= Len(log)

LogInv ==
    /\ Consistent
    /\ LogIntact
    /\ faults = 0 => manifest.applied_seq <= Len(log)
    /\ HolderInv

(* In an intact log the last seq is the number of lines. *)
LEMMA LastSeqIsLen ==
    ASSUME TypeOK, LogIntact, faults = 0
    PROVE  recover_last_seq = Len(log)
<1>1. CASE log = <<>>
  BY ZenonT(60), <1>1 DEF recover_last_seq
<1>2. CASE log # <<>>
  <2>1. Len(log) \in DOMAIN log
    BY SMTT(60), <1>2 DEF TypeOK
  <2> QED
    BY ZenonT(60), <1>2, <2>1 DEF recover_last_seq, Last, LogIntact
<1> QED
  BY ZenonT(60), <1>1, <1>2

(* Every step keeps the log in order and its holder in step with it. *)
LEMMA NextLogInv == LogInv /\ [Next]_vars => LogInv'
<1> SUFFICES ASSUME LogInv, [Next]_vars PROVE LogInv'
  BY Zenon
<1>0. /\ Consistent'
      /\ TypeOK
      /\ w \in Writer
      /\ manifest \in Manifest
      /\ Idle.pc = "idle"
  BY ZenonT(60), NextConsistent, IdleOK DEF LogInv, Consistent, TypeOK
<1>2. CASE Create \/ Write
  <2>1. PICK req : Begin(req)
    BY ZenonT(60), <1>2 DEF Create, Write
  <2>2. w'.pc = "replay"
    BY ZenonT(60), <2>1, IdleOK DEF Begin, Writer
  <2> QED
    BY ZenonT(60), <1>0, <2>1, <2>2 DEF Begin, LogInv, LogIntact, HolderInv
<1>3. CASE Publish \/ UNCHANGED vars
  <2>1. UNCHANGED <<log, torn, manifest, faults, w>>
    BY ZenonT(60), <1>3 DEF Publish, vars
  <2> QED
    BY ZenonT(60), <1>0, <2>1 DEF LogInv, LogIntact, HolderInv
<1>4. CASE ReplayFails \/ AppendFails \/ ReplayOnly \/ Reject \/ ReturnPrior
  <2>1. w' = Idle /\ UNCHANGED <<log, torn, manifest, faults>>
    BY Zenon, <1>4
       DEF ReplayFails, AppendFails, Fail, ReplayOnly, Reject, ReturnPrior,
           Return
  <2> QED
    BY ZenonT(60), <1>0, <2>1 DEF LogInv, LogIntact, HolderInv
<1>5. CASE ReplayDone
  <2>1. w.pc = "replay" /\ w'.pc = "append"
    BY ZenonT(60), <1>0, <1>5 DEF ReplayDone, Writer
  <2> QED
    BY ZenonT(60), <1>0, <1>5, <2>1 DEF ReplayDone, LogInv, LogIntact, HolderInv
<1>6. CASE ReplayNext
  <2> PICK i \in Unapplied :
        LET p == plan(log[i].ev)
        IN  w' = IF p.ok
                 THEN [w EXCEPT !.pos = i + 1, !.pc = "refold",
                                !.ev = log[i].ev, !.ops = p.ops]
                 ELSE [w EXCEPT !.pos = i + 1]
    BY Zenon, <1>6 DEF ReplayNext
  <2>1. i \in 1..Len(log)
    BY SMTT(60), <1>0 DEF Unapplied, TypeOK, Writer
  <2>2. \/ w'.pc = "refold" /\ w'.ev = log[i].ev
        \/ w'.pc = "replay"
    BY ZenonT(60), <1>0, <1>6 DEF ReplayNext, Writer
  <2>3. faults = 0 => log[i].ev.seq <= Len(log)
    BY SMTT(60), <2>1 DEF LogInv, LogIntact
  <2> QED
    BY ZenonT(60), <1>0, <1>6, <2>2, <2>3 DEF ReplayNext, LogInv, LogIntact,
       HolderInv
<1>7. CASE CommitOp
  <2>1. manifest'.applied_seq = manifest.applied_seq
    BY SMTT(30), <1>7, CommitOK
       DEF LogInv, Consistent, TypeOK, CommitOp, OpOK, ManifestStep,
           write_manifest
  <2>2. w'.pc = w.pc /\ w'.ev = w.ev
    BY ZenonT(60), <1>0, <1>7 DEF CommitOp, Writer
  <2> QED
    BY ZenonT(60), <1>0, <1>7, <2>1, <2>2 DEF CommitOp, LogInv, LogIntact,
       HolderInv
<1>8. CASE AdvanceWatermark
  <2>1. manifest'.applied_seq \in {manifest.applied_seq, w.ev.seq}
    BY ZenonT(60), <1>0, <1>8, HolderSeq, AdvanceOK
       DEF AdvanceWatermark, LogInv, Consistent, TypeOK
  <2>2. w'.pc \in {"replay", "idle"}
    BY ZenonT(60), <1>0, <1>8 DEF AdvanceWatermark, Writer
  <2>3. w'.pc = "replay" => w.pc = "refold"
    BY ZenonT(60), <1>0, <1>8 DEF AdvanceWatermark
  <2>4. /\ UNCHANGED <<log, torn, faults>>
        /\ w.pc \in {"refold", "commit"}
    BY ZenonT(60), <1>8 DEF AdvanceWatermark
  <2>5. Len(log) \in Nat
    BY SMTT(60), <1>0 DEF TypeOK
  <2>6. faults = 0 => w.ev.seq <= Len(log)
    BY SMTT(30), <2>4, <2>5 DEF LogInv, HolderInv
  <2> QED
    BY ZenonT(60), <1>0, <2>1, <2>2, <2>3, <2>4, <2>6
       DEF LogInv, LogIntact, HolderInv
<1>9. CASE AppendEvent
  <2>1. /\ log' = Append(log, [ok |-> ~torn, ev |-> next_event])
        /\ UNCHANGED <<torn, manifest, faults>>
        /\ w.pc = "append"
    BY ZenonT(60), <1>9 DEF AppendEvent, may_append
  <2>2. w'.pc = "commit" /\ w'.ev = next_event
    BY ZenonT(60), <1>0, <1>9 DEF AppendEvent, Writer
  <2>3. torn = FALSE
    BY ZenonT(60), <2>1 DEF LogInv, HolderInv
  <2>4. Len(log') = Len(log) + 1 /\ Len(log) \in Nat
    BY SMTT(30), <1>0, <2>1 DEF TypeOK
  <2>5. CASE faults = 0
    <3>1. next_event.seq = Len(log) + 1
      BY ZenonT(60), <1>0, <2>5, LastSeqIsLen DEF next_event, LogInv
    <3>2. LogIntact'
      <4> SUFFICES ASSUME NEW i \in DOMAIN log'
                   PROVE  log'[i].ok /\ log'[i].ev.seq = i
        BY Zenon DEF LogIntact
      <4>1. CASE i = Len(log) + 1
        <5>1. log'[i] = [ok |-> ~torn, ev |-> next_event]
          BY SMTT(30), <1>0, <2>1, <4>1 DEF TypeOK
        <5>2. log'[i].ok = ~torn
          BY SMTT(60), <5>1
        <5>3. log'[i].ok
          BY ZenonT(60), <2>3, <5>2
        <5>4. log'[i].ev.seq = i
          BY SMTT(60), <3>1, <4>1, <5>1
        <5> QED
          BY ZenonT(60), <5>3, <5>4
      <4>2. CASE i # Len(log) + 1
        <5>1. i \in DOMAIN log /\ log'[i] = log[i]
          BY SMTT(30), <1>0, <2>1, <4>2 DEF TypeOK
        <5> QED
          BY ZenonT(60), <2>5, <5>1 DEF LogInv, LogIntact
      <4> QED
        BY ZenonT(60), <4>1, <4>2
    <3>3. manifest.applied_seq <= Len(log) /\ manifest.applied_seq \in Nat
      BY ZenonT(60), <1>0, <2>5 DEF LogInv, Manifest
    <3> QED
      BY SMTT(30), <1>0, <2>1, <2>2, <2>3, <2>4, <3>1, <3>2, <3>3
         DEF LogInv, HolderInv
  <2>6. CASE faults # 0
    BY ZenonT(60), <1>0, <2>1, <2>2, <2>3, <2>6 DEF LogInv, LogIntact, HolderInv
  <2> QED
    BY ZenonT(60), <2>5, <2>6
<1>10. CASE Crash \/ CrashMidAppend
  <2>1. PICK t \in BOOLEAN : Die(t)
    BY ZenonT(60), <1>0, <1>10 DEF Crash, CrashMidAppend, TypeOK
  <2>2. CASE published
    BY ZenonT(60), <1>0, <2>1, <2>2 DEF Die, LogInv, LogIntact, HolderInv
  <2>3. CASE ~published
    <3>1. log' = <<>> /\ manifest'.applied_seq = 0 /\ w'.pc = "idle"
      BY SMTT(30), <1>0, <2>1, <2>3 DEF Die, NoManifest
    <3> QED
      BY SMTT(30), <1>0, <3>1 DEF LogInv, LogIntact, HolderInv
  <2> QED
    BY ZenonT(60), <2>2, <2>3
<1>11. CASE CorruptLine
  <2>1. faults' # 0 /\ w'.pc = "idle"
    BY SMTT(30), <1>0, <1>11 DEF CorruptLine, TypeOK
  <2> QED
    BY ZenonT(60), <1>0, <2>1 DEF LogInv, LogIntact, HolderInv
<1>12. CASE QuarantineRename
  <2>1. faults # 0
    BY ZenonT(60), <1>12 DEF QuarantineRename, any_line_corrupt, LogInv, LogIntact
  <2>2. faults' = faults /\ w'.pc = "quarantine"
    BY ZenonT(60), <1>12, IdleOK DEF QuarantineRename, Writer
  <2> QED
    BY ZenonT(60), <1>0, <2>1, <2>2 DEF LogInv, LogIntact, HolderInv
<1>13. CASE QuarantineRewrite
  <2>1. faults # 0 /\ faults' = faults /\ w'.pc = "idle"
    BY ZenonT(60), <1>0, <1>13 DEF QuarantineRewrite, LogInv, HolderInv
  <2> QED
    BY ZenonT(60), <1>0, <2>1 DEF LogInv, LogIntact, HolderInv
<1> QED
  BY ZenonT(60), <1>2, <1>3, <1>4, <1>5, <1>6, <1>7, <1>8, <1>9, <1>10, <1>11,
     <1>12,
     <1>13 DEF Next

(* An empty log is in order. *)
LEMMA InitLogInv == Init => LogInv
BY SMTT(60), InitConsistent
   DEF Init, LogInv, LogIntact, HolderInv, Idle, NoManifest

(* As long as no line is damaged from outside, event i is line i and every *)
(* line parses, whatever crashes, torn appends and retries happen.         *)
THEOREM LogIsIntact == Spec => []LogIntact
<1>1. LogInv => LogIntact
  BY ZenonT(60) DEF LogInv
<1> QED
  BY SMTT(30), <1>1, InitLogInv, NextLogInv, PTL DEF Spec

(* As long as no line is damaged from outside, the watermark never claims  *)
(* an event that is not in the log or that is durable and not yet folded.  *)
THEOREM WatermarkLagsBehind == Spec => []WatermarkLags
<1>1. LogInv => WatermarkLags
  BY Zenon DEF LogInv, HolderInv, WatermarkLags
<1> QED
  BY <1>1, InitLogInv, NextLogInv, PTL DEF Spec

=============================================================================
