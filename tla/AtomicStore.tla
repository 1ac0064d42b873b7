---------------------------- MODULE AtomicStore -----------------------------
(***************************************************************************)
(* What the event store promises: an append is one indivisible step that   *)
(* both extends the log and folds the event into the view.  There are no   *)
(* crashes here, no watermark to heal and no half-written file.            *)
(*                                                                         *)
(* EventStore implements this specification with its healed projections    *)
(* as the view.  The modules above the store build on these actions.       *)
(***************************************************************************)
EXTENDS Reducer

CONSTANTS RunCreated, RootCreated, Requests, MaxSeq

VARIABLES events,     \* the events of the run, in order
          view,       \* [manifest, nodes]
          published   \* whether the run exists for other processes

avars == <<events, view, published>>

Init ==
    /\ events = <<>>
    /\ view = NoProjections
    /\ published = FALSE

(* The keys that were spent on an event of this kind. *)
SpentKeys(kind) ==
    {events[i].key : i \in {j \in DOMAIN events : events[j].kind = kind}}

EventOf(req) == [seq |-> Len(events) + 1, kind |-> req.kind,
                 node |-> req.node, key |-> req.key, data |-> req.data]

(* The reducer accepts the event, and its key is fresh where the caller    *)
(* asked for a lookup.                                                     *)
AppendEvent(req) ==
    LET ev == EventOf(req)
    IN  /\ req.entry # "replay"
        /\ events' = Append(events, ev)
        /\ req.entry \in {"event", "idempotent"} /\ req.key # NoKey =>
              req.key \notin SpentKeys(req.kind)
        /\ reduce_event_to_ops(view.manifest, view.nodes, events, ev).ok
        /\ view' = apply_event(events', view, ev)
        /\ UNCHANGED published

Create ==
    /\ ~published
    /\ \/ events = <<>> /\ \E req \in RunCreated : AppendEvent(req)
       \/ Len(events) = 1 /\ \E req \in RootCreated : AppendEvent(req)

Publish ==
    /\ ~published
    /\ Len(events) = 2
    /\ published' = TRUE
    /\ UNCHANGED <<events, view>>

(* A creation that fails leaves nothing behind. *)
Discard ==
    /\ ~published
    /\ events' = <<>>
    /\ view' = NoProjections
    /\ UNCHANGED published

(* That the log grows follows, and spares TLC the requests otherwise. *)
Write ==
    /\ published /\ Len(events') = Len(events) + 1
    /\ \E req \in Requests : AppendEvent(req)

Next == Create \/ Publish \/ Discard \/ Write

Spec == Init /\ [][Next]_avars

=============================================================================
