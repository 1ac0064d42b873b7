--------------------------- MODULE SessionsProofs ----------------------------
(***************************************************************************)
(* Proofs about a run that people talk to: a resident between and during   *)
(* its rounds (Resident), and a caller-owned run whose host starts Pi      *)
(* itself while operators settle it (Settlement).                          *)
(***************************************************************************)
EXTENDS Resident, Settlement, TLAPS

------------------------------------------------------------------------------
(* The resident.                                                           *)

NodeFields == {"st", "attempt", "pid", "exit", "rounds", "open", "by", "dormant",
               "attention", "txn", "moved", "landed"}
TreeFields == {"there", "dirty", "rebasing", "ahead", "behind"}
OpFields == {"verb", "at", "launch", "attempt"}

ProcSet == [a : Nat, st : {"none", "live", "stopping", "clean", "fail", "gone"}]

\* The places of a message after its checks, with a worker started, of a verb
\* at work in the worktree.
Resuming == {"tree", "launch", "shake", "record"}
Started == {"shake", "record"}
Ashore == Resuming \cup {"rebase", "abort", "move"}

\* A node projection; a dormant one waits in an open round with a told exit.
NodeOK(n) ==
  /\ n = [x \in NodeFields |-> n[x]]
  /\ n.st \in {"live", "done", "failed", "cancelled"}
  /\ n.exit \in {"none", "clean", "fail"}
  /\ n.pid \in Launches /\ n.rounds \in Nat /\ n.attempt \in Nat
  /\ n.dormant => n.open /\ n.exit # "none"

ResShape ==
  /\ NodeOK(node)
  /\ wtree = [x \in TreeFields |-> wtree[x]]
  /\ proc \in [Launches -> ProcSet]
  /\ op = [c \in Clients |-> op[c]]
  /\ \A c \in Clients : op[c] = [x \in OpFields |-> op[c][x]]
  /\ tick = [x \in {"at", "round"} |-> tick[x]]
  /\ orphan \in BOOLEAN

\* Whoever is past the wait for the lock has it.
OneHolder ==
  /\ \A c \in Clients : op[c].at \notin {"idle", "await", "lock"} => holder = c
  /\ tick.at \notin {"idle", "lock"} => holder = "supervisor"

\* The recorded process was launched for the recorded attempt, a message
\* resumes the next one, and what it started was launched for that one.
Numbered ==
  /\ proc[node.pid].st # "none" /\ proc[node.pid].a = node.attempt
  /\ \A c \in Clients : op[c].at \in Resuming => op[c].attempt = node.attempt + 1
  /\ \A c \in Clients : op[c].at \in Started =>
       /\ op[c].launch \in Launches
       /\ proc[op[c].launch].st # "none" /\ proc[op[c].launch].a = op[c].attempt

\* Unless a messenger died at the wrong moment, a worker that runs is the
\* recorded one or was just started by a message; one that has ended and is
\* not recorded belongs to an earlier attempt; and the recorded one has ended
\* when its exit is recorded and when a verb is at work in the worktree.
Accounted ==
  ~orphan =>
    /\ \A l \in Launches : proc[l].st = "live" =>
         l = node.pid \/ \E c \in Clients : op[c].at \in Started /\ op[c].launch = l
    /\ \A l \in Launches : proc[l].st \in {"clean", "fail"} =>
         l = node.pid \/ proc[l].a < node.attempt
    /\ node.exit # "none" => proc[node.pid].st # "live"
    /\ \A c \in Clients : op[c].at \in Ashore => proc[node.pid].st # "live"

\* The idle expiry acts on a told exit, and what it is about to remove is as
\* its guard found it.
Expiring ==
  /\ tick.at \in {"guard", "remove", "dormant"} => node.exit # "none"
  /\ tick.at = "remove" /\ ~orphan => wtree.there /\ ~wtree.rebasing /\ ~wtree.ahead

\* A message that will start a worker has a node that nobody can settle.
Meant ==
  \A c \in Clients : op[c].at \in {"tree", "launch"} =>
    ~Settled(node) /\ (Reported(node) \/ node.exit = "clean")

InTurn == ResShape /\ OneHolder /\ Numbered /\ Accounted /\ Expiring /\ Meant

(* The node after a record that leaves its attempt alone. *)
SameAttempt(n, m) ==
  NodeOK(m) /\ m.pid = n.pid /\ m.attempt = n.attempt /\ m.exit = n.exit

(* Nor does it settle the node or touch the round. *)
SameRound(n, m) == SameAttempt(n, m) /\ m.st = n.st /\ m.open = n.open /\ m.by = n.by

(* What the records of a landing leave alone. *)
LEMMA LandingEdits ==
  ASSUME NEW n, NodeOK(n), NEW v
  PROVE  /\ SameRound(n, [n EXCEPT !.txn = v])
         /\ SameRound(n, [n EXCEPT !.txn = v, !.moved = FALSE])
         /\ SameRound(n, [n EXCEPT !.moved = TRUE])
         /\ SameRound(n, [n EXCEPT !.attention = TRUE])
         /\ SameRound(n, [n EXCEPT !.txn = "none", !.moved = FALSE, !.landed = n.rounds,
                                   !.attention = FALSE])
BY Zenon DEF NodeOK, SameRound, SameAttempt, NodeFields

(* What the other records leave alone. *)
LEMMA StatusEdits ==
  ASSUME NEW n, NodeOK(n), NEW s \in {"done", "failed", "cancelled"}
  PROVE  SameAttempt(n, [n EXCEPT !.st = s])
BY Zenon DEF NodeOK, SameAttempt, NodeFields

(* A node that fell asleep was in an open round with a told exit. *)
LEMMA DormantEdit ==
  ASSUME NEW n, NodeOK(n), n.exit # "none"
  PROVE  SameRound(n, reduce_node_resident_dormant(n))
<1>1. CASE Settled(n) \/ ~n.open \/ n.dormant
  BY Zenon, <1>1 DEF reduce_node_resident_dormant, SameRound, SameAttempt
<1>2. CASE ~(Settled(n) \/ ~n.open \/ n.dormant)
  <2>1. SameRound(n, [n EXCEPT !.dormant = TRUE, !.attention = FALSE])
    BY Zenon, <1>2 DEF NodeOK, SameRound, SameAttempt, NodeFields
  <2> QED
    BY Zenon, <1>2, <2>1 DEF reduce_node_resident_dormant
<1> QED
  BY Zenon, <1>1, <1>2

LEMMA AttentionEdit ==
  ASSUME NEW n, NodeOK(n)
  PROVE  SameRound(n, reduce_node_resident_attention(n))
<1>1. SameRound(n, n) /\ SameRound(n, [n EXCEPT !.attention = TRUE])
  BY Zenon, LandingEdits DEF SameRound, SameAttempt
<1> QED
  BY Zenon, <1>1 DEF reduce_node_resident_attention

(* A report opens a round of the attempt, or amends it. *)
LEMMA RoundEdit ==
  ASSUME NEW n, NodeOK(n)
  PROVE  /\ SameAttempt(n, reduce_node_round_reported(n))
         /\ reduce_node_round_reported(n).st = n.st
         /\ Reported(n) => reduce_node_round_reported(n) = n
<1>1. SameAttempt(n, n)
  BY Zenon DEF SameAttempt
<1>2. n.rounds + 1 \in Nat
  BY SMTT(60) DEF NodeOK
<1>3. /\ SameAttempt(n, [n EXCEPT !.rounds = @ + 1, !.open = TRUE, !.by = n.attempt, !.attention = FALSE])
      /\ [n EXCEPT !.rounds = @ + 1, !.open = TRUE, !.by = n.attempt, !.attention = FALSE].st = n.st
  BY Zenon, <1>2 DEF NodeOK, SameAttempt, NodeFields
<1> QED
  BY Zenon, <1>1, <1>3 DEF reduce_node_round_reported

(* A landing, recorded or recovered, leaves attempt and round alone. *)
LEMMA LandedEdit ==
  ASSUME NEW n, NodeOK(n)
  PROVE  /\ SameRound(n, reduce_node_round_landed(n))
         /\ SameRound(n, recover_node(n))
         /\ \A c : SameRound(n, Aborted(c, n))
<1>1. SameRound(n, n)
  BY Zenon DEF SameRound, SameAttempt
<1>2. SameRound(n, reduce_node_round_landed(n))
  BY Zenon, <1>1, LandingEdits DEF reduce_node_round_landed
<1>3. SameRound(n, recover_node(n))
  BY Zenon, <1>1, <1>2, LandingEdits DEF recover_node
<1>4. \A c : SameRound(n, Aborted(c, n))
  BY Zenon, <1>1, LandingEdits DEF Aborted
<1> QED
  BY Zenon, <1>2, <1>3, <1>4

(* Nothing changes, or the exit of the recorded attempt is told. *)
ExitTold(n, m, a, s) ==
  \/ m = n
  \/ /\ a = n.attempt /\ n.exit = "none" /\ m.exit = s
     /\ NodeOK(m) /\ m.pid = n.pid /\ m.attempt = n.attempt
     /\ m.st = n.st /\ m.open = n.open /\ m.by = n.by

(* An exit is recorded once, of the attempt it is the exit of. *)
LEMMA ExitedEdit ==
  ASSUME NEW n, NodeOK(n), NEW s \in {"clean", "fail"}
  PROVE  \A a : ExitTold(n, reduce_worker_exited(n, a, s), a, s)
<1> DEFINE e == [n EXCEPT !.exit = s]
<1>1. /\ NodeOK(e) /\ e.pid = n.pid /\ e.attempt = n.attempt
      /\ e.st = n.st /\ e.open = n.open /\ e.by = n.by /\ e.exit = s
  BY Zenon DEF NodeOK, NodeFields
<1>2. \A a : \/ reduce_worker_exited(n, a, s) = n
             \/ a = n.attempt /\ n.exit = "none" /\ reduce_worker_exited(n, a, s) = e
  BY Zenon DEF reduce_worker_exited
<1> QED
  BY Zenon, <1>1, <1>2 DEF ExitTold

(* A resumed node records the new launch and nothing of the last round. *)
Rewired(m, l, a) == NodeOK(m) /\ m.pid = l /\ m.attempt = a /\ m.exit = "none"

LEMMA ResumedEdit ==
  ASSUME NEW n, NodeOK(n), ~Settled(n), NEW l \in Launches, NEW a \in Nat, ~(a <= n.attempt)
  PROVE  Rewired(reduce_node_resumed(n, l, a), l, a)
<1> DEFINE m == [n EXCEPT !.attempt = a, !.pid = l, !.exit = "none", !.open = FALSE,
                          !.dormant = FALSE, !.attention = FALSE, !.txn = "none", !.moved = FALSE]
<1>1. NodeOK(m) /\ m.pid = l /\ m.attempt = a /\ m.exit = "none"
  BY Zenon DEF NodeOK, NodeFields
<1> QED
  BY Zenon, <1>1 DEF reduce_node_resumed, Rewired

(* A client's place changes and nothing else about it. *)
LEMMA PlacedOp ==
  ASSUME ResShape, NEW c \in Clients, NEW at, op' = [op EXCEPT ![c].at = at]
  PROVE  /\ op' = [d \in Clients |-> op'[d]]
         /\ \A d \in Clients : op'[d] = [x \in OpFields |-> op'[d][x]]
         /\ op'[c].at = at /\ op'[c].launch = op[c].launch /\ op'[c].attempt = op[c].attempt
         /\ \A d \in Clients : d # c => op'[d] = op[d]
<1>1. /\ op'[c] = [op[c] EXCEPT !.at = at]
      /\ \A d \in Clients : d # c => op'[d] = op[d]
      /\ op' = [d \in Clients |-> op'[d]]
  BY Zenon DEF ResShape
<1>2. op[c] = [x \in OpFields |-> op[c][x]]
  BY Zenon DEF ResShape
<1>3. /\ op'[c] = [x \in OpFields |-> op'[c][x]]
      /\ op'[c].at = at /\ op'[c].launch = op[c].launch /\ op'[c].attempt = op[c].attempt
  BY Zenon, <1>1, <1>2 DEF OpFields
<1> QED
  BY ZenonT(60), <1>1, <1>3 DEF ResShape

LEMMA RestingRecord ==
  Resting = [x \in OpFields |-> Resting[x]] /\ Resting.at = "idle"
BY Zenon DEF OpFields, Resting

(* A client that returns is idle and its lock is free. *)
LEMMA ReturnedOp ==
  ASSUME ResShape, OneHolder, NEW c \in Clients, Return(c), tick' = tick
  PROVE  /\ op' = [d \in Clients |-> op'[d]]
         /\ \A d \in Clients : op'[d] = [x \in OpFields |-> op'[d][x]]
         /\ op'[c].at = "idle"
         /\ \A d \in Clients : d # c => op'[d] = op[d]
         /\ OneHolder'
<1>1. /\ op'[c] = Resting
      /\ \A d \in Clients : d # c => op'[d] = op[d]
      /\ op' = [d \in Clients |-> op'[d]]
  BY Zenon DEF ResShape, Return
<1>2. op'[c] = [x \in OpFields |-> op'[c][x]] /\ op'[c].at = "idle"
  BY Zenon, <1>1, RestingRecord
<1>3. c # "supervisor" /\ holder' = IF holder = c THEN "none" ELSE holder
  BY Zenon, ResidentAssumption DEF Return
<1>4. \A d \in Clients : op'[d].at \notin {"idle", "await", "lock"} => holder' = d
  BY Zenon, <1>1, <1>2, <1>3 DEF OneHolder
<1>5. tick'.at \notin {"idle", "lock"} => holder' = "supervisor"
  BY Zenon, <1>3 DEF OneHolder
<1> QED
  BY Zenon, <1>1, <1>2, <1>4, <1>5 DEF ResShape, OneHolder

(* The numbers fit as long as nobody starts or records a worker. *)
LEMMA NumberedKept ==
  ASSUME Numbered, node'.pid = node.pid, node'.attempt = node.attempt, proc' = proc,
         \A d \in Clients : op'[d].at \in Resuming =>
           op[d].at \in Resuming /\ op'[d].attempt = op[d].attempt,
         \A d \in Clients : op'[d].at \in Started =>
           op[d].at \in Started /\ op'[d].launch = op[d].launch
  PROVE  Numbered'
<1>1. Started \subseteq Resuming
  BY Zenon DEF Started, Resuming
<1>2. proc'[node'.pid].st # "none" /\ proc'[node'.pid].a = node'.attempt
  BY Zenon DEF Numbered
<1>3. \A c \in Clients : op'[c].at \in Resuming => op'[c].attempt = node'.attempt + 1
  BY Zenon DEF Numbered
<1>4. \A c \in Clients : op'[c].at \in Started =>
       /\ op'[c].launch \in Launches
       /\ proc'[op'[c].launch].st # "none" /\ proc'[op'[c].launch].a = op'[c].attempt
  BY Zenon, <1>1 DEF Numbered
<1> QED
  BY Zenon, <1>2, <1>3, <1>4 DEF Numbered

(* And the workers stay accounted for as long as no verb enters the worktree. *)
LEMMA AccountedKept ==
  ASSUME Accounted, node'.pid = node.pid, node'.attempt = node.attempt,
         node'.exit = node.exit, proc' = proc, orphan' = orphan,
         \A d \in Clients : op'[d].at \in Ashore =>
           op[d].at \in Ashore \/ proc[node.pid].st # "live",
         \A d \in Clients : op[d].at \in Started =>
           op'[d].at \in Started /\ op'[d].launch = op[d].launch
  PROVE  Accounted'
<1> SUFFICES ASSUME ~orphan' PROVE Accounted'
  BY Zenon DEF Accounted
<1>1. \A l \in Launches : proc'[l].st = "live" =>
         l = node'.pid \/ \E c \in Clients : op'[c].at \in Started /\ op'[c].launch = l
  BY ZenonT(60) DEF Accounted
<1>2. \A l \in Launches : proc'[l].st \in {"clean", "fail"} =>
         l = node'.pid \/ proc'[l].a < node'.attempt
  BY Zenon DEF Accounted
<1>3. node'.exit # "none" => proc'[node'.pid].st # "live"
  BY Zenon DEF Accounted
<1>4. \A c \in Clients : op'[c].at \in Ashore => proc'[node'.pid].st # "live"
  BY Zenon DEF Accounted
<1> QED
  BY Zenon, <1>1, <1>2, <1>3, <1>4 DEF Accounted

(* While a client holds the lock the others, and the expiry, are elsewhere. *)
LEMMA Alone ==
  ASSUME OneHolder, NEW c \in Clients, holder = c
  PROVE  /\ \A d \in Clients : d # c => op[d].at \in {"idle", "await", "lock"}
         /\ tick.at \in {"idle", "lock"}
<1>1. c # "supervisor"
  BY Zenon, ResidentAssumption
<1> QED
  BY Zenon, <1>1 DEF OneHolder

(* A verb returns, having written what it wrote under the lock. *)
LEMMA VerbReturns ==
  ASSUME InTurn, NEW c \in Clients, Return(c), op[c].at \notin Started,
         proc' = proc, tick' = tick, orphan' = orphan,
         SameAttempt(node, node'), wtree' = [x \in TreeFields |-> wtree'[x]],
         holder = c \/ (node' = node /\ wtree' = wtree)
  PROVE  InTurn'
<1>1. /\ op' = [d \in Clients |-> op'[d]]
      /\ \A d \in Clients : op'[d] = [x \in OpFields |-> op'[d][x]]
      /\ op'[c].at = "idle"
      /\ \A d \in Clients : d # c => op'[d] = op[d]
      /\ OneHolder'
  BY Zenon, ReturnedOp DEF InTurn
<1>2. /\ \A d \in Clients : op'[d].at \in Ashore => op'[d] = op[d]
      /\ \A d \in Clients : op'[d].at \in Resuming => op'[d] = op[d]
      /\ \A d \in Clients : op'[d].at \in Started => op'[d] = op[d]
      /\ \A d \in Clients : op[d].at \in Started => op'[d] = op[d]
      /\ \A d \in Clients : op'[d].at \in {"tree", "launch"} => op'[d] = op[d] /\ d # c
  BY Zenon, <1>1 DEF Ashore, Resuming, Started
<1>3. ResShape'
  BY Zenon, <1>1 DEF ResShape, InTurn, SameAttempt
<1>4. Numbered'
  BY Zenon, <1>2, NumberedKept DEF InTurn, SameAttempt
<1>5. Accounted'
  BY Zenon, <1>2, AccountedKept DEF InTurn, SameAttempt
<1>6. Expiring' /\ Meant'
  <2>1. CASE holder = c
    <3>1. tick'.at \in {"idle", "lock"} /\ \A d \in Clients : op'[d].at \notin {"tree", "launch"}
      BY Zenon, <2>1, <1>1, Alone DEF InTurn
    <3> QED
      BY Zenon, <3>1 DEF Expiring, Meant
  <2>2. CASE node' = node /\ wtree' = wtree
    BY Zenon, <2>2, <1>2 DEF InTurn, Expiring, Meant, Settled, Reported
  <2> QED
    BY Zenon, <2>1, <2>2
<1> QED
  BY Zenon, <1>1, <1>3, <1>4, <1>5, <1>6 DEF InTurn

(* A verb that holds the lock moves on. *)
LEMMA VerbMoves ==
  ASSUME InTurn, NEW c \in Clients, NEW at, op' = [op EXCEPT ![c].at = at],
         holder = c, holder' = holder,
         proc' = proc, tick' = tick, orphan' = orphan,
         SameAttempt(node, node'), wtree' = [x \in TreeFields |-> wtree'[x]],
         op[c].at \in Started => at \in Started,
         at \in Started => op[c].at \in Started,
         at \in Resuming => op[c].at \in Resuming,
         at \in Ashore => op[c].at \in Ashore \/ proc[node.pid].st # "live",
         at \in {"tree", "launch"} => op[c].at \in {"tree", "launch"} /\ node' = node
  PROVE  InTurn'
<1>1. /\ op' = [d \in Clients |-> op'[d]]
      /\ \A d \in Clients : op'[d] = [x \in OpFields |-> op'[d][x]]
      /\ op'[c].at = at /\ op'[c].launch = op[c].launch /\ op'[c].attempt = op[c].attempt
      /\ \A d \in Clients : d # c => op'[d] = op[d]
  BY Zenon, PlacedOp DEF InTurn
<1>2. tick'.at \in {"idle", "lock"} /\ \A d \in Clients : d # c => op[d].at \in {"idle", "await", "lock"}
  BY Zenon, Alone DEF InTurn
<1>3. ResShape'
  BY Zenon, <1>1 DEF ResShape, InTurn, SameAttempt
<1>4. OneHolder'
  BY Zenon, <1>1, <1>2 DEF OneHolder
<1>5. Numbered'
  BY Zenon, <1>1, NumberedKept DEF InTurn, SameAttempt
<1>6. Accounted'
  BY Zenon, <1>1, AccountedKept DEF InTurn, SameAttempt
<1>7. Expiring'
  BY Zenon, <1>2 DEF Expiring
<1>8. Meant'
  <2>1. \A d \in Clients : op'[d].at \in {"tree", "launch"} => d = c
    BY Zenon, <1>1, <1>2
  <2> QED
    BY Zenon, <2>1, <1>1 DEF InTurn, Meant
<1> QED
  BY Zenon, <1>3, <1>4, <1>5, <1>6, <1>7, <1>8 DEF InTurn

(* One process ends or is told to. *)
LEMMA ProcEnds ==
  ASSUME InTurn, NEW l \in Launches, NEW st \in {"stopping", "clean", "fail", "gone"},
         proc[l].st # "none", proc' = [proc EXCEPT ![l].st = st],
         op' = op, holder' = holder, tick' = tick, orphan' = orphan, wtree' = wtree,
         st \in {"clean", "fail"} => orphan \/ l = node.pid \/ proc[l].a < node.attempt,
         \/ node' = node
         \/ /\ NodeOK(node') /\ node'.pid = node.pid /\ node'.attempt = node.attempt
            /\ node'.st = node.st /\ node'.open = node.open /\ node'.by = node.by
            /\ node.exit = "none" /\ node'.exit # "none" /\ (orphan \/ l = node.pid)
  PROVE  InTurn'
<1>1. /\ proc' \in [Launches -> ProcSet] /\ proc'[l].st = st /\ proc'[l].a = proc[l].a
      /\ \A k \in Launches : k # l => proc'[k] = proc[k]
  <2>1. proc[l] \in ProcSet /\ proc'[l] = [proc[l] EXCEPT !.st = st]
        /\ \A k \in Launches : k # l => proc'[k] = proc[k] /\ proc[k] \in ProcSet
    BY Zenon DEF InTurn, ResShape
  <2>2. [proc[l] EXCEPT !.st = st] \in ProcSet /\ [proc[l] EXCEPT !.st = st].st = st
        /\ [proc[l] EXCEPT !.st = st].a = proc[l].a
    BY Zenon, <2>1 DEF ProcSet
  <2>3. proc' = [k \in Launches |-> proc'[k]] /\ \A k \in Launches : proc'[k] \in ProcSet
    BY Zenon, <2>1, <2>2 DEF InTurn, ResShape
  <2> QED
    BY Zenon, <2>1, <2>2, <2>3
<1>2. \A k \in Launches : /\ proc'[k].a = proc[k].a
                          /\ proc'[k].st = "live" => proc[k].st = "live"
                          /\ proc[k].st # "none" => proc'[k].st # "none"
                          /\ proc'[k].st \in {"clean", "fail"} => k = l \/ proc'[k] = proc[k]
  BY Zenon, <1>1
<1>3. NodeOK(node') /\ node'.pid = node.pid /\ node'.attempt = node.attempt
      /\ node'.st = node.st /\ node'.open = node.open /\ node'.by = node.by
      /\ node.pid \in Launches
  BY Zenon DEF InTurn, ResShape, NodeOK
<1>4. ResShape'
  BY Zenon, <1>1, <1>3 DEF InTurn, ResShape
<1>5. OneHolder'
  BY Zenon DEF InTurn, OneHolder
<1>6. Numbered'
  <2>1. proc'[node'.pid].st # "none" /\ proc'[node'.pid].a = node'.attempt
    BY ZenonT(60), <1>2, <1>3 DEF InTurn, Numbered
  <2>2. \A c \in Clients : op'[c].at \in Resuming => op'[c].attempt = node'.attempt + 1
    BY Zenon, <1>3 DEF InTurn, Numbered
  <2>3. \A c \in Clients : op'[c].at \in Started =>
         /\ op'[c].launch \in Launches
         /\ proc'[op'[c].launch].st # "none" /\ proc'[op'[c].launch].a = op'[c].attempt
    BY ZenonT(60), <1>2 DEF InTurn, Numbered
  <2> QED
    BY Zenon, <2>1, <2>2, <2>3 DEF Numbered
<1>7. Accounted'
  <2> SUFFICES ASSUME ~orphan' PROVE Accounted'
    BY Zenon DEF Accounted
  <2>1. \A k \in Launches : proc'[k].st = "live" =>
         k = node'.pid \/ \E c \in Clients : op'[c].at \in Started /\ op'[c].launch = k
    BY Zenon, <1>2, <1>3 DEF InTurn, Accounted
  <2>2. \A k \in Launches : proc'[k].st \in {"clean", "fail"} =>
         k = node'.pid \/ proc'[k].a < node'.attempt
    BY Zenon, <1>1, <1>2, <1>3 DEF InTurn, Accounted
  <2>3. node'.exit # "none" => proc'[node'.pid].st # "live"
    BY Zenon, <1>1, <1>2, <1>3 DEF InTurn, Accounted
  <2>4. \A c \in Clients : op'[c].at \in Ashore => proc'[node'.pid].st # "live"
    BY Zenon, <1>2, <1>3 DEF InTurn, Accounted
  <2> QED
    BY Zenon, <2>1, <2>2, <2>3, <2>4 DEF Accounted
<1>8. Expiring'
  BY Zenon DEF InTurn, Expiring
<1>9. Meant'
  BY Zenon, <1>3 DEF InTurn, Meant, Settled, Reported
<1> QED
  BY Zenon, <1>4, <1>5, <1>6, <1>7, <1>8, <1>9 DEF InTurn

(* A step without clients and processes. *)
LEMMA Bystander ==
  ASSUME InTurn, op' = op, proc' = proc, orphan' = orphan, SameAttempt(node, node'),
         wtree' = [x \in TreeFields |-> wtree'[x]],
         tick' = [x \in {"at", "round"} |-> tick'[x]]
  PROVE  ResShape' /\ Numbered' /\ Accounted'
<1>1. ResShape'
  BY Zenon DEF InTurn, ResShape, SameAttempt
<1>2. Numbered'
  BY Zenon, NumberedKept DEF InTurn, SameAttempt
<1>3. Accounted'
  BY Zenon, AccountedKept DEF InTurn, SameAttempt
<1> QED
  BY Zenon, <1>1, <1>2, <1>3

(* Only the record of the node changes. *)
LEMMA NodeWritten ==
  ASSUME InTurn, op' = op, proc' = proc, orphan' = orphan, wtree' = wtree, tick' = tick,
         holder' = holder, SameAttempt(node, node'),
         (\E c \in Clients : op[c].at \in {"tree", "launch"}) =>
           node'.st = node.st /\ (Reported(node) => Reported(node'))
  PROVE  InTurn'
<1>1. ResShape' /\ Numbered' /\ Accounted'
  BY Zenon, Bystander DEF InTurn, ResShape
<1>2. OneHolder'
  BY Zenon DEF InTurn, OneHolder
<1>3. Expiring'
  BY Zenon DEF InTurn, Expiring, SameAttempt
<1>4. Meant'
  BY Zenon DEF InTurn, Meant, SameAttempt, Settled
<1> QED
  BY Zenon, <1>1, <1>2, <1>3, <1>4 DEF InTurn

(* The steps of a worker and of its shim. *)
LEMMA InTurnWorker ==
  ASSUME InTurn, NEW l \in Launches, WorkerStep(l)
  PROVE  InTurn'
<1>0. node = [x \in NodeFields |-> node[x]] /\ NodeOK(node) /\ SameAttempt(node, node)
  BY Zenon DEF InTurn, ResShape, NodeOK, SameAttempt
<1>1. CASE Work(l)
  <2>1. wtree' = [x \in TreeFields |-> wtree'[x]]
    <3>1. wtree = [x \in TreeFields |-> wtree[x]]
      BY Zenon DEF InTurn, ResShape
    <3> QED
      BY Zenon, <1>1, <3>1 DEF Work, TreeFields
  <2>2. ResShape' /\ Numbered' /\ Accounted'
    BY Zenon, <1>0, <1>1, <2>1, Bystander DEF InTurn, ResShape, Work
  <2>3. OneHolder' /\ Meant'
    BY Zenon, <1>1 DEF InTurn, OneHolder, Meant, Work, Settled, Reported
  <2>4. tick.at = "remove" => orphan
    <3> SUFFICES ASSUME tick.at = "remove", ~orphan PROVE FALSE
      BY Zenon
    <3>1. holder = "supervisor" /\ node.exit # "none"
      BY Zenon DEF InTurn, OneHolder, Expiring
    <3>2. proc[l].st = "live"
      BY Zenon, <1>1 DEF Work, Live
    <3>3. PICK c \in Clients : op[c].at \in Started
      BY Zenon, <3>1, <3>2 DEF InTurn, Accounted
    <3>4. holder = c
      BY Zenon, <3>3 DEF InTurn, OneHolder, Started
    <3> QED
      BY Zenon, <3>1, <3>4, ResidentAssumption
  <2>5. Expiring'
    BY Zenon, <1>1, <2>4 DEF InTurn, Expiring, Work
  <2> QED
    BY Zenon, <2>2, <2>3, <2>5 DEF InTurn
<1>2. CASE round_report(l)
  <2>1. SameAttempt(node, node') /\ node'.st = node.st /\ (Reported(node) => Reported(node'))
    BY Zenon, <1>0, <1>2, RoundEdit DEF round_report
  <2> QED
    BY Zenon, <1>2, <2>1, NodeWritten DEF round_report
<1>3. CASE AgentEnds(l)
  <2>1. PICK status \in {"clean", "fail"} :
          proc' = [proc EXCEPT ![l].st = IF node.attempt < proc[l].a THEN "gone" ELSE status]
    BY Zenon, <1>3 DEF AgentEnds
  <2>2. proc[l].st = "live"
    BY Zenon, <1>3 DEF AgentEnds, Live
  <2>3. CASE node.attempt < proc[l].a
    BY Zenon, <1>3, <2>1, <2>2, <2>3, ProcEnds DEF AgentEnds
  <2>4. CASE ~(node.attempt < proc[l].a)
    <3>1. orphan \/ l = node.pid
      <4> SUFFICES ASSUME ~orphan, l # node.pid PROVE FALSE
        BY Zenon
      <4>1. PICK c \in Clients : op[c].at \in Started /\ op[c].launch = l
        BY Zenon, <2>2 DEF InTurn, Accounted
      <4>2. proc[l].a = node.attempt + 1
        BY Zenon, <4>1 DEF InTurn, Numbered, Started, Resuming
      <4>3. node.attempt \in Nat
        BY Zenon DEF InTurn, ResShape, NodeOK
      <4>4. node.attempt < node.attempt + 1
        BY SMTT(60), <4>3
      <4> QED
        BY Zenon, <2>4, <4>2, <4>4
    <3> QED
      BY Zenon, <1>3, <2>1, <2>2, <2>4, <3>1, ProcEnds DEF AgentEnds
  <2> QED
    BY Zenon, <2>3, <2>4
<1>4. CASE ShimLost(l)
  BY Zenon, <1>4, ProcEnds DEF ShimLost
<1>5. CASE record_worker_exit(l)
  <2>1. PICK status \in {"clean", "fail"} : proc[l].st = status
    BY Zenon, <1>5 DEF record_worker_exit
  <2>2. node' = reduce_worker_exited(node, proc[l].a, status)
    BY Zenon, <1>5, <2>1 DEF record_worker_exit
  <2>4. ExitTold(node, node', proc[l].a, status)
    BY Zenon, <1>0, <2>2, ExitedEdit
  <2>3. proc[l].a = node.attempt => orphan \/ l = node.pid
    <3>1. node.attempt \in Nat
      BY Zenon DEF InTurn, ResShape, NodeOK
    <3>2. ~(node.attempt < node.attempt)
      BY SMTT(60), <3>1
    <3> QED
      BY Zenon, <3>2, <2>1 DEF InTurn, Accounted
  <2> QED
    BY Zenon, <1>5, <2>1, <2>3, <2>4, ProcEnds DEF record_worker_exit, ExitTold
<1>6. CASE await_resumed(l)
  BY Zenon, <1>6, ProcEnds DEF await_resumed
<1>7. CASE AgentStops(l)
  BY Zenon, <1>7, ProcEnds DEF AgentStops
<1> QED
  BY Zenon, <1>1, <1>2, <1>3, <1>4, <1>5, <1>6, <1>7 DEF WorkerStep

(* What a verb reads before it asks for the lock and again under it. *)
LEMMA RoundOver ==
  ASSUME InTurn, await_worker_exit
  PROVE  /\ ~Settled(node) /\ proc[node.pid].st # "live"
         /\ Reported(node) \/ node.exit # "fail" => Reported(node) \/ node.exit = "clean"
<1>1. node.exit \in {"none", "clean", "fail"}
  BY Zenon DEF InTurn, ResShape, NodeOK
<1>2. classify_worker = "exited" => proc[node.pid].st # "live" /\ node.exit # "none"
  BY Zenon DEF classify_worker
<1>3. classify_worker = "gone" => proc[node.pid].st # "live"
  BY Zenon DEF classify_worker
<1> QED
  BY Zenon, <1>1, <1>2, <1>3 DEF await_worker_exit

(* A verb starts, waits, and gets the lock. *)
LEMMA InTurnStart ==
  ASSUME InTurn, NEW c \in Clients, StartVerb(c) \/ AwaitRound(c) \/ ResidentLock(c)
  PROVE  InTurn'
<1>0. SameAttempt(node, node) /\ wtree = [x \in TreeFields |-> wtree[x]]
  BY Zenon DEF InTurn, ResShape, SameAttempt
<1>1. ASSUME NEW at, at \notin Ashore, op[c].at \in {"idle", "await", "lock"},
             op' = [d \in Clients |-> op'[d]],
             \A d \in Clients : op'[d] = [x \in OpFields |-> op'[d][x]],
             op'[c].at = at, \A d \in Clients : d # c => op'[d] = op[d],
             node' = node, wtree' = wtree, proc' = proc, tick' = tick, orphan' = orphan, OneHolder'
      PROVE  InTurn'
  <2>1. /\ op[c].at \notin Ashore /\ op[c].at \notin Started /\ op[c].at \notin Resuming
        /\ at \notin Started /\ at \notin Resuming /\ at \notin {"tree", "launch"}
    BY Zenon, <1>1 DEF Ashore, Resuming, Started
  <2>2. ResShape'
    BY Zenon, <1>1 DEF InTurn, ResShape
  <2>3. Numbered'
    BY Zenon, <1>1, <2>1, NumberedKept DEF InTurn
  <2>4. Accounted'
    BY Zenon, <1>1, <2>1, AccountedKept DEF InTurn
  <2>5. Expiring'
    BY Zenon, <1>1 DEF InTurn, Expiring
  <2>6. Meant'
    BY Zenon, <1>1, <2>1 DEF InTurn, Meant, Settled, Reported
  <2> QED
    BY Zenon, <1>1, <2>2, <2>3, <2>4, <2>5, <2>6 DEF InTurn
<1>2. CASE StartVerb(c)
  <2>1. PICK v \in Verbs : op' = [op EXCEPT ![c] = [Resting EXCEPT !.verb = v,
                !.at = IF v \in {"message", "land"} THEN "await" ELSE "lock"]]
    BY Zenon, <1>2 DEF StartVerb
  <2> DEFINE at == IF v \in {"message", "land"} THEN "await" ELSE "lock"
             new == [Resting EXCEPT !.verb = v, !.at = at]
  <2>2. new = [x \in OpFields |-> new[x]] /\ new.at = at
    BY Zenon DEF OpFields, Resting
  <2>3. at \in {"await", "lock"} /\ at \notin Ashore
    BY Zenon DEF Ashore, Resuming
  <2>4. op' = [op EXCEPT ![c] = new]
    BY Zenon, <2>1
  <2> HIDE DEF new, at
  <2>5. /\ op' = [d \in Clients |-> op'[d]]
        /\ op'[c] = new /\ \A d \in Clients : d # c => op'[d] = op[d]
    BY Zenon, <2>4 DEF InTurn, ResShape
  <2>6. \A d \in Clients : op'[d] = [x \in OpFields |-> op'[d][x]]
    BY Zenon, <2>2, <2>5 DEF InTurn, ResShape
  <2>7. OneHolder'
    BY Zenon, <1>2, <2>2, <2>3, <2>5 DEF InTurn, OneHolder, StartVerb
  <2> QED
    BY Zenon, <1>1, <1>2, <2>2, <2>3, <2>5, <2>6, <2>7 DEF StartVerb
<1>3. CASE AwaitRound(c)
  <2>1. CASE await_worker_exit
    <3>1. op' = [op EXCEPT ![c].at = "lock"] /\ holder' = holder /\ op[c].at = "await"
      BY Zenon, <1>3, <2>1 DEF AwaitRound, Place
    <3>2. /\ op' = [d \in Clients |-> op'[d]]
          /\ \A d \in Clients : op'[d] = [x \in OpFields |-> op'[d][x]]
          /\ op'[c].at = "lock" /\ \A d \in Clients : d # c => op'[d] = op[d]
      BY Zenon, <3>1, PlacedOp DEF InTurn
    <3>3. OneHolder'
      BY Zenon, <1>3, <3>1, <3>2 DEF InTurn, OneHolder, AwaitRound
    <3>4. "lock" \notin Ashore
      BY Zenon DEF Ashore, Resuming
    <3> QED
      BY Zenon, <1>1, <1>3, <3>1, <3>2, <3>3, <3>4 DEF AwaitRound
  <2>2. CASE ~await_worker_exit
    <3>1. Return(c) /\ op[c].at \notin Started
      BY Zenon, <1>3, <2>2 DEF AwaitRound, Started
    <3> QED
      BY Zenon, <1>0, <1>3, <3>1, VerbReturns DEF AwaitRound
  <2> QED
    BY Zenon, <2>1, <2>2
<1>4. CASE ResidentLock(c)
  <2>1. CASE holder = "none"
    <3>1. op' = [op EXCEPT ![c].at = "locked"] /\ holder' = c /\ op[c].at = "lock"
      BY Zenon, <1>4, <2>1 DEF ResidentLock, Place
    <3>2. /\ op' = [d \in Clients |-> op'[d]]
          /\ \A d \in Clients : op'[d] = [x \in OpFields |-> op'[d][x]]
          /\ op'[c].at = "locked" /\ \A d \in Clients : d # c => op'[d] = op[d]
      BY Zenon, <3>1, PlacedOp DEF InTurn
    <3>3. OneHolder'
      BY Zenon, <1>4, <2>1, <3>1, <3>2, ResidentAssumption DEF InTurn, OneHolder, ResidentLock
    <3>4. "locked" \notin Ashore
      BY Zenon DEF Ashore, Resuming
    <3> QED
      BY Zenon, <1>1, <1>4, <3>1, <3>2, <3>3, <3>4 DEF ResidentLock
  <2>2. CASE holder # "none"
    <3>1. Return(c) /\ op[c].at \notin Started
      BY Zenon, <1>4, <2>2 DEF ResidentLock, Started
    <3> QED
      BY Zenon, <1>0, <1>4, <3>1, VerbReturns DEF ResidentLock
  <2> QED
    BY Zenon, <2>1, <2>2
<1> QED
  BY Zenon, <1>2, <1>3, <1>4

(* A client dies; a messenger may leave a worker that nobody recorded. *)
LEMMA InTurnKilled ==
  ASSUME InTurn, NEW c \in Clients, ClientKilled(c)
  PROVE  InTurn'
<1>0. SameAttempt(node, node) /\ wtree = [x \in TreeFields |-> wtree[x]]
  BY Zenon DEF InTurn, ResShape, SameAttempt
<1>1. /\ Return(c) /\ node' = node /\ wtree' = wtree /\ proc' = proc /\ tick' = tick
      /\ orphan' = (orphan \/ op[c].at \in Started)
  BY Zenon DEF ClientKilled, Started
<1>2. CASE op[c].at \notin Started
  <2>1. orphan' = orphan
    BY Zenon, <1>1, <1>2 DEF InTurn, ResShape
  <2> QED
    BY Zenon, <1>0, <1>1, <1>2, <2>1, VerbReturns
<1>3. CASE op[c].at \in Started
  <2>1. orphan' = TRUE
    BY Zenon, <1>1, <1>3
  <2>2. /\ op' = [d \in Clients |-> op'[d]]
        /\ \A d \in Clients : op'[d] = [x \in OpFields |-> op'[d][x]]
        /\ op'[c].at = "idle"
        /\ \A d \in Clients : d # c => op'[d] = op[d]
        /\ OneHolder'
    BY Zenon, <1>1, ReturnedOp DEF InTurn
  <2>3. /\ \A d \in Clients : op'[d].at \in Resuming => op'[d] = op[d]
        /\ \A d \in Clients : op'[d].at \in Started => op'[d] = op[d]
        /\ \A d \in Clients : op'[d].at \in {"tree", "launch"} => op'[d] = op[d]
    BY Zenon, <2>2 DEF Resuming, Started
  <2>4. ResShape'
    BY Zenon, <1>1, <2>1, <2>2 DEF InTurn, ResShape
  <2>5. Numbered'
    BY Zenon, <1>1, <2>3, NumberedKept DEF InTurn
  <2>6. Accounted' /\ Expiring'
    BY Zenon, <1>1, <2>1 DEF InTurn, Accounted, Expiring
  <2>7. Meant'
    BY Zenon, <1>1, <2>3 DEF InTurn, Meant, Settled, Reported
  <2> QED
    BY Zenon, <2>2, <2>4, <2>5, <2>6, <2>7 DEF InTurn
<1> QED
  BY Zenon, <1>2, <1>3

(* A message finds the round over and goes to the worktree. *)
LEMMA InTurnCheck ==
  ASSUME InTurn, NEW c \in Clients, MessageCheck(c)
  PROVE  InTurn'
<1>0. SameAttempt(node, node) /\ wtree = [x \in TreeFields |-> wtree[x]]
  BY Zenon DEF InTurn, ResShape, SameAttempt
<1>1. op[c].at = "locked" /\ holder = c /\ op[c].at \notin Started
  BY Zenon DEF MessageCheck, Locked, InTurn, OneHolder, Started
<1>2. /\ node' = node /\ wtree' = wtree /\ proc' = proc /\ tick' = tick /\ orphan' = orphan
  BY Zenon DEF MessageCheck
<1>3. CASE await_worker_exit /\ (Reported(node) \/ node.exit # "fail")
  <2>1. /\ op' = [op EXCEPT ![c].at = "tree", ![c].attempt = node.attempt + 1]
        /\ holder' = holder
    BY Zenon, <1>3 DEF MessageCheck
  <2>2. /\ op' = [d \in Clients |-> op'[d]]
        /\ op'[c] = [[op[c] EXCEPT !.at = "tree"] EXCEPT !.attempt = node.attempt + 1]
        /\ \A d \in Clients : d # c => op'[d] = op[d]
    BY Zenon, <2>1 DEF InTurn, ResShape
  <2>3. op[c] = [x \in OpFields |-> op[c][x]]
    BY Zenon DEF InTurn, ResShape
  <2>4. /\ op'[c] = [x \in OpFields |-> op'[c][x]]
        /\ op'[c].at = "tree" /\ op'[c].attempt = node.attempt + 1
    BY Zenon, <2>2, <2>3 DEF OpFields
  <2>5. \A d \in Clients : op'[d] = [x \in OpFields |-> op'[d][x]]
    <3>1. \A d \in Clients : op[d] = [x \in OpFields |-> op[d][x]]
      BY Zenon DEF InTurn, ResShape
    <3>2. \A d \in Clients : d # c => op'[d] = op[d]
      BY Zenon, <2>2
    <3>3. op'[c] = [x \in OpFields |-> op'[c][x]]
      BY Zenon, <2>4
    <3> QED
      BY Zenon, <3>1, <3>2, <3>3
  <2>6. tick.at \in {"idle", "lock"} /\ \A d \in Clients : d # c => op'[d].at \in {"idle", "await", "lock"}
    BY Zenon, <1>1, <2>2, Alone DEF InTurn
  <2>7. ~Settled(node) /\ proc[node.pid].st # "live" /\ (Reported(node) \/ node.exit = "clean")
    BY Zenon, <1>3, RoundOver
  <2>8. /\ \A d \in Clients : op'[d].at \in Resuming => d = c
        /\ \A d \in Clients : op'[d].at \notin Started
        /\ \A d \in Clients : op[d].at \notin Started
    BY Zenon, <1>1, <2>2, <2>4, <2>6 DEF Resuming, Started
  <2>9. ResShape'
    BY Zenon, <1>2, <2>2, <2>5 DEF InTurn, ResShape
  <2>10. OneHolder'
    BY Zenon, <1>1, <1>2, <2>1, <2>6 DEF OneHolder
  <2>11. Numbered'
    BY Zenon, <1>2, <2>4, <2>8 DEF InTurn, Numbered
  <2>12. Accounted'
    BY Zenon, <1>2, <2>7, <2>8, AccountedKept DEF InTurn
  <2>13. Expiring'
    BY Zenon, <1>2, <2>6 DEF Expiring
  <2>14. Meant'
    BY Zenon, <1>2, <2>7 DEF Meant, Settled, Reported
  <2> QED
    BY Zenon, <2>9, <2>10, <2>11, <2>12, <2>13, <2>14 DEF InTurn
<1>4. CASE ~(await_worker_exit /\ (Reported(node) \/ node.exit # "fail"))
  <2>1. Return(c)
    BY Zenon, <1>4 DEF MessageCheck
  <2> QED
    BY Zenon, <1>0, <1>1, <1>2, <2>1, VerbReturns
<1> QED
  BY Zenon, <1>3, <1>4

(* The worktree is made ready. *)
LEMMA InTurnPrepare ==
  ASSUME InTurn, NEW c \in Clients, MessagePrepare(c)
  PROVE  InTurn'
<1>0. SameAttempt(node, node) /\ wtree = [x \in TreeFields |-> wtree[x]]
  BY Zenon DEF InTurn, ResShape, SameAttempt
<1>1. op[c].at = "tree" /\ holder = c /\ op[c].at \notin Started
  BY Zenon DEF MessagePrepare, InTurn, OneHolder, Started
<1>2. /\ node' = node /\ proc' = proc /\ tick' = tick /\ orphan' = orphan
  BY Zenon DEF MessagePrepare
<1>3. CASE wtree' \in rebase_onto_source(recreate_worktree) /\ Place(c, "launch") /\ holder' = holder
  <2> DEFINE t == recreate_worktree
  <2>1. t = [x \in TreeFields |-> t[x]]
    BY Zenon, <1>0 DEF recreate_worktree, TreeFields
  <2> HIDE DEF t
  <2>2. wtree' \in {t, [t EXCEPT !.behind = FALSE], [t EXCEPT !.rebasing = TRUE]}
    BY Zenon, <1>3 DEF rebase_onto_source, t
  <2>3. wtree' = [x \in TreeFields |-> wtree'[x]]
    BY Zenon, <2>1, <2>2 DEF TreeFields
  <2>4. op' = [op EXCEPT ![c].at = "launch"]
    BY Zenon, <1>3 DEF Place
  <2>5. "launch" \in Resuming /\ "tree" \in Resuming /\ "launch" \notin Started /\ "tree" \in Ashore
    BY Zenon DEF Resuming, Started, Ashore
  <2> QED
    BY Zenon, <1>0, <1>1, <1>2, <1>3, <2>3, <2>4, <2>5, VerbMoves
<1>4. CASE Return(c) /\ wtree' = wtree
  BY Zenon, <1>0, <1>1, <1>2, <1>4, VerbReturns
<1> QED
  BY Zenon, <1>3, <1>4 DEF MessagePrepare

(* The worker of the next attempt is started: the only one that runs. *)
LEMMA InTurnLaunch ==
  ASSUME InTurn, NEW c \in Clients, materialize_resume(c)
  PROVE  InTurn'
<1>0. SameAttempt(node, node) /\ wtree = [x \in TreeFields |-> wtree[x]]
  BY Zenon DEF InTurn, ResShape, SameAttempt
<1>1. op[c].at = "launch" /\ holder = c /\ op[c].at \notin Started
  BY Zenon DEF materialize_resume, InTurn, OneHolder, Started
<1>2. /\ node' = node /\ wtree' = wtree /\ tick' = tick /\ orphan' = orphan
  BY Zenon DEF materialize_resume
<1>3. ASSUME NEW l \in NextLaunch, NEW reuse \in BOOLEAN,
             proc' = [k \in Launches |->
               IF k = l THEN [a |-> op[c].attempt, st |-> "live"]
               ELSE IF reuse /\ proc[k].st = "live" THEN [proc[k] EXCEPT !.st = "gone"]
               ELSE proc[k]],
             op' = [op EXCEPT ![c].at = "shake", ![c].launch = l], holder' = holder
      PROVE  InTurn'
  <2>1. l \in Launches /\ proc[l].st = "none" /\ l # node.pid /\ node.pid \in Launches
    BY Zenon, <1>3 DEF NextLaunch, InTurn, Numbered, ResShape, NodeOK
  <2>2. op[c].attempt = node.attempt + 1 /\ op[c].attempt \in Nat
    <3>1. op[c].attempt = node.attempt + 1 /\ node.attempt \in Nat
      BY Zenon, <1>1 DEF InTurn, Numbered, Resuming, ResShape, NodeOK
    <3> QED
      BY SMTT(60), <3>1
  <2>3. [a |-> op[c].attempt, st |-> "live"] \in ProcSet
    BY Zenon, <2>2 DEF ProcSet
  <2>4. \A k \in Launches : /\ [proc[k] EXCEPT !.st = "gone"] \in ProcSet
                            /\ [proc[k] EXCEPT !.st = "gone"].a = proc[k].a
                            /\ [proc[k] EXCEPT !.st = "gone"].st = "gone"
                            /\ proc[k] \in ProcSet
    <3>1. \A k \in Launches : proc[k] \in ProcSet
      BY Zenon DEF InTurn, ResShape
    <3> QED
      BY Zenon, <3>1 DEF ProcSet
  <2>5. /\ proc' = [k \in Launches |-> proc'[k]]
        /\ proc'[l] = [a |-> op[c].attempt, st |-> "live"]
        /\ \A k \in Launches : k # l => \/ proc'[k] = proc[k]
                                        \/ proc'[k] = [proc[k] EXCEPT !.st = "gone"]
    BY Zenon, <1>3, <2>1
  <2>6. proc' \in [Launches -> ProcSet]
    <3>1. \A k \in Launches : proc'[k] \in ProcSet
      BY Zenon, <2>3, <2>4, <2>5
    <3> QED
      BY Zenon, <2>5, <3>1
  <2>7. /\ proc'[l].a = op[c].attempt /\ proc'[l].st = "live"
        /\ \A k \in Launches : k # l =>
             /\ proc'[k].a = proc[k].a
             /\ proc'[k].st = proc[k].st \/ proc'[k].st = "gone"
    <3>1. proc'[l].a = op[c].attempt /\ proc'[l].st = "live"
      <4>1. proc'[l] = [a |-> op[c].attempt, st |-> "live"]
        BY Zenon, <2>5
      <4>2. /\ [a |-> op[c].attempt, st |-> "live"].a = op[c].attempt
            /\ [a |-> op[c].attempt, st |-> "live"].st = "live"
        BY Zenon
      <4> QED
        BY Zenon, <4>1, <4>2
    <3>2. ASSUME NEW k \in Launches, k # l
          PROVE  proc'[k].a = proc[k].a /\ (proc'[k].st = proc[k].st \/ proc'[k].st = "gone")
      <4>1. CASE proc'[k] = proc[k]
        BY Zenon, <4>1
      <4>2. CASE proc'[k] = [proc[k] EXCEPT !.st = "gone"]
        BY Zenon, <4>2, <2>4
      <4> QED
        BY Zenon, <2>5, <3>2, <4>1, <4>2
    <3> QED
      BY Zenon, <3>1, <3>2
  <2>8. /\ op' = [d \in Clients |-> op'[d]]
        /\ op'[c] = [[op[c] EXCEPT !.at = "shake"] EXCEPT !.launch = l]
        /\ \A d \in Clients : d # c => op'[d] = op[d]
    BY Zenon, <1>3 DEF InTurn, ResShape
  <2>9. op[c] = [x \in OpFields |-> op[c][x]]
    BY Zenon DEF InTurn, ResShape
  <2>10. /\ op'[c] = [x \in OpFields |-> op'[c][x]]
         /\ op'[c].at = "shake" /\ op'[c].launch = l /\ op'[c].attempt = op[c].attempt
    BY Zenon, <2>8, <2>9 DEF OpFields
  <2>11. \A d \in Clients : op'[d] = [x \in OpFields |-> op'[d][x]]
    <3>1. \A d \in Clients : op[d] = [x \in OpFields |-> op[d][x]]
      BY Zenon DEF InTurn, ResShape
    <3>2. \A d \in Clients : d # c => op'[d] = op[d]
      BY Zenon, <2>8
    <3>3. op'[c] = [x \in OpFields |-> op'[c][x]]
      BY Zenon, <2>10
    <3> QED
      BY Zenon, <3>1, <3>2, <3>3
  <2>12. tick.at \in {"idle", "lock"} /\ \A d \in Clients : d # c => op[d].at \in {"idle", "await", "lock"}
    BY Zenon, <1>1, Alone DEF InTurn
  <2>13. /\ \A d \in Clients : op'[d].at \in Resuming => d = c
         /\ \A d \in Clients : op'[d].at \in Started => d = c
         /\ \A d \in Clients : op'[d].at \notin {"tree", "launch"}
         /\ \A d \in Clients : op[d].at \notin Started
         /\ op[c].at \in Ashore /\ op'[c].at \in Started
    BY Zenon, <1>1, <2>8, <2>10, <2>12 DEF Resuming, Started, Ashore
  <2>14. ResShape'
    BY Zenon, <1>2, <2>6, <2>8, <2>11 DEF InTurn, ResShape
  <2>15. OneHolder'
    BY Zenon, <1>1, <1>2, <1>3, <2>8, <2>12 DEF OneHolder
  <2>16. Numbered'
    BY ZenonT(60), <1>2, <2>1, <2>2, <2>7, <2>10, <2>13 DEF InTurn, Numbered
  <2>17. Accounted'
    <3> SUFFICES ASSUME ~orphan PROVE Accounted'
      BY Zenon, <1>2 DEF Accounted
    <3>1. proc[node.pid].st # "live"
      BY Zenon, <2>13 DEF InTurn, Accounted
    <3>2. \A k \in Launches : proc[k].st # "live"
      BY Zenon, <2>13, <3>1 DEF InTurn, Accounted
    <3>3. \A k \in Launches : proc'[k].st = "live" =>
            \E d \in Clients : op'[d].at \in Started /\ op'[d].launch = k
      BY Zenon, <2>7, <2>10, <2>13, <3>2
    <3>4. \A k \in Launches : proc'[k].st \in {"clean", "fail"} => k = node.pid \/ proc'[k].a < node.attempt
      BY Zenon, <2>7 DEF InTurn, Accounted
    <3>5. proc'[node.pid].st # "live"
      BY Zenon, <2>1, <2>7, <3>1
    <3> QED
      BY Zenon, <1>2, <3>3, <3>4, <3>5 DEF Accounted
  <2>18. Expiring'
    BY Zenon, <1>2, <2>12 DEF Expiring
  <2>19. Meant'
    BY Zenon, <2>13 DEF Meant
  <2> QED
    BY Zenon, <2>14, <2>15, <2>16, <2>17, <2>18, <2>19 DEF InTurn
<1>4. CASE Return(c) /\ proc' = proc
  BY Zenon, <1>0, <1>1, <1>2, <1>4, VerbReturns
<1> QED
  BY Zenon, <1>3, <1>4 DEF materialize_resume

(* What was started and is not recorded is stopped. *)
LEMMA StopReturn ==
  ASSUME InTurn, NEW c \in Clients, op[c].at \in Started, Return(c),
         proc' = Stop(op[c].launch),
         node' = node, wtree' = wtree, tick' = tick, orphan' = orphan
  PROVE  InTurn'
<1> DEFINE l == op[c].launch
           st == IF proc[l].st = "live" THEN "stopping" ELSE proc[l].st
<1>1. /\ l \in Launches /\ l # node.pid /\ node.pid \in Launches
      /\ proc[l].st # "none" /\ proc[l].a = op[c].attempt
  <2>1. l \in Launches /\ proc[l].st # "none" /\ proc[l].a = op[c].attempt
    BY Zenon DEF InTurn, Numbered
  <2>2. proc[l].a = node.attempt + 1 /\ proc[node.pid].a = node.attempt /\ node.attempt \in Nat
        /\ node.pid \in Launches
    BY Zenon, <2>1 DEF InTurn, Numbered, Started, Resuming, ResShape, NodeOK
  <2>3. node.attempt + 1 # node.attempt
    BY SMTT(60), <2>2
  <2> QED
    BY Zenon, <2>1, <2>2, <2>3
<1>2. proc' = [proc EXCEPT ![l].st = st]
  BY Zenon DEF Stop
<1>3. proc[l] \in ProcSet /\ proc[l].st \in {"none", "live", "stopping", "clean", "fail", "gone"}
  BY Zenon, <1>1 DEF InTurn, ResShape, ProcSet
<1>4. st \in {"none", "live", "stopping", "clean", "fail", "gone"} /\ st # "live" /\ st # "none"
      /\ (st \in {"clean", "fail"} => proc[l].st \in {"clean", "fail"})
  BY Zenon, <1>1, <1>3
<1> HIDE DEF st
<1>5. /\ proc' = [k \in Launches |-> proc'[k]] /\ proc'[l] = [proc[l] EXCEPT !.st = st]
      /\ \A k \in Launches : k # l => proc'[k] = proc[k] /\ proc[k] \in ProcSet
  BY Zenon, <1>1, <1>2 DEF InTurn, ResShape
<1>6. [proc[l] EXCEPT !.st = st] \in ProcSet /\ [proc[l] EXCEPT !.st = st].st = st
      /\ [proc[l] EXCEPT !.st = st].a = proc[l].a
  BY Zenon, <1>3, <1>4 DEF ProcSet
<1>7. proc' \in [Launches -> ProcSet]
  <2>1. \A k \in Launches : proc'[k] \in ProcSet
    BY Zenon, <1>5, <1>6
  <2> QED
    BY Zenon, <1>5, <2>1
<1>8. proc'[l].st = st /\ proc'[l].a = proc[l].a
  BY Zenon, <1>5, <1>6
<1>9. /\ op' = [d \in Clients |-> op'[d]]
      /\ \A d \in Clients : op'[d] = [x \in OpFields |-> op'[d][x]]
      /\ op'[c].at = "idle"
      /\ \A d \in Clients : d # c => op'[d] = op[d]
      /\ OneHolder'
  BY Zenon, ReturnedOp DEF InTurn
<1>10. holder = c
  BY Zenon DEF InTurn, OneHolder, Started
<1>11. tick.at \in {"idle", "lock"} /\ \A d \in Clients : d # c => op[d].at \in {"idle", "await", "lock"}
  BY Zenon, <1>10, Alone DEF InTurn
<1>12. /\ \A d \in Clients : op'[d].at \notin Ashore /\ op'[d].at \notin Resuming
                             /\ op'[d].at \notin Started /\ op'[d].at \notin {"tree", "launch"}
       /\ \A d \in Clients : op[d].at \in Started => d = c
       /\ op[c].at \in Ashore
  BY Zenon, <1>9, <1>11 DEF Ashore, Resuming, Started
<1>13. ResShape'
  BY Zenon, <1>7, <1>9 DEF InTurn, ResShape
<1>14. Numbered'
  BY Zenon, <1>1, <1>5, <1>12 DEF InTurn, Numbered
<1>15. Accounted'
  <2> SUFFICES ASSUME ~orphan PROVE Accounted'
    BY Zenon DEF Accounted
  <2>1. proc[node.pid].st # "live" /\ proc'[node.pid].st # "live"
    BY Zenon, <1>1, <1>5, <1>12 DEF InTurn, Accounted
  <2>2. \A k \in Launches : proc'[k].st # "live"
    <3>1. \A k \in Launches : proc[k].st = "live" => k = l
      BY Zenon, <1>12, <2>1 DEF InTurn, Accounted
    <3>2. \A k \in Launches : k # l => proc'[k] = proc[k]
      BY Zenon, <1>5
    <3>3. proc'[l].st # "live"
      BY Zenon, <1>4, <1>8
    <3> QED
      BY Zenon, <3>1, <3>2, <3>3
  <2>3. \A k \in Launches : proc'[k].st \in {"clean", "fail"} =>
          proc[k].st \in {"clean", "fail"} /\ proc'[k].a = proc[k].a
    BY Zenon, <1>4, <1>5, <1>8
  <2>4. \A k \in Launches : proc'[k].st \in {"clean", "fail"} => k = node.pid \/ proc'[k].a < node.attempt
    BY Zenon, <2>3 DEF InTurn, Accounted
  <2> QED
    BY Zenon, <2>1, <2>2, <2>4 DEF Accounted
<1>16. Expiring' /\ Meant'
  BY Zenon, <1>11, <1>12 DEF Expiring, Meant
<1> QED
  BY Zenon, <1>9, <1>13, <1>14, <1>15, <1>16 DEF InTurn

(* The handshake, and the record of the new attempt. *)
LEMMA InTurnResume ==
  ASSUME InTurn, NEW c \in Clients, resume_after_launch(c) \/ record_resumed(c)
  PROVE  InTurn'
<1>0. SameAttempt(node, node) /\ wtree = [x \in TreeFields |-> wtree[x]] /\ NodeOK(node)
  BY Zenon DEF InTurn, ResShape, SameAttempt
<1>1. op[c].at \in Started /\ holder = c /\ op[c].at \in Ashore
  BY Zenon DEF resume_after_launch, record_resumed, InTurn, OneHolder, Started, Ashore, Resuming
<1>2. CASE resume_after_launch(c)
  <2>1. CASE Place(c, "record") /\ proc' = proc /\ holder' = holder
    <3>1. op' = [op EXCEPT ![c].at = "record"]
      BY Zenon, <2>1 DEF Place
    <3>2. "record" \in Started /\ "record" \in Ashore /\ "record" \in Resuming /\ op[c].at \in Resuming
          /\ "record" \notin {"tree", "launch"}
      BY Zenon, <1>1 DEF Started, Ashore, Resuming
    <3> QED
      BY Zenon, <1>0, <1>1, <1>2, <2>1, <3>1, <3>2, VerbMoves DEF resume_after_launch
  <2>2. CASE proc' = Stop(op[c].launch) /\ Return(c)
    BY Zenon, <1>1, <1>2, <2>2, StopReturn DEF resume_after_launch
  <2> QED
    BY Zenon, <1>2, <2>1, <2>2 DEF resume_after_launch
<1>3. CASE record_resumed(c)
  <2>1. CASE proc' = Stop(op[c].launch) /\ node' = node
    BY Zenon, <1>1, <1>3, <2>1, StopReturn DEF record_resumed
  <2>2. CASE /\ ~Settled(node) /\ node.attempt + 1 = op[c].attempt /\ proc' = proc
             /\ node' = reduce_node_resumed(node, op[c].launch, op[c].attempt)
    <3>1. /\ wtree' = wtree /\ tick' = tick /\ orphan' = orphan /\ Return(c)
      BY Zenon, <1>3 DEF record_resumed
    <3>2. /\ op[c].launch \in Launches /\ proc[op[c].launch].st # "none"
          /\ proc[op[c].launch].a = op[c].attempt
      BY Zenon, <1>1 DEF InTurn, Numbered
    <3>3. node.attempt \in Nat /\ proc[node.pid].a = node.attempt
      BY Zenon DEF InTurn, ResShape, NodeOK, Numbered
    <3>4. op[c].attempt \in Nat /\ ~(op[c].attempt <= node.attempt) /\ node.attempt < op[c].attempt
      BY SMTT(60), <2>2, <3>3
    <3>5. \A a \in Nat : a < node.attempt => a < op[c].attempt
      BY SMTT(60), <2>2, <3>3
    <3>6. NodeOK(node') /\ node'.pid = op[c].launch /\ node'.attempt = op[c].attempt /\ node'.exit = "none"
      <4>1. NodeOK(node) /\ ~Settled(node) /\ op[c].launch \in Launches
            /\ op[c].attempt \in Nat /\ ~(op[c].attempt <= node.attempt)
        BY Zenon, <1>0, <2>2, <3>2, <3>4
      <4>2. Rewired(reduce_node_resumed(node, op[c].launch, op[c].attempt), op[c].launch, op[c].attempt)
        BY Zenon, <4>1, ResumedEdit
      <4> QED
        BY Zenon, <2>2, <4>2 DEF Rewired
    <3>7. /\ op' = [d \in Clients |-> op'[d]]
          /\ \A d \in Clients : op'[d] = [x \in OpFields |-> op'[d][x]]
          /\ op'[c].at = "idle"
          /\ \A d \in Clients : d # c => op'[d] = op[d]
          /\ OneHolder'
      BY Zenon, <3>1, ReturnedOp DEF InTurn
    <3>8. tick.at \in {"idle", "lock"} /\ \A d \in Clients : d # c => op[d].at \in {"idle", "await", "lock"}
      BY Zenon, <1>1, Alone DEF InTurn
    <3>9. /\ \A d \in Clients : op'[d].at \notin Ashore /\ op'[d].at \notin Resuming
                                /\ op'[d].at \notin Started /\ op'[d].at \notin {"tree", "launch"}
          /\ \A d \in Clients : op[d].at \in Started => d = c
      BY Zenon, <3>7, <3>8 DEF Ashore, Resuming, Started
    <3>10. ResShape'
      BY Zenon, <2>2, <3>1, <3>6, <3>7 DEF InTurn, ResShape
    <3>11. Numbered'
      BY Zenon, <2>2, <3>2, <3>6, <3>9 DEF Numbered
    <3>12. Accounted'
      <4> SUFFICES ASSUME ~orphan PROVE Accounted'
        BY Zenon, <3>1 DEF Accounted
      <4>1. \A k \in Launches : proc'[k].st = "live" => k = node'.pid
        BY ZenonT(60), <1>1, <2>2, <3>6, <3>9 DEF InTurn, Accounted
      <4>2. \A k \in Launches : proc[k].a \in Nat
        BY Zenon DEF InTurn, ResShape, ProcSet
      <4>3. \A k \in Launches : proc'[k].st \in {"clean", "fail"} => k = node'.pid \/ proc'[k].a < node'.attempt
        BY Zenon, <2>2, <3>3, <3>4, <3>5, <3>6, <4>2 DEF InTurn, Accounted
      <4> QED
        BY Zenon, <3>6, <3>9, <4>1, <4>3 DEF Accounted
    <3>13. Expiring' /\ Meant'
      BY Zenon, <3>1, <3>8, <3>9 DEF Expiring, Meant
    <3> QED
      BY Zenon, <3>7, <3>10, <3>11, <3>12, <3>13 DEF InTurn
  <2> QED
    BY Zenon, <1>3, <2>1, <2>2 DEF record_resumed
<1> QED
  BY Zenon, <1>2, <1>3

(* The steps of `run land`. *)
LEMMA InTurnLand ==
  ASSUME InTurn, NEW c \in Clients,
         LandStart(c) \/ LandRebase(c) \/ LandAbort(c) \/ LandMove(c) \/ LandNote(c)
  PROVE  InTurn'
<1>0. SameAttempt(node, node) /\ NodeOK(node) /\ wtree = [x \in TreeFields |-> wtree[x]]
  BY Zenon DEF InTurn, ResShape, SameAttempt
<1>1. /\ op[c].at \in {"locked", "rebase", "abort", "move", "note"}
      /\ proc' = proc /\ tick' = tick /\ orphan' = orphan
  BY Zenon DEF LandStart, LandRebase, LandAbort, LandMove, LandNote, Locked
<1>2. holder = c /\ op[c].at \notin Started
  BY Zenon, <1>1 DEF InTurn, OneHolder, Started
<1>3. \A at \in {"rebase", "abort", "move", "note"} :
        at \notin Started /\ at \notin Resuming /\ at \notin {"tree", "launch"}
  BY Zenon DEF Started, Resuming
<1>4. CASE LandStart(c)
  <2>1. CASE /\ await_worker_exit /\ Place(c, "rebase") /\ holder' = holder
             /\ node' = [recover_node(node) EXCEPT !.txn = c, !.moved = FALSE]
    <3>1. NodeOK(recover_node(node)) /\ SameAttempt(node, recover_node(node))
      BY Zenon, <1>0, LandedEdit DEF SameRound, SameAttempt
    <3>2. SameAttempt(recover_node(node), node')
      BY Zenon, <2>1, <3>1, LandingEdits DEF SameRound
    <3>3. SameAttempt(node, node')
      BY Zenon, <3>1, <3>2 DEF SameAttempt
    <3>4. proc[node.pid].st # "live"
      BY Zenon, <2>1, RoundOver
    <3>5. op' = [op EXCEPT ![c].at = "rebase"] /\ wtree' = wtree
      BY Zenon, <1>4, <2>1 DEF Place, LandStart
    <3> QED
      BY Zenon, <1>0, <1>1, <1>2, <1>3, <2>1, <3>3, <3>4, <3>5, VerbMoves
  <2>2. CASE Return(c) /\ node' = node
    BY Zenon, <1>0, <1>1, <1>2, <1>4, <2>2, VerbReturns DEF LandStart
  <2> QED
    BY Zenon, <1>4, <2>1, <2>2 DEF LandStart
<1>5. CASE LandRebase(c)
  <2>1. PICK at \in {"move", "abort"} : op' = [op EXCEPT ![c].at = at]
    BY Zenon, <1>5 DEF LandRebase, Place
  <2>2. wtree' = [x \in TreeFields |-> wtree'[x]]
    BY Zenon, <1>0, <1>5 DEF LandRebase, TreeFields
  <2>3. op[c].at \in Ashore /\ node' = node /\ holder' = holder
    BY Zenon, <1>5 DEF LandRebase, Ashore
  <2> QED
    BY Zenon, <1>0, <1>1, <1>2, <1>3, <2>1, <2>2, <2>3, VerbMoves
<1>6. CASE LandAbort(c)
  <2>1. SameAttempt(node, node')
    BY Zenon, <1>0, <1>6, LandedEdit DEF LandAbort, SameRound
  <2>2. wtree' = [x \in TreeFields |-> wtree'[x]]
    BY Zenon, <1>0, <1>6 DEF LandAbort, TreeFields
  <2> QED
    BY Zenon, <1>1, <1>2, <1>6, <2>1, <2>2, VerbReturns DEF LandAbort
<1>7. CASE LandMove(c)
  <2>1. CASE wtree.behind
    <3>1. SameAttempt(node, node')
      BY Zenon, <1>0, <1>7, <2>1, LandedEdit DEF LandMove, SameRound
    <3> QED
      BY Zenon, <1>0, <1>1, <1>2, <1>7, <2>1, <3>1, VerbReturns DEF LandMove
  <2>2. CASE ~wtree.behind
    <3>1. SameAttempt(node, node')
      <4>1. node' = [node EXCEPT !.moved = TRUE] \/ node' = node
        BY Zenon, <1>7, <2>2 DEF LandMove
      <4>2. SameAttempt(node, [node EXCEPT !.moved = TRUE])
        BY Zenon, <1>0, LandingEdits DEF SameRound
      <4>3. SameAttempt(node, node)
        BY Zenon, <1>0
      <4> QED
        BY Zenon, <4>1, <4>2, <4>3
    <3>2. wtree' = [x \in TreeFields |-> wtree'[x]]
      BY Zenon, <1>0, <1>7, <2>2 DEF LandMove, TreeFields
    <3>3. op' = [op EXCEPT ![c].at = "note"] /\ holder' = holder /\ op[c].at \in Ashore
      BY Zenon, <1>7, <2>2 DEF LandMove, Place, Ashore
    <3> QED
      BY Zenon, <1>1, <1>2, <1>3, <3>1, <3>2, <3>3, VerbMoves
  <2> QED
    BY Zenon, <2>1, <2>2
<1>8. CASE LandNote(c)
  <2>1. SameAttempt(node, node')
    BY Zenon, <1>0, <1>8, LandedEdit DEF LandNote, SameRound
  <2> QED
    BY Zenon, <1>0, <1>1, <1>2, <1>8, <2>1, VerbReturns DEF LandNote
<1> QED
  BY Zenon, <1>4, <1>5, <1>6, <1>7, <1>8

(* `run merge` and `run cancel` settle the node under the lock. *)
LEMMA InTurnSettle ==
  ASSUME InTurn, NEW c \in Clients, MergeRun(c) \/ CancelRun(c)
  PROVE  InTurn'
<1>0. SameAttempt(node, node) /\ NodeOK(node) /\ wtree = [x \in TreeFields |-> wtree[x]]
  BY Zenon DEF InTurn, ResShape, SameAttempt
<1>1. op[c].at = "locked" /\ Return(c) /\ proc' = proc /\ tick' = tick /\ orphan' = orphan
  BY Zenon DEF MergeRun, CancelRun, Locked
<1>2. holder = c /\ op[c].at \notin Started
  BY Zenon, <1>1 DEF InTurn, OneHolder, Started
<1>3. CASE MergeRun(c)
  <2>1. CASE /\ node' = [recover_node(node) EXCEPT !.st = "done"]
             /\ wtree' = [wtree EXCEPT !.ahead = FALSE, !.behind = FALSE]
    <3>1. NodeOK(recover_node(node)) /\ SameAttempt(node, recover_node(node))
      BY Zenon, <1>0, LandedEdit DEF SameRound, SameAttempt
    <3>2. SameAttempt(recover_node(node), node')
      BY Zenon, <2>1, <3>1, StatusEdits
    <3>3. SameAttempt(node, node')
      BY Zenon, <3>1, <3>2 DEF SameAttempt
    <3>4. wtree' = [x \in TreeFields |-> wtree'[x]]
      BY Zenon, <1>0, <2>1 DEF TreeFields
    <3> QED
      BY Zenon, <1>1, <1>2, <3>3, <3>4, VerbReturns
  <2>2. CASE node' = node /\ wtree' = wtree
    BY Zenon, <1>0, <1>1, <1>2, <2>2, VerbReturns
  <2> QED
    BY Zenon, <1>3, <2>1, <2>2 DEF MergeRun
<1>4. CASE CancelRun(c)
  <2>1. SameAttempt(node, node') /\ wtree' = wtree
    BY Zenon, <1>0, <1>4, StatusEdits DEF CancelRun
  <2> QED
    BY Zenon, <1>0, <1>1, <1>2, <2>1, VerbReturns
<1> QED
  BY Zenon, <1>3, <1>4

(* The supervisor: the expiry of an idle round. *)
LEMMA InTurnTick ==
  ASSUME InTurn, TickStep \/ TickKilled
  PROVE  InTurn'
<1>0. SameAttempt(node, node) /\ NodeOK(node) /\ wtree = [x \in TreeFields |-> wtree[x]]
      /\ tick = [x \in {"at", "round"} |-> tick[x]]
  BY Zenon DEF InTurn, ResShape, SameAttempt
<1>1. op' = op /\ proc' = proc /\ orphan' = orphan
  BY Zenon DEF TickStep, TickKilled, TickLook, TickLock, TickCheck, TickGuard, TickRemove, TickRecord
<1>2. \A at : /\ [tick EXCEPT !.at = at] = [x \in {"at", "round"} |-> [tick EXCEPT !.at = at][x]]
              /\ [tick EXCEPT !.at = at].at = at
  BY Zenon, <1>0
<1>3. \A n : /\ [at |-> "idle", round |-> n] = [x \in {"at", "round"} |-> [at |-> "idle", round |-> n][x]]
             /\ [at |-> "lock", round |-> n] = [x \in {"at", "round"} |-> [at |-> "lock", round |-> n][x]]
             /\ [at |-> "idle", round |-> n].at = "idle" /\ [at |-> "lock", round |-> n].at = "lock"
  BY Zenon
<1>4. ASSUME node' = node, wtree' = wtree, tick'.at \in {"idle", "lock", "check", "preserve"},
             tick' = [x \in {"at", "round"} |-> tick'[x]], OneHolder'
      PROVE  InTurn'
  <2>1. ResShape' /\ Numbered' /\ Accounted'
    BY Zenon, <1>0, <1>1, <1>4, Bystander
  <2>2. Expiring' /\ Meant'
    BY Zenon, <1>1, <1>4 DEF InTurn, Expiring, Meant, Settled, Reported
  <2> QED
    BY Zenon, <1>4, <2>1, <2>2 DEF InTurn
<1>5. CASE TickLook
  <2>1. tick'.at = "lock" /\ tick' = [x \in {"at", "round"} |-> tick'[x]]
    BY Zenon, <1>3, <1>5 DEF TickLook
  <2>2. OneHolder'
    BY Zenon, <1>5, <2>1 DEF InTurn, OneHolder, TickLook
  <2> QED
    BY Zenon, <1>4, <1>5, <2>1, <2>2 DEF TickLook
<1>6. CASE TickLock
  <2>1. CASE holder = "none"
    <3>1. tick' = [tick EXCEPT !.at = "check"] /\ holder' = "supervisor"
      BY Zenon, <1>6, <2>1 DEF TickLock
    <3>2. tick'.at = "check" /\ tick' = [x \in {"at", "round"} |-> tick'[x]]
      BY Zenon, <1>2, <3>1
    <3>3. OneHolder'
      BY Zenon, <1>1, <2>1, <3>1, ResidentAssumption DEF InTurn, OneHolder
    <3> QED
      BY Zenon, <1>4, <1>6, <3>2, <3>3 DEF TickLock
  <2>2. CASE holder # "none"
    <3>1. tick' = [at |-> "idle", round |-> 0] /\ holder' = holder
      BY Zenon, <1>6, <2>2 DEF TickLock
    <3>2. tick'.at = "idle" /\ tick' = [x \in {"at", "round"} |-> tick'[x]]
      BY Zenon, <1>3, <3>1
    <3>3. OneHolder'
      BY Zenon, <1>1, <3>1, <3>2 DEF InTurn, OneHolder
    <3> QED
      BY Zenon, <1>4, <1>6, <3>2, <3>3 DEF TickLock
  <2> QED
    BY Zenon, <2>1, <2>2
<1>7. ASSUME TickEnds, holder = "supervisor"
      PROVE  tick'.at = "idle" /\ tick' = [x \in {"at", "round"} |-> tick'[x]] /\ OneHolder'
  <2>1. tick'.at = "idle" /\ tick' = [x \in {"at", "round"} |-> tick'[x]]
    BY Zenon, <1>3, <1>7 DEF TickEnds
  <2>2. OneHolder'
    BY Zenon, <1>1, <1>7, <2>1, ResidentAssumption DEF InTurn, OneHolder
  <2> QED
    BY Zenon, <2>1, <2>2
<1>8. CASE TickCheck
  <2>1. holder = "supervisor"
    BY Zenon, <1>8 DEF TickCheck, InTurn, OneHolder
  <2>2. CASE still_due
    <3>1. tick' = [tick EXCEPT !.at = "guard"] /\ holder' = holder /\ node' = node /\ wtree' = wtree
      BY Zenon, <1>8, <2>2 DEF TickCheck
    <3>2. tick'.at = "guard" /\ tick' = [x \in {"at", "round"} |-> tick'[x]]
      BY Zenon, <1>2, <3>1
    <3>3. ResShape' /\ Numbered' /\ Accounted'
      BY Zenon, <1>0, <1>1, <3>1, <3>2, Bystander
    <3>4. OneHolder'
      BY Zenon, <1>1, <2>1, <3>1 DEF InTurn, OneHolder
    <3>5. Expiring' /\ Meant'
      BY Zenon, <1>1, <2>2, <3>1, <3>2 DEF InTurn, Expiring, Meant, Settled, Reported, still_due, idle_deadline
    <3> QED
      BY Zenon, <3>3, <3>4, <3>5 DEF InTurn
  <2>3. CASE ~still_due
    BY Zenon, <1>4, <1>7, <1>8, <2>1, <2>3 DEF TickCheck
  <2> QED
    BY Zenon, <2>2, <2>3
<1>9. CASE TickGuard
  <2>1. holder = "supervisor" /\ node' = node /\ wtree' = wtree /\ holder' = holder
        /\ node.exit # "none"
    BY Zenon, <1>9 DEF TickGuard, InTurn, OneHolder, Expiring
  <2>2. OneHolder'
    BY Zenon, <1>1, <2>1 DEF InTurn, OneHolder
  <2>3. CASE tick' = [tick EXCEPT !.at = "preserve"]
    <3>1. tick'.at = "preserve" /\ tick' = [x \in {"at", "round"} |-> tick'[x]]
      BY Zenon, <1>2, <2>3
    <3> QED
      BY Zenon, <1>4, <2>1, <2>2, <3>1
  <2>4. CASE /\ tick' = [tick EXCEPT !.at = "remove"]
             /\ ~(~wtree.there \/ wtree.rebasing \/ wtree.ahead \/ wtree.dirty)
    <3>1. tick'.at = "remove" /\ tick' = [x \in {"at", "round"} |-> tick'[x]]
      BY Zenon, <1>2, <2>4
    <3>2. ResShape' /\ Numbered' /\ Accounted'
      BY Zenon, <1>0, <1>1, <2>1, <3>1, Bystander
    <3>3. Expiring' /\ Meant'
      BY Zenon, <1>1, <2>1, <2>4 DEF InTurn, Expiring, Meant, Settled, Reported
    <3> QED
      BY Zenon, <2>2, <3>2, <3>3 DEF InTurn
  <2> QED
    BY Zenon, <1>9, <2>3, <2>4 DEF TickGuard
<1>10. CASE TickRemove
  <2>1. holder = "supervisor" /\ node' = node /\ holder' = holder /\ node.exit # "none"
    BY Zenon, <1>10 DEF TickRemove, InTurn, OneHolder, Expiring
  <2>2. OneHolder'
    BY Zenon, <1>1, <2>1 DEF InTurn, OneHolder
  <2>3. CASE tick' = [tick EXCEPT !.at = "preserve"] /\ wtree' = wtree
    <3>1. tick'.at = "preserve" /\ tick' = [x \in {"at", "round"} |-> tick'[x]]
      BY Zenon, <1>2, <2>3
    <3> QED
      BY Zenon, <1>4, <2>1, <2>2, <2>3, <3>1
  <2>4. CASE tick' = [tick EXCEPT !.at = "dormant"] /\ wtree' = [wtree EXCEPT !.there = FALSE]
    <3>1. tick'.at = "dormant" /\ tick' = [x \in {"at", "round"} |-> tick'[x]]
      BY Zenon, <1>2, <2>4
    <3>2. wtree' = [x \in TreeFields |-> wtree'[x]]
      BY Zenon, <1>0, <2>4 DEF TreeFields
    <3>3. ResShape' /\ Numbered' /\ Accounted'
      BY Zenon, <1>0, <1>1, <2>1, <3>1, <3>2, Bystander
    <3>4. Expiring' /\ Meant'
      BY Zenon, <1>1, <2>1, <3>1 DEF InTurn, Expiring, Meant, Settled, Reported
    <3> QED
      BY Zenon, <2>2, <3>3, <3>4 DEF InTurn
  <2> QED
    BY Zenon, <1>10, <2>3, <2>4 DEF TickRemove
<1>11. CASE TickRecord
  <2>1. holder = "supervisor" /\ TickEnds /\ wtree' = wtree
        /\ (tick.at = "dormant" => node.exit # "none")
    BY Zenon, <1>11 DEF TickRecord, InTurn, OneHolder, Expiring
  <2>2. SameRound(node, node')
    <3>1. SameRound(node, node)
      BY Zenon, <1>0 DEF SameRound
    <3>2. SameRound(node, reduce_node_resident_attention(node))
      BY Zenon, <1>0, AttentionEdit
    <3>3. tick.at = "dormant" => SameRound(node, reduce_node_resident_dormant(node))
      BY Zenon, <1>0, <2>1, DormantEdit
    <3> QED
      BY Zenon, <1>11, <3>1, <3>2, <3>3 DEF TickRecord
  <2>3. tick'.at = "idle" /\ tick' = [x \in {"at", "round"} |-> tick'[x]] /\ OneHolder'
    BY Zenon, <1>7, <2>1
  <2>4. ResShape' /\ Numbered' /\ Accounted'
    BY Zenon, <1>0, <1>1, <2>1, <2>2, <2>3, Bystander DEF SameRound
  <2>5. Expiring' /\ Meant'
    BY Zenon, <1>1, <2>2, <2>3 DEF InTurn, Expiring, Meant, Settled, Reported, SameRound, SameAttempt
  <2> QED
    BY Zenon, <2>3, <2>4, <2>5 DEF InTurn
<1>12. CASE TickKilled
  <2>1. /\ tick' = [at |-> "idle", round |-> 0] /\ node' = node /\ wtree' = wtree
        /\ holder' = IF holder = "supervisor" THEN "none" ELSE holder
    BY Zenon, <1>12 DEF TickKilled
  <2>2. tick'.at = "idle" /\ tick' = [x \in {"at", "round"} |-> tick'[x]]
    BY Zenon, <1>3, <2>1
  <2>3. \A c \in Clients : c # "supervisor"
    BY Zenon, ResidentAssumption
  <2>4. OneHolder'
    BY Zenon, <1>1, <2>1, <2>2, <2>3 DEF InTurn, OneHolder
  <2> QED
    BY Zenon, <1>4, <2>1, <2>2, <2>4
<1> QED
  BY Zenon, <1>5, <1>6, <1>8, <1>9, <1>10, <1>11, <1>12 DEF TickStep

(* The supervisor's other steps, and the source branch. *)
LEMMA InTurnWorld ==
  ASSUME InTurn, classify_live_node_with_round \/ RecoverLanding \/ SourceMoves
  PROVE  InTurn'
<1>0. SameAttempt(node, node) /\ NodeOK(node) /\ wtree = [x \in TreeFields |-> wtree[x]]
  BY Zenon DEF InTurn, ResShape, SameAttempt
<1>1. CASE classify_live_node_with_round
  <2>1. SameAttempt(node, node')
    BY Zenon, <1>0, <1>1, StatusEdits DEF classify_live_node_with_round
  <2>2. \A c \in Clients : op[c].at \notin {"tree", "launch"}
    BY Zenon, <1>1 DEF InTurn, Meant, classify_live_node_with_round
  <2> QED
    BY Zenon, <1>1, <2>1, <2>2, NodeWritten DEF classify_live_node_with_round
<1>2. CASE RecoverLanding
  <2>1. SameRound(node, node')
    BY Zenon, <1>0, <1>2, LandedEdit DEF RecoverLanding
  <2>2. SameAttempt(node, node') /\ node'.st = node.st /\ (Reported(node) => Reported(node'))
    BY Zenon, <2>1 DEF SameRound, SameAttempt, Reported
  <2> QED
    BY Zenon, <1>2, <2>2, NodeWritten DEF RecoverLanding
<1>3. CASE SourceMoves
  <2>1. /\ wtree' = [x \in TreeFields |-> wtree'[x]]
        /\ wtree'.there = wtree.there /\ wtree'.rebasing = wtree.rebasing /\ wtree'.ahead = wtree.ahead
    BY Zenon, <1>0, <1>3 DEF SourceMoves, TreeFields
  <2>2. /\ node' = node /\ proc' = proc /\ op' = op /\ holder' = holder /\ tick' = tick
        /\ orphan' = orphan
    BY Zenon, <1>3 DEF SourceMoves
  <2>3. ResShape' /\ Numbered' /\ Accounted'
    BY Zenon, <1>0, <2>1, <2>2, Bystander DEF InTurn, ResShape
  <2>4. OneHolder' /\ Expiring' /\ Meant'
    BY Zenon, <2>1, <2>2 DEF InTurn, OneHolder, Expiring, Meant, Settled, Reported
  <2> QED
    BY Zenon, <2>3, <2>4 DEF InTurn
<1> QED
  BY Zenon, <1>1, <1>2, <1>3

(* A fresh resident: its first worker runs and is recorded. *)
LEMMA InTurnInit == ResInit => InTurn
<1> SUFFICES ASSUME ResInit PROVE InTurn
  BY Zenon
<1>1. /\ FreshNode = [x \in NodeFields |-> FreshNode[x]] /\ FreshNode.st = "live"
      /\ FreshNode.exit = "none" /\ FreshNode.pid = 1 /\ FreshNode.rounds = 0
      /\ FreshNode.attempt = 0 /\ FreshNode.dormant = FALSE
  BY Zenon DEF FreshNode, NodeFields
<1>2. 1 \in Launches /\ 0 \in Nat
  BY Zenon, ResidentAssumption
<1>3. NodeOK(node) /\ node.exit = "none" /\ node.pid = 1 /\ node.attempt = 0
  BY Zenon, <1>1, <1>2 DEF ResInit, NodeOK
<1>4. wtree = [x \in TreeFields |-> wtree[x]]
  BY Zenon DEF ResInit, TreeFields
<1>5. [a |-> 0, st |-> "live"] \in ProcSet /\ Unlaunched \in ProcSet
      /\ [a |-> 0, st |-> "live"].a = 0 /\ [a |-> 0, st |-> "live"].st = "live" /\ Unlaunched.st = "none"
  BY Zenon, <1>2 DEF ProcSet, Unlaunched
<1>6. /\ proc = [l \in Launches |-> proc[l]] /\ proc[1] = [a |-> 0, st |-> "live"]
      /\ \A l \in Launches : l # 1 => proc[l] = Unlaunched
  BY Zenon, <1>2 DEF ResInit
<1>7. proc \in [Launches -> ProcSet]
  <2>1. \A l \in Launches : proc[l] \in ProcSet
    BY Zenon, <1>5, <1>6
  <2> QED
    BY Zenon, <1>6, <2>1
<1>8. proc[1].a = 0 /\ proc[1].st = "live" /\ \A l \in Launches : l # 1 => proc[l].st = "none"
  BY Zenon, <1>5, <1>6
<1>9. op = [c \in Clients |-> op[c]] /\ \A c \in Clients : op[c] = Resting
  BY Zenon DEF ResInit
<1>10. \A c \in Clients : op[c] = [x \in OpFields |-> op[c][x]] /\ op[c].at = "idle"
  BY Zenon, <1>9, RestingRecord
<1>11. tick = [x \in {"at", "round"} |-> tick[x]] /\ tick.at = "idle" /\ orphan = FALSE
  BY Zenon DEF ResInit
<1>12. ResShape
  BY Zenon, <1>3, <1>4, <1>7, <1>9, <1>10, <1>11 DEF ResShape
<1>13. OneHolder /\ Expiring /\ Meant
  BY Zenon, <1>10, <1>11 DEF OneHolder, Expiring, Meant
<1>14. Numbered
  BY Zenon, <1>3, <1>8, <1>10 DEF Numbered, Resuming, Started
<1>15. Accounted
  BY Zenon, <1>3, <1>8, <1>10 DEF Accounted, Ashore, Resuming
<1> QED
  BY Zenon, <1>12, <1>13, <1>14, <1>15 DEF InTurn

(* Every step keeps the turns. *)
LEMMA InTurnNext == InTurn /\ [ResNext]_res_vars => InTurn'
<1> SUFFICES ASSUME InTurn, [ResNext]_res_vars PROVE InTurn'
  BY Zenon
<1>1. CASE UNCHANGED res_vars
  <2>1. /\ node' = node /\ wtree' = wtree /\ proc' = proc /\ op' = op /\ holder' = holder
        /\ tick' = tick /\ orphan' = orphan
    BY Zenon, <1>1 DEF res_vars
  <2>2. SameAttempt(node, node')
    BY Zenon, <2>1 DEF InTurn, ResShape, SameAttempt
  <2>3. node'.st = node.st /\ (Reported(node) => Reported(node'))
    BY Zenon, <2>1 DEF Reported
  <2> QED
    BY Zenon, <2>1, <2>2, <2>3, NodeWritten
<1>2. CASE ResNext
  <2>1. ASSUME NEW c \in Clients, ClientStep(c) PROVE InTurn'
    BY Zenon, <2>1, InTurnStart, InTurnCheck, InTurnPrepare, InTurnLaunch, InTurnResume,
       InTurnLand, InTurnSettle DEF ClientStep
  <2>2. CASE Idling
    BY Zenon, <1>1, <2>2 DEF Idling
  <2> QED
    BY Zenon, <1>2, <2>1, <2>2, InTurnWorker, InTurnStart, InTurnKilled, InTurnTick, InTurnWorld
       DEF ResNext
<1> QED
  BY Zenon, <1>1, <1>2

(* What the turns say of a state. *)
LEMMA InTurnMeans == InTurn => ResTypeOK /\ GitAlone /\ ExitIsOwn /\ DormantIsIdle
<1> SUFFICES ASSUME InTurn PROVE ResTypeOK /\ GitAlone /\ ExitIsOwn /\ DormantIsIdle
  BY Zenon
<1>1. ResTypeOK
  <2>1. \A l \in Launches : proc[l].st \in {"none", "live", "stopping", "clean", "fail", "gone"}
    BY Zenon DEF InTurn, ResShape, ProcSet
  <2> QED
    BY Zenon, <2>1 DEF InTurn, ResShape, NodeOK, OneHolder, ResTypeOK
<1>2. node.pid \in Launches
  BY Zenon DEF InTurn, ResShape, NodeOK
<1>3. ExitIsOwn
  BY Zenon DEF InTurn, Accounted, ExitIsOwn
<1>4. GitAlone
  <2> SUFFICES ASSUME Touching, ~orphan, NEW l \in Live PROVE FALSE
    BY Zenon DEF GitAlone
  <2>0. l \in Launches /\ proc[l].st = "live"
    BY Zenon DEF Live
  <2>1. CASE \E c \in Clients : op[c].at \in {"tree", "launch", "rebase", "abort", "move"}
    <3>1. PICK c \in Clients : op[c].at \in {"tree", "launch", "rebase", "abort", "move"}
      BY Zenon, <2>1
    <3>2. op[c].at \in Ashore /\ holder = c /\ op[c].at \notin Started
      BY Zenon, <3>1 DEF Ashore, Resuming, Started, InTurn, OneHolder
    <3>3. PICK d \in Clients : op[d].at \in Started
      BY Zenon, <2>0, <3>2 DEF InTurn, Accounted
    <3>4. d # c /\ op[d].at \notin {"idle", "await", "lock"}
      BY Zenon, <3>2, <3>3 DEF Started
    <3> QED
      BY Zenon, <3>2, <3>4 DEF InTurn, OneHolder
  <2>2. CASE tick.at \in {"guard", "remove"}
    <3>1. holder = "supervisor" /\ node.exit # "none"
      BY Zenon, <2>2 DEF InTurn, OneHolder, Expiring
    <3>2. PICK d \in Clients : op[d].at \in Started
      BY Zenon, <2>0, <3>1 DEF InTurn, Accounted
    <3>3. holder = d
      BY Zenon, <3>2 DEF InTurn, OneHolder, Started
    <3> QED
      BY Zenon, <3>1, <3>3, ResidentAssumption
  <2> QED
    BY Zenon, <2>1, <2>2 DEF Touching
<1>5. DormantIsIdle
  <2> SUFFICES ASSUME node.dormant, ~Settled(node)
               PROVE  /\ node.open /\ node.exit # "none"
                      /\ Live = {} \/ orphan \/ \E c \in Clients : op[c].at \in {"shake", "record"}
    BY Zenon DEF DormantIsIdle
  <2>1. node.open /\ node.exit # "none"
    BY Zenon DEF InTurn, ResShape, NodeOK
  <2>2. ASSUME ~orphan, NEW l \in Live PROVE \E c \in Clients : op[c].at \in {"shake", "record"}
    BY Zenon, <2>1, <2>2 DEF InTurn, Accounted, Live, Started
  <2> QED
    BY Zenon, <2>1, <2>2
<1> QED
  BY Zenon, <1>1, <1>3, <1>4, <1>5

(* A worktree is removed only by the expiry, as its guard found it. *)
LEMMA ExpiryStep ==
  ASSUME InTurn, ResNext
  PROVE  ExpiryLosesNothing
<1> SUFFICES ASSUME wtree.there, ~wtree'.there, ~orphan
             PROVE  ~wtree.dirty /\ ~wtree.rebasing /\ ~wtree.ahead
  BY Zenon DEF ExpiryLosesNothing
<1>0. wtree = [x \in TreeFields |-> wtree[x]]
  BY Zenon DEF InTurn, ResShape
<1>1. CASE TickRemove
  BY Zenon, <1>1 DEF TickRemove, InTurn, Expiring
<1>2. wtree' # wtree
  BY Zenon
<1>4. ASSUME NEW l \in Launches, WorkerStep(l) PROVE FALSE
  <2>1. Work(l)
    BY Zenon, <1>2, <1>4 DEF WorkerStep, round_report, AgentEnds, ShimLost, record_worker_exit,
       await_resumed, AgentStops
  <2>2. wtree'.there = wtree.there
    BY Zenon, <1>0, <2>1 DEF Work, TreeFields
  <2> QED
    BY Zenon, <2>2
<1>5. ASSUME NEW c \in Clients, ClientStep(c) PROVE FALSE
  <2>1. MessagePrepare(c) \/ LandRebase(c) \/ LandAbort(c) \/ LandMove(c) \/ MergeRun(c)
    BY Zenon, <1>2, <1>5 DEF ClientStep, AwaitRound, ResidentLock, MessageCheck, materialize_resume,
       resume_after_launch, record_resumed, LandStart, LandNote, CancelRun
  <2>2. CASE MessagePrepare(c)
    <3> DEFINE t == recreate_worktree
    <3>1. t = [x \in TreeFields |-> t[x]] /\ t.there = TRUE
      BY Zenon, <1>0 DEF recreate_worktree, TreeFields
    <3> HIDE DEF t
    <3>2. wtree' \in {t, [t EXCEPT !.behind = FALSE], [t EXCEPT !.rebasing = TRUE]}
      BY Zenon, <1>2, <2>2 DEF MessagePrepare, rebase_onto_source, t
    <3>3. wtree'.there = TRUE
      BY Zenon, <3>1, <3>2 DEF TreeFields
    <3> QED
      BY Zenon, <3>3
  <2>3. CASE LandRebase(c) \/ LandAbort(c)
    <3>1. wtree'.there = wtree.there
      BY Zenon, <1>0, <2>3 DEF LandRebase, LandAbort, TreeFields
    <3> QED
      BY Zenon, <3>1
  <2>4. CASE LandMove(c) \/ MergeRun(c)
    <3>1. wtree'.there = wtree.there
      BY Zenon, <1>0, <1>2, <2>4 DEF LandMove, MergeRun, TreeFields
    <3> QED
      BY Zenon, <3>1
  <2> QED
    BY Zenon, <2>1, <2>2, <2>3, <2>4
<1>6. CASE SourceMoves
  <2>1. wtree'.there = wtree.there
    BY Zenon, <1>0, <1>6 DEF SourceMoves, TreeFields
  <2> QED
    BY Zenon, <2>1
<1>7. ASSUME NEW c \in Clients, StartVerb(c) \/ ClientKilled(c) PROVE FALSE
  BY Zenon, <1>2, <1>7 DEF StartVerb, ClientKilled
<1>8. CASE TickLook \/ TickLock \/ TickCheck \/ TickGuard \/ TickRecord \/ TickKilled
  BY Zenon, <1>2, <1>8 DEF TickLook, TickLock, TickCheck, TickGuard, TickRecord, TickKilled
<1>9. CASE classify_live_node_with_round \/ RecoverLanding \/ Idling
  BY Zenon, <1>2, <1>9 DEF classify_live_node_with_round, RecoverLanding, Idling, res_vars
<1> QED
  BY Zenon, <1>1, <1>4, <1>5, <1>6, <1>7, <1>8, <1>9 DEF ResNext, TickStep

(* A worker is started only by a message, for a node that has not settled. *)
LEMMA StartStep ==
  ASSUME InTurn, ResNext
  PROVE  NoStartAfterSettle
<1> SUFFICES ASSUME NEW l \in Launches, proc[l].st = "none", proc'[l].st # "none"
             PROVE  ~Settled(node)
  BY Zenon DEF NoStartAfterSettle
<1>1. proc' # proc
  BY Zenon
<1>2. ASSUME NEW k \in Launches, NEW st, proc' = [proc EXCEPT ![k].st = st], proc[k].st # "none"
      PROVE  FALSE
  <2>1. l # k
    BY Zenon, <1>2
  <2>2. proc'[l] = proc[l]
    BY Zenon, <1>2, <2>1 DEF InTurn, ResShape
  <2> QED
    BY Zenon, <2>2
<1>3. ASSUME NEW k \in Launches, WorkerStep(k) PROVE FALSE
  <2>1. CASE AgentEnds(k)
    <3>1. PICK status \in {"clean", "fail"} :
            proc' = [proc EXCEPT ![k].st = IF node.attempt < proc[k].a THEN "gone" ELSE status]
      BY Zenon, <2>1 DEF AgentEnds
    <3>2. proc[k].st # "none"
      BY Zenon, <2>1 DEF AgentEnds, Live
    <3> QED
      BY Zenon, <1>2, <3>1, <3>2
  <2>2. CASE ShimLost(k) \/ record_worker_exit(k) \/ await_resumed(k) \/ AgentStops(k)
    <3>1. \E st : proc' = [proc EXCEPT ![k].st = st]
      BY Zenon, <2>2 DEF ShimLost, record_worker_exit, await_resumed, AgentStops
    <3>2. proc[k].st # "none"
      BY Zenon, <2>2 DEF ShimLost, record_worker_exit, await_resumed, AgentStops
    <3> QED
      BY Zenon, <1>2, <3>1, <3>2
  <2> QED
    BY Zenon, <1>1, <1>3, <2>1, <2>2 DEF WorkerStep, Work, round_report
<1>4. ASSUME NEW c \in Clients, ClientStep(c) PROVE ~Settled(node)
  <2>1. CASE materialize_resume(c)
    BY Zenon, <2>1 DEF materialize_resume, InTurn, Meant
  <2>2. CASE resume_after_launch(c) \/ record_resumed(c)
    <3>1. proc' = Stop(op[c].launch)
      BY Zenon, <1>1, <2>2 DEF resume_after_launch, record_resumed
    <3>2. op[c].launch \in Launches /\ proc[op[c].launch].st # "none"
      BY Zenon, <2>2 DEF resume_after_launch, record_resumed, InTurn, Numbered, Started
    <3>3. \E st : proc' = [proc EXCEPT ![op[c].launch].st = st]
      BY Zenon, <3>1 DEF Stop
    <3> QED
      BY Zenon, <1>2, <3>2, <3>3
  <2> QED
    BY Zenon, <1>1, <1>4, <2>1, <2>2 DEF ClientStep, AwaitRound, ResidentLock, MessageCheck,
       MessagePrepare, LandStart, LandRebase, LandAbort, LandMove, LandNote, MergeRun, CancelRun
<1>5. ASSUME NEW c \in Clients, StartVerb(c) \/ ClientKilled(c) PROVE FALSE
  BY Zenon, <1>1, <1>5 DEF StartVerb, ClientKilled
<1>6. CASE TickStep \/ TickKilled
  BY Zenon, <1>1, <1>6 DEF TickStep, TickLook, TickLock, TickCheck, TickGuard, TickRemove,
     TickRecord, TickKilled
<1>7. CASE classify_live_node_with_round \/ RecoverLanding \/ SourceMoves \/ Idling
  BY Zenon, <1>1, <1>7 DEF classify_live_node_with_round, RecoverLanding, SourceMoves, Idling, res_vars
<1> QED
  BY Zenon, <1>3, <1>4, <1>5, <1>6, <1>7 DEF ResNext

(* In every behaviour of a resident (ResidentLock, run message, run land,  *)
(* run merge, run cancel and the supervisor's idle expiry), for any number *)
(* of clients, launches, kills and failures: whoever is at work in the     *)
(* worktree has the lock, and no worker runs there unless a messenger died *)
(* between starting one and recording it; an exit on record is that of the *)
(* recorded process; a dormant resident is idle; the expiry removes        *)
(* nothing that is not landed; and no worker starts once the run settled.  *)
THEOREM ResidentSafe == ResSpec => ResidentTakesTurns
<1> DEFINE Step == /\ ResTypeOK' /\ GitAlone' /\ ExitIsOwn' /\ DormantIsIdle'
                   /\ ExpiryLosesNothing /\ NoStartAfterSettle
<1>1. ResInit => InTurn
  BY Zenon, InTurnInit
<1>2. InTurn /\ [ResNext]_res_vars => InTurn'
  BY Zenon, InTurnNext
<1>3. InTurn /\ InTurn' /\ [ResNext]_res_vars => [Step]_res_vars
  <2> SUFFICES ASSUME InTurn, InTurn', ResNext PROVE Step
    BY Zenon
  <2>1. ResTypeOK' /\ GitAlone' /\ ExitIsOwn' /\ DormantIsIdle'
    BY InTurnMeans, PTL
  <2>2. ExpiryLosesNothing /\ NoStartAfterSettle
    BY Zenon, ExpiryStep, StartStep
  <2> QED
    BY Zenon, <2>1, <2>2
<1> QED
  BY <1>1, <1>2, <1>3, PTL DEF ResSpec, ResidentTakesTurns

------------------------------------------------------------------------------
(* The settlement of a caller-owned run.                                   *)

HostPlaces == {"off", "open", "admitted", "started", "run"}
Statuses == {"live", "failed", "cancelled", "done"}
LedFields == {"status", "node", "intent", "life", "bound", "txn", "proof", "report",
              "receipt", "verified", "kept"}
GitFields == {"tip", "base", "there", "broken", "dirty", "rebasing", "src", "landed", "hist"}
ActFields == {"verb", "at", "key", "txn"}

\* The places of a verb before it holds the lease, of a merge, of a discard;
\* the places of a supervisor that holds the lease.
Unleased == {"idle", "gate", "intent", "lease"}
Fresh == {"rebase", "rebasing", "proof", "ff"}
Merging == Fresh \cup {"merge", "report", "judge", "complete", "reject"}
Discarding == {"discard", "drop", "dropping", "prune"}
SupLeased == {"complete", "reject", "release", "remove", "unbranch", "finished"}

TxnOK(t) == t.tip \in Int /\ t.landed \in Int

LedOK(l) ==
  /\ l = [x \in LedFields |-> l[x]]
  /\ l.status \in Statuses /\ l.node \in Statuses
  /\ l.intent.op \in {"none", "merge", "cancel", "discard"}
  /\ l.life = [x \in {"gen", "st"} |-> l.life[x]] /\ l.life.gen \in 0 .. MaxGen
  /\ l.bound \in 0 .. MaxGen /\ l.receipt \in Int /\ l.proof \in Int
  /\ TxnOK(l.txn) /\ TxnOK(l.report)

GitOK(g) ==
  /\ g = [x \in GitFields |-> g[x]]
  /\ g.tip \in Int /\ g.landed \in Nat /\ g.hist \in BOOLEAN

ActOK(a) == a = [x \in ActFields |-> a[x]] /\ TxnOK(a.txn)

SetShape ==
  /\ host = [x \in {"at", "gen"} |-> host[x]]
  /\ host.at \in HostPlaces /\ host.gen \in 0 .. MaxGen
  /\ pi \in BOOLEAN
  /\ LedOK(led) /\ GitOK(git)
  /\ locks = [x \in {"gate", "ex"} |-> locks[x]]
  /\ locks.gate \in Operators \cup {"host", "none"}
  /\ locks.ex \in Operators \cup {"sup", "none"}
  /\ act = [c \in Operators |-> act[c]] /\ \A c \in Operators : ActOK(act[c])
  /\ sup = [x \in {"at", "txn"} |-> sup[x]] /\ TxnOK(sup.txn)

\* Who is where has the lock for it: the gate keeps an intent from a host that
\* admits, the lease keeps a settlement from a host or a Pi that shares it.
Fenced ==
  /\ host.at \in {"open", "admitted", "started"} => locks.gate = "host"
  /\ host.at = "open" => host.gen = led.life.gen + 1
  /\ host.at = "admitted" => led.intent = NoIntent
  /\ locks.ex # "none" => ~HostHolds /\ ~pi
  /\ \A c \in Operators : act[c].at = "intent" => locks.gate = c
  /\ \A c \in Operators : act[c].at \notin Unleased => locks.ex = c
  /\ sup.at \in SupLeased => locks.ex = "sup"

Serves(verb, o) ==
  /\ verb \in {"merge", "salvage"} => o = "merge"
  /\ verb = "cancel" => o = "cancel"
  /\ verb = "discard" => o \in {"discard", "cancel"}

\* The history of the generation on record l is bound and, in g, intact.
Retained(l, g) ==
  IF l.life.gen = 0 THEN l.bound = 0 ELSE l.bound = l.life.gen /\ g.hist

\* A settlement past the gate serves the one intent on record.  Its
\* transaction has no more than the branch, and no more than was landed when
\* it is about to be reported.  A checkout that is being dropped has a receipt
\* and a history that cannot be lost any more.
Works(a, l, g) ==
  /\ a.at # "idle" => a.verb \in Ops
  /\ a.at \notin {"idle", "gate", "intent"} =>
       l.intent # NoIntent /\ Serves(a.verb, l.intent.op)
  /\ a.at \in Merging => a.verb \in {"merge", "salvage"}
  /\ a.at = "cancel" => a.verb = "cancel"
  /\ a.at \in Discarding => a.verb = "discard"
  /\ a.at \in Fresh => a.txn.tip <= g.tip
  /\ a.at \in {"report", "complete"} => a.txn.tip <= g.landed
  /\ a.at \in {"drop", "dropping", "prune"} => l.receipt # -1
  /\ a.at = "dropping" => g.broken /\ Retained(l, g)

\* Each of the three outcomes belongs to an intent of its own.
Outcome(l, g) ==
  /\ l.status = "cancelled" => l.intent.op = "cancel"
  /\ l.receipt # -1 => l.intent.op \in {"discard", "cancel"}
  /\ g.landed > 0 => l.intent.op = "merge"

\* A checkout has a branch, and the branch has what was landed.
Rooted(g) ==
  /\ g.there => g.tip >= 0
  /\ g.tip >= 0 => g.landed <= g.tip

\* A pending transaction has no more than the branch and no more than the
\* proof recorded for it; a reported one no more than was landed.
Booked(l, g) ==
  /\ l.txn # NoTxn =>
       /\ g.tip >= 0 => l.txn.tip <= g.tip
       /\ l.proof # -1 => l.txn.tip <= l.proof
  /\ l.report # NoTxn => l.report.tip <= g.landed

\* What a recovery is about to complete was landed, and a branch is deleted
\* once its checkout is gone.
Watches(s, g) ==
  /\ s.at = "complete" => s.txn.tip <= g.landed
  /\ s.at \in {"unbranch", "finished"} => ~g.there

SettledOnce ==
  /\ SetShape /\ Fenced
  /\ \A c \in Operators : Works(act[c], led, git)
  /\ Outcome(led, git) /\ Rooted(git) /\ Booked(led, git) /\ Watches(sup, git)

LEMMA NoTxnFacts == TxnOK(NoTxn) /\ NoTxn.tip = -1 /\ ActOK(Absent) /\ Absent.at = "idle"
<1>1. -1 \in Int /\ 0 \in Int
  BY SMTT(60)
<1>2. TxnOK(NoTxn) /\ NoTxn.tip = -1
  BY Zenon, <1>1 DEF NoTxn, TxnOK
<1>3. Absent = [x \in ActFields |-> Absent[x]] /\ Absent.at = "idle" /\ Absent.txn = NoTxn
  BY Zenon DEF Absent, ActFields
<1> QED
  BY Zenon, <1>2, <1>3 DEF ActOK

(* The record after a step that leaves intent, receipt and generation alone. *)
SameCase(l, m) ==
  /\ LedOK(m) /\ m.intent = l.intent /\ m.receipt = l.receipt
  /\ m.bound = l.bound /\ m.life.gen = l.life.gen

(* Nor does it settle the run or touch a transaction, except to end it. *)
SameBook(l, m) ==
  /\ SameCase(l, m) /\ m.status = l.status /\ m.report = l.report
  /\ m.txn # NoTxn => m.txn = l.txn /\ m.proof = l.proof

(* What each record of a step changes in the manifest and the node. *)
LEMMA LedEdits ==
  ASSUME NEW l, LedOK(l)
  PROVE  /\ SameBook(l, l)
         /\ SameBook(l, [l EXCEPT !.txn = NoTxn])
         /\ SameBook(l, [l EXCEPT !.node = "failed", !.txn = NoTxn])
         /\ SameBook(l, [l EXCEPT !.kept = TRUE])
         /\ SameBook(l, [l EXCEPT !.verified = TRUE])
         /\ \A st : SameBook(l, [l EXCEPT !.life.st = st])
<1>1. TxnOK(NoTxn)
  BY Zenon, NoTxnFacts
<1>2. SameBook(l, l)
  BY Zenon DEF SameBook, SameCase
<1>3. SameBook(l, [l EXCEPT !.txn = NoTxn])
  BY Zenon, <1>1 DEF SameBook, SameCase, LedOK, LedFields
<1>4. SameBook(l, [l EXCEPT !.node = "failed", !.txn = NoTxn])
  BY Zenon, <1>1 DEF SameBook, SameCase, LedOK, LedFields, Statuses
<1>5. SameBook(l, [l EXCEPT !.kept = TRUE]) /\ SameBook(l, [l EXCEPT !.verified = TRUE])
  BY Zenon DEF SameBook, SameCase, LedOK, LedFields
<1>6. ASSUME NEW st PROVE SameBook(l, [l EXCEPT !.life.st = st])
  <2> DEFINE f == [l.life EXCEPT !.st = st]
  <2>1. f = [x \in {"gen", "st"} |-> f[x]] /\ f.gen = l.life.gen
    BY Zenon DEF LedOK
  <2>2. [l EXCEPT !.life.st = st] = [l EXCEPT !.life = f]
    BY Zenon
  <2> HIDE DEF f
  <2>3. SameBook(l, [l EXCEPT !.life = f])
    BY Zenon, <2>1 DEF SameBook, SameCase, LedOK, LedFields
  <2> QED
    BY Zenon, <2>2, <2>3
<1> QED
  BY Zenon, <1>2, <1>3, <1>4, <1>5, <1>6

(* The report of a merge ends its transaction. *)
LEMMA ReportEdit ==
  ASSUME NEW l, LedOK(l), NEW t, TxnOK(t)
  PROVE  /\ SameCase(l, reduce_merge_report(l, t))
         /\ reduce_merge_report(l, t).status = l.status
         /\ \/ reduce_merge_report(l, t) = l
            \/ reduce_merge_report(l, t).txn = NoTxn /\ reduce_merge_report(l, t).report = t
<1> DEFINE m == [l EXCEPT !.node = "done", !.txn = NoTxn, !.report = t]
<1>1. SameCase(l, m) /\ m.status = l.status /\ m.txn = NoTxn /\ m.report = t
  BY Zenon, NoTxnFacts DEF SameCase, LedOK, LedFields, Statuses
<1>2. SameCase(l, l)
  BY Zenon DEF SameCase
<1> QED
  BY Zenon, <1>1, <1>2 DEF reduce_merge_report

(* The branch only grows, and a checkout that is being dropped is left alone. *)
Grows(g, h) ==
  /\ GitOK(h) /\ h.landed = g.landed /\ h.there = g.there
  /\ h.tip = g.tip \/ (g.tip >= 0 /\ h.tip = g.tip + 1)
  /\ g.broken => h.broken /\ h.hist = g.hist

LEMMA GitEdits ==
  ASSUME NEW g, GitOK(g)
  PROVE  /\ Grows(g, g)
         /\ Grows(g, [g EXCEPT !.dirty = TRUE])
         /\ \A v : Grows(g, [g EXCEPT !.src = v])
         /\ Grows(g, [g EXCEPT !.rebasing = FALSE, !.dirty = FALSE])
         /\ \A v : Grows(g, [g EXCEPT !.rebasing = v])
         /\ \A v : Grows(g, [g EXCEPT !.rebasing = FALSE, !.base = v])
         /\ ~g.broken => Grows(g, [g EXCEPT !.hist = FALSE])
<1>1. Grows(g, g)
  BY Zenon DEF Grows
<1>2. Grows(g, [g EXCEPT !.dirty = TRUE]) /\ Grows(g, [g EXCEPT !.rebasing = FALSE, !.dirty = FALSE])
  BY Zenon DEF Grows, GitOK, GitFields
<1>3. \A v : Grows(g, [g EXCEPT !.src = v])
  BY Zenon DEF Grows, GitOK, GitFields
<1>4. \A v : Grows(g, [g EXCEPT !.rebasing = v])
  BY Zenon DEF Grows, GitOK, GitFields
<1>5. \A v : Grows(g, [g EXCEPT !.rebasing = FALSE, !.base = v])
  BY Zenon DEF Grows, GitOK, GitFields
<1>6. ~g.broken => Grows(g, [g EXCEPT !.hist = FALSE])
  BY Zenon DEF Grows, GitOK, GitFields
<1> QED
  BY Zenon, <1>1, <1>2, <1>3, <1>4, <1>5, <1>6

(* A commit on the worker branch. *)
LEMMA CommitEdits ==
  ASSUME NEW g, GitOK(g), g.tip >= 0
  PROVE  /\ Grows(g, [g EXCEPT !.tip = @ + 1, !.dirty = FALSE])
         /\ Grows(g, [g EXCEPT !.tip = @ + 1])
<1>1. g.tip + 1 \in Int
  BY SMTT(60) DEF GitOK
<1> QED
  BY Zenon, <1>1 DEF Grows, GitOK, GitFields

(* What a longer branch makes of the bounds. *)
LEMMA GrowsBounds ==
  ASSUME NEW g, GitOK(g), NEW h, Grows(g, h)
  PROVE  /\ h.tip >= 0 => g.tip >= 0
         /\ g.tip >= 0 => h.tip >= 0
         /\ \A n \in Int : n <= g.tip => n <= h.tip
<1>1. g.tip \in Int /\ h.tip \in Int /\ (h.tip = g.tip \/ (g.tip >= 0 /\ h.tip = g.tip + 1))
  BY Zenon DEF Grows, GitOK
<1> QED
  BY SMTT(60), <1>1

LEMMA GrowsKeeps ==
  ASSUME NEW g, GitOK(g), NEW h, Grows(g, h)
  PROVE  /\ Rooted(g) => Rooted(h)
         /\ \A l : LedOK(l) /\ Booked(l, g) => Booked(l, h)
         /\ \A l : Outcome(l, g) => Outcome(l, h)
         /\ \A s : Watches(s, g) => Watches(s, h)
         /\ \A a, l : ActOK(a) /\ Works(a, l, g) => Works(a, l, h)
<1>1. /\ h.tip >= 0 => g.tip >= 0
      /\ g.tip >= 0 => h.tip >= 0
      /\ \A n \in Int : n <= g.tip => n <= h.tip
  BY Zenon, GrowsBounds
<1>2. h.landed = g.landed /\ h.there = g.there /\ g.landed \in Int
      /\ (g.broken => h.broken /\ h.hist = g.hist)
  <2>1. g.landed \in Nat
    BY Zenon DEF GitOK
  <2>2. g.landed \in Int
    BY SMTT(60), <2>1
  <2> QED
    BY Zenon, <2>2 DEF Grows
<1>3. Rooted(g) => Rooted(h)
  BY Zenon, <1>1, <1>2 DEF Rooted
<1>4. ASSUME NEW l, LedOK(l), Booked(l, g) PROVE Booked(l, h)
  <2>1. l.txn.tip \in Int
    BY Zenon, <1>4 DEF LedOK, TxnOK
  <2> QED
    BY Zenon, <1>1, <1>2, <1>4, <2>1 DEF Booked
<1>5. \A l : Outcome(l, g) => Outcome(l, h)
  BY Zenon, <1>2 DEF Outcome
<1>6. \A s : Watches(s, g) => Watches(s, h)
  BY Zenon, <1>2 DEF Watches
<1>7. ASSUME NEW a, NEW l, ActOK(a), Works(a, l, g) PROVE Works(a, l, h)
  <2>1. a.txn.tip \in Int
    BY Zenon, <1>7 DEF ActOK, TxnOK
  <2>2. a.at \in Fresh => a.txn.tip <= h.tip
    BY Zenon, <1>1, <1>7, <2>1 DEF Works
  <2>3. a.at = "dropping" => h.broken /\ Retained(l, h)
    BY Zenon, <1>2, <1>7 DEF Works, Retained
  <2> QED
    BY Zenon, <1>2, <1>7, <2>2, <2>3 DEF Works
<1> QED
  BY Zenon, <1>3, <1>4, <1>5, <1>6, <1>7

(* The record and Git as they have to fit each other. *)
Sound(l, g) == LedOK(l) /\ GitOK(g) /\ Outcome(l, g) /\ Rooted(g) /\ Booked(l, g)

LEMMA SoundKept ==
  ASSUME NEW l, NEW g, Sound(l, g)
  PROVE  /\ \A m : SameBook(l, m) => Sound(m, g)
         /\ \A h : Grows(g, h) => Sound(l, h)
<1>1. ASSUME NEW m, SameBook(l, m) PROVE Sound(m, g)
  <2>1. LedOK(m) /\ Outcome(m, g)
    BY Zenon, <1>1 DEF Sound, SameBook, SameCase, Outcome
  <2>2. Booked(m, g)
    BY Zenon, <1>1 DEF Sound, SameBook, Booked
  <2> QED
    BY Zenon, <2>1, <2>2 DEF Sound
<1>2. ASSUME NEW h, Grows(g, h) PROVE Sound(l, h)
  <2>1. LedOK(l) /\ GitOK(g) /\ Outcome(l, g) /\ Rooted(g) /\ Booked(l, g)
    BY Zenon DEF Sound
  <2>2. Rooted(h) /\ Booked(l, h) /\ Outcome(l, h)
    BY Zenon, <1>2, <2>1, GrowsKeeps
  <2>3. GitOK(h)
    BY Zenon, <1>2 DEF Grows
  <2> QED
    BY Zenon, <2>1, <2>2, <2>3 DEF Sound
<1> QED
  BY Zenon, <1>1, <1>2

(* A settlement that works does not mind the rest of the record, and one
   that waits for the lease minds nothing but the intent. *)
LEMMA WorksOn ==
  ASSUME NEW a, NEW l, NEW g, Works(a, l, g)
  PROVE  /\ \A m : SameCase(l, m) => Works(a, m, g)
         /\ a.at \in Unleased => \A m, h : m.intent = l.intent => Works(a, m, h)
<1>1. ASSUME NEW m, SameCase(l, m) PROVE Works(a, m, g)
  <2>1. a.at = "dropping" => Retained(m, g)
    BY Zenon, <1>1 DEF Works, SameCase, Retained
  <2> QED
    BY Zenon, <1>1, <2>1 DEF Works, SameCase
<1>2. ASSUME a.at \in Unleased, NEW m, NEW h, m.intent = l.intent PROVE Works(a, m, h)
  BY Zenon, <1>2 DEF Works, Unleased, Merging, Fresh, Discarding
<1> QED
  BY Zenon, <1>1, <1>2

LEMMA SettledParts ==
  ASSUME SettledOnce
  PROVE  /\ Sound(led, git) /\ SetShape /\ Fenced /\ Watches(sup, git)
         /\ \A c \in Operators : ActOK(act[c]) /\ Works(act[c], led, git)
BY Zenon DEF SettledOnce, Sound, SetShape

LEMMA RetainedMeans == caller_history_retained <=> Retained(led, git)
BY Zenon DEF caller_history_retained, Retained, session_verify

LEMMA OperatorNames ==
  ASSUME NEW c \in Operators
  PROVE  c # "none" /\ c # "host" /\ c # "sup"
BY Zenon, SettlementAssumption

(* Who has the lease is alone: no host and no Pi that shares it, and every
   other settlement is still before it. *)
LEMMA LeaseAlone ==
  ASSUME SettledOnce
  PROVE  /\ \A c \in Operators : act[c].at \notin Unleased =>
              /\ locks.ex = c /\ ~HostHolds /\ ~pi /\ sup.at \notin SupLeased
              /\ \A d \in Operators : d # c => act[d].at \in Unleased
         /\ sup.at \in SupLeased =>
              /\ locks.ex = "sup" /\ ~HostHolds /\ ~pi
              /\ \A d \in Operators : act[d].at \in Unleased
         /\ pi \/ HostHolds \/ locks.ex = "none" =>
              /\ locks.ex = "none" /\ sup.at \notin SupLeased
              /\ \A d \in Operators : act[d].at \in Unleased
<1>1. Fenced
  BY Zenon DEF SettledOnce
<1>2. ASSUME NEW c \in Operators, act[c].at \notin Unleased
      PROVE  /\ locks.ex = c /\ ~HostHolds /\ ~pi /\ sup.at \notin SupLeased
             /\ \A d \in Operators : d # c => act[d].at \in Unleased
  <2>1. c # "none" /\ c # "sup"
    BY Zenon, OperatorNames
  <2> QED
    BY Zenon, <1>1, <1>2, <2>1 DEF Fenced
<1>3. ASSUME sup.at \in SupLeased
      PROVE  /\ locks.ex = "sup" /\ ~HostHolds /\ ~pi
             /\ \A d \in Operators : act[d].at \in Unleased
  <2>1. locks.ex = "sup" /\ "sup" # "none"
    BY Zenon, <1>1, <1>3 DEF Fenced
  <2> QED
    BY Zenon, <1>1, <2>1, OperatorNames DEF Fenced
<1>4. ASSUME pi \/ HostHolds \/ locks.ex = "none"
      PROVE  /\ locks.ex = "none" /\ sup.at \notin SupLeased
             /\ \A d \in Operators : act[d].at \in Unleased
  <2>1. locks.ex = "none"
    BY Zenon, <1>1, <1>4 DEF Fenced
  <2>2. "none" # "sup"
    OBVIOUS
  <2> QED
    BY Zenon, <1>1, <2>1, <2>2, OperatorNames DEF Fenced
<1> QED
  BY Zenon, <1>2, <1>3, <1>4

(* What one process does to the two locks: it takes what is free and gives
   up what it has. *)
Relocked(c) ==
  /\ locks' = [x \in {"gate", "ex"} |-> locks'[x]]
  /\ \/ locks'.gate = locks.gate
     \/ locks.gate = c /\ locks'.gate = "none"
     \/ locks.gate = "none" /\ locks'.gate = c
  /\ \/ locks'.ex = locks.ex
     \/ locks.ex = c /\ locks'.ex = "none"
     \/ LeaseFree /\ locks'.ex = c

(* A step of one settlement. *)
LEMMA OperatorStep ==
  ASSUME SettledOnce, NEW c \in Operators, NEW a, ActOK(a),
         host' = host, pi' = pi, sup' = sup, act' = [act EXCEPT ![c] = a],
         Relocked(c), a.at = "intent" => locks'.gate = c,
         a.at \notin Unleased => locks'.ex = c,
         Sound(led', git'), Watches(sup, git'), led'.life.gen = led.life.gen,
         host.at = "admitted" => led'.intent = NoIntent,
         Works(a, led', git'),
         \A d \in Operators : d # c => Works(act[d], led', git')
  PROVE  SettledOnce'
<1>1. SetShape /\ Fenced
  BY Zenon DEF SettledOnce
<1>2. act' = [d \in Operators |-> act'[d]] /\ act'[c] = a
      /\ \A d \in Operators : d # c => act'[d] = act[d]
  BY Zenon, <1>1 DEF SetShape
<1>3. \A d \in Operators : ActOK(act'[d]) /\ Works(act'[d], led', git')
  BY Zenon, <1>1, <1>2 DEF SetShape
<1>4. c # "none" /\ c # "host" /\ c # "sup" /\ "none" # "sup" /\ "none" # "host"
  BY Zenon, OperatorNames
<1>5. SetShape'
  <2>1. locks'.gate \in Operators \cup {"host", "none"} /\ locks'.ex \in Operators \cup {"sup", "none"}
        /\ locks' = [x \in {"gate", "ex"} |-> locks'[x]]
    BY Zenon, <1>1 DEF Relocked, SetShape
  <2>2. LedOK(led') /\ GitOK(git')
    BY Zenon DEF Sound
  <2> QED
    BY Zenon, <1>1, <1>2, <1>3, <2>1, <2>2 DEF SetShape
<1>6. Fenced'
  <2>1. HostHolds' = HostHolds
    BY Zenon DEF HostHolds
  <2>2. host'.at \in {"open", "admitted", "started"} => locks'.gate = "host"
    BY Zenon, <1>1, <1>4 DEF Fenced, Relocked
  <2>3. locks'.ex # "none" => ~HostHolds /\ ~pi
    BY Zenon, <1>1 DEF Fenced, Relocked, LeaseFree
  <2>4. ASSUME NEW d \in Operators, act'[d].at = "intent" PROVE locks'.gate = d
    <3>1. d # "none"
      BY Zenon, OperatorNames
    <3> QED
      BY Zenon, <1>1, <1>2, <2>4, <3>1 DEF Fenced, Relocked
  <2>5. ASSUME NEW d \in Operators, act'[d].at \notin Unleased PROVE locks'.ex = d
    <3>1. d # "none"
      BY Zenon, OperatorNames
    <3> QED
      BY Zenon, <1>1, <1>2, <2>5, <3>1 DEF Fenced, Relocked, LeaseFree
  <2>6. sup'.at \in SupLeased => locks'.ex = "sup"
    BY Zenon, <1>1, <1>4 DEF Fenced, Relocked, LeaseFree
  <2>7. host'.at = "open" => host'.gen = led'.life.gen + 1
    BY Zenon, <1>1 DEF Fenced
  <2> QED
    BY Zenon, <2>1, <2>2, <2>3, <2>4, <2>5, <2>6, <2>7 DEF Fenced
<1> QED
  BY Zenon, <1>3, <1>5, <1>6 DEF SettledOnce, Sound

(* A step of a settlement that has the lease and leaves the intent alone. *)
LEMMA LeasedStep ==
  ASSUME SettledOnce, NEW c \in Operators, NEW a, ActOK(a), act[c].at \notin Unleased,
         host' = host, pi' = pi, sup' = sup, act' = [act EXCEPT ![c] = a],
         Relocked(c), a.at # "intent", a.at \notin Unleased => locks'.ex = c,
         Sound(led', git'), led'.life.gen = led.life.gen, led'.intent = led.intent,
         Works(a, led', git')
  PROVE  SettledOnce'
<1>1. SetShape /\ Fenced /\ \A d \in Operators : Works(act[d], led, git)
  BY Zenon, SettledParts
<1>2. sup.at \notin SupLeased /\ \A d \in Operators : d # c => act[d].at \in Unleased
  BY Zenon, LeaseAlone
<1>3. Watches(sup, git')
  BY Zenon, <1>2 DEF Watches, SupLeased
<1>4. \A d \in Operators : d # c => Works(act[d], led', git')
  BY Zenon, <1>1, <1>2, WorksOn
<1>5. host.at = "admitted" => led'.intent = NoIntent
  BY Zenon, <1>1 DEF Fenced
<1> QED
  BY Zenon, <1>3, <1>4, <1>5, OperatorStep

LEMMA ActEdit ==
  ASSUME NEW a, ActOK(a), NEW at
  PROVE  /\ ActOK([a EXCEPT !.at = at])
         /\ [a EXCEPT !.at = at].at = at
         /\ [a EXCEPT !.at = at].verb = a.verb
         /\ [a EXCEPT !.at = at].txn = a.txn
BY Zenon DEF ActOK, ActFields

LEMMA ActTxnEdit ==
  ASSUME NEW a, ActOK(a), NEW at, NEW t, TxnOK(t)
  PROVE  /\ ActOK([a EXCEPT !.at = at, !.txn = t])
         /\ [a EXCEPT !.at = at, !.txn = t].at = at
         /\ [a EXCEPT !.at = at, !.txn = t].verb = a.verb
         /\ [a EXCEPT !.at = at, !.txn = t].txn = t
BY Zenon DEF ActOK, ActFields

LEMMA AbsentWorks == \A l, g : Works(Absent, l, g)
BY Zenon, NoTxnFacts DEF Works, Merging, Fresh, Discarding

LEMMA LocksKept ==
  ASSUME SettledOnce, NEW c
  PROVE  /\ locks' = locks => Relocked(c)
         /\ Leave(c) => Relocked(c)
         /\ locks' = [locks EXCEPT !.gate = IF @ = c THEN "none" ELSE @] => Relocked(c)
         /\ locks' = [locks EXCEPT !.ex = IF @ = c THEN "none" ELSE @] => Relocked(c)
<1>1. locks = [x \in {"gate", "ex"} |-> locks[x]]
  BY Zenon DEF SettledOnce, SetShape
<1>2. locks' = locks => Relocked(c)
  BY Zenon, <1>1 DEF Relocked
<1>3. Leave(c) => Relocked(c)
  <2> SUFFICES ASSUME Leave(c) PROVE Relocked(c)
    OBVIOUS
  <2> DEFINE p == IF locks.gate = c THEN "none" ELSE locks.gate
             q == IF locks.ex = c THEN "none" ELSE locks.ex
  <2>1. locks' = [gate |-> p, ex |-> q]
    BY Zenon DEF Leave
  <2>2. p = locks.gate \/ (locks.gate = c /\ p = "none")
    BY Zenon
  <2>3. q = locks.ex \/ (locks.ex = c /\ q = "none")
    BY Zenon
  <2> HIDE DEF p, q
  <2>4. locks' = [x \in {"gate", "ex"} |-> locks'[x]] /\ locks'.gate = p /\ locks'.ex = q
    BY Zenon, <2>1
  <2> QED
    BY Zenon, <2>2, <2>3, <2>4 DEF Relocked
<1>4. locks' = [locks EXCEPT !.gate = IF @ = c THEN "none" ELSE @] => Relocked(c)
  BY Zenon, <1>1 DEF Relocked
<1>5. locks' = [locks EXCEPT !.ex = IF @ = c THEN "none" ELSE @] => Relocked(c)
  BY Zenon, <1>1 DEF Relocked
<1> QED
  BY Zenon, <1>2, <1>3, <1>4, <1>5

(* A settlement with the lease ends, its locks with it. *)
LEMMA LeasedLeaves ==
  ASSUME SettledOnce, NEW c \in Operators, act[c].at \notin Unleased,
         host' = host, pi' = pi, sup' = sup, Leave(c),
         Sound(led', git'), led'.life.gen = led.life.gen, led'.intent = led.intent
  PROVE  SettledOnce'
<1>1. ActOK(Absent) /\ Absent.at = "idle" /\ Works(Absent, led', git')
  BY Zenon, NoTxnFacts, AbsentWorks
<1>2. Absent.at \in Unleased /\ Absent.at # "intent"
  BY Zenon, <1>1 DEF Unleased
<1>3. act' = [act EXCEPT ![c] = Absent]
  BY Zenon DEF Leave
<1>4. Relocked(c)
  BY Zenon, LocksKept
<1> QED
  BY Zenon, <1>1, <1>2, <1>3, <1>4, LeasedStep

(* It goes on to its next step and keeps the lease. *)
LEMMA LeasedGoes ==
  ASSUME SettledOnce, NEW c \in Operators, act[c].at \notin Unleased,
         host' = host, pi' = pi, sup' = sup, locks' = locks,
         NEW a, ActOK(a), a.at # "intent", act' = [act EXCEPT ![c] = a],
         Sound(led', git'), led'.life.gen = led.life.gen, led'.intent = led.intent,
         Works(a, led', git')
  PROVE  SettledOnce'
<1>1. Relocked(c)
  BY Zenon, LocksKept
<1>2. locks'.ex = c
  BY Zenon, LeaseAlone
<1> QED
  BY Zenon, <1>1, <1>2, LeasedStep

(* It aborts its merge. *)
LEMMA LeasedAborts ==
  ASSUME SettledOnce, NEW c \in Operators, act[c].at \notin Unleased,
         host' = host, pi' = pi, sup' = sup, git' = git, abort_merge_start(c)
  PROVE  SettledOnce'
<1>1. Sound(led, git) /\ LedOK(led)
  BY Zenon, SettledParts DEF Sound
<1>2. Leave(c) /\ led' = [led EXCEPT !.txn = NoTxn]
  BY Zenon DEF abort_merge_start
<1>3. SameBook(led, led')
  BY Zenon, <1>1, <1>2, LedEdits
<1>4. Sound(led', git')
  BY Zenon, <1>1, <1>3, SoundKept
<1>5. led'.life.gen = led.life.gen /\ led'.intent = led.intent
  BY Zenon, <1>3 DEF SameBook, SameCase
<1> QED
  BY Zenon, <1>2, <1>4, <1>5, LeasedLeaves

-----------------------------------------------------------------------------
(* The steps of a settlement: gate, intent and lease. *)

LEMMA SettleStep ==
  ASSUME SettledOnce, NEW c \in Operators, Settle(c)
  PROVE  SettledOnce'
<1>1. PICK verb \in Ops, k \in Keys :
        act' = [act EXCEPT ![c] = [verb |-> verb, at |-> "gate", key |-> k, txn |-> NoTxn]]
  BY Zenon DEF Settle
<1> DEFINE a == [verb |-> verb, at |-> "gate", key |-> k, txn |-> NoTxn]
<1>2. ActOK(a) /\ a.at = "gate" /\ a.verb = verb
  BY Zenon, NoTxnFacts DEF ActOK, ActFields
<1>3. act' = [act EXCEPT ![c] = a]
  BY Zenon, <1>1
<1> HIDE DEF a
<1>4. /\ Sound(led, git) /\ Watches(sup, git) /\ Fenced
      /\ \A d \in Operators : Works(act[d], led, git)
  BY Zenon, SettledParts
<1>5. Works(a, led, git)
  BY Zenon, <1>2 DEF Works, Merging, Fresh, Discarding
<1>6. UNCHANGED <<host, pi, led, git, locks, sup>> /\ Relocked(c)
  BY Zenon, LocksKept DEF Settle
<1>7. a.at # "intent" /\ a.at \in Unleased
  BY Zenon, <1>2 DEF Unleased
<1>8. host.at = "admitted" => led'.intent = NoIntent
  BY Zenon, <1>4, <1>6 DEF Fenced
<1>9. /\ Sound(led', git') /\ Watches(sup, git') /\ Works(a, led', git')
      /\ led'.life.gen = led.life.gen /\ host' = host /\ pi' = pi /\ sup' = sup
      /\ \A d \in Operators : d # c => Works(act[d], led', git')
  BY Zenon, <1>4, <1>5, <1>6
<1> QED
  BY Zenon, <1>2, <1>3, <1>6, <1>7, <1>8, <1>9, OperatorStep

(* Whoever leaves changes nothing but its own place and locks. *)
LEMMA LeaveStep ==
  ASSUME SettledOnce, NEW c \in Operators, Leave(c),
         UNCHANGED <<host, pi, led, git, sup>>
  PROVE  SettledOnce'
<1>1. ActOK(Absent) /\ Absent.at = "idle" /\ Works(Absent, led', git')
  BY Zenon, NoTxnFacts, AbsentWorks
<1>2. Absent.at \in Unleased /\ Absent.at # "intent"
  BY Zenon, <1>1 DEF Unleased
<1>3. act' = [act EXCEPT ![c] = Absent]
  BY Zenon DEF Leave
<1>4. Relocked(c)
  BY Zenon, LocksKept
<1>5. /\ Sound(led, git) /\ Watches(sup, git) /\ Fenced
      /\ \A d \in Operators : Works(act[d], led, git)
  BY Zenon, SettledParts
<1>6. /\ Sound(led', git') /\ Watches(sup, git')
      /\ led'.life.gen = led.life.gen /\ host' = host /\ pi' = pi /\ sup' = sup
      /\ \A d \in Operators : d # c => Works(act[d], led', git')
      /\ (host.at = "admitted" => led'.intent = NoIntent)
  BY Zenon, <1>5 DEF Fenced
<1> QED
  BY Zenon, <1>1, <1>2, <1>3, <1>4, <1>6, OperatorStep

LEMMA TakeGateStep ==
  ASSUME SettledOnce, NEW c \in Operators, take_gate(c)
  PROVE  SettledOnce'
<1>1. CASE Leave(c)
  BY Zenon, <1>1, LeaveStep DEF take_gate
<1>2. CASE locks.gate = "none" /\ locks' = [locks EXCEPT !.gate = c] /\ Go(c, "intent")
  <2> DEFINE a == [act[c] EXCEPT !.at = "intent"]
  <2>1. /\ Sound(led, git) /\ Watches(sup, git) /\ SetShape /\ Fenced
        /\ \A d \in Operators : ActOK(act[d]) /\ Works(act[d], led, git)
    BY Zenon, SettledParts
  <2>2. ActOK(a) /\ a.at = "intent" /\ a.verb = act[c].verb
    BY Zenon, <2>1, ActEdit
  <2>3. act' = [act EXCEPT ![c] = a]
    BY Zenon, <1>2 DEF Go
  <2>4. act[c].verb \in Ops
    BY Zenon, <2>1 DEF Works, take_gate
  <2> HIDE DEF a
  <2>5. Works(a, led, git)
    BY Zenon, <2>2, <2>4 DEF Works, Merging, Fresh, Discarding
  <2>6. Relocked(c) /\ locks'.gate = c
    BY Zenon, <1>2, <2>1 DEF Relocked, SetShape
  <2>7. /\ Sound(led', git') /\ Watches(sup, git')
        /\ led'.life.gen = led.life.gen /\ host' = host /\ pi' = pi /\ sup' = sup
        /\ \A d \in Operators : d # c => Works(act[d], led', git')
        /\ (host.at = "admitted" => led'.intent = NoIntent)
        /\ Works(a, led', git')
    BY Zenon, <2>1, <2>5 DEF Fenced, take_gate
  <2>8. a.at \in Unleased
    BY Zenon, <2>2 DEF Unleased
  <2> QED
    BY Zenon, <2>2, <2>3, <2>6, <2>7, <2>8, OperatorStep
<1> QED
  BY Zenon, <1>1, <1>2 DEF take_gate

(* The intent is recorded under the gate, so no host is admitting; it is the
   first, so no settlement is past the gate and there is no outcome yet. *)
LEMMA IntentRecorded ==
  ASSUME SettledOnce, NEW k, NEW v \in Ops, led.intent = NoIntent,
         led' = [led EXCEPT !.intent = [op |-> operation(v), key |-> k, gen |-> led.life.gen]]
  PROVE  /\ Sound(led', git) /\ led'.intent # NoIntent /\ Serves(v, led'.intent.op)
         /\ led'.life.gen = led.life.gen
         /\ \A d \in Operators : Works(act[d], led', git)
<1> DEFINE fresh == [op |-> operation(v), key |-> k, gen |-> led.life.gen]
<1>1. Sound(led, git) /\ \A d \in Operators : Works(act[d], led, git)
  BY Zenon, SettledParts
<1>2. operation(v) \in {"merge", "cancel", "discard"} /\ Serves(v, operation(v))
  BY Zenon, SettlementAssumption DEF operation, Serves
<1>3. fresh.op = operation(v) /\ NoIntent.op = "none"
  BY Zenon DEF NoIntent
<1>4. led' = [led EXCEPT !.intent = fresh]
  BY Zenon
<1> HIDE DEF fresh
<1>5. LedOK(led') /\ led'.intent = fresh /\ led'.life = led.life /\ led'.status = led.status
      /\ led'.receipt = led.receipt /\ led'.txn = led.txn /\ led'.report = led.report
      /\ led'.proof = led.proof
  BY Zenon, <1>1, <1>2, <1>3, <1>4 DEF Sound, LedOK, LedFields
<1>6. led.status # "cancelled" /\ led.receipt = -1 /\ ~(git.landed > 0)
  BY Zenon, <1>1, <1>3 DEF Sound, Outcome
<1>7. Outcome(led', git) /\ Booked(led', git)
  BY Zenon, <1>1, <1>5, <1>6 DEF Sound, Outcome, Booked
<1>8. ASSUME NEW d \in Operators PROVE Works(act[d], led', git)
  <2>1. Works(act[d], led, git) /\ act[d].at \in {"idle", "gate", "intent"}
    BY Zenon, <1>1 DEF Works
  <2> QED
    BY Zenon, <2>1 DEF Works, Merging, Fresh, Discarding
<1>9. fresh # NoIntent
  BY Zenon, <1>2, <1>3
<1> QED
  BY Zenon, <1>1, <1>2, <1>3, <1>5, <1>7, <1>8, <1>9 DEF Sound

LEMMA RecordIntentStep ==
  ASSUME SettledOnce, NEW c \in Operators, record_intent(c)
  PROVE  SettledOnce'
<1> DEFINE v == act[c].verb
           k == act[c].key
           fresh == [op |-> operation(v), key |-> k, gen |-> led.life.gen]
           granted == IF led.intent = NoIntent THEN may_record(v) ELSE continues(v, k)
           a == [act[c] EXCEPT !.at = "lease"]
<1>1. /\ act[c].at = "intent"
      /\ led' = IF granted /\ led.intent = NoIntent THEN [led EXCEPT !.intent = fresh] ELSE led
      /\ IF granted
         THEN /\ Go(c, "lease")
              /\ locks' = [locks EXCEPT !.gate = IF @ = c THEN "none" ELSE @]
         ELSE Leave(c)
      /\ UNCHANGED <<host, pi, git, sup, trial>>
  BY Zenon DEF record_intent
<1>2. /\ Sound(led, git) /\ Watches(sup, git) /\ SetShape /\ Fenced
      /\ \A d \in Operators : ActOK(act[d]) /\ Works(act[d], led, git)
  BY Zenon, SettledParts
<1>3. v \in Ops
  BY Zenon, <1>1, <1>2 DEF Works
<1>4. CASE ~granted
  <2>1. Leave(c) /\ led' = led
    BY Zenon, <1>1, <1>4
  <2> QED
    BY Zenon, <1>1, <2>1, LeaveStep
<1>5. CASE granted
  <2>1. Go(c, "lease") /\ locks' = [locks EXCEPT !.gate = IF @ = c THEN "none" ELSE @]
    BY Zenon, <1>1, <1>5
  <2>2. /\ Sound(led', git) /\ led'.intent # NoIntent /\ Serves(v, led'.intent.op)
        /\ led'.life.gen = led.life.gen
        /\ \A d \in Operators : Works(act[d], led', git)
    <3>1. CASE led.intent = NoIntent
      <4>1. led' = [led EXCEPT !.intent = [op |-> operation(v), key |-> k, gen |-> led.life.gen]]
        BY Zenon, <1>1, <1>5, <3>1
      <4> QED
        BY Zenon, <1>3, <3>1, <4>1, IntentRecorded
    <3>2. CASE led.intent # NoIntent
      <4>1. led' = led /\ continues(v, k)
        BY Zenon, <1>1, <1>5, <3>2
      <4>2. led.intent.op = operation(v) \/ (v = "discard" /\ led.intent.op = "cancel")
        BY Zenon, <4>1 DEF continues
      <4>3. Serves(v, led.intent.op)
        BY Zenon, <1>3, <4>2, SettlementAssumption DEF operation, Serves
      <4> QED
        BY Zenon, <1>2, <3>2, <4>1, <4>3
    <3> QED
      BY Zenon, <3>1, <3>2
  <2>3. ActOK(a) /\ a.at = "lease" /\ a.verb = v
    BY Zenon, <1>2, ActEdit
  <2>4. act' = [act EXCEPT ![c] = a]
    BY Zenon, <2>1 DEF Go
  <2> HIDE DEF a, granted, fresh, v, k
  <2>5. Works(a, led', git)
    BY Zenon, <1>3, <2>2, <2>3 DEF Works, Merging, Fresh, Discarding
  <2>6. Relocked(c)
    BY Zenon, <2>1, LocksKept
  <2>7. host.at # "admitted"
    BY Zenon, <1>1, <1>2, OperatorNames DEF Fenced
  <2>8. /\ Sound(led', git') /\ Watches(sup, git') /\ Works(a, led', git')
        /\ host' = host /\ pi' = pi /\ sup' = sup
        /\ \A d \in Operators : d # c => Works(act[d], led', git')
    BY Zenon, <1>1, <1>2, <2>2, <2>5
  <2>9. a.at \in Unleased /\ a.at # "intent"
    BY Zenon, <2>3 DEF Unleased
  <2> QED
    BY Zenon, <2>2, <2>3, <2>4, <2>6, <2>7, <2>8, <2>9, OperatorStep
<1> QED
  BY Zenon, <1>4, <1>5

LEMMA AcquireStep ==
  ASSUME SettledOnce, NEW c \in Operators, acquire_exclusive(c)
  PROVE  SettledOnce'
<1>1. CASE Leave(c)
  BY Zenon, <1>1, LeaveStep DEF acquire_exclusive
<1>2. CASE /\ route(act[c].verb) # "reported" /\ LeaseFree
           /\ locks' = [locks EXCEPT !.ex = c] /\ Go(c, route(act[c].verb))
  <2> DEFINE r == route(act[c].verb)
             a == [act[c] EXCEPT !.at = r]
  <2>1. /\ Sound(led, git) /\ Watches(sup, git) /\ SetShape /\ Fenced
        /\ \A d \in Operators : ActOK(act[d]) /\ Works(act[d], led, git)
    BY Zenon, SettledParts
  <2>2. act[c].verb \in Ops /\ led.intent # NoIntent /\ Serves(act[c].verb, led.intent.op)
    BY Zenon, <2>1 DEF Works, acquire_exclusive
  <2>3. \/ r \in {"judge", "merge"} /\ act[c].verb \in {"merge", "salvage"}
        \/ r = "cancel" /\ act[c].verb = "cancel"
        \/ r = "discard" /\ act[c].verb = "discard"
    <3>1. act[c].verb \in {"merge", "salvage", "cancel", "discard"}
      BY Zenon, <2>2, SettlementAssumption
    <3> QED
      BY Zenon, <1>2, <3>1 DEF route, operation
  <2>4. act' = [act EXCEPT ![c] = a]
    BY Zenon, <1>2 DEF Go
  <2> HIDE DEF r
  <2>5. ActOK(a) /\ a.at = r /\ a.verb = act[c].verb
    BY Zenon, <2>1, ActEdit
  <2> HIDE DEF a
  <2>6. Works(a, led, git)
    BY Zenon, <2>2, <2>3, <2>5 DEF Works, Merging, Fresh, Discarding
  <2>7. Relocked(c) /\ locks'.ex = c
    BY Zenon, <1>2, <2>1 DEF Relocked, SetShape
  <2>8. /\ Sound(led', git') /\ Watches(sup, git') /\ Works(a, led', git')
        /\ host' = host /\ pi' = pi /\ sup' = sup /\ led'.life.gen = led.life.gen
        /\ \A d \in Operators : d # c => Works(act[d], led', git')
        /\ (host.at = "admitted" => led'.intent = NoIntent)
    BY Zenon, <2>1, <2>6 DEF acquire_exclusive, Fenced
  <2>9. a.at # "intent"
    BY Zenon, <2>3, <2>5
  <2> QED
    BY Zenon, <2>4, <2>5, <2>7, <2>8, <2>9, OperatorStep
<1> QED
  BY Zenon, <1>1, <1>2 DEF acquire_exclusive

-----------------------------------------------------------------------------
(* The steps of a settlement: `run merge` and `run salvage`. *)

(* What CallerMergeAuthority::verify found is there. *)
LEMMA VerifyMeans ==
  ASSUME SettledOnce, verify
  PROVE  /\ git.tip \in Nat /\ git.tip >= 0 /\ git.landed <= git.tip
         /\ git.there /\ ~git.broken /\ Retained(led, git)
<1>1. git.there /\ ~git.broken /\ Retained(led, git)
  BY Zenon, RetainedMeans DEF verify
<1>2. git.tip >= 0 /\ git.landed <= git.tip /\ git.tip \in Int
  BY Zenon, <1>1 DEF SettledOnce, SetShape, GitOK, Rooted
<1>3. git.tip \in Nat
  BY SMTT(60), <1>2
<1> QED
  BY Zenon, <1>1, <1>2, <1>3

(* A step under the lease that changes the record only as a fold may, and
   the branch only as a commit or a rebase does. *)
LEMMA LeasedFrame ==
  ASSUME SettledOnce, NEW c \in Operators, act[c].at \notin Unleased,
         SameBook(led, led'), Grows(git, git')
  PROVE  /\ Sound(led', git') /\ led'.life.gen = led.life.gen /\ led'.intent = led.intent
         /\ \A a : ActOK(a) /\ Works(a, led, git) => Works(a, led', git')
<1>1. Sound(led, git) /\ GitOK(git)
  BY Zenon, SettledParts DEF Sound
<1>2. Sound(led', git)
  BY Zenon, <1>1, SoundKept
<1>3. Sound(led', git')
  BY Zenon, <1>2, SoundKept
<1>4. SameCase(led, led')
  BY Zenon DEF SameBook
<1>5. ASSUME NEW a, ActOK(a), Works(a, led, git) PROVE Works(a, led', git')
  <2>1. Works(a, led', git)
    BY Zenon, <1>4, <1>5, WorksOn
  <2> QED
    BY Zenon, <1>1, <1>5, <2>1, GrowsKeeps
<1> QED
  BY Zenon, <1>3, <1>4, <1>5 DEF SameCase

LEMMA MergeStartedStep ==
  ASSUME SettledOnce, NEW c \in Operators, execute_caller_merge(c)
  PROVE  SettledOnce'
<1>1. act[c].at = "merge" /\ UNCHANGED <<host, pi, git, sup, trial>>
  BY Zenon DEF execute_caller_merge
<1>2. act[c].at \notin Unleased
  BY Zenon, <1>1 DEF Unleased
<1>3. /\ Sound(led, git) /\ \A d \in Operators : ActOK(act[d]) /\ Works(act[d], led, git)
  BY Zenon, SettledParts
<1>4. CASE Leave(c) /\ led' = led
  BY Zenon, <1>1, <1>4, LeaveStep
<1>5. CASE /\ verify
           /\ led' = [led EXCEPT !.proof = -1, !.txn = Snapshot]
           /\ act' = [act EXCEPT ![c].at = "rebase", ![c].txn = Snapshot]
           /\ locks' = locks
  <2>1. git.tip \in Int /\ git.landed \in Int /\ -1 \in Int /\ git.tip <= git.tip
    <3>1. git.tip \in Int /\ git.landed \in Nat
      BY Zenon, <1>3 DEF Sound, GitOK
    <3> QED
      BY SMTT(60), <3>1
  <2>2. Snapshot.tip = git.tip /\ TxnOK(Snapshot)
    BY Zenon, <2>1 DEF Snapshot, TxnOK
  <2> DEFINE a == [act[c] EXCEPT !.at = "rebase", !.txn = Snapshot]
  <2>3. act' = [act EXCEPT ![c] = a]
    BY Zenon, <1>5
  <2>4. ActOK(a) /\ a.at = "rebase" /\ a.verb = act[c].verb /\ a.txn = Snapshot
    <3>1. ActOK(act[c]) /\ TxnOK(Snapshot)
      BY Zenon, <1>3, <2>2
    <3> QED
      BY Zenon, <3>1 DEF ActOK, ActFields
  <2> HIDE DEF a
  <2>5. LedOK(led') /\ led'.intent = led.intent /\ led'.life = led.life
        /\ led'.status = led.status /\ led'.receipt = led.receipt /\ led'.txn = Snapshot
        /\ led'.report = led.report /\ led'.proof = -1
    BY Zenon, <1>3, <1>5, <2>1, <2>2 DEF Sound, LedOK, LedFields
  <2>6. Sound(led', git')
    <3>1. Outcome(led', git) /\ Booked(led', git)
      BY Zenon, <1>3, <2>1, <2>2, <2>5 DEF Sound, Outcome, Booked
    <3> QED
      BY Zenon, <1>1, <1>3, <2>5, <3>1 DEF Sound
  <2>7. Works(a, led', git')
    <3>1. Works(act[c], led, git) /\ act[c].at \in Merging /\ act[c].at \notin {"idle", "gate", "intent"}
      BY Zenon, <1>1, <1>3 DEF Merging
    <3>2. act[c].verb \in Ops /\ act[c].verb \in {"merge", "salvage"}
          /\ led.intent # NoIntent /\ Serves(act[c].verb, led.intent.op)
      BY Zenon, <3>1 DEF Works, Merging, Unleased
    <3>3. a.txn.tip <= git'.tip
      BY Zenon, <1>1, <2>1, <2>2, <2>4
    <3> QED
      BY Zenon, <2>4, <2>5, <3>2, <3>3 DEF Works, Discarding
  <2> QED
    BY Zenon, <1>1, <1>2, <1>5, <2>3, <2>4, <2>5, <2>6, <2>7, LeasedGoes
<1> QED
  BY Zenon, <1>4, <1>5 DEF execute_caller_merge

(* A merge goes from one place to the next. *)
LEMMA MergeGoes ==
  ASSUME SettledOnce, NEW c \in Operators, act[c].at \in Fresh, NEW to \in Fresh
  PROVE  /\ Works([act[c] EXCEPT !.at = to], led, git)
         /\ ActOK([act[c] EXCEPT !.at = to]) /\ [act[c] EXCEPT !.at = to].at # "intent"
<1> DEFINE a == [act[c] EXCEPT !.at = to]
<1>1. ActOK(act[c]) /\ Works(act[c], led, git)
  BY Zenon, SettledParts
<1>2. ActOK(a) /\ a.at = to /\ a.verb = act[c].verb /\ a.txn = act[c].txn
  BY Zenon, <1>1, ActEdit
<1>3. act[c].verb \in Ops /\ act[c].verb \in {"merge", "salvage"} /\ act[c].txn.tip <= git.tip
      /\ led.intent # NoIntent /\ Serves(act[c].verb, led.intent.op)
  BY Zenon, <1>1 DEF Works, Merging, Fresh
<1> HIDE DEF a
<1>4. Works(a, led, git) /\ a.at # "intent"
  BY Zenon, <1>2, <1>3 DEF Works, Fresh, Discarding
<1> QED
  BY Zenon, <1>2, <1>4 DEF a

LEMMA RebaseStartsStep ==
  ASSUME SettledOnce, NEW c \in Operators, rebase_starts(c)
  PROVE  SettledOnce'
<1>1. act[c].at = "rebase" /\ UNCHANGED <<host, pi, sup, trial>>
  BY Zenon DEF rebase_starts
<1>2. act[c].at \notin Unleased /\ act[c].at \in Fresh
  BY Zenon, <1>1 DEF Unleased, Fresh
<1>3. LedOK(led) /\ GitOK(git)
  BY Zenon, SettledParts DEF Sound
<1>4. CASE abort_merge_start(c) /\ git' = git
  BY Zenon, <1>1, <1>2, <1>4, LeasedAborts
<1>5. CASE /\ Go(c, IF Integrated THEN "proof" ELSE "rebasing")
           /\ git' = [git EXCEPT !.rebasing = ~Integrated]
           /\ led' = led /\ locks' = locks
  <2> DEFINE to == IF Integrated THEN "proof" ELSE "rebasing"
  <2>1. to \in Fresh /\ act' = [act EXCEPT ![c] = [act[c] EXCEPT !.at = to]]
    BY Zenon, <1>5 DEF Fresh, Go
  <2>2. SameBook(led, led') /\ Grows(git, git')
    BY Zenon, <1>3, <1>5, LedEdits, GitEdits
  <2> HIDE DEF to
  <2>3. /\ Works([act[c] EXCEPT !.at = to], led, git)
        /\ ActOK([act[c] EXCEPT !.at = to]) /\ [act[c] EXCEPT !.at = to].at # "intent"
    BY Zenon, <1>2, <2>1, MergeGoes
  <2>4. /\ Sound(led', git') /\ led'.life.gen = led.life.gen /\ led'.intent = led.intent
        /\ Works([act[c] EXCEPT !.at = to], led', git')
    BY Zenon, <1>2, <2>2, <2>3, LeasedFrame
  <2> QED
    BY Zenon, <1>1, <1>2, <1>5, <2>1, <2>3, <2>4, LeasedGoes
<1> QED
  BY Zenon, <1>4, <1>5 DEF rebase_starts

LEMMA RebaseEndsStep ==
  ASSUME SettledOnce, NEW c \in Operators, rebase_ends(c)
  PROVE  SettledOnce'
<1>1. act[c].at = "rebasing" /\ UNCHANGED <<host, pi, sup>>
  BY Zenon DEF rebase_ends
<1>2. act[c].at \notin Unleased /\ act[c].at \in Fresh /\ "proof" \in Fresh
  BY Zenon, <1>1 DEF Unleased, Fresh
<1>3. LedOK(led) /\ GitOK(git)
  BY Zenon, SettledParts DEF Sound
<1>4. CASE abort_merge_start(c) /\ git' = git
  BY Zenon, <1>1, <1>2, <1>4, LeasedAborts
<1>5. CASE /\ git' = [git EXCEPT !.rebasing = FALSE, !.base = act[c].txn.src]
           /\ Go(c, "proof") /\ led' = led /\ locks' = locks
  <2>1. act' = [act EXCEPT ![c] = [act[c] EXCEPT !.at = "proof"]]
    BY Zenon, <1>5 DEF Go
  <2>2. SameBook(led, led') /\ Grows(git, git')
    BY Zenon, <1>3, <1>5, LedEdits, GitEdits
  <2>3. /\ Works([act[c] EXCEPT !.at = "proof"], led, git)
        /\ ActOK([act[c] EXCEPT !.at = "proof"]) /\ [act[c] EXCEPT !.at = "proof"].at # "intent"
    BY Zenon, <1>2, MergeGoes
  <2>4. /\ Sound(led', git') /\ led'.life.gen = led.life.gen /\ led'.intent = led.intent
        /\ Works([act[c] EXCEPT !.at = "proof"], led', git')
    BY Zenon, <1>2, <2>2, <2>3, LeasedFrame
  <2> QED
    BY Zenon, <1>1, <1>2, <1>5, <2>1, <2>3, <2>4, LeasedGoes
<1> QED
  BY Zenon, <1>4, <1>5 DEF rebase_ends

LEMMA BeforeRefMoveStep ==
  ASSUME SettledOnce, NEW c \in Operators, before_ref_move(c)
  PROVE  SettledOnce'
<1>1. act[c].at = "proof" /\ UNCHANGED <<host, pi, git, sup, trial>>
  BY Zenon DEF before_ref_move
<1>2. act[c].at \notin Unleased /\ act[c].at \in Fresh /\ "ff" \in Fresh
  BY Zenon, <1>1 DEF Unleased, Fresh
<1>3. Sound(led, git)
  BY Zenon, SettledParts
<1>4. CASE abort_merge_start(c)
  BY Zenon, <1>1, <1>2, <1>4, LeasedAborts
<1>5. CASE verify /\ led' = [led EXCEPT !.proof = git.tip] /\ Go(c, "ff") /\ locks' = locks
  <2>1. act' = [act EXCEPT ![c] = [act[c] EXCEPT !.at = "ff"]]
    BY Zenon, <1>5 DEF Go
  <2>2. git.tip >= 0 /\ git.tip \in Int
    BY Zenon, <1>3, <1>5, VerifyMeans DEF Sound, GitOK
  <2>3. LedOK(led') /\ led'.intent = led.intent /\ led'.life = led.life /\ led'.bound = led.bound
        /\ led'.status = led.status /\ led'.receipt = led.receipt /\ led'.txn = led.txn
        /\ led'.report = led.report /\ led'.proof = git.tip
    BY Zenon, <1>3, <1>5, <2>2 DEF Sound, LedOK, LedFields
  <2>4. Sound(led', git')
    <3>1. Outcome(led', git) /\ Booked(led', git)
      BY Zenon, <1>3, <2>2, <2>3 DEF Sound, Outcome, Booked
    <3> QED
      BY Zenon, <1>1, <1>3, <2>3, <3>1 DEF Sound
  <2>5. SameCase(led, led')
    BY Zenon, <2>3 DEF SameCase
  <2>6. /\ Works([act[c] EXCEPT !.at = "ff"], led, git)
        /\ ActOK([act[c] EXCEPT !.at = "ff"]) /\ [act[c] EXCEPT !.at = "ff"].at # "intent"
    BY Zenon, <1>2, MergeGoes
  <2>7. Works([act[c] EXCEPT !.at = "ff"], led', git)
    BY Zenon, <2>5, <2>6, WorksOn
  <2>8. Works([act[c] EXCEPT !.at = "ff"], led', git')
    BY Zenon, <1>1, <2>7
  <2>9. led'.life.gen = led.life.gen /\ led'.intent = led.intent
    BY Zenon, <2>5 DEF SameCase
  <2> QED
    BY Zenon, <1>1, <1>2, <1>5, <2>1, <2>4, <2>6, <2>8, <2>9, LeasedGoes
<1> QED
  BY Zenon, <1>4, <1>5 DEF before_ref_move

(* The ref moves: everything on the branch, the transaction with it, is in
   the source, and the intent on record is a merge. *)
LEMMA FastForwardStep ==
  ASSUME SettledOnce, NEW c \in Operators, fast_forward(c)
  PROVE  SettledOnce'
<1>1. act[c].at = "ff" /\ UNCHANGED <<host, pi, sup, trial>>
  BY Zenon DEF fast_forward
<1>2. act[c].at \notin Unleased
  BY Zenon, <1>1 DEF Unleased
<1>3. Sound(led, git) /\ ActOK(act[c]) /\ Works(act[c], led, git)
  BY Zenon, SettledParts
<1>4. CASE abort_merge_start(c) /\ git' = git
  BY Zenon, <1>1, <1>2, <1>4, LeasedAborts
<1>5. CASE /\ verify /\ git' = [git EXCEPT !.landed = git.tip]
           /\ Go(c, "report") /\ led' = led /\ locks' = locks
  <2> DEFINE a == [act[c] EXCEPT !.at = "report"]
  <2>1. act' = [act EXCEPT ![c] = a]
    BY Zenon, <1>5 DEF Go
  <2>2. ActOK(a) /\ a.at = "report" /\ a.verb = act[c].verb /\ a.txn = act[c].txn
    BY Zenon, <1>3, ActEdit
  <2> HIDE DEF a
  <2>3. git.tip \in Nat /\ git.landed <= git.tip
    BY Zenon, <1>5, VerifyMeans
  <2>4. GitOK(git') /\ git'.tip = git.tip /\ git'.landed = git.tip /\ git'.there = git.there
    BY Zenon, <1>3, <1>5, <2>3 DEF Sound, GitOK, GitFields
  <2>5. act[c].verb \in Ops /\ act[c].verb \in {"merge", "salvage"} /\ act[c].txn.tip <= git.tip
        /\ led.intent # NoIntent /\ Serves(act[c].verb, led.intent.op)
    BY Zenon, <1>1, <1>3 DEF Works, Merging, Fresh
  <2>6. led.intent.op = "merge"
    BY Zenon, <2>5 DEF Serves
  <2>7. Works(a, led', git')
    BY Zenon, <1>5, <2>2, <2>4, <2>5 DEF Works, Fresh, Discarding
  <2>8. Rooted(git')
    <3>1. git.tip <= git.tip
      BY SMTT(60), <2>3
    <3> QED
      BY Zenon, <1>3, <2>4, <3>1 DEF Sound, Rooted
  <2>9. Booked(led, git')
    <3>1. ASSUME led.report # NoTxn PROVE led.report.tip <= git.tip
      <4>1. led.report.tip \in Int /\ led.report.tip <= git.landed /\ git.landed \in Nat
        BY Zenon, <1>3, <3>1 DEF Sound, Booked, LedOK, TxnOK, GitOK
      <4> QED
        BY SMTT(60), <2>3, <4>1
    <3> QED
      BY Zenon, <1>3, <2>4, <3>1 DEF Sound, Booked
  <2>10. Outcome(led, git')
    BY Zenon, <1>3, <2>6 DEF Sound, Outcome
  <2>11. Sound(led', git') /\ led'.life.gen = led.life.gen /\ led'.intent = led.intent
    BY Zenon, <1>3, <1>5, <2>4, <2>8, <2>9, <2>10 DEF Sound
  <2>12. a.at # "intent"
    BY Zenon, <2>2
  <2> QED
    BY Zenon, <1>1, <1>2, <1>5, <2>1, <2>2, <2>7, <2>11, <2>12, LeasedGoes
<1> QED
  BY Zenon, <1>4, <1>5 DEF fast_forward

(* The report of a landed transaction fits Git, as does what a recovery makes
   of one. *)
LEMMA ReportSound ==
  ASSUME NEW l, NEW g, Sound(l, g), NEW t, TxnOK(t), t.tip <= g.landed
  PROVE  Sound(reduce_merge_report(l, t), g) /\ SameCase(l, reduce_merge_report(l, t))
<1>1. LedOK(l)
  BY Zenon DEF Sound
<1> DEFINE m == reduce_merge_report(l, t)
<1>2. /\ SameCase(l, m) /\ m.status = l.status
      /\ m = l \/ (m.txn = NoTxn /\ m.report = t)
  BY Zenon, <1>1, ReportEdit
<1> HIDE DEF m
<1>3. Sound(m, g)
  <2>1. LedOK(m) /\ Outcome(m, g)
    BY Zenon, <1>2 DEF SameCase, Sound, Outcome
  <2>2. Booked(m, g)
    BY Zenon, <1>2 DEF Sound, Booked
  <2> QED
    BY Zenon, <2>1, <2>2 DEF Sound
<1> QED
  BY Zenon, <1>2, <1>3 DEF m

LEMMA ResolveSound ==
  ASSUME NEW l, NEW g, Sound(l, g), NEW t, TxnOK(t), NEW v,
         v = "complete" => t.tip <= g.landed
  PROVE  Sound(resolve(l, t, v), g) /\ SameCase(l, resolve(l, t, v))
<1>1. LedOK(l)
  BY Zenon DEF Sound
<1>2. SameBook(l, l) /\ SameBook(l, [l EXCEPT !.txn = NoTxn])
  BY Zenon, <1>1, LedEdits
<1>3. Sound(l, g) /\ SameCase(l, l) /\ Sound([l EXCEPT !.txn = NoTxn], g)
      /\ SameCase(l, [l EXCEPT !.txn = NoTxn])
  BY Zenon, <1>2, SoundKept DEF SameBook
<1>4. v = "complete" => Sound(reduce_merge_report(l, t), g) /\ SameCase(l, reduce_merge_report(l, t))
  BY Zenon, ReportSound
<1>5. \/ resolve(l, t, v) = l \/ resolve(l, t, v) = [l EXCEPT !.txn = NoTxn]
      \/ v = "complete" /\ resolve(l, t, v) = reduce_merge_report(l, t)
  BY Zenon DEF resolve
<1> QED
  BY Zenon, <1>3, <1>4, <1>5

(* A recovery completes only what the source has: the proof pins it. *)
LEMMA VerdictComplete ==
  ASSUME SettledOnce, led.txn # NoTxn, caller_verdict(led.txn) = "complete"
  PROVE  led.txn.tip <= git.landed
<1>1. Booked(led, git) /\ led.txn.tip \in Int /\ led.proof \in Int /\ git.landed \in Nat
  BY Zenon DEF SettledOnce, SetShape, LedOK, TxnOK, GitOK
<1>2. CASE check_source(led.txn) /\ led.txn.tip = led.txn.landed
  <2>1. led.txn.tip = git.landed
    BY Zenon, <1>2 DEF check_source
  <2> QED
    BY SMTT(60), <1>1, <2>1
<1>3. CASE led.proof # -1 /\ ~(led.proof > git.landed)
  <2>1. led.txn.tip <= led.proof
    BY Zenon, <1>1, <1>3 DEF Booked
  <2> QED
    BY SMTT(60), <1>1, <1>3, <2>1
<1> QED
  BY Zenon, <1>2, <1>3 DEF caller_verdict

LEMMA ReportMergeStep ==
  ASSUME SettledOnce, NEW c \in Operators, report_merge(c)
  PROVE  SettledOnce'
<1>1. /\ act[c].at = "report" /\ Leave(c) /\ UNCHANGED <<host, pi, git, sup, trial>>
      /\ led' = IF verify THEN reduce_merge_report(led, act[c].txn) ELSE led
  BY Zenon DEF report_merge
<1>2. act[c].at \notin Unleased
  BY Zenon, <1>1 DEF Unleased
<1>3. Sound(led, git) /\ ActOK(act[c]) /\ Works(act[c], led, git)
  BY Zenon, SettledParts
<1>4. act[c].txn.tip <= git.landed /\ TxnOK(act[c].txn)
  BY Zenon, <1>1, <1>3 DEF Works, ActOK
<1>5. Sound(reduce_merge_report(led, act[c].txn), git)
      /\ SameCase(led, reduce_merge_report(led, act[c].txn))
  BY Zenon, <1>3, <1>4, ReportSound
<1>6. led' = led \/ led' = reduce_merge_report(led, act[c].txn)
  BY Zenon, <1>1
<1>7. Sound(led', git') /\ led'.life.gen = led.life.gen /\ led'.intent = led.intent
  BY Zenon, <1>1, <1>3, <1>5, <1>6 DEF SameCase
<1> QED
  BY Zenon, <1>1, <1>2, <1>7, LeasedLeaves

-----------------------------------------------------------------------------
(* The steps of a settlement: recovery, cancel and discard. *)

LEMMA VerdictPlaces ==
  ASSUME NEW t, caller_verdict(t) # "unknown"
  PROVE  caller_verdict(t) \in {"complete", "reject"}
BY Zenon DEF caller_verdict

LEMMA RecoverJudgesStep ==
  ASSUME SettledOnce, NEW c \in Operators, recover_judges(c)
  PROVE  SettledOnce'
<1>1. act[c].at = "judge" /\ UNCHANGED <<host, pi, led, git, sup, trial>>
  BY Zenon DEF recover_judges
<1>2. act[c].at \notin Unleased
  BY Zenon, <1>1 DEF Unleased
<1>3. Sound(led, git) /\ ActOK(act[c]) /\ Works(act[c], led, git) /\ TxnOK(led.txn)
  BY Zenon, SettledParts DEF Sound, LedOK
<1>4. CASE Leave(c)
  BY Zenon, <1>1, <1>4, LeaveStep
<1>5. CASE /\ led.txn # NoTxn /\ caller_verdict(led.txn) # "unknown"
           /\ act' = [act EXCEPT ![c].txn = led.txn, ![c].at = caller_verdict(led.txn)]
           /\ locks' = locks
  <2> DEFINE v == caller_verdict(led.txn)
             a == [act[c] EXCEPT !.at = v, !.txn = led.txn]
  <2>1. v \in {"complete", "reject"}
    BY Zenon, <1>5, VerdictPlaces
  <2>2. v = "complete" => led.txn.tip <= git.landed
    BY Zenon, <1>5, VerdictComplete
  <2>3. act' = [act EXCEPT ![c] = [act[c] EXCEPT !.txn = led.txn, !.at = v]]
    BY Zenon, <1>5
  <2> HIDE DEF v
  <2>4. [act[c] EXCEPT !.txn = led.txn, !.at = v] = a
    BY Zenon, <1>3 DEF ActOK, ActFields
  <2>5. ActOK(a) /\ a.at = v /\ a.verb = act[c].verb /\ a.txn = led.txn
    BY Zenon, <1>3 DEF ActOK, ActFields
  <2>6. act' = [act EXCEPT ![c] = a]
    BY Zenon, <2>3, <2>4
  <2> HIDE DEF a
  <2>7. act[c].verb \in Ops /\ act[c].verb \in {"merge", "salvage"}
        /\ led.intent # NoIntent /\ Serves(act[c].verb, led.intent.op)
    BY Zenon, <1>1, <1>3 DEF Works, Merging
  <2>8. Works(a, led, git)
    BY Zenon, <2>1, <2>2, <2>5, <2>7 DEF Works, Fresh, Discarding
  <2>9. /\ Sound(led', git') /\ led'.life.gen = led.life.gen /\ led'.intent = led.intent
        /\ Works(a, led', git')
    BY Zenon, <1>1, <1>3, <2>8
  <2>10. a.at # "intent"
    BY Zenon, <2>1, <2>5
  <2> QED
    BY Zenon, <1>1, <1>2, <1>5, <2>5, <2>6, <2>9, <2>10, LeasedGoes
<1> QED
  BY Zenon, <1>4, <1>5 DEF recover_judges

LEMMA RecoverResolvesStep ==
  ASSUME SettledOnce, NEW c \in Operators, recover_resolves(c)
  PROVE  SettledOnce'
<1>1. /\ act[c].at \in {"complete", "reject"} /\ UNCHANGED <<host, pi, git, sup, trial>>
      /\ led' = IF verify THEN resolve(led, act[c].txn, act[c].at) ELSE led
  BY Zenon DEF recover_resolves
<1>2. act[c].at \notin Unleased
  BY Zenon, <1>1 DEF Unleased
<1>3. Sound(led, git) /\ ActOK(act[c]) /\ Works(act[c], led, git) /\ SetShape
  BY Zenon, SettledParts
<1>4. (act[c].at = "complete" => act[c].txn.tip <= git.landed) /\ TxnOK(act[c].txn)
  BY Zenon, <1>3 DEF Works, ActOK
<1>5. Sound(resolve(led, act[c].txn, act[c].at), git)
      /\ SameCase(led, resolve(led, act[c].txn, act[c].at))
  BY Zenon, <1>3, <1>4, ResolveSound
<1>6. led' = led \/ led' = resolve(led, act[c].txn, act[c].at)
  BY Zenon, <1>1
<1>7. Sound(led', git') /\ led'.life.gen = led.life.gen /\ led'.intent = led.intent
  BY Zenon, <1>1, <1>3, <1>5, <1>6 DEF SameCase
<1>8. CASE Leave(c)
  BY Zenon, <1>1, <1>2, <1>7, <1>8, LeasedLeaves
<1>9. CASE /\ act' = [act EXCEPT ![c].at = "lease", ![c].txn = NoTxn]
           /\ locks' = [locks EXCEPT !.ex = "none"]
  <2> DEFINE a == [act[c] EXCEPT !.at = "lease", !.txn = NoTxn]
  <2>1. act' = [act EXCEPT ![c] = a]
    BY Zenon, <1>9
  <2>2. ActOK(a) /\ a.at = "lease" /\ a.verb = act[c].verb
    BY Zenon, <1>3, NoTxnFacts DEF ActOK, ActFields
  <2> HIDE DEF a
  <2>3. act[c].verb \in Ops /\ led.intent # NoIntent /\ Serves(act[c].verb, led.intent.op)
    BY Zenon, <1>1, <1>3 DEF Works
  <2>4. Works(a, led', git')
    BY Zenon, <1>7, <2>2, <2>3 DEF Works, Merging, Fresh, Discarding
  <2>5. locks.ex = c
    BY Zenon, <1>2, LeaseAlone
  <2>6. Relocked(c)
    BY Zenon, <1>3, <1>9, <2>5 DEF Relocked, SetShape
  <2>7. a.at \in Unleased /\ a.at # "intent"
    BY Zenon, <2>2 DEF Unleased
  <2>8. host' = host /\ pi' = pi /\ sup' = sup
    BY Zenon, <1>1
  <2> QED
    BY Zenon, <1>2, <1>7, <2>1, <2>2, <2>4, <2>6, <2>7, <2>8, LeasedStep
<1> QED
  BY Zenon, <1>8, <1>9 DEF recover_resolves

LEMMA CancelStep ==
  ASSUME SettledOnce, NEW c \in Operators, cancel_caller(c)
  PROVE  SettledOnce'
<1> DEFINE m == [led EXCEPT !.status = "cancelled", !.node = "cancelled", !.txn = NoTxn]
<1>1. /\ act[c].at = "cancel" /\ Leave(c) /\ UNCHANGED <<host, pi, git, sup, trial>>
      /\ led' = led \/ led' = m
  BY Zenon DEF cancel_caller
<1>2. act[c].at \notin Unleased
  BY Zenon, <1>1 DEF Unleased
<1>3. Sound(led, git) /\ Works(act[c], led, git)
  BY Zenon, SettledParts
<1>4. LedOK(m) /\ m.intent = led.intent /\ m.life = led.life /\ m.receipt = led.receipt
      /\ m.txn = NoTxn /\ m.report = led.report
  BY Zenon, <1>3, NoTxnFacts DEF Sound, LedOK, LedFields, Statuses
<1> HIDE DEF m
<1>5. led.intent.op = "cancel"
  BY Zenon, <1>1, <1>3 DEF Works, Serves
<1>6. Sound(m, git)
  <2>1. Outcome(m, git) /\ Booked(m, git)
    BY Zenon, <1>3, <1>4, <1>5 DEF Sound, Outcome, Booked
  <2> QED
    BY Zenon, <1>3, <1>4, <2>1 DEF Sound
<1>7. Sound(led', git') /\ led'.life.gen = led.life.gen /\ led'.intent = led.intent
  BY Zenon, <1>1, <1>3, <1>4, <1>6
<1> QED
  BY Zenon, <1>1, <1>2, <1>7, LeasedLeaves

LEMMA AuthorizeStep ==
  ASSUME SettledOnce, NEW c \in Operators, authorize_discard(c)
  PROVE  SettledOnce'
<1> DEFINE target == IF git.tip >= 0 THEN git.tip ELSE led.receipt
           m == [led EXCEPT !.receipt = target]
           to == IF git.there THEN "drop" ELSE "prune"
<1>1. /\ act[c].at = "discard" /\ UNCHANGED <<host, pi, git, sup, trial>>
      /\ \/ target # -1 /\ led' = m /\ Go(c, to) /\ locks' = locks
         \/ led' = led /\ Leave(c)
  BY Zenon DEF authorize_discard
<1>2. act[c].at \notin Unleased
  BY Zenon, <1>1 DEF Unleased
<1>3. Sound(led, git) /\ ActOK(act[c]) /\ Works(act[c], led, git)
  BY Zenon, SettledParts
<1>4. CASE led' = led /\ Leave(c)
  BY Zenon, <1>1, <1>4, LeaveStep
<1>5. CASE target # -1 /\ led' = m /\ Go(c, to) /\ locks' = locks
  <2> DEFINE a == [act[c] EXCEPT !.at = to]
  <2>1. act' = [act EXCEPT ![c] = a]
    BY Zenon, <1>5 DEF Go
  <2>2. to \in {"drop", "prune"} /\ target \in Int
    BY Zenon, <1>3 DEF Sound, GitOK, LedOK
  <2> HIDE DEF to, target
  <2>3. ActOK(a) /\ a.at = to /\ a.verb = act[c].verb
    BY Zenon, <1>3, ActEdit
  <2> HIDE DEF a
  <2>4. LedOK(m) /\ m.intent = led.intent /\ m.life = led.life /\ m.receipt = target
        /\ m.txn = led.txn /\ m.report = led.report /\ m.proof = led.proof
        /\ m.status = led.status
    BY Zenon, <1>3, <2>2 DEF Sound, LedOK, LedFields
  <2> HIDE DEF m
  <2>5. act[c].verb \in Ops /\ act[c].verb = "discard"
        /\ led.intent # NoIntent /\ Serves(act[c].verb, led.intent.op)
    BY Zenon, <1>1, <1>3 DEF Works, Discarding
  <2>6. led.intent.op \in {"discard", "cancel"}
    BY Zenon, <2>5 DEF Serves
  <2>7. Sound(m, git)
    <3>1. Outcome(m, git) /\ Booked(m, git)
      BY Zenon, <1>3, <2>4, <2>6 DEF Sound, Outcome, Booked
    <3> QED
      BY Zenon, <1>3, <2>4, <3>1 DEF Sound
  <2>8. Works(a, m, git)
    BY Zenon, <1>5, <2>2, <2>3, <2>4, <2>5 DEF Works, Merging, Fresh
  <2>9. /\ Sound(led', git') /\ led'.life.gen = led.life.gen /\ led'.intent = led.intent
        /\ Works(a, led', git') /\ host' = host /\ pi' = pi /\ sup' = sup /\ locks' = locks
    BY Zenon, <1>1, <1>5, <2>4, <2>7, <2>8
  <2>10. a.at # "intent"
    BY Zenon, <2>2, <2>3
  <2> QED
    BY Zenon, <1>2, <2>1, <2>3, <2>9, <2>10, LeasedGoes
<1> QED
  BY Zenon, <1>1, <1>4, <1>5

(* A discard goes on to a later place of its own. *)
LEMMA DiscardGoes ==
  ASSUME SettledOnce, NEW c \in Operators, act[c].at \in {"drop", "dropping"},
         NEW to \in {"dropping", "prune"}, NEW h,
         to = "dropping" => h.broken /\ Retained(led, h)
  PROVE  /\ Works([act[c] EXCEPT !.at = to], led, h)
         /\ ActOK([act[c] EXCEPT !.at = to]) /\ [act[c] EXCEPT !.at = to].at # "intent"
<1> DEFINE a == [act[c] EXCEPT !.at = to]
<1>1. ActOK(act[c]) /\ Works(act[c], led, git)
  BY Zenon, SettledParts
<1>2. ActOK(a) /\ a.at = to /\ a.verb = act[c].verb
  BY Zenon, <1>1, ActEdit
<1> HIDE DEF a
<1>3. act[c].verb \in Ops /\ act[c].verb = "discard" /\ led.receipt # -1
      /\ led.intent # NoIntent /\ Serves(act[c].verb, led.intent.op)
  BY Zenon, <1>1 DEF Works, Discarding
<1>4. Works(a, led, h) /\ a.at # "intent"
  BY Zenon, <1>2, <1>3 DEF Works, Merging, Fresh
<1> QED
  BY Zenon, <1>2, <1>4 DEF a

LEMMA DropCheckoutStep ==
  ASSUME SettledOnce, NEW c \in Operators, drop_checkout(c)
  PROVE  SettledOnce'
<1>1. act[c].at = "drop" /\ UNCHANGED <<host, pi, led, sup, trial>>
  BY Zenon DEF drop_checkout
<1>2. act[c].at \notin Unleased
  BY Zenon, <1>1 DEF Unleased
<1>3. Sound(led, git)
  BY Zenon, SettledParts
<1>4. CASE Leave(c) /\ git' = git
  BY Zenon, <1>1, <1>4, LeaveStep
<1>5. CASE verify /\ git' = [git EXCEPT !.broken = TRUE] /\ Go(c, "dropping") /\ locks' = locks
  <2>1. Retained(led, git)
    BY Zenon, <1>5, VerifyMeans
  <2>2. GitOK(git') /\ git'.tip = git.tip /\ git'.landed = git.landed /\ git'.there = git.there
        /\ git'.hist = git.hist /\ git'.broken
    BY Zenon, <1>3, <1>5 DEF Sound, GitOK, GitFields
  <2>3. Sound(led, git')
    BY Zenon, <1>3, <2>2 DEF Sound, Outcome, Rooted, Booked
  <2>4. Retained(led, git')
    BY Zenon, <2>1, <2>2 DEF Retained
  <2>5. act[c].at \in {"drop", "dropping"} /\ "dropping" \in {"dropping", "prune"}
    BY Zenon, <1>1
  <2>6. /\ Works([act[c] EXCEPT !.at = "dropping"], led, git')
        /\ ActOK([act[c] EXCEPT !.at = "dropping"])
        /\ [act[c] EXCEPT !.at = "dropping"].at # "intent"
    BY Zenon, <2>2, <2>4, <2>5, DiscardGoes
  <2>7. act' = [act EXCEPT ![c] = [act[c] EXCEPT !.at = "dropping"]]
    BY Zenon, <1>5 DEF Go
  <2>8. /\ Sound(led', git') /\ led'.life.gen = led.life.gen /\ led'.intent = led.intent
        /\ Works([act[c] EXCEPT !.at = "dropping"], led', git')
        /\ host' = host /\ pi' = pi /\ sup' = sup /\ locks' = locks
    BY Zenon, <1>1, <1>5, <2>3, <2>6
  <2> QED
    BY Zenon, <1>2, <2>6, <2>7, <2>8, LeasedGoes
<1> QED
  BY Zenon, <1>4, <1>5 DEF drop_checkout

LEMMA DropEndsStep ==
  ASSUME SettledOnce, NEW c \in Operators, drop_ends(c)
  PROVE  SettledOnce'
<1>1. /\ act[c].at = "dropping" /\ UNCHANGED <<host, pi, led, locks, sup, trial>> /\ Go(c, "prune")
      /\ git' = [git EXCEPT !.there = FALSE, !.broken = FALSE, !.dirty = FALSE, !.rebasing = FALSE]
  BY Zenon DEF drop_ends
<1>2. act[c].at \notin Unleased
  BY Zenon, <1>1 DEF Unleased
<1>3. Sound(led, git)
  BY Zenon, SettledParts
<1>4. GitOK(git') /\ git'.tip = git.tip /\ git'.landed = git.landed /\ ~git'.there
  BY Zenon, <1>1, <1>3 DEF Sound, GitOK, GitFields
<1>5. Sound(led, git')
  BY Zenon, <1>3, <1>4 DEF Sound, Outcome, Rooted, Booked
<1>6. act[c].at \in {"drop", "dropping"} /\ "prune" \in {"dropping", "prune"} /\ "prune" # "dropping"
  BY Zenon, <1>1
<1>7. /\ Works([act[c] EXCEPT !.at = "prune"], led, git')
      /\ ActOK([act[c] EXCEPT !.at = "prune"]) /\ [act[c] EXCEPT !.at = "prune"].at # "intent"
  BY Zenon, <1>6, DiscardGoes
<1>8. act' = [act EXCEPT ![c] = [act[c] EXCEPT !.at = "prune"]]
  BY Zenon, <1>1 DEF Go
<1>9. /\ Sound(led', git') /\ led'.life.gen = led.life.gen /\ led'.intent = led.intent
      /\ Works([act[c] EXCEPT !.at = "prune"], led', git')
      /\ host' = host /\ pi' = pi /\ sup' = sup /\ locks' = locks
  BY Zenon, <1>1, <1>5, <1>7
<1> QED
  BY Zenon, <1>2, <1>7, <1>8, <1>9, LeasedGoes

(* A branch without a checkout is deleted. *)
LEMMA UnbranchedSound ==
  ASSUME NEW l, NEW g, Sound(l, g), ~g.there
  PROVE  Sound(l, [g EXCEPT !.tip = -1])
<1> DEFINE h == [g EXCEPT !.tip = -1]
<1>1. -1 \in Int /\ ~(-1 >= 0)
  BY SMTT(60)
<1>2. GitOK(h) /\ h.tip = -1 /\ h.landed = g.landed /\ h.there = g.there
  BY Zenon, <1>1 DEF Sound, GitOK, GitFields
<1> HIDE DEF h
<1>3. Sound(l, h)
  BY Zenon, <1>1, <1>2 DEF Sound, Outcome, Rooted, Booked
<1> QED
  BY Zenon, <1>3 DEF h

LEMMA PruneBranchStep ==
  ASSUME SettledOnce, NEW c \in Operators, prune_branch(c)
  PROVE  SettledOnce'
<1>1. /\ act[c].at = "prune" /\ Leave(c) /\ UNCHANGED <<host, pi, led, sup, trial>>
      /\ git' = git \/ (~git.there /\ git' = [git EXCEPT !.tip = -1])
  BY Zenon DEF prune_branch
<1>2. act[c].at \notin Unleased
  BY Zenon, <1>1 DEF Unleased
<1>3. Sound(led, git)
  BY Zenon, SettledParts
<1>4. Sound(led, git')
  <2>1. ~git.there => Sound(led, [git EXCEPT !.tip = -1])
    BY Zenon, <1>3, UnbranchedSound
  <2> QED
    BY Zenon, <1>1, <1>3, <2>1
<1>5. Sound(led', git') /\ led'.life.gen = led.life.gen /\ led'.intent = led.intent
  BY Zenon, <1>1, <1>4
<1> QED
  BY Zenon, <1>1, <1>2, <1>5, LeasedLeaves

LEMMA OperatorKilledStep ==
  ASSUME SettledOnce, NEW c \in Operators, OperatorKilled(c)
  PROVE  SettledOnce'
BY Zenon, LeaveStep DEF OperatorKilled

-----------------------------------------------------------------------------
(* The steps of the supervisor. *)

SupOK(s) == s = [x \in {"at", "txn"} |-> s[x]] /\ TxnOK(s.txn)

LEMMA SupEdits ==
  ASSUME SettledOnce
  PROVE  /\ SupOK(sup)
         /\ \A at : SupOK([sup EXCEPT !.at = at]) /\ [sup EXCEPT !.at = at].at = at
         /\ \A at : SupOK([at |-> at, txn |-> NoTxn]) /\ [at |-> at, txn |-> NoTxn].at = at
         /\ \A at, t : TxnOK(t) => /\ SupOK([sup EXCEPT !.at = at, !.txn = t])
                                   /\ [sup EXCEPT !.at = at, !.txn = t].at = at
                                   /\ [sup EXCEPT !.at = at, !.txn = t].txn = t
<1>1. SupOK(sup)
  BY Zenon DEF SettledOnce, SetShape, SupOK
<1>2. ASSUME NEW at PROVE SupOK([sup EXCEPT !.at = at]) /\ [sup EXCEPT !.at = at].at = at
  BY Zenon, <1>1 DEF SupOK
<1>3. ASSUME NEW at PROVE SupOK([at |-> at, txn |-> NoTxn]) /\ [at |-> at, txn |-> NoTxn].at = at
  BY Zenon, NoTxnFacts DEF SupOK
<1>4. ASSUME NEW at, NEW t, TxnOK(t)
      PROVE  /\ SupOK([sup EXCEPT !.at = at, !.txn = t])
             /\ [sup EXCEPT !.at = at, !.txn = t].at = at
             /\ [sup EXCEPT !.at = at, !.txn = t].txn = t
  BY Zenon, <1>1, <1>4 DEF SupOK
<1> QED
  BY Zenon, <1>1, <1>2, <1>3, <1>4

LEMMA SupStep ==
  ASSUME SettledOnce, host' = host, pi' = pi, act' = act,
         SupOK(sup'), Relocked("sup"), locks'.gate = locks.gate,
         sup'.at \in SupLeased => locks'.ex = "sup",
         Sound(led', git'), Watches(sup', git'),
         led'.life.gen = led.life.gen, led'.intent = led.intent,
         \A d \in Operators : Works(act[d], led', git')
  PROVE  SettledOnce'
<1>1. SetShape /\ Fenced
  BY Zenon DEF SettledOnce
<1>2. SetShape'
  <2>1. locks'.ex \in Operators \cup {"sup", "none"} /\ locks' = [x \in {"gate", "ex"} |-> locks'[x]]
    BY Zenon, <1>1 DEF Relocked, SetShape
  <2>2. LedOK(led') /\ GitOK(git')
    BY Zenon DEF Sound
  <2> QED
    BY Zenon, <1>1, <2>1, <2>2 DEF SetShape, SupOK
<1>3. Fenced'
  <2>1. HostHolds' = HostHolds
    BY Zenon DEF HostHolds
  <2>2. locks'.ex # "none" => ~HostHolds /\ ~pi
    BY Zenon, <1>1 DEF Fenced, Relocked, LeaseFree
  <2>3. ASSUME NEW d \in Operators, act[d].at \notin Unleased PROVE locks'.ex = d
    <3>1. d # "none" /\ d # "sup"
      BY Zenon, OperatorNames
    <3> QED
      BY Zenon, <1>1, <2>3, <3>1 DEF Fenced, Relocked, LeaseFree
  <2> QED
    BY Zenon, <1>1, <2>1, <2>2, <2>3 DEF Fenced
<1> QED
  BY Zenon, <1>2, <1>3 DEF SettledOnce, Sound

(* The supervisor records, Git stays. *)
LEMMA SupRecords ==
  ASSUME SettledOnce, host' = host, pi' = pi, act' = act, git' = git,
         SupOK(sup'), Relocked("sup"), locks'.gate = locks.gate,
         sup'.at \in SupLeased => locks'.ex = "sup",
         Sound(led', git), SameCase(led, led'), Watches(sup', git)
  PROVE  SettledOnce'
<1>1. \A d \in Operators : Works(act[d], led, git)
  BY Zenon, SettledParts
<1>2. \A d \in Operators : Works(act[d], led', git')
  BY Zenon, <1>1, WorksOn
<1>3. led'.life.gen = led.life.gen /\ led'.intent = led.intent
  BY Zenon DEF SameCase
<1>4. Sound(led', git') /\ Watches(sup', git')
  OBVIOUS
<1> QED
  BY Zenon, <1>2, <1>3, <1>4, SupStep

(* What the supervisor does to the locks. *)
LEMMA SupLocks ==
  ASSUME SettledOnce
  PROVE  /\ locks' = locks => Relocked("sup") /\ locks'.gate = locks.gate
         /\ Unlease => Relocked("sup") /\ locks'.gate = locks.gate
         /\ LeaseFor("sup") => Relocked("sup") /\ locks'.gate = locks.gate /\ locks'.ex = "sup"
         /\ locks' = locks /\ sup.at \in SupLeased => locks'.ex = "sup"
<1>1. locks = [x \in {"gate", "ex"} |-> locks[x]] /\ Fenced
  BY Zenon DEF SettledOnce, SetShape
<1>2. locks' = locks => Relocked("sup") /\ locks'.gate = locks.gate
  BY Zenon, <1>1 DEF Relocked
<1>3. Unlease => Relocked("sup") /\ locks'.gate = locks.gate
  BY Zenon, <1>1 DEF Relocked, Unlease
<1>4. LeaseFor("sup") => Relocked("sup") /\ locks'.gate = locks.gate /\ locks'.ex = "sup"
  BY Zenon, <1>1 DEF Relocked, LeaseFor
<1>5. locks' = locks /\ sup.at \in SupLeased => locks'.ex = "sup"
  BY Zenon, <1>1 DEF Fenced
<1> QED
  BY Zenon, <1>2, <1>3, <1>4, <1>5

LEMMA RecoverRunStep ==
  ASSUME SettledOnce, recover_run
  PROVE  SettledOnce'
<1>1. /\ led.txn # NoTxn /\ LeaseFor("sup") /\ UNCHANGED <<host, pi, led, git, act, trial>>
      /\ \/ /\ caller_verdict(led.txn) # "unknown"
            /\ sup' = [sup EXCEPT !.at = caller_verdict(led.txn), !.txn = led.txn]
         \/ sup' = [sup EXCEPT !.at = "release"]
  BY Zenon DEF recover_run, Put
<1>2. Sound(led, git) /\ LedOK(led) /\ TxnOK(led.txn)
  BY Zenon, SettledParts DEF Sound, LedOK
<1>3. Relocked("sup") /\ locks'.gate = locks.gate /\ locks'.ex = "sup"
  BY Zenon, <1>1, SupLocks
<1>4. SupOK(sup') /\ Watches(sup', git)
  <2>1. CASE sup' = [sup EXCEPT !.at = "release"]
    <3>1. SupOK(sup') /\ sup'.at = "release"
      BY Zenon, <2>1, SupEdits
    <3> QED
      BY Zenon, <3>1 DEF Watches
  <2>2. CASE /\ caller_verdict(led.txn) # "unknown"
             /\ sup' = [sup EXCEPT !.at = caller_verdict(led.txn), !.txn = led.txn]
    <3>1. SupOK(sup') /\ sup'.at = caller_verdict(led.txn) /\ sup'.txn = led.txn
      <4>1. SupOK(sup)
        BY Zenon, SupEdits
      <4> QED
        BY Zenon, <1>2, <2>2, <4>1 DEF SupOK
    <3>2. caller_verdict(led.txn) \in {"complete", "reject"}
      BY Zenon, <2>2, VerdictPlaces
    <3>3. caller_verdict(led.txn) = "complete" => led.txn.tip <= git.landed
      BY Zenon, <1>1, VerdictComplete
    <3> QED
      BY Zenon, <3>1, <3>2, <3>3 DEF Watches
  <2> QED
    BY Zenon, <1>1, <2>1, <2>2
<1>5. Sound(led', git) /\ SameCase(led, led') /\ host' = host /\ pi' = pi /\ act' = act /\ git' = git
  BY Zenon, <1>1, <1>2 DEF SameCase
<1> QED
  BY Zenon, <1>3, <1>4, <1>5, SupRecords

LEMMA RecoverNodeStep ==
  ASSUME SettledOnce, recover_caller_node
  PROVE  SettledOnce'
<1>1. /\ sup.at \in {"complete", "reject"} /\ UNCHANGED <<host, pi, git, locks, act, trial>>
      /\ led' = led \/ led' = resolve(led, sup.txn, sup.at)
      /\ sup' = [sup EXCEPT !.at = "release"]
  BY Zenon DEF recover_caller_node, Put
<1>2. Sound(led, git) /\ LedOK(led) /\ Watches(sup, git) /\ SupOK(sup)
  BY Zenon, SettledParts, SupEdits DEF Sound
<1>3. sup.at = "complete" => sup.txn.tip <= git.landed
  BY Zenon, <1>2 DEF Watches
<1>4. TxnOK(sup.txn)
  BY Zenon, <1>2 DEF SupOK
<1>5. Sound(resolve(led, sup.txn, sup.at), git) /\ SameCase(led, resolve(led, sup.txn, sup.at))
  BY Zenon, <1>2, <1>3, <1>4, ResolveSound
<1>6. SameCase(led, led)
  BY Zenon, <1>2 DEF SameCase
<1>7. Sound(led', git) /\ SameCase(led, led')
  BY Zenon, <1>1, <1>2, <1>5, <1>6
<1>8. SupOK(sup') /\ sup'.at = "release"
  BY Zenon, <1>1, SupEdits
<1>9. Watches(sup', git)
  BY Zenon, <1>8 DEF Watches
<1>10. locks' = locks /\ sup.at \in SupLeased
  BY Zenon, <1>1 DEF SupLeased
<1>11. Relocked("sup") /\ locks'.gate = locks.gate /\ locks'.ex = "sup"
  BY Zenon, <1>10, SupLocks
<1>12. host' = host /\ pi' = pi /\ act' = act /\ git' = git
  BY Zenon, <1>1
<1> QED
  BY Zenon, <1>7, <1>8, <1>9, <1>11, <1>12, SupRecords

(* The supervisor changes its place without the record or Git. *)
LEMMA SupMoves ==
  ASSUME SettledOnce, UNCHANGED <<host, pi, led, git, act>>, locks' = locks \/ Unlease,
         SupOK(sup'), sup'.at \in {"idle", "done", "down"}
  PROVE  SettledOnce'
<1>1. Sound(led, git) /\ LedOK(led)
  BY Zenon, SettledParts DEF Sound
<1>2. Relocked("sup") /\ locks'.gate = locks.gate
  BY Zenon, SupLocks
<1>3. Watches(sup', git) /\ sup'.at \notin SupLeased
  BY Zenon DEF Watches, SupLeased
<1>4. Sound(led', git) /\ SameCase(led, led') /\ host' = host /\ pi' = pi /\ act' = act /\ git' = git
  BY Zenon, <1>1 DEF SameCase
<1> QED
  BY Zenon, <1>2, <1>3, <1>4, SupRecords

LEMMA TickOverStep ==
  ASSUME SettledOnce, TickOver \/ cleanup_done \/ SupervisorKilled \/ Reattach
  PROVE  SettledOnce'
<1>1. PICK at \in {"idle", "done", "down"} : sup' = [at |-> at, txn |-> NoTxn]
  BY Zenon DEF TickOver, cleanup_done, SupervisorKilled, Reattach
<1>2. UNCHANGED <<host, pi, led, git, act>> /\ (locks' = locks \/ Unlease)
  BY Zenon DEF TickOver, cleanup_done, SupervisorKilled, Reattach
<1>3. SupOK(sup') /\ sup'.at = at
  BY Zenon, <1>1, SupEdits
<1>4. sup'.at \in {"idle", "done", "down"}
  BY Zenon, <1>3
<1> QED
  BY Zenon, <1>2, <1>3, <1>4, SupMoves

(* The roll-up never cancels. *)
LEMMA RollUpStep ==
  ASSUME SettledOnce, roll_up
  PROVE  SettledOnce'
<1>1. /\ UNCHANGED <<host, pi, git, locks, act, sup, trial>>
      /\ led.node \in {"done", "failed"} /\ led' = [led EXCEPT !.status = led.node]
  BY Zenon DEF roll_up
<1>2. Sound(led, git) /\ Watches(sup, git) /\ SupOK(sup) /\ Fenced
  BY Zenon, SettledParts, SupEdits
<1>3. LedOK(led') /\ led'.intent = led.intent /\ led'.life = led.life /\ led'.bound = led.bound
      /\ led'.receipt = led.receipt /\ led'.txn = led.txn /\ led'.report = led.report
      /\ led'.proof = led.proof /\ led'.status = led.node
  BY Zenon, <1>1, <1>2 DEF Sound, LedOK, LedFields
<1>4. led'.status # "cancelled"
  BY Zenon, <1>1, <1>3
<1>5. Sound(led', git)
  <2>1. Outcome(led', git) /\ Booked(led', git)
    BY Zenon, <1>2, <1>3, <1>4 DEF Sound, Outcome, Booked
  <2> QED
    BY Zenon, <1>2, <1>3, <2>1 DEF Sound
<1>6. SameCase(led, led')
  BY Zenon, <1>3 DEF SameCase
<1>7. Relocked("sup") /\ locks'.gate = locks.gate
  BY Zenon, <1>1, SupLocks
<1>8. SupOK(sup') /\ Watches(sup', git) /\ (sup'.at \in SupLeased => locks'.ex = "sup")
      /\ host' = host /\ pi' = pi /\ act' = act /\ git' = git
  BY Zenon, <1>1, <1>2 DEF Fenced
<1> QED
  BY Zenon, <1>5, <1>6, <1>7, <1>8, SupRecords

LEMMA PreserveFacts ==
  ASSUME SettledOnce
  PROVE  /\ Preserve => SameBook(led, led')
         /\ led' = [led EXCEPT !.verified = TRUE] => SameBook(led, led')
         /\ led' = led => SameBook(led, led')
<1>1. LedOK(led)
  BY Zenon, SettledParts DEF Sound
<1>2. SameBook(led, led) /\ SameBook(led, [led EXCEPT !.kept = TRUE])
      /\ SameBook(led, [led EXCEPT !.verified = TRUE])
  BY Zenon, <1>1, LedEdits
<1> QED
  BY Zenon, <1>2 DEF Preserve

(* The supervisor has nothing left to do and leaves. *)
LEMMA CleanupLeavesStep ==
  ASSUME SettledOnce, cleanup_failed \/ cleanup_cancelled \/ cleanup_discarded
  PROVE  SettledOnce'
<1>1. /\ sup' = [sup EXCEPT !.at = "done"] /\ UNCHANGED <<host, pi, git, locks, act, trial>>
      /\ Preserve \/ led' = led
  BY Zenon DEF cleanup_failed, cleanup_cancelled, cleanup_discarded, Put
<1>2. Sound(led, git)
  BY Zenon, SettledParts
<1>3. SameBook(led, led')
  BY Zenon, <1>1, PreserveFacts
<1>4. Sound(led', git) /\ SameCase(led, led')
  BY Zenon, <1>2, <1>3, SoundKept DEF SameBook
<1>5. SupOK(sup') /\ sup'.at = "done"
  BY Zenon, <1>1, SupEdits
<1>6. Watches(sup', git) /\ sup'.at \notin SupLeased
  BY Zenon, <1>5 DEF Watches, SupLeased
<1>7. Relocked("sup") /\ locks'.gate = locks.gate
  BY Zenon, <1>1, SupLocks
<1>8. host' = host /\ pi' = pi /\ act' = act /\ git' = git
  BY Zenon, <1>1
<1> QED
  BY Zenon, <1>4, <1>5, <1>6, <1>7, <1>8, SupRecords

LEMMA CleanupMergedStep ==
  ASSUME SettledOnce, cleanup_merged
  PROVE  SettledOnce'
<1>1. /\ LeaseFor("sup") /\ UNCHANGED <<host, pi, git, act, trial>>
      /\ Preserve \/ led' = [led EXCEPT !.verified = TRUE]
      /\ \/ sup' = [sup EXCEPT !.at = "remove"]
         \/ sup' = [sup EXCEPT !.at = "release"]
         \/ ~git.there /\ sup' = [sup EXCEPT !.at = "unbranch"]
  BY Zenon DEF cleanup_merged, Put
<1>2. Sound(led, git)
  BY Zenon, SettledParts
<1>3. SameBook(led, led')
  BY Zenon, <1>1, PreserveFacts
<1>4. Sound(led', git) /\ SameCase(led, led')
  BY Zenon, <1>2, <1>3, SoundKept DEF SameBook
<1>5. SupOK(sup') /\ (sup'.at \in {"remove", "release"} \/ (~git.there /\ sup'.at = "unbranch"))
  <2>1. PICK at : /\ sup' = [sup EXCEPT !.at = at]
                  /\ at \in {"remove", "release"} \/ (~git.there /\ at = "unbranch")
    BY Zenon, <1>1
  <2>2. SupOK(sup') /\ sup'.at = at
    BY Zenon, <2>1, SupEdits
  <2> QED
    BY Zenon, <2>1, <2>2
<1>6. Watches(sup', git)
  BY Zenon, <1>5 DEF Watches
<1>7. Relocked("sup") /\ locks'.gate = locks.gate /\ locks'.ex = "sup"
  BY Zenon, <1>1, SupLocks
<1>8. host' = host /\ pi' = pi /\ act' = act /\ git' = git
  BY Zenon, <1>1
<1> QED
  BY Zenon, <1>4, <1>5, <1>6, <1>7, <1>8, SupRecords

(* A removal that does not go through is preserved. *)
LEMMA SupPreserves ==
  ASSUME SettledOnce, sup.at \in SupLeased, UNCHANGED <<host, pi, git, locks, act, trial>>,
         Preserve, Put("release")
  PROVE  SettledOnce'
<1>1. Sound(led, git)
  BY Zenon, SettledParts
<1>2. SameBook(led, led')
  BY Zenon, PreserveFacts
<1>3. Sound(led', git) /\ SameCase(led, led')
  BY Zenon, <1>1, <1>2, SoundKept DEF SameBook
<1>4. SupOK(sup') /\ sup'.at = "release"
  BY Zenon, SupEdits DEF Put
<1>5. Watches(sup', git)
  BY Zenon, <1>4 DEF Watches
<1>6. Relocked("sup") /\ locks'.gate = locks.gate /\ locks'.ex = "sup"
  BY Zenon, SupLocks
<1>7. host' = host /\ pi' = pi /\ act' = act /\ git' = git
  OBVIOUS
<1> QED
  BY Zenon, <1>3, <1>4, <1>5, <1>6, <1>7, SupRecords

(* The supervisor removes something under the lease: no settlement minds. *)
LEMMA SupRemoves ==
  ASSUME SettledOnce, sup.at \in SupLeased, UNCHANGED <<host, pi, led, locks, act, trial>>,
         NEW at, Put(at), Sound(led, git'), ~git'.there, at \in {"unbranch", "finished"}
  PROVE  SettledOnce'
<1>1. \A d \in Operators : Works(act[d], led, git) /\ act[d].at \in Unleased
  BY Zenon, SettledParts, LeaseAlone
<1>2. led' = led /\ led'.intent = led.intent /\ led'.life.gen = led.life.gen
  OBVIOUS
<1>3. \A d \in Operators : Works(act[d], led', git')
  BY Zenon, <1>1, <1>2, WorksOn
<1>4. SupOK(sup') /\ sup'.at = at
  BY Zenon, SupEdits DEF Put
<1>5. Watches(sup', git')
  BY Zenon, <1>4 DEF Watches
<1>6. Relocked("sup") /\ locks'.gate = locks.gate /\ locks'.ex = "sup"
  BY Zenon, SupLocks
<1>7. Sound(led', git') /\ host' = host /\ pi' = pi /\ act' = act
  BY Zenon, <1>2
<1> QED
  BY ZenonT(60), <1>2, <1>3, <1>4, <1>5, <1>6, <1>7, SupStep

LEMMA RemoveWorktreeStep ==
  ASSUME SettledOnce, remove_worktree
  PROVE  SettledOnce'
<1>1. sup.at \in SupLeased /\ UNCHANGED <<host, pi, locks, act, trial>>
  BY Zenon DEF remove_worktree, SupLeased
<1>2. CASE Preserve /\ Put("release") /\ git' = git
  BY Zenon, <1>1, <1>2, SupPreserves
<1>3. CASE git' = [git EXCEPT !.there = FALSE] /\ Put("unbranch") /\ led' = led
  <2>1. Sound(led, git)
    BY Zenon, SettledParts
  <2>2. GitOK(git') /\ git'.tip = git.tip /\ git'.landed = git.landed /\ ~git'.there
    BY Zenon, <1>3, <2>1 DEF Sound, GitOK, GitFields
  <2>3. Sound(led, git')
    BY Zenon, <2>1, <2>2 DEF Sound, Outcome, Rooted, Booked
  <2> QED
    BY Zenon, <1>1, <1>3, <2>2, <2>3, SupRemoves
<1> QED
  BY Zenon, <1>2, <1>3 DEF remove_worktree

LEMMA DeleteBranchStep ==
  ASSUME SettledOnce, delete_branch
  PROVE  SettledOnce'
<1>1. sup.at = "unbranch" /\ sup.at \in SupLeased /\ UNCHANGED <<host, pi, locks, act, trial>>
  BY Zenon DEF delete_branch, SupLeased
<1>2. CASE Preserve /\ Put("release") /\ git' = git
  BY Zenon, <1>1, <1>2, SupPreserves
<1>3. CASE git' = [git EXCEPT !.tip = -1] /\ Put("finished") /\ led' = led
  <2>1. Sound(led, git) /\ ~git.there
    BY Zenon, <1>1, SettledParts DEF Watches
  <2>2. Sound(led, git')
    BY Zenon, <1>3, <2>1, UnbranchedSound
  <2>3. ~git'.there
    BY Zenon, <1>3, <2>1 DEF Sound, GitOK, GitFields
  <2> QED
    BY Zenon, <1>1, <1>3, <2>2, <2>3, SupRemoves
<1> QED
  BY Zenon, <1>2, <1>3 DEF delete_branch

-----------------------------------------------------------------------------
(* The steps of the host, of Pi and of the world. *)

HostOK(h) == h = [x \in {"at", "gen"} |-> h[x]] /\ h.at \in HostPlaces /\ h.gen \in 0 .. MaxGen

LEMMA HostFrame ==
  ASSUME SettledOnce, act' = act, sup' = sup, HostOK(host'), pi' \in BOOLEAN,
         Relocked("host"), locks'.ex = locks.ex,
         host'.at \in {"open", "admitted", "started"} => locks'.gate = "host",
         host'.at = "open" => host'.gen = led'.life.gen + 1,
         host'.at = "admitted" => led'.intent = NoIntent,
         locks.ex # "none" => ~HostHolds' /\ ~pi',
         Sound(led', git'), Watches(sup, git'),
         \A d \in Operators : Works(act[d], led', git')
  PROVE  SettledOnce'
<1>1. SetShape /\ Fenced
  BY Zenon DEF SettledOnce
<1>2. SetShape'
  <2>1. locks'.gate \in Operators \cup {"host", "none"} /\ locks'.ex \in Operators \cup {"sup", "none"}
        /\ locks' = [x \in {"gate", "ex"} |-> locks'[x]]
    BY Zenon, <1>1 DEF Relocked, SetShape
  <2>2. LedOK(led') /\ GitOK(git')
    BY Zenon DEF Sound
  <2> QED
    BY Zenon, <1>1, <2>1, <2>2 DEF SetShape, HostOK
<1>3. Fenced'
  <2>1. ASSUME NEW d \in Operators, act[d].at = "intent" PROVE locks'.gate = d
    <3>1. d # "none" /\ d # "host"
      BY Zenon, OperatorNames
    <3> QED
      BY Zenon, <1>1, <2>1, <3>1 DEF Fenced, Relocked
  <2> QED
    BY Zenon, <1>1, <2>1 DEF Fenced
<1> QED
  BY Zenon, <1>2, <1>3 DEF SettledOnce, Sound

LEMMA HostFacts ==
  ASSUME SettledOnce
  PROVE  /\ HostOK(host) /\ pi \in BOOLEAN
         /\ locks = [x \in {"gate", "ex"} |-> locks[x]]
         /\ Sound(led, git) /\ LedOK(led) /\ GitOK(git) /\ Watches(sup, git) /\ Fenced
         /\ \A d \in Operators : ActOK(act[d]) /\ Works(act[d], led, git)
BY Zenon DEF SettledOnce, SetShape, HostOK, Sound

LEMMA HostEdit ==
  ASSUME NEW h, HostOK(h), NEW at \in HostPlaces
  PROVE  /\ HostOK([h EXCEPT !.at = at]) /\ [h EXCEPT !.at = at].at = at
         /\ [h EXCEPT !.at = at].gen = h.gen
BY Zenon DEF HostOK

LEMMA HostClosesFacts ==
  ASSUME SettledOnce, HostCloses
  PROVE  /\ HostOK(host') /\ host'.at = "off" /\ ~HostHolds'
         /\ Relocked("host") /\ locks'.ex = locks.ex
<1>1. locks = [x \in {"gate", "ex"} |-> locks[x]]
  BY Zenon, HostFacts
<1>2. 0 \in 0 .. MaxGen
  BY SMTT(60), SettlementAssumption
<1>3. HostOK(host') /\ host'.at = "off"
  BY Zenon, <1>2 DEF HostCloses, HostOK, HostPlaces
<1>4. ~HostHolds'
  BY Zenon, <1>3 DEF HostHolds
<1>5. Relocked("host") /\ locks'.ex = locks.ex
  BY Zenon, <1>1 DEF HostCloses, Relocked
<1> QED
  BY Zenon, <1>3, <1>4, <1>5

(* The host refuses, reaps or dies. *)
LEMMA HostClosesStep ==
  ASSUME SettledOnce, HostRefused \/ HostReaps \/ HostCrash
  PROVE  SettledOnce'
<1>1. HostCloses /\ UNCHANGED <<led, git, act, sup>> /\ pi' \in {pi, FALSE}
  BY Zenon DEF HostRefused, HostReaps, HostCrash
<1>2. /\ HostOK(host') /\ host'.at = "off" /\ ~HostHolds'
      /\ Relocked("host") /\ locks'.ex = locks.ex
  BY Zenon, <1>1, HostClosesFacts
<1>3. /\ Sound(led, git) /\ Watches(sup, git) /\ Fenced /\ pi \in BOOLEAN
      /\ \A d \in Operators : Works(act[d], led, git)
  BY Zenon, HostFacts
<1>4. pi' \in BOOLEAN /\ (locks.ex # "none" => ~pi')
  <2>1. CASE pi' = pi
    BY Zenon, <1>3, <2>1 DEF Fenced
  <2>2. CASE pi' = FALSE
    BY Zenon, <2>2
  <2> QED
    BY Zenon, <1>1, <2>1, <2>2
<1>5. /\ Sound(led', git') /\ Watches(sup, git') /\ act' = act /\ sup' = sup
      /\ \A d \in Operators : Works(act[d], led', git')
  BY Zenon, <1>1, <1>3
<1>6. "off" \notin {"open", "admitted", "started"}
  BY Zenon
<1> QED
  BY Zenon, <1>2, <1>4, <1>5, <1>6, HostFrame

LEMMA HostOpensStep ==
  ASSUME SettledOnce, HostOpens
  PROVE  SettledOnce'
<1>1. /\ locks.gate = "none" /\ locks.ex = "none" /\ led.life.gen < MaxGen
      /\ host' = [at |-> "open", gen |-> led.life.gen + 1]
      /\ locks' = [locks EXCEPT !.gate = "host"] /\ UNCHANGED <<pi, led, git, act, sup>>
  BY Zenon DEF HostOpens
<1>2. /\ Sound(led, git) /\ Watches(sup, git) /\ LedOK(led) /\ pi \in BOOLEAN
      /\ locks = [x \in {"gate", "ex"} |-> locks[x]]
      /\ \A d \in Operators : Works(act[d], led, git)
  BY Zenon, HostFacts
<1>3. led.life.gen + 1 \in 0 .. MaxGen
  <2>1. led.life.gen \in 0 .. MaxGen
    BY Zenon, <1>2 DEF LedOK
  <2> QED
    BY SMTT(60), <1>1, <2>1, SettlementAssumption
<1>4. HostOK(host') /\ host'.at = "open" /\ host'.gen = led'.life.gen + 1
  BY Zenon, <1>1, <1>3 DEF HostOK, HostPlaces
<1>5. Relocked("host") /\ locks'.ex = locks.ex /\ locks'.gate = "host"
  BY Zenon, <1>1, <1>2 DEF Relocked
<1>6. /\ Sound(led', git') /\ Watches(sup, git') /\ act' = act /\ sup' = sup /\ pi' \in BOOLEAN
      /\ \A d \in Operators : Works(act[d], led', git')
  BY Zenon, <1>1, <1>2
<1>7. "open" # "admitted"
  BY Zenon
<1> QED
  BY Zenon, <1>1, <1>4, <1>5, <1>6, <1>7, HostFrame

(* A generation is admitted: the host shares the lease, so no settlement is
   at work, and there is no intent. *)
LEMMA HostAdmittedStep ==
  ASSUME SettledOnce, HostAdmitted
  PROVE  SettledOnce'
<1>1. PICK fact \in (IF host.gen = 1 THEN reserve ELSE update_started) :
        /\ led' = [led EXCEPT !.life = fact]
        /\ host' = [host EXCEPT !.at = "admitted"]
  BY Zenon DEF HostAdmitted
<1>2. host.at = "open" /\ UNCHANGED <<pi, git, locks, act, sup, trial>>
  BY Zenon DEF HostAdmitted
<1>3. /\ Sound(led, git) /\ Watches(sup, git) /\ LedOK(led) /\ pi \in BOOLEAN /\ HostOK(host) /\ Fenced
      /\ \A d \in Operators : Works(act[d], led, git)
  BY Zenon, HostFacts
<1>4. led.intent = NoIntent /\ fact = [x \in {"gen", "st"} |-> fact[x]] /\ fact.gen = host.gen
  <2>1. host.gen = led.life.gen + 1
    BY Zenon, <1>2, <1>3 DEF Fenced
  <2>2. CASE host.gen = 1
    <3>1. led.intent = NoIntent /\ fact = [gen |-> 1, st |-> "reserved"]
      BY Zenon, <1>1, <2>2 DEF reserve
    <3> QED
      BY Zenon, <2>2, <3>1
  <2>3. CASE host.gen # 1
    <3>1. led.intent = NoIntent /\ fact = [gen |-> led.life.gen + 1, st |-> "started"]
      BY Zenon, <1>1, <2>3 DEF update_started
    <3> QED
      BY Zenon, <2>1, <3>1
  <2> QED
    BY Zenon, <2>2, <2>3
<1>5. host.gen \in 0 .. MaxGen
  BY Zenon, <1>3 DEF HostOK
<1>6. LedOK(led') /\ led'.intent = led.intent /\ led'.status = led.status
      /\ led'.receipt = led.receipt /\ led'.txn = led.txn /\ led'.report = led.report
      /\ led'.proof = led.proof
  BY Zenon, <1>1, <1>3, <1>4, <1>5 DEF LedOK, LedFields
<1>7. Sound(led', git)
  <2>1. Outcome(led', git) /\ Booked(led', git)
    BY Zenon, <1>3, <1>6 DEF Sound, Outcome, Booked
  <2> QED
    BY Zenon, <1>3, <1>6, <2>1 DEF Sound
<1>8. HostHolds
  BY Zenon, <1>2 DEF HostHolds
<1>9. locks.ex = "none" /\ \A d \in Operators : act[d].at \in Unleased
  BY Zenon, <1>8, LeaseAlone
<1>10. \A d \in Operators : Works(act[d], led', git')
  BY Zenon, <1>3, <1>6, <1>9, WorksOn
<1>11. "admitted" \in HostPlaces
  BY Zenon DEF HostPlaces
<1>12. HostOK(host') /\ host'.at = "admitted"
  BY Zenon, <1>1, <1>3, <1>11, HostEdit
<1>13. Relocked("host") /\ locks'.ex = locks.ex /\ locks'.gate = "host"
  BY Zenon, <1>2, <1>3, LocksKept DEF Fenced
<1>14. Sound(led', git') /\ Watches(sup, git') /\ act' = act /\ sup' = sup /\ pi' \in BOOLEAN
       /\ led'.intent = NoIntent /\ "admitted" # "open"
  BY Zenon, <1>2, <1>3, <1>4, <1>6, <1>7
<1> QED
  BY Zenon, <1>9, <1>10, <1>12, <1>13, <1>14, HostFrame

(* Pi starts, and the host lets go of the gate. *)
LEMMA HostProceedsStep ==
  ASSUME SettledOnce, PiStarts \/ HostLeavesGate
  PROVE  SettledOnce'
<1>1. UNCHANGED <<led, git, act, sup, trial>> /\ host.at \in {"admitted", "started"}
  BY Zenon DEF PiStarts, HostLeavesGate
<1>2. /\ Sound(led, git) /\ Watches(sup, git) /\ pi \in BOOLEAN /\ HostOK(host) /\ Fenced
      /\ locks = [x \in {"gate", "ex"} |-> locks[x]]
      /\ \A d \in Operators : Works(act[d], led, git)
  BY Zenon, HostFacts
<1>3. HostHolds /\ locks.gate = "host"
  BY Zenon, <1>1, <1>2 DEF HostHolds, Fenced
<1>4. locks.ex = "none"
  BY Zenon, <1>3, LeaseAlone
<1>5. "started" \in HostPlaces /\ "run" \in HostPlaces
  BY Zenon DEF HostPlaces
<1>6. HostOK(host') /\ pi' \in BOOLEAN /\ Relocked("host") /\ locks'.ex = locks.ex
      /\ (host'.at = "run" \/ (host'.at = "started" /\ locks'.gate = "host"))
  <2>1. CASE PiStarts
    <3>1. host' = [host EXCEPT !.at = "started"] /\ pi' = TRUE /\ locks' = locks
      BY Zenon, <2>1 DEF PiStarts
    <3>2. HostOK(host') /\ host'.at = "started"
      BY Zenon, <1>2, <1>5, <3>1, HostEdit
    <3>3. Relocked("host")
      BY Zenon, <3>1, LocksKept
    <3> QED
      BY Zenon, <1>3, <3>1, <3>2, <3>3
  <2>2. CASE HostLeavesGate
    <3>1. host' = [host EXCEPT !.at = "run"] /\ pi' = pi
          /\ locks' = [locks EXCEPT !.gate = "none"]
      BY Zenon, <2>2 DEF HostLeavesGate
    <3>2. HostOK(host') /\ host'.at = "run"
      BY Zenon, <1>2, <1>5, <3>1, HostEdit
    <3>3. Relocked("host") /\ locks'.ex = locks.ex
      BY Zenon, <1>2, <1>3, <3>1 DEF Relocked
    <3> QED
      BY Zenon, <1>2, <3>1, <3>2, <3>3
  <2> QED
    BY Zenon, <2>1, <2>2
<1>7. /\ Sound(led', git') /\ Watches(sup, git') /\ act' = act /\ sup' = sup
      /\ \A d \in Operators : Works(act[d], led', git')
  BY Zenon, <1>1, <1>2
<1>8. /\ host'.at \in {"open", "admitted", "started"} => locks'.gate = "host"
      /\ host'.at # "open" /\ host'.at # "admitted"
  BY Zenon, <1>6
<1> QED
  BY Zenon, <1>4, <1>6, <1>7, <1>8, HostFrame

LEMMA PiEndsStep ==
  ASSUME SettledOnce, PiEnds
  PROVE  SettledOnce'
<1>1. pi' = FALSE /\ UNCHANGED <<host, led, git, locks, act, sup, trial>>
  BY Zenon DEF PiEnds
<1>2. /\ Sound(led, git) /\ Watches(sup, git) /\ HostOK(host) /\ Fenced
      /\ \A d \in Operators : Works(act[d], led, git)
  BY Zenon, HostFacts
<1>3. Relocked("host")
  BY Zenon, <1>1, LocksKept
<1>4. HostHolds' = HostHolds
  BY Zenon, <1>1 DEF HostHolds
<1>5. /\ Sound(led', git') /\ Watches(sup, git') /\ act' = act /\ sup' = sup
      /\ \A d \in Operators : Works(act[d], led', git')
  BY Zenon, <1>1, <1>2
<1>6. /\ HostOK(host') /\ pi' \in BOOLEAN /\ locks'.ex = locks.ex
      /\ host'.at \in {"open", "admitted", "started"} => locks'.gate = "host"
      /\ host'.at = "open" => host'.gen = led'.life.gen + 1
      /\ host'.at = "admitted" => led'.intent = NoIntent
      /\ locks.ex # "none" => ~HostHolds' /\ ~pi'
  BY Zenon, <1>1, <1>2, <1>4 DEF Fenced
<1> QED
  BY Zenon, <1>3, <1>5, <1>6, HostFrame

(* The record or Git moves and nobody else does. *)
LEMMA WorldFrame ==
  ASSUME SettledOnce, UNCHANGED <<host, pi, locks, act, sup>>,
         Sound(led', git'), Watches(sup, git'),
         led'.intent = led.intent, led'.life.gen = led.life.gen,
         \A d \in Operators : Works(act[d], led', git')
  PROVE  SettledOnce'
<1>1. HostOK(host) /\ pi \in BOOLEAN /\ Fenced
  BY Zenon, HostFacts
<1>2. Relocked("host")
  BY Zenon, LocksKept
<1>3. HostHolds' = HostHolds
  BY Zenon DEF HostHolds
<1>4. /\ HostOK(host') /\ pi' \in BOOLEAN /\ locks'.ex = locks.ex /\ act' = act /\ sup' = sup
      /\ host'.at \in {"open", "admitted", "started"} => locks'.gate = "host"
      /\ host'.at = "open" => host'.gen = led'.life.gen + 1
      /\ host'.at = "admitted" => led'.intent = NoIntent
      /\ locks.ex # "none" => ~HostHolds' /\ ~pi'
  BY Zenon, <1>1, <1>3 DEF Fenced
<1> QED
  BY Zenon, <1>2, <1>4, HostFrame

LEMMA WorldMoves ==
  ASSUME SettledOnce, UNCHANGED <<host, pi, locks, act, sup>>,
         SameBook(led, led'), Grows(git, git')
  PROVE  SettledOnce'
<1>1. /\ Sound(led, git) /\ GitOK(git) /\ Watches(sup, git)
      /\ \A d \in Operators : ActOK(act[d]) /\ Works(act[d], led, git)
  BY Zenon, HostFacts
<1>2. Sound(led', git)
  BY Zenon, <1>1, SoundKept
<1>3. Sound(led', git')
  BY Zenon, <1>2, SoundKept
<1>4. SameCase(led, led')
  BY Zenon DEF SameBook
<1>5. \A d \in Operators : Works(act[d], led', git)
  BY Zenon, <1>1, <1>4, WorksOn
<1>6. \A d \in Operators : Works(act[d], led', git')
  BY Zenon, <1>1, <1>5, GrowsKeeps
<1>7. Watches(sup, git')
  BY Zenon, <1>1, GrowsKeeps
<1>8. led'.intent = led.intent /\ led'.life.gen = led.life.gen
  BY Zenon, <1>4 DEF SameCase
<1> QED
  BY Zenon, <1>3, <1>6, <1>7, <1>8, WorldFrame

LEMMA BindStep ==
  ASSUME SettledOnce, bind
  PROVE  SettledOnce'
<1>1. pi /\ led' = [led EXCEPT !.bound = led.life.gen] /\ UNCHANGED <<host, pi, git, locks, act, sup, trial>>
  BY Zenon DEF bind
<1>2. /\ Sound(led, git) /\ LedOK(led) /\ Watches(sup, git)
      /\ \A d \in Operators : Works(act[d], led, git)
  BY Zenon, HostFacts
<1>3. LedOK(led') /\ led'.intent = led.intent /\ led'.life = led.life /\ led'.status = led.status
      /\ led'.receipt = led.receipt /\ led'.txn = led.txn /\ led'.report = led.report
      /\ led'.proof = led.proof
  BY Zenon, <1>1, <1>2 DEF LedOK, LedFields
<1>4. Sound(led', git)
  <2>1. Outcome(led', git) /\ Booked(led', git)
    BY Zenon, <1>2, <1>3 DEF Sound, Outcome, Booked
  <2> QED
    BY Zenon, <1>2, <1>3, <2>1 DEF Sound
<1>5. \A d \in Operators : act[d].at \in Unleased
  BY Zenon, <1>1, LeaseAlone
<1>6. \A d \in Operators : Works(act[d], led', git')
  BY Zenon, <1>2, <1>3, <1>5, WorksOn
<1>7. Sound(led', git') /\ Watches(sup, git') /\ led'.life.gen = led.life.gen
  BY Zenon, <1>1, <1>2, <1>3, <1>4
<1> QED
  BY Zenon, <1>1, <1>3, <1>6, <1>7, WorldFrame

(* What moves the record as a fold does, or the branch as a commit does. *)
LEMMA WorldEdits ==
  ASSUME SettledOnce, update \/ PiWorks \/ World
  PROVE  SameBook(led, led') /\ Grows(git, git') /\ UNCHANGED <<host, pi, locks, act, sup>>
<1>1. LedOK(led) /\ GitOK(git)
  BY Zenon, HostFacts
<1>2. SameBook(led, led) /\ Grows(git, git)
  BY Zenon, <1>1, LedEdits, GitEdits
<1>3. CASE update
  <2>1. PICK st : led' = [led EXCEPT !.life.st = st]
    BY Zenon, <1>3 DEF update
  <2>2. SameBook(led, led')
    BY Zenon, <1>1, <2>1, LedEdits
  <2> QED
    BY Zenon, <1>2, <1>3, <2>2 DEF update
<1>4. CASE PiWorks
  <2>1. \/ git' = [git EXCEPT !.dirty = TRUE]
        \/ git.tip >= 0 /\ git' = [git EXCEPT !.tip = @ + 1, !.dirty = FALSE]
    BY Zenon, <1>4 DEF PiWorks
  <2>2. Grows(git, git')
    BY Zenon, <1>1, <2>1, GitEdits, CommitEdits
  <2> QED
    BY Zenon, <1>2, <1>4, <2>2 DEF PiWorks
<1>5. CASE SourceCommit
  <2>1. PICK v : git' = [git EXCEPT !.src = v]
    BY Zenon, <1>5 DEF SourceCommit
  <2>2. Grows(git, git')
    BY Zenon, <1>1, <2>1, GitEdits
  <2> QED
    BY Zenon, <1>2, <1>5, <2>2 DEF SourceCommit
<1>6. CASE StrayWriter
  <2>1. \/ git' = [git EXCEPT !.dirty = TRUE]
        \/ git.tip >= 0 /\ git' = [git EXCEPT !.tip = @ + 1]
    BY Zenon, <1>6 DEF StrayWriter
  <2>2. Grows(git, git')
    BY Zenon, <1>1, <2>1, GitEdits, CommitEdits
  <2> QED
    BY Zenon, <1>2, <1>6, <2>2 DEF StrayWriter
<1>7. CASE HistoryLost
  <2>1. Grows(git, git')
    BY Zenon, <1>1, <1>7, GitEdits DEF HistoryLost
  <2> QED
    BY Zenon, <1>2, <1>7, <2>1 DEF HistoryLost
<1>8. CASE HumanTidies
  <2>1. Grows(git, git')
    BY Zenon, <1>1, <1>8, GitEdits DEF HumanTidies
  <2> QED
    BY Zenon, <1>2, <1>8, <2>1 DEF HumanTidies
<1>9. CASE FailingReport
  <2>1. SameBook(led, led')
    BY Zenon, <1>1, <1>9, LedEdits DEF FailingReport
  <2> QED
    BY Zenon, <1>2, <1>9, <2>1 DEF FailingReport
<1> QED
  BY Zenon, <1>3, <1>4, <1>5, <1>6, <1>7, <1>8, <1>9 DEF World

-----------------------------------------------------------------------------
(* The invariant. *)

LEMMA SettledInit == SetInit => SettledOnce
<1> SUFFICES ASSUME SetInit PROVE SettledOnce
  OBVIOUS
<1>1. 0 \in Int /\ -1 \in Int /\ 0 \in Nat /\ 0 \in 0 .. MaxGen /\ 0 <= 0 /\ 0 >= 0 /\ ~(0 > 0)
  BY SMTT(60), SettlementAssumption
<1>2. TxnOK(NoTxn) /\ ActOK(Absent) /\ Absent.at = "idle" /\ \A l, g : Works(Absent, l, g)
  BY Zenon, NoTxnFacts, AbsentWorks
<1>3. host.at = "off" /\ pi = FALSE /\ locks.gate = "none" /\ locks.ex = "none" /\ sup.at = "idle"
  BY Zenon DEF SetInit
<1>4. act = [c \in Operators |-> act[c]] /\ \A c \in Operators : act[c] = Absent
  BY Zenon DEF SetInit
<1>5. LedOK(led)
  <2>1. led = [x \in LedFields |-> led[x]] /\ led.status = "live" /\ led.node = "live"
        /\ led.intent = NoIntent /\ led.life = [gen |-> 0, st |-> "none"] /\ led.bound = 0
        /\ led.receipt = -1 /\ led.proof = -1 /\ led.txn = NoTxn /\ led.report = NoTxn
    BY Zenon DEF SetInit, LedFields
  <2>2. NoIntent.op = "none" /\ led.life = [x \in {"gen", "st"} |-> led.life[x]] /\ led.life.gen = 0
    <3>1. led.life = [gen |-> 0, st |-> "none"] /\ NoIntent.op = "none"
      BY Zenon, <2>1 DEF NoIntent
    <3>2. [gen |-> 0, st |-> "none"] = [x \in {"gen", "st"} |-> [gen |-> 0, st |-> "none"][x]]
          /\ [gen |-> 0, st |-> "none"].gen = 0
      BY Zenon
    <3> QED
      BY ONLY <3>1, <3>2, Zenon
  <2> QED
    BY Zenon, <1>1, <1>2, <2>1, <2>2 DEF LedOK, Statuses
<1>6. led.status = "live" /\ led.receipt = -1 /\ led.txn = NoTxn /\ led.report = NoTxn
  BY Zenon DEF SetInit
<1>7. git.tip = 0 /\ git.landed = 0 /\ git.there /\ git.hist \in BOOLEAN
  BY Zenon DEF SetInit
<1>8. git = [x \in GitFields |-> git[x]]
  BY Zenon DEF SetInit, GitFields
<1>9. GitOK(git)
  BY Zenon, <1>1, <1>7, <1>8 DEF GitOK
<1>10. SetShape
  <2>1. host = [x \in {"at", "gen"} |-> host[x]] /\ host.gen = 0
    BY Zenon DEF SetInit
  <2>2. locks = [x \in {"gate", "ex"} |-> locks[x]]
    BY Zenon DEF SetInit
  <2>3. sup = [x \in {"at", "txn"} |-> sup[x]] /\ sup.txn = NoTxn
    BY Zenon DEF SetInit
  <2> QED
    BY Zenon, <1>1, <1>2, <1>3, <1>4, <1>5, <1>9, <2>1, <2>2, <2>3 DEF SetShape, HostPlaces
<1>11. Fenced
  BY Zenon, <1>2, <1>3, <1>4 DEF Fenced, Unleased, SupLeased, HostHolds
<1>12. \A c \in Operators : Works(act[c], led, git)
  BY Zenon, <1>2, <1>4
<1>13. Outcome(led, git) /\ Rooted(git) /\ Booked(led, git) /\ Watches(sup, git)
  BY Zenon, <1>1, <1>3, <1>6, <1>7 DEF Outcome, Rooted, Booked, Watches
<1> QED
  BY Zenon, <1>10, <1>11, <1>12, <1>13 DEF SettledOnce

LEMMA SettledStutters ==
  ASSUME SettledOnce, UNCHANGED <<host, pi, led, git, locks, act, sup>>
  PROVE  SettledOnce'
<1>1. LedOK(led) /\ GitOK(git)
  BY Zenon, HostFacts
<1>2. SameBook(led, led') /\ Grows(git, git')
  BY Zenon, <1>1, LedEdits, GitEdits
<1> QED
  BY Zenon, <1>2, WorldMoves

LEMMA SettledNext == SettledOnce /\ [SetNext]_set_vars => SettledOnce'
<1> SUFFICES ASSUME SettledOnce, [SetNext]_set_vars PROVE SettledOnce'
  OBVIOUS
<1>1. CASE HostStep
  <2>1. CASE HostRefused \/ HostReaps \/ HostCrash
    BY Zenon, <2>1, HostClosesStep
  <2>2. CASE PiStarts \/ HostLeavesGate
    BY Zenon, <2>2, HostProceedsStep
  <2>3. CASE update \/ PiWorks
    BY Zenon, <2>3, WorldEdits, WorldMoves
  <2> QED
    BY ZenonT(60), <1>1, <2>1, <2>2, <2>3, HostOpensStep, HostAdmittedStep, BindStep, PiEndsStep
       DEF HostStep
<1>2. CASE World
  BY Zenon, <1>2, WorldEdits, WorldMoves
<1>3. ASSUME NEW c \in Operators, OperatorSteps(c) PROVE SettledOnce'
  <2>1. CASE take_gate(c) \/ record_intent(c) \/ acquire_exclusive(c)
    BY Zenon, <2>1, TakeGateStep, RecordIntentStep, AcquireStep
  <2>2. CASE execute_caller_merge(c) \/ rebase_starts(c) \/ rebase_ends(c)
    BY ZenonT(60), <2>2, MergeStartedStep, RebaseStartsStep, RebaseEndsStep
  <2>3. CASE before_ref_move(c) \/ fast_forward(c) \/ report_merge(c)
    BY Zenon, <2>3, BeforeRefMoveStep, FastForwardStep, ReportMergeStep
  <2>4. CASE recover_judges(c) \/ recover_resolves(c) \/ cancel_caller(c)
    BY Zenon, <2>4, RecoverJudgesStep, RecoverResolvesStep, CancelStep
  <2>5. CASE authorize_discard(c) \/ drop_checkout(c) \/ drop_ends(c) \/ prune_branch(c)
    BY Zenon, <2>5, AuthorizeStep, DropCheckoutStep, DropEndsStep, PruneBranchStep
  <2> QED
    BY Zenon, <1>3, <2>1, <2>2, <2>3, <2>4, <2>5 DEF OperatorSteps
<1>4. ASSUME NEW c \in Operators, Settle(c) \/ OperatorKilled(c) PROVE SettledOnce'
  BY Zenon, <1>4, SettleStep, OperatorKilledStep
<1>5. CASE TickOver \/ cleanup_done \/ SupervisorKilled \/ Reattach
  BY Zenon, <1>5, TickOverStep
<1>6. CASE SupervisorSteps
  <2>1. CASE cleanup_failed \/ cleanup_cancelled \/ cleanup_discarded
    BY Zenon, <2>1, CleanupLeavesStep
  <2>2. CASE recover_run \/ recover_caller_node \/ roll_up
    BY Zenon, <2>2, RecoverRunStep, RecoverNodeStep, RollUpStep
  <2>3. CASE cleanup_merged \/ remove_worktree \/ delete_branch
    BY Zenon, <2>3, CleanupMergedStep, RemoveWorktreeStep, DeleteBranchStep
  <2> QED
    BY Zenon, <1>5, <1>6, <2>1, <2>2, <2>3 DEF SupervisorSteps
<1>7. CASE Still \/ UNCHANGED set_vars
  BY Zenon, <1>7, SettledStutters DEF Still, set_vars
<1> QED
  BY Zenon, <1>1, <1>2, <1>3, <1>4, <1>5, <1>6, <1>7 DEF SetNext

(* What the invariant says of a state: the types, one outcome, and that what
   is reported is in the source. *)
LEMMA SettledMeans == SettledOnce => SetTypeOK /\ OneOutcome /\ ReportedIsLanded
<1> SUFFICES ASSUME SettledOnce PROVE SetTypeOK /\ OneOutcome /\ ReportedIsLanded
  OBVIOUS
<1>1. SetShape /\ LedOK(led) /\ GitOK(git) /\ Outcome(led, git) /\ Booked(led, git)
  BY Zenon DEF SettledOnce, SetShape
<1>2. SetTypeOK
  BY Zenon, <1>1 DEF SetShape, SetTypeOK, HostPlaces, LedOK, GitOK, Statuses
<1>3. OneOutcome
  BY Zenon, <1>1 DEF Outcome, OneOutcome
<1>4. ReportedIsLanded
  BY Zenon, <1>1 DEF Booked, ReportedIsLanded
<1> QED
  BY Zenon, <1>2, <1>3, <1>4

-----------------------------------------------------------------------------
(* The steps. *)

(* Everything a settlement does from its merge, judgement, cancellation or
   discard on it does under the lease. *)
LEMMA LeasedSteps ==
  ASSUME LedOK(led), NEW c \in Operators, OperatorSteps(c), act[c].at \in Unleased
  PROVE  git' = git /\ led'.status = led.status /\ pi' = pi
<1>1. take_gate(c) \/ record_intent(c) \/ acquire_exclusive(c)
  <2>1. act[c].at \in {"idle", "gate", "intent", "lease"}
    BY Zenon DEF Unleased
  <2>2. ~execute_caller_merge(c) /\ ~rebase_starts(c) /\ ~rebase_ends(c)
    BY Zenon, <2>1 DEF execute_caller_merge, rebase_starts, rebase_ends
  <2>3. ~before_ref_move(c) /\ ~fast_forward(c) /\ ~report_merge(c)
    BY Zenon, <2>1 DEF before_ref_move, fast_forward, report_merge
  <2>4. ~recover_judges(c) /\ ~recover_resolves(c) /\ ~cancel_caller(c)
    BY Zenon, <2>1 DEF recover_judges, recover_resolves, cancel_caller
  <2>5. ~authorize_discard(c) /\ ~drop_checkout(c) /\ ~drop_ends(c) /\ ~prune_branch(c)
    BY Zenon, <2>1 DEF authorize_discard, drop_checkout, drop_ends, prune_branch
  <2> QED
    BY Zenon, <2>2, <2>3, <2>4, <2>5 DEF OperatorSteps
<1>2. CASE record_intent(c)
  <2>1. git' = git /\ pi' = pi
        /\ (led' = led \/ \E i : led' = [led EXCEPT !.intent = i])
    BY Zenon, <1>2 DEF record_intent
  <2> QED
    BY Zenon, <2>1 DEF LedOK, LedFields
<1>3. CASE take_gate(c) \/ acquire_exclusive(c)
  BY Zenon, <1>3 DEF take_gate, acquire_exclusive
<1> QED
  BY Zenon, <1>1, <1>2, <1>3

(* The only step that starts a Pi is the host's. *)
LEMMA PiOnlyStarts ==
  ASSUME SetNext, ~pi, pi'
  PROVE  PiStarts
<1>1. ASSUME NEW c \in Operators, OperatorSteps(c) PROVE pi' = pi
  <2>1. CASE take_gate(c) \/ record_intent(c) \/ acquire_exclusive(c)
    BY Zenon, <2>1 DEF take_gate, record_intent, acquire_exclusive
  <2>2. CASE execute_caller_merge(c) \/ rebase_starts(c) \/ rebase_ends(c)
    BY Zenon, <2>2 DEF execute_caller_merge, rebase_starts, rebase_ends
  <2>3. CASE before_ref_move(c) \/ fast_forward(c) \/ report_merge(c)
    BY Zenon, <2>3 DEF before_ref_move, fast_forward, report_merge
  <2>4. CASE recover_judges(c) \/ recover_resolves(c) \/ cancel_caller(c)
    BY Zenon, <2>4 DEF recover_judges, recover_resolves, cancel_caller
  <2>5. CASE authorize_discard(c) \/ drop_checkout(c) \/ drop_ends(c) \/ prune_branch(c)
    BY Zenon, <2>5 DEF authorize_discard, drop_checkout, drop_ends, prune_branch
  <2> QED
    BY Zenon, <1>1, <2>1, <2>2, <2>3, <2>4, <2>5 DEF OperatorSteps
<1>2. ASSUME NEW c \in Operators, Settle(c) \/ OperatorKilled(c) PROVE pi' = pi
  BY Zenon, <1>2 DEF Settle, OperatorKilled
<1>3. CASE SupervisorSteps
  <2>1. CASE recover_run \/ recover_caller_node \/ TickOver \/ roll_up
    BY Zenon, <2>1 DEF recover_run, recover_caller_node, TickOver, roll_up
  <2>2. CASE cleanup_failed \/ cleanup_cancelled \/ cleanup_discarded
    BY Zenon, <2>2 DEF cleanup_failed, cleanup_cancelled, cleanup_discarded
  <2>3. CASE cleanup_merged \/ remove_worktree \/ delete_branch \/ cleanup_done
    BY Zenon, <2>3 DEF cleanup_merged, remove_worktree, delete_branch, cleanup_done
  <2> QED
    BY Zenon, <1>3, <2>1, <2>2, <2>3 DEF SupervisorSteps
<1>4. CASE SupervisorKilled \/ Reattach \/ Still
  BY Zenon, <1>4 DEF SupervisorKilled, Reattach, Still, set_vars
<1>5. CASE World
  BY Zenon, <1>5 DEF World, SourceCommit, StrayWriter, HistoryLost, HumanTidies, FailingReport
<1>6. CASE HostStep
  <2>1. CASE HostOpens \/ HostAdmitted \/ HostRefused \/ HostLeavesGate
    BY Zenon, <2>1 DEF HostOpens, HostAdmitted, HostRefused, HostLeavesGate
  <2>2. CASE bind \/ update \/ PiWorks \/ PiEnds \/ HostReaps
    BY Zenon, <2>2 DEF bind, update, PiWorks, PiEnds, HostReaps
  <2>3. CASE HostCrash
    <3>1. pi' \in {pi, FALSE}
      BY Zenon, <2>3 DEF HostCrash
    <3> QED
      BY Zenon, <3>1
  <2> QED
    BY Zenon, <1>6, <2>1, <2>2, <2>3 DEF HostStep
<1> QED
  BY Zenon, <1>1, <1>2, <1>3, <1>4, <1>5, <1>6 DEF SetNext

(* The steps that may take something away or land it. *)
Removal ==
  \/ \E c \in Operators : fast_forward(c) \/ drop_ends(c) \/ prune_branch(c)
  \/ remove_worktree \/ delete_branch

(* The branch and the checkout stay, and nothing lands. *)
Stays ==
  /\ git'.landed = git.landed /\ git'.there = git.there
  /\ git.tip >= 0 => git'.tip >= 0

LEMMA GrowsStays ==
  ASSUME GitOK(git), git' = git \/ Grows(git, git')
  PROVE  Stays
<1>1. Grows(git, git)
  BY Zenon, GitEdits
<1>2. Grows(git, git')
  BY Zenon, <1>1
<1>3. git.tip >= 0 => git'.tip >= 0
  BY Zenon, <1>2, GrowsBounds
<1> QED
  BY Zenon, <1>2, <1>3 DEF Stays, Grows

LEMMA GitMoves ==
  ASSUME SettledOnce, SetNext
  PROVE  Stays \/ Removal
<1>1. LedOK(led) /\ GitOK(git)
  BY Zenon, HostFacts
<1>2. CASE git' = git
  BY Zenon, <1>1, <1>2, GrowsStays
<1>3. ASSUME NEW c \in Operators, OperatorSteps(c) PROVE Stays \/ Removal
  <2>1. CASE \/ take_gate(c) \/ record_intent(c) \/ acquire_exclusive(c)
             \/ execute_caller_merge(c) \/ before_ref_move(c) \/ report_merge(c)
    <3>1. git' = git
      BY Zenon, <2>1 DEF take_gate, record_intent, acquire_exclusive, execute_caller_merge,
         before_ref_move, report_merge
    <3> QED
      BY Zenon, <1>2, <3>1
  <2>2. CASE recover_judges(c) \/ recover_resolves(c) \/ cancel_caller(c) \/ authorize_discard(c)
    <3>1. git' = git
      BY Zenon, <2>2 DEF recover_judges, recover_resolves, cancel_caller, authorize_discard
    <3> QED
      BY Zenon, <1>2, <3>1
  <2>3. CASE fast_forward(c) \/ drop_ends(c) \/ prune_branch(c)
    BY Zenon, <2>3 DEF Removal
  <2>4. CASE rebase_starts(c) \/ rebase_ends(c)
    <3>1. \/ git' = git
          \/ \E v : git' = [git EXCEPT !.rebasing = v]
          \/ \E v : git' = [git EXCEPT !.rebasing = FALSE, !.base = v]
      BY Zenon, <2>4 DEF rebase_starts, rebase_ends
    <3>2. git' = git \/ Grows(git, git')
      <4>1. ASSUME NEW v, git' = [git EXCEPT !.rebasing = v] PROVE Grows(git, git')
        BY Zenon, <1>1, <4>1, GitEdits
      <4>2. ASSUME NEW v, git' = [git EXCEPT !.rebasing = FALSE, !.base = v] PROVE Grows(git, git')
        BY Zenon, <1>1, <4>2, GitEdits
      <4> QED
        BY Zenon, <3>1, <4>1, <4>2
    <3> QED
      BY Zenon, <1>1, <3>2, GrowsStays
  <2>5. CASE drop_checkout(c)
    <3>1. git' = git \/ git' = [git EXCEPT !.broken = TRUE]
      BY Zenon, <2>5 DEF drop_checkout
    <3>2. CASE git' = [git EXCEPT !.broken = TRUE]
      BY Zenon, <1>1, <3>2 DEF Stays, GitOK, GitFields
    <3> QED
      BY Zenon, <1>2, <3>1, <3>2
  <2> QED
    BY Zenon, <1>3, <2>1, <2>2, <2>3, <2>4, <2>5 DEF OperatorSteps
<1>4. ASSUME NEW c \in Operators, Settle(c) \/ OperatorKilled(c) PROVE git' = git
  BY Zenon, <1>4 DEF Settle, OperatorKilled
<1>5. CASE SupervisorSteps
  <2>1. CASE recover_run \/ recover_caller_node \/ TickOver \/ roll_up
    <3>1. git' = git
      BY Zenon, <2>1 DEF recover_run, recover_caller_node, TickOver, roll_up
    <3> QED
      BY Zenon, <1>2, <3>1
  <2>2. CASE cleanup_failed \/ cleanup_cancelled \/ cleanup_discarded \/ cleanup_merged \/ cleanup_done
    <3>1. git' = git
      BY Zenon, <2>2 DEF cleanup_failed, cleanup_cancelled, cleanup_discarded, cleanup_merged, cleanup_done
    <3> QED
      BY Zenon, <1>2, <3>1
  <2>3. CASE remove_worktree \/ delete_branch
    BY Zenon, <2>3 DEF Removal
  <2> QED
    BY Zenon, <1>5, <2>1, <2>2, <2>3 DEF SupervisorSteps
<1>6. CASE SupervisorKilled \/ Reattach \/ Still
  <2>1. git' = git
    BY Zenon, <1>6 DEF SupervisorKilled, Reattach, Still, set_vars
  <2> QED
    BY Zenon, <1>2, <2>1
<1>7. CASE World \/ PiWorks \/ update
  <2>1. Grows(git, git')
    BY Zenon, <1>7, WorldEdits
  <2> QED
    BY Zenon, <1>1, <2>1, GrowsStays
<1>8. CASE HostStep
  <2>1. CASE HostOpens \/ HostAdmitted \/ HostRefused \/ HostLeavesGate \/ PiStarts
    <3>1. git' = git
      BY Zenon, <2>1 DEF HostOpens, HostAdmitted, HostRefused, HostLeavesGate, PiStarts
    <3> QED
      BY Zenon, <1>2, <3>1
  <2>2. CASE bind \/ PiEnds \/ HostReaps \/ HostCrash
    <3>1. git' = git
      BY Zenon, <2>2 DEF bind, PiEnds, HostReaps, HostCrash
    <3> QED
      BY Zenon, <1>2, <3>1
  <2> QED
    BY Zenon, <1>7, <1>8, <2>1, <2>2 DEF HostStep
<1> QED
  BY Zenon, <1>2, <1>3, <1>4, <1>5, <1>6, <1>7, <1>8 DEF SetNext

(* Whoever removes or lands something holds the lease, has found the history
   retained, and has what goes in the source or on a receipt. *)
LEMMA RemovalIsCareful ==
  ASSUME SettledOnce, Removal
  PROVE  ~pi /\ (Stays \/ (Retained(led, git) /\ NothingLostUnasked))
<1>1. /\ LedOK(led) /\ GitOK(git) /\ git.tip \in Int
      /\ \A c \in Operators : Works(act[c], led, git)
  BY Zenon, HostFacts DEF GitOK
<1>2. git' = git => Stays
  BY Zenon, <1>1, GrowsStays
<1>3. -1 \in Int /\ ~(-1 >= 0) /\ ~(git.tip >= 0 /\ git.tip < 0)
  BY SMTT(60), <1>1
<1>4. ASSUME NEW c \in Operators, fast_forward(c)
      PROVE  ~pi /\ (Stays \/ (Retained(led, git) /\ NothingLostUnasked))
  <2>1. act[c].at \notin Unleased
    BY Zenon, <1>4 DEF fast_forward, Unleased
  <2>2. ~pi
    BY Zenon, <2>1, LeaseAlone
  <2>3. git' = git \/ (verify /\ git' = [git EXCEPT !.landed = git.tip])
    BY Zenon, <1>4 DEF fast_forward
  <2>4. CASE verify /\ git' = [git EXCEPT !.landed = git.tip]
    <3>1. git'.tip = git.tip /\ git'.there = git.there
      BY Zenon, <1>1, <2>4 DEF GitOK, GitFields
    <3>2. Retained(led, git)
      BY Zenon, <2>4, VerifyMeans
    <3>3. NothingLostUnasked
      BY Zenon, <1>3, <3>1 DEF NothingLostUnasked
    <3> QED
      BY Zenon, <2>2, <3>2, <3>3
  <2> QED
    BY Zenon, <1>2, <2>2, <2>3, <2>4
<1>5. ASSUME NEW c \in Operators, drop_ends(c)
      PROVE  ~pi /\ Retained(led, git) /\ NothingLostUnasked
  <2>1. act[c].at = "dropping" /\ act[c].at \notin Unleased
    BY Zenon, <1>5 DEF drop_ends, Unleased
  <2>2. ~pi
    BY Zenon, <2>1, LeaseAlone
  <2>3. led.receipt # -1 /\ Retained(led, git)
    BY Zenon, <1>1, <2>1 DEF Works
  <2>4. git'.tip = git.tip
    BY Zenon, <1>1, <1>5 DEF drop_ends, GitOK, GitFields
  <2>5. NothingLostUnasked
    BY Zenon, <1>3, <2>3, <2>4 DEF NothingLostUnasked
  <2> QED
    BY Zenon, <2>2, <2>3, <2>5
<1>6. ASSUME NEW c \in Operators, prune_branch(c)
      PROVE  ~pi /\ (Stays \/ (Retained(led, git) /\ NothingLostUnasked))
  <2>1. act[c].at \notin Unleased
    BY Zenon, <1>6 DEF prune_branch, Unleased
  <2>2. ~pi
    BY Zenon, <2>1, LeaseAlone
  <2>3. git' = git \/ (recheck /\ ~git.there)
    BY Zenon, <1>6 DEF prune_branch
  <2>4. CASE recheck /\ ~git.there
    <3>1. Retained(led, git) /\ git.tip \in {-1, led.receipt}
      BY Zenon, <2>4, RetainedMeans DEF recheck
    <3>2. NothingLostUnasked
      BY Zenon, <1>3, <2>4, <3>1 DEF NothingLostUnasked
    <3> QED
      BY Zenon, <2>2, <3>1, <3>2
  <2> QED
    BY Zenon, <1>2, <2>2, <2>3, <2>4
<1>7. ASSUME remove_worktree
      PROVE  ~pi /\ (Stays \/ (Retained(led, git) /\ NothingLostUnasked))
  <2>1. sup.at \in SupLeased
    BY Zenon, <1>7 DEF remove_worktree, SupLeased
  <2>2. ~pi
    BY Zenon, <2>1, LeaseAlone
  <2>3. git' = git \/ (verify /\ ~git.dirty /\ git' = [git EXCEPT !.there = FALSE])
    BY Zenon, <1>7 DEF remove_worktree
  <2>4. CASE verify /\ ~git.dirty /\ git' = [git EXCEPT !.there = FALSE]
    <3>1. git'.tip = git.tip
      BY Zenon, <1>1, <2>4 DEF GitOK, GitFields
    <3>2. Retained(led, git)
      BY Zenon, <2>4, VerifyMeans
    <3>3. NothingLostUnasked
      BY Zenon, <1>3, <2>4, <3>1 DEF NothingLostUnasked
    <3> QED
      BY Zenon, <2>2, <3>2, <3>3
  <2> QED
    BY Zenon, <1>2, <2>2, <2>3, <2>4
<1>8. ASSUME delete_branch
      PROVE  ~pi /\ (Stays \/ (Retained(led, git) /\ NothingLostUnasked))
  <2>1. sup.at \in SupLeased
    BY Zenon, <1>8 DEF delete_branch, SupLeased
  <2>2. ~pi
    BY Zenon, <2>1, LeaseAlone
  <2>3. \/ git' = git
        \/ caller_history_retained /\ git.tip <= git.landed /\ git' = [git EXCEPT !.tip = -1]
    BY Zenon, <1>8 DEF delete_branch
  <2>4. CASE caller_history_retained /\ git.tip <= git.landed /\ git' = [git EXCEPT !.tip = -1]
    <3>1. git'.there = git.there
      BY Zenon, <1>1, <2>4 DEF GitOK, GitFields
    <3>2. Retained(led, git)
      BY Zenon, <2>4, RetainedMeans
    <3>3. NothingLostUnasked
      BY Zenon, <2>4, <3>1 DEF NothingLostUnasked
    <3> QED
      BY Zenon, <2>2, <3>2, <3>3
  <2> QED
    BY Zenon, <1>2, <2>2, <2>3, <2>4
<1> QED
  BY Zenon, <1>4, <1>5, <1>6, <1>7, <1>8 DEF Removal

(* A run with a live Pi is not cancelled. *)
LEMMA NoCancelUnderPi ==
  ASSUME SettledOnce, SetNext, pi, led.status # "cancelled"
  PROVE  led'.status # "cancelled"
<1>1. LedOK(led)
  BY Zenon, HostFacts
<1>2. sup.at \notin SupLeased /\ ~LeaseFree /\ \A d \in Operators : act[d].at \in Unleased
  BY Zenon, LeaseAlone DEF LeaseFree
<1>3. ASSUME NEW c \in Operators, OperatorSteps(c) PROVE led'.status # "cancelled"
  <2>1. led'.status = led.status
    BY Zenon, <1>1, <1>2, <1>3, LeasedSteps
  <2> QED
    BY Zenon, <2>1
<1>4. ASSUME NEW c \in Operators, Settle(c) \/ OperatorKilled(c) PROVE led'.status # "cancelled"
  BY Zenon, <1>4 DEF Settle, OperatorKilled
<1>5. CASE SupervisorSteps
  <2>1. ~recover_run /\ ~cleanup_cancelled /\ ~cleanup_discarded /\ ~cleanup_merged
    BY Zenon, <1>2 DEF recover_run, cleanup_cancelled, cleanup_discarded, cleanup_merged, LeaseFor
  <2>2. ~recover_caller_node /\ ~remove_worktree /\ ~delete_branch
    BY Zenon, <1>2 DEF recover_caller_node, remove_worktree, delete_branch, SupLeased
  <2>3. CASE TickOver \/ cleanup_done
    BY Zenon, <2>3 DEF TickOver, cleanup_done
  <2>4. CASE cleanup_failed
    <3>1. SameBook(led, led')
      BY Zenon, <2>4, PreserveFacts DEF cleanup_failed
    <3> QED
      BY Zenon, <3>1 DEF SameBook
  <2>5. CASE roll_up
    <3>1. led.node \in {"done", "failed"} /\ led' = [led EXCEPT !.status = led.node]
      BY Zenon, <2>5 DEF roll_up
    <3>2. led'.status = led.node
      BY Zenon, <1>1, <3>1 DEF LedOK, LedFields
    <3> QED
      BY Zenon, <3>1, <3>2
  <2> QED
    BY ZenonT(60), <1>5, <2>1, <2>2, <2>3, <2>4, <2>5 DEF SupervisorSteps
<1>6. CASE SupervisorKilled \/ Reattach \/ Still
  BY Zenon, <1>6 DEF SupervisorKilled, Reattach, Still, set_vars
<1>7. CASE World \/ PiWorks \/ update
  <2>1. SameBook(led, led')
    BY Zenon, <1>7, WorldEdits
  <2> QED
    BY Zenon, <2>1 DEF SameBook
<1>8. CASE HostStep
  <2>1. CASE HostOpens \/ HostRefused \/ HostLeavesGate \/ PiStarts \/ PiEnds \/ HostReaps \/ HostCrash
    BY Zenon, <2>1 DEF HostOpens, HostRefused, HostLeavesGate, PiStarts, PiEnds, HostReaps, HostCrash
  <2>2. CASE HostAdmitted \/ bind
    <3>1. \E f : led' = [led EXCEPT !.life = f] \/ led' = [led EXCEPT !.bound = f]
      BY Zenon, <2>2 DEF HostAdmitted, bind
    <3> QED
      BY Zenon, <1>1, <3>1 DEF LedOK, LedFields
  <2> QED
    BY Zenon, <1>7, <1>8, <2>1, <2>2 DEF HostStep
<1> QED
  BY Zenon, <1>3, <1>4, <1>5, <1>6, <1>7, <1>8 DEF SetNext

LEMMA StaysLosesNothing ==
  ASSUME SettledOnce, SettledOnce', Stays
  PROVE  NothingLostUnasked
<1>1. GitOK(git')
  BY Zenon DEF SettledOnce, SetShape
<1>2. git'.tip \in Int
  BY Zenon, <1>1 DEF GitOK
<1>3. ~(git'.tip >= 0 /\ git'.tip < 0)
  BY SMTT(60), <1>2
<1> QED
  BY Zenon, <1>3 DEF Stays, NothingLostUnasked

(* What a step of the run keeps. *)
LEMMA SettledSteps ==
  ASSUME SettledOnce, SettledOnce', SetNext
  PROVE  /\ NoPiAfterIntent /\ WriterKeepsItsCheckout
         /\ NothingLostUnasked /\ UnretainedIsPreserved
<1>1. Stays \/ Removal
  BY Zenon, GitMoves
<1>2. Removal => ~pi /\ (Stays \/ (Retained(led, git) /\ NothingLostUnasked))
  BY Zenon, RemovalIsCareful
<1>3. NoPiAfterIntent
  <2>1. ASSUME ~pi, pi' PROVE led.intent = NoIntent
    <3>1. host.at = "admitted"
      BY Zenon, <2>1, PiOnlyStarts DEF PiStarts
    <3> QED
      BY Zenon, <3>1 DEF SettledOnce, Fenced
  <2> QED
    BY Zenon, <2>1 DEF NoPiAfterIntent
<1>4. WriterKeepsItsCheckout
  <2>1. ASSUME pi PROVE Stays /\ (led.status # "cancelled" => led'.status # "cancelled")
    BY Zenon, <1>1, <1>2, <2>1, NoCancelUnderPi
  <2> QED
    BY Zenon, <2>1 DEF WriterKeepsItsCheckout, Stays
<1>5. NothingLostUnasked
  BY Zenon, <1>1, <1>2, StaysLosesNothing
<1>6. UnretainedIsPreserved
  <2>1. ~caller_history_retained => Stays
    BY Zenon, <1>1, <1>2, RetainedMeans
  <2> QED
    BY Zenon, <2>1 DEF UnretainedIsPreserved, Stays
<1> QED
  BY Zenon, <1>3, <1>4, <1>5, <1>6

(* A caller-owned run is settled once and without a writer, however many
   operators settle it, whatever generations its host starts and whatever is
   killed: no Pi starts after an intent or loses its checkout, nothing is
   removed that the source does not have and no receipt names, nothing is
   landed or removed while a history is not retained, a landed run is neither
   cancelled nor discarded, and what is reported is in the source. *)
THEOREM SettlementSafe == SetSpec => SettlesSafely
<1> DEFINE Kept == /\ SetTypeOK' /\ OneOutcome' /\ ReportedIsLanded'
                   /\ NoPiAfterIntent /\ WriterKeepsItsCheckout
                   /\ NothingLostUnasked /\ UnretainedIsPreserved
<1>1. SetInit => SettledOnce
  BY SettledInit
<1>2. SettledOnce /\ [SetNext]_set_vars => SettledOnce'
  BY SettledNext
<1>3. SettledOnce' => (SetTypeOK /\ OneOutcome /\ ReportedIsLanded)'
  BY SettledMeans, PTL
<1>4. SettledOnce /\ SettledOnce' /\ [SetNext]_set_vars => [Kept]_set_vars
  <2> SUFFICES ASSUME SettledOnce, SettledOnce', SetNext PROVE Kept
    BY Zenon
  <2>1. /\ NoPiAfterIntent /\ WriterKeepsItsCheckout
        /\ NothingLostUnasked /\ UnretainedIsPreserved
    BY Zenon, SettledSteps
  <2>2. SetTypeOK' /\ OneOutcome' /\ ReportedIsLanded'
    BY Zenon, <1>3
  <2> QED
    BY Zenon, <2>1, <2>2
<1>5. SettlesSafely <=> [][Kept]_set_vars
  BY Zenon DEF SettlesSafely
<1> QED
  BY <1>1, <1>2, <1>4, <1>5, PTL DEF SetSpec

==============================================================================
