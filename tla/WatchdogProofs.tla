---------------------------- MODULE WatchdogProofs ----------------------------
(***************************************************************************)
(* The watchdog over a node fails only the dead, replaces a worker without *)
(* leaving work behind, and believes only the node's own worker, for every *)
(* number of attempts, launches, supervisor crashes and faults.            *)
(*                                                                         *)
(* What the watchdog acts on was seen earlier in its tick.  The invariant  *)
(* Watched says what of it is still true at each place: a death seen is    *)
(* final, a park is for the attempt after the node's, a fresh worker is    *)
(* alone in the checkout made for it.                                      *)
(***************************************************************************)
EXTENDS Watchdog, TLAPS

NodeFields == {"kind", "status", "attempt", "agent", "name", "exit", "death", "report",
               "merging", "round"}
WorkerFields == {"proc", "shim", "attempt", "name", "housed", "code"}
CheckoutFields == {"branch", "tree", "ahead", "dirty", "attached", "gained"}

ParkSet == [attempt : Name, failures : 0..MaxSpawnFailures]

NodeTyped ==
  /\ tracked = [x \in NodeFields |-> tracked[x]]
  /\ tracked.kind \in Kinds /\ tracked.status \in Settled \cup {"running"}
  /\ tracked.attempt \in Name /\ tracked.agent \in Launch /\ tracked.name \in Name
  /\ tracked.report # "none" => settled(tracked)
WorkerTyped ==
  /\ worker = [w \in Launch |-> worker[w]]
  /\ \A w \in Launch : worker[w] = [x \in WorkerFields |-> worker[w][x]]
  /\ \A w \in Launch : worker[w].attempt \in Name /\ worker[w].name \in Name
                       /\ worker[w].proc \in {"none", "running", "gone"}
CheckoutTyped ==
  /\ checkout = [b \in Name |-> checkout[b]]
  /\ \A b \in Name : checkout[b] = [x \in CheckoutFields |-> checkout[b][x]]
DogTyped ==
  /\ dog = [x \in {"pc", "seen", "verdict", "park", "fresh"} |-> dog[x]]
  /\ dog.park \in ParkSet
  /\ dog.fresh \in Launch \cup {-1}
  /\ dog.seen.agent \in Launch /\ dog.seen.name \in Name

\* The node's worker lives, or lived, in the node's checkout; no other worker
\* with a checkout has its attempt number, or shares a later one.
Rostered ==
  /\ worker[0].proc # "none"
  /\ worker[tracked.agent].proc # "none" /\ worker[tracked.agent].housed
  /\ worker[tracked.agent].attempt = tracked.attempt
  /\ worker[tracked.agent].name = tracked.name
  /\ \A v, w \in Launch :
       /\ worker[v].housed /\ worker[w].housed
       /\ worker[v].attempt = worker[w].attempt /\ tracked.attempt <= worker[v].attempt
       => v = w
  /\ tracked.kind # "worker" => \A w \in Launch : worker[w].attempt <= tracked.attempt
  /\ tracked.kind = "worker" =>
       /\ tracked.name = tracked.attempt
       /\ \A w \in Launch : worker[w].housed =>
            /\ worker[w].name = worker[w].attempt
            /\ worker[w].attempt < tracked.attempt => worker[w].proc # "running"
            /\ tracked.attempt <= worker[w].attempt => checkout[worker[w].name].branch

\* A worker at work has its checkout, and so has the node; work in a checkout
\* is where Git keeps it.
Grounded ==
  /\ \A w \in Launch : worker[w].housed /\ worker[w].proc = "running" =>
       checkout[worker[w].name].branch /\ checkout[worker[w].name].tree
  /\ checkout[tracked.name].branch /\ checkout[tracked.name].tree
  /\ checkout[tracked.name].attached
  /\ \A b \in Name : checkout[b].dirty \/ checkout[b].ahead
                       => checkout[b].branch \/ checkout[b].attached
  /\ WorkSurvives

\* An exit that was told happened.
Told ==
  /\ tracked.exit # NoExit =>
       /\ tracked.exit.by \in Launch /\ worker[tracked.exit.by].proc = "gone"
       /\ tracked.exit.by = tracked.agent \/ ~worker[tracked.exit.by].housed
  /\ OnlyDeadFail

Busy == {"supersede", "remove"}

\* What the supervisor knows from earlier in the tick.
Informed ==
  /\ worker[dog.seen.agent].proc # "none"
  /\ dog.pc \in {"observe", "backstop"} => worker[dog.seen.agent].proc = "gone"
  /\ dog.pc = "told" => dog.seen.exit # NoExit
  /\ dog.park # NoPark => tracked.kind = "worker"
  /\ dog.park # NoPark /\ dog.pc \notin Busy =>
       dog.park.attempt = tracked.attempt + 1 /\ worker[tracked.agent].proc = "gone"
  /\ dog.pc \in {"spawn", "rewire"} => dog.seen.name = tracked.name
  /\ dog.pc \in {"spawn", "rewire", "giveup"} => dog.park # NoPark
  /\ dog.pc \in Busy => /\ tracked.kind = "worker" /\ dog.seen.name < tracked.name
                         /\ checkout[dog.seen.name].attached
  /\ dog.pc \in {"rewire", "teardown"} =>
       /\ dog.fresh \in Launch /\ tracked.kind = "worker"
       /\ worker[dog.fresh].housed /\ worker[dog.fresh].proc # "none"
       /\ worker[dog.fresh].attempt = tracked.attempt + 1
       /\ checkout[tracked.attempt + 1].tree

Typed == NodeTyped /\ WorkerTyped /\ CheckoutTyped /\ DogTyped

Watched == Typed /\ Rostered /\ Grounded /\ Told /\ Informed

\* A step leaves the node with its worker, attempt and checkout ...
Same ==
  /\ tracked'.kind = tracked.kind /\ tracked'.attempt = tracked.attempt
  /\ tracked'.agent = tracked.agent /\ tracked'.name = tracked.name

\* ... changes workers only by ending them or their shims ...
Fading ==
  \A v \in Launch :
    /\ worker'[v].housed = worker[v].housed /\ worker'[v].attempt = worker[v].attempt
    /\ worker'[v].name = worker[v].name
    /\ worker'[v].proc = worker[v].proc \/ worker'[v].proc = "gone"

\* ... and removes nothing of a checkout.
Standing ==
  \A b \in Name :
    /\ checkout'[b].branch = checkout[b].branch /\ checkout'[b].tree = checkout[b].tree
    /\ checkout'[b].attached = checkout[b].attached

(* There is a first launch and a first name. *)
LEMMA Zero == 0 \in Launch /\ 0 \in Name /\ Launch \subseteq Nat /\ Name \subseteq Nat
BY SMTT(60), WatchdogAssumption DEF Launch, Name

(* A supervisor between ticks is at rest. *)
LEMMA RestEffect ==
  ASSUME NEW park \in ParkSet, NEW p,
         dog' = [Resting(park) EXCEPT !.pc = p]
  PROVE  DogTyped' /\ dog'.pc = p /\ dog'.park = park /\ dog'.seen.agent = 0
BY Zenon, Zero DEF Resting, DogTyped, Tracked

LEMMA IdleEffect ==
  ASSUME NEW park \in ParkSet, dog' = Resting(park)
  PROVE  DogTyped' /\ dog'.pc = "idle" /\ dog'.park = park /\ dog'.seen.agent = 0
BY Zenon, Zero DEF Resting, DogTyped, Tracked

(* No park is a park. *)
LEMMA NoParkTyped == NoPark \in ParkSet
BY SMTT(60), Zero, WatchdogAssumption DEF NoPark, ParkSet

(* A supervisor at rest remembers only its park. *)
LEMMA RestInformed ==
  ASSUME worker'[0].proc # "none", dog'.seen.agent = 0,
         dog'.pc \in {"idle", "reconcile"},
         \/ dog'.park = NoPark
         \/ /\ tracked'.kind = "worker" /\ dog'.park.attempt = tracked'.attempt + 1
            /\ worker'[tracked'.agent].proc = "gone"
  PROVE  Informed'
BY Zenon DEF Informed, Busy

(* A node that stays with its worker stays on the roster. *)
LEMMA SameKeeps ==
  ASSUME Watched, Same, Fading, Standing, NodeTyped', CheckoutTyped', WorkerTyped'
  PROVE  /\ Rostered'
         /\ (\A w \in Launch : worker'[w].housed /\ worker'[w].proc = "running" =>
              checkout'[worker'[w].name].branch /\ checkout'[worker'[w].name].tree)
         /\ checkout'[tracked'.name].branch /\ checkout'[tracked'.name].tree
         /\ checkout'[tracked'.name].attached
<1> USE DEF Watched, Typed
<1>1. tracked.agent \in Launch /\ tracked.name \in Name /\ 0 \in Launch
  BY Zenon, Zero DEF NodeTyped
<1>2. \A w \in Launch : worker[w].name \in Name
  BY Zenon DEF WorkerTyped
<1>3. Rostered'
  BY SMTT(60), <1>1, <1>2 DEF Rostered, Same, Fading, Standing
<1>4. \A w \in Launch : worker'[w].housed /\ worker'[w].proc = "running" =>
         checkout'[worker'[w].name].branch /\ checkout'[worker'[w].name].tree
  BY Zenon, <1>2 DEF Grounded, Fading, Standing
<1>5. /\ checkout'[tracked'.name].branch /\ checkout'[tracked'.name].tree
      /\ checkout'[tracked'.name].attached
  BY Zenon, <1>1 DEF Grounded, Same, Standing
<1> QED
  BY Zenon, <1>3, <1>4, <1>5

(* Work in checkouts that a step leaves alone survives it. *)
LEMMA GroundedKeeps ==
  ASSUME Watched, Same, Fading, NodeTyped', WorkerTyped', UNCHANGED checkout
  PROVE  Rostered' /\ Grounded'
<1>1. Standing /\ CheckoutTyped'
  BY Zenon DEF Watched, Typed, Standing, CheckoutTyped
<1>2. WorkSurvives'
  BY Zenon DEF Watched, Grounded, WorkSurvives
<1> QED
  BY Zenon, <1>1, <1>2, SameKeeps DEF Watched, Grounded

(* What was told and what the supervisor knows survives the end of workers. *)
LEMMA ToldKeeps ==
  ASSUME Watched, Same, Fading, tracked'.exit = tracked.exit,
         tracked'.report # "supervisor" \/ tracked'.report = tracked.report
  PROVE  Told'
<1>1. tracked.agent \in Launch
  BY Zenon DEF Watched, Typed, NodeTyped
<1> QED
  BY ZenonT(60), <1>1 DEF Watched, Told, OnlyDeadFail, Same, Fading, NoExit

LEMMA InformedKeeps ==
  ASSUME Watched, Same, Fading, Standing, UNCHANGED dog
  PROVE  DogTyped' /\ Informed'
<1>1. tracked.agent \in Launch /\ dog.seen.agent \in Launch /\ dog.seen.name \in Name
  BY Zenon DEF Watched, Typed, NodeTyped, DogTyped
<1>2. DogTyped'
  BY Zenon DEF Watched, Typed, DogTyped
<1>3. Informed'
  <2>1. dog.pc \in {"rewire", "teardown"} => tracked.attempt + 1 \in Name
    BY Zenon DEF Watched, Informed, Typed, WorkerTyped
  <2> QED
    BY ZenonT(60), <1>1, <2>1 DEF Watched, Informed, Same, Fading, Standing, Busy
<1> QED
  BY Zenon, <1>2, <1>3

(* The first worker of a node is launched with it. *)
LEMMA WatchedInit == WatchdogInit => Watched
<1> SUFFICES ASSUME WatchdogInit PROVE Watched
  BY Zenon
<1>1. PICK kind \in Kinds : tracked = Tracked(kind)
  BY Zenon DEF WatchdogInit
<1>2. NodeTyped
  BY Zenon, <1>1, Zero DEF NodeTyped, Tracked, NodeFields, settled, Settled
<1>3. WorkerTyped
  BY Zenon, Zero DEF WatchdogInit, WorkerTyped, WorkerFields, Started, Unborn
<1>4. CheckoutTyped
  BY Zenon DEF WatchdogInit, CheckoutTyped, CheckoutFields, FreshCheckout, NoCheckout
<1>5. DogTyped /\ dog.pc = "idle" /\ dog.park = NoPark /\ dog.seen.agent = 0
  BY Zenon, NoParkTyped, Zero DEF WatchdogInit, Resting, Tracked, DogTyped
<1>6. /\ tracked.agent = 0 /\ tracked.attempt = 0 /\ tracked.name = 0
      /\ tracked.exit = NoExit /\ tracked.report = "none"
  BY Zenon, <1>1 DEF Tracked
<1>7. /\ worker[0].proc = "running" /\ worker[0].housed = TRUE /\ worker[0].attempt = 0
      /\ worker[0].name = 0
      /\ \A w \in Launch \ {0} : worker[w].housed = FALSE /\ worker[w].attempt = 0
  BY Zenon, Zero DEF WatchdogInit, Started, Unborn
<1>8. /\ checkout[0].branch = TRUE /\ checkout[0].tree = TRUE /\ checkout[0].attached = TRUE
      /\ \A b \in Name : checkout[b].dirty = FALSE /\ checkout[b].ahead = FALSE
  BY Zenon, Zero DEF WatchdogInit, FreshCheckout, NoCheckout
<1>9. Rostered
  <2>1. \A w \in Launch : worker[w].attempt = 0 /\ (worker[w].housed => w = 0)
    BY Zenon, <1>7
  <2>2. 0 <= 0 /\ ~(0 < 0)
    OBVIOUS
  <2>3. \A v, w \in Launch :
          /\ worker[v].housed /\ worker[w].housed
          /\ worker[v].attempt = worker[w].attempt /\ tracked.attempt <= worker[v].attempt
          => v = w
    BY Zenon, <2>1
  <2>4. \A w \in Launch : worker[w].attempt <= tracked.attempt
    BY Zenon, <1>6, <2>1, <2>2
  <2>5. ASSUME NEW w \in Launch, worker[w].housed
        PROVE  /\ worker[w].name = worker[w].attempt
               /\ worker[w].attempt < tracked.attempt => worker[w].proc # "running"
               /\ tracked.attempt <= worker[w].attempt => checkout[worker[w].name].branch
    BY Zenon, <1>6, <1>7, <1>8, <2>1, <2>2, <2>5
  <2>6. worker[0].proc # "none"
    BY <1>7
  <2> QED
    BY Zenon, <1>6, <1>7, <2>3, <2>4, <2>5, <2>6 DEF Rostered
<1>10. Grounded
  BY Zenon, <1>6, <1>7, <1>8 DEF Grounded, WorkSurvives
<1>11. Told /\ Informed
  BY Zenon, <1>5, <1>6, <1>7 DEF Told, OnlyDeadFail, Informed, Busy
<1> QED
  BY Zenon, <1>2, <1>3, <1>4, <1>5, <1>9, <1>10, <1>11 DEF Watched, Typed

(* Workers that exit and shims that end change nothing the watchdog knows. *)
LEMMA ExitStep ==
  ASSUME Watched, NEW w \in Launch,
         \/ await_published_node(w) \/ record_worker_exit(w) \/ ShimLost(w)
         \/ \E code \in {"clean", "fail"} : Exit(w, code)
  PROVE  Watched'
<1> USE DEF Watched, Typed
<1>1. WorkerTyped' /\ Fading /\ UNCHANGED <<checkout, dog>>
  <2>1. CASE await_published_node(w)
    BY SMTT(60), <2>1 DEF await_published_node, WorkerTyped, WorkerFields, Fading
  <2>2. CASE record_worker_exit(w)
    BY ZenonT(60), <2>2 DEF record_worker_exit, WorkerTyped, WorkerFields, Fading
  <2>3. CASE ShimLost(w)
    BY ZenonT(60), <2>3 DEF ShimLost, WorkerTyped, WorkerFields, Fading
  <2>4. CASE \E code \in {"clean", "fail"} : Exit(w, code)
    BY SMTT(60), <2>4 DEF Exit, WorkerTyped, WorkerFields, Fading
  <2> QED
    BY Zenon, <2>1, <2>2, <2>3, <2>4
<1>2. Standing
  BY Zenon, <1>1 DEF Standing
<1>3. /\ Same /\ NodeTyped' /\ tracked'.report = tracked.report
      /\ \/ tracked'.exit = tracked.exit
         \/ /\ tracked'.exit.by = w /\ worker'[w].proc = "gone"
            /\ worker[w].attempt = tracked.attempt
  <2>1. CASE record_worker_exit(w)
    BY ZenonT(60), <2>1 DEF record_worker_exit, Same, NodeTyped, NodeFields, settled, WorkerTyped, WorkerFields
  <2>2. CASE ~record_worker_exit(w)
    <3>1. tracked' = tracked
      BY Zenon, <2>2 DEF await_published_node, ShimLost, Exit
    <3> QED
      BY Zenon, <3>1 DEF Same, NodeTyped, settled
  <2> QED
    BY Zenon, <2>1, <2>2
<1>4. Rostered' /\ Grounded'
  BY Zenon, <1>1, <1>3, GroundedKeeps
<1>5. DogTyped' /\ Informed'
  BY Zenon, <1>1, <1>2, <1>3, InformedKeeps
<1>6. Told'
  <2>1. CASE tracked'.exit = tracked.exit
    BY Zenon, <1>1, <1>3, <2>1, ToldKeeps
  <2>2. CASE tracked'.exit # tracked.exit
    <3>1. OnlyDeadFail'
      BY ZenonT(60), <1>1, <1>3 DEF Told, OnlyDeadFail, Fading, Same, NodeTyped
    <3>2. worker[w].housed => w = tracked.agent
      BY SMTT(60), <1>3, <2>2 DEF Rostered, NodeTyped, Name
    <3>3. tracked'.exit.by = tracked'.agent \/ ~worker'[tracked'.exit.by].housed
      BY Zenon, <1>1, <1>3, <2>2, <3>2 DEF Fading, Same
    <3> QED
      BY Zenon, <1>3, <2>2, <3>1, <3>3 DEF Told
  <2> QED
    BY Zenon, <2>1, <2>2
<1>7. CheckoutTyped'
  BY Zenon, <1>1 DEF CheckoutTyped
<1> QED
  BY Zenon, <1>1, <1>3, <1>4, <1>5, <1>6, <1>7

(* Work of a worker, a late commit and a merge are where Git keeps them. *)
LEMMA WorkStep ==
  ASSUME Watched,
         \/ \E w \in Launch : Work(w)
         \/ \E b \in Name : LateCommit(b)
         \/ MergeStep
  PROVE  Watched'
<1> USE DEF Watched, Typed
<1>1. UNCHANGED <<worker, dog>> /\ Fading /\ WorkerTyped'
  BY Zenon DEF Work, LateCommit, MergeStep, Fading, WorkerTyped
<1> DEFINE Worked ==
      /\ CheckoutTyped' /\ Standing
      /\ \A b \in Name :
           /\ checkout'[b].ahead => checkout[b].ahead \/ checkout[b].branch
           /\ checkout'[b].dirty => checkout[b].dirty \/ checkout[b].tree
           /\ checkout'[b].dirty \/ checkout'[b].ahead =>
                checkout[b].dirty \/ checkout[b].ahead \/ checkout[b].branch
<1>2. Worked
  <2>1. ASSUME NEW w \in Launch, Work(w) PROVE Worked
    <3>1. PICK what \in {"ahead", "dirty"} :
            checkout' = [checkout EXCEPT
              ![worker[w].name][what] = TRUE,
              ![worker[w].name].gained = @ \/ what = "ahead"]
      BY Zenon, <2>1 DEF Work
    <3>2. worker[w].name \in Name /\ checkout[worker[w].name].branch
          /\ checkout[worker[w].name].tree
      BY Zenon, <2>1 DEF Work, WorkerTyped, Grounded
    <3> DEFINE n == worker[w].name
    <3>3. checkout'[n].branch = checkout[n].branch /\ checkout'[n].tree = checkout[n].tree
          /\ checkout'[n].attached = checkout[n].attached
          /\ checkout'[n] = [x \in CheckoutFields |-> checkout'[n][x]]
      <4>1. PICK g : checkout'[n] = [[checkout[n] EXCEPT ![what] = TRUE] EXCEPT !.gained = g]
        BY Zenon, <3>1, <3>2 DEF CheckoutTyped
      <4>2. checkout[n] = [x \in CheckoutFields |-> checkout[n][x]]
        BY Zenon, <3>2 DEF CheckoutTyped
      <4>3. what \in CheckoutFields /\ "gained" \in CheckoutFields
        BY Zenon DEF CheckoutFields
      <4>4. checkout'[n] = [x \in CheckoutFields |->
               IF x = "gained" THEN g ELSE IF x = what THEN TRUE ELSE checkout[n][x]]
        BY Zenon, <4>1, <4>2, <4>3
      <4> QED
        BY Zenon, <4>4 DEF CheckoutFields
    <3>4. \A b \in Name \ {n} : checkout'[b] = checkout[b]
      BY Zenon, <3>1, <3>2 DEF CheckoutTyped
    <3>5. checkout' = [b \in Name |-> checkout'[b]]
      BY Zenon, <3>1, <3>2 DEF CheckoutTyped
    <3> QED
      BY SMTT(60), <3>2, <3>3, <3>4, <3>5 DEF CheckoutTyped, Standing
  <2>2. ASSUME NEW b \in Name, LateCommit(b) PROVE Worked
    BY ZenonT(60), <2>2 DEF LateCommit, CheckoutTyped, CheckoutFields, Standing
  <2>3. CASE MergeStep
    <3>1. tracked.name \in Name
      BY Zenon DEF NodeTyped
    <3>2. CASE UNCHANGED checkout
      BY Zenon, <3>2 DEF CheckoutTyped, Standing
    <3>3. CASE checkout' = [checkout EXCEPT ![tracked.name].ahead = FALSE]
      BY ZenonT(60), <3>1, <3>3 DEF CheckoutTyped, CheckoutFields, Standing
    <3> QED
      BY Zenon, <2>3, <3>2, <3>3 DEF MergeStep
  <2> QED
    BY Zenon, <2>1, <2>2, <2>3
<1>3. /\ Same /\ NodeTyped' /\ tracked'.exit = tracked.exit
      /\ tracked'.report # "supervisor" \/ tracked'.report = tracked.report
  <2>1. CASE MergeStep
    BY Zenon, <2>1 DEF MergeStep, settle, settled, Settled, Same, NodeTyped, NodeFields
  <2>2. CASE ~MergeStep
    <3>1. tracked' = tracked
      BY Zenon, <2>2 DEF Work, LateCommit
    <3> QED
      BY Zenon, <3>1 DEF Same, NodeTyped, settled
  <2> QED
    BY Zenon, <2>1, <2>2
<1>4. Rostered' /\ Grounded'
  <2>1. WorkSurvives'
    BY Zenon, <1>2 DEF Grounded, WorkSurvives, Standing
  <2>2. \A b \in Name : checkout'[b].dirty \/ checkout'[b].ahead
                         => checkout'[b].branch \/ checkout'[b].attached
    BY Zenon, <1>2 DEF Grounded, Standing
  <2> QED
    BY Zenon, <1>1, <1>2, <1>3, <2>1, <2>2, SameKeeps DEF Grounded
<1>5. DogTyped' /\ Informed' /\ Told'
  BY Zenon, <1>1, <1>2, <1>3, InformedKeeps, ToldKeeps
<1> QED
  BY Zenon, <1>1, <1>2, <1>3, <1>4, <1>5

(* A report, a cancellation and the end of a round settle or mark the node. *)
LEMMA ReportStep == ASSUME Watched, Reported \/ RoundReported PROVE Watched'
<1> USE DEF Watched, Typed
<1>1. UNCHANGED <<worker, checkout, dog>>
  BY Zenon DEF Reported, RoundReported
<1>2. Fading /\ Standing /\ WorkerTyped' /\ CheckoutTyped'
  BY Zenon, <1>1 DEF Fading, Standing, WorkerTyped, CheckoutTyped
<1>3. /\ Same /\ NodeTyped' /\ tracked'.exit = tracked.exit
      /\ tracked'.report # "supervisor" \/ tracked'.report = tracked.report
  BY ZenonT(60) DEF Reported, RoundReported, settle, settled, Settled, Same, NodeTyped, NodeFields
<1>4. Rostered' /\ Grounded'
  BY Zenon, <1>1, <1>2, <1>3, GroundedKeeps
<1>5. DogTyped' /\ Informed' /\ Told'
  BY Zenon, <1>1, <1>2, <1>3, InformedKeeps, ToldKeeps
<1> QED
  BY Zenon, <1>2, <1>3, <1>4, <1>5

(* A worker that materialize starts is a worker. *)
LEMMA LaunchTyped ==
  ASSUME WorkerTyped, NEW w \in Launch, NEW a \in Name, NEW n \in Name,
         worker' = [worker EXCEPT ![w] = Started(a, n)]
  PROVE  WorkerTyped'
<1>1. worker'[w] = Started(a, n) /\ \A v \in Launch \ {w} : worker'[v] = worker[v]
  BY Zenon DEF WorkerTyped
<1>2. Started(a, n) = [x \in WorkerFields |-> Started(a, n)[x]]
  BY Zenon DEF Started, WorkerFields
<1>3. /\ Started(a, n).proc = "running" /\ Started(a, n).attempt = a
      /\ Started(a, n).name = n /\ Started(a, n).housed = TRUE
  BY Zenon DEF Started
<1>4. worker' = [v \in Launch |-> worker'[v]]
  BY Zenon DEF WorkerTyped
<1> HIDE DEF Started
<1> QED
  BY ZenonT(60), <1>1, <1>2, <1>3, <1>4 DEF WorkerTyped

(* A resident resumed has one worker more, under the next number. *)
LEMMA ResumeStep == ASSUME Watched, Resumed PROVE Watched'
<1> USE DEF Watched, Typed
<1>1. PICK w \in Launch :
        /\ worker[w] = Unborn
        /\ worker' = [worker EXCEPT ![w] = Started(tracked.attempt + 1, tracked.name)]
        /\ tracked' = [tracked EXCEPT
             !.attempt = @ + 1, !.agent = w, !.exit = NoExit,
             !.death = FALSE, !.round = FALSE, !.merging = "no"]
  BY Zenon DEF Resumed
<1>2. /\ UNCHANGED <<checkout, dog>> /\ tracked.kind = "resident" /\ tracked.report = "none"
      /\ tracked.attempt + 1 \in Name /\ tracked.attempt \in Nat
  BY SMTT(60), WatchdogAssumption DEF Resumed, NodeTyped, Name
<1>3. w # 0 /\ w # tracked.agent /\ w # dog.seen.agent
  BY SMTT(60), <1>1 DEF Rostered, Informed, Unborn
<1>4. /\ tracked'.kind = "resident" /\ tracked'.attempt = tracked.attempt + 1
      /\ tracked'.agent = w /\ tracked'.name = tracked.name /\ tracked'.exit = NoExit
      /\ tracked'.report = "none" /\ tracked'.status = tracked.status
      /\ tracked' = [x \in NodeFields |-> tracked'[x]]
  BY Zenon, <1>1, <1>2 DEF NodeTyped, NodeFields
<1>5. NodeTyped'
  BY Zenon, <1>2, <1>4 DEF NodeTyped, Kinds
<1>6. /\ worker'[w].proc = "running" /\ worker'[w].attempt = tracked.attempt + 1
      /\ worker'[w].name = tracked.name /\ worker'[w].housed = TRUE
      /\ \A v \in Launch \ {w} : worker'[v] = worker[v]
  BY Zenon, <1>1 DEF WorkerTyped, Started
<1>7. WorkerTyped'
  BY Zenon, <1>1, <1>2, LaunchTyped DEF NodeTyped
<1>8. Rostered'
  BY SMTT(60), <1>2, <1>3, <1>4, <1>6, Zero DEF Rostered, WorkerTyped
<1>9. Grounded'
  BY ZenonT(60), <1>2, <1>4, <1>6 DEF Grounded, WorkSurvives
<1>10. Told'
  BY Zenon, <1>4 DEF Told, OnlyDeadFail
<1>11. DogTyped' /\ Informed'
  BY ZenonT(60), <1>2, <1>3, <1>4, <1>6 DEF DogTyped, Informed, Busy
<1>12. CheckoutTyped'
  BY Zenon, <1>2 DEF CheckoutTyped
<1> QED
  BY Zenon, <1>5, <1>7, <1>8, <1>9, <1>10, <1>11, <1>12

(* What changes only the supervisor leaves the rest as it was. *)
LEMMA DogKeeps ==
  ASSUME Watched, UNCHANGED <<tracked, worker, checkout>>, DogTyped', Informed'
  PROVE  Watched'
BY SMTT(60) DEF Watched, Typed, NodeTyped, settled, WorkerTyped, CheckoutTyped, Rostered, Grounded,
   WorkSurvives, Told, OnlyDeadFail

(* What settles the node or records a death, and leaves the supervisor at   *)
(* rest with its park, keeps what is known.                                *)
LEMMA SettleKeeps ==
  ASSUME Watched, UNCHANGED <<worker, checkout>>, Same, NodeTyped',
         tracked'.exit = tracked.exit,
         \/ tracked'.report # "supervisor" \/ tracked'.report = tracked.report
         \/ OnlyDeadFail',
         DogTyped', Informed'
  PROVE  Watched'
<1> USE DEF Watched, Typed
<1>1. Fading /\ Standing /\ WorkerTyped' /\ CheckoutTyped'
  BY Zenon DEF Fading, Standing, WorkerTyped, CheckoutTyped
<1>2. Rostered' /\ Grounded'
  BY Zenon, <1>1, GroundedKeeps
<1>3. Told'
  <2>1. CASE OnlyDeadFail'
    BY Zenon, <2>1 DEF Told, Same, NoExit
  <2>2. CASE ~OnlyDeadFail'
    BY Zenon, <1>1, <2>2, ToldKeeps
  <2> QED
    BY Zenon, <2>1, <2>2
<1> QED
  BY Zenon, <1>1, <1>2, <1>3

(* The scan, the probe and the reconciliation only look. *)
LEMMA LookStep ==
  ASSUME Watched,
         watchdog_tick \/ check_liveness \/ reconcile_agent_retries
           \/ cleanup_superseded_node \/ SupervisorCrash
  PROVE  Watched'
<1> USE DEF Watched, Typed
<1>1. UNCHANGED <<tracked, worker, checkout>>
  BY Zenon DEF watchdog_tick, check_liveness, reconcile_agent_retries, cleanup_superseded_node,
     SupervisorCrash
<1>2. ASSUME dog' = Resting(NoPark) PROVE DogTyped' /\ Informed'
  BY Zenon, <1>1, <1>2, IdleEffect, NoParkTyped, RestInformed DEF Rostered
<1>3. CASE watchdog_tick
  <2>1. /\ dog'.pc \in {"reconcile", "told", "probe"} /\ dog'.seen = tracked
        /\ dog'.park = dog.park /\ DogTyped' /\ dog.pc = "idle"
        /\ dog'.pc = "told" => tracked.exit.code = "fail"
    BY Zenon, <1>3 DEF watchdog_tick, classify_live_node, DogTyped, NodeTyped
  <2>2. dog'.pc = "told" => tracked.exit # NoExit
    BY SMTT(60), <2>1 DEF NoExit
  <2>3. Informed'
    BY Zenon, <1>1, <2>1, <2>2 DEF Informed, Rostered, Busy
  <2> QED
    BY Zenon, <1>1, <2>1, <2>3, DogKeeps
<1>4. CASE check_liveness
  <2>1. /\ dog'.pc \in {"reconcile", "backstop", "observe"} /\ dog'.seen = dog.seen
        /\ dog'.park = dog.park /\ DogTyped' /\ dog.pc = "probe"
        /\ dog'.pc # "reconcile" => worker[dog.seen.agent].proc # "running"
    BY Zenon, <1>4 DEF check_liveness, DogTyped
  <2>2. Informed'
    BY Zenon, <1>1, <2>1 DEF Informed, WorkerTyped, DogTyped, Busy
  <2> QED
    BY Zenon, <1>1, <2>1, <2>2, DogKeeps
<1>5. CASE reconcile_agent_retries
  <2>1. CASE dog' = Resting(NoPark)
    BY Zenon, <1>1, <1>2, <2>1, DogKeeps
  <2>2. CASE dog' # Resting(NoPark)
    <3>1. /\ dog'.pc = "spawn" /\ dog'.seen = tracked /\ dog'.park = dog.park
          /\ dog.park # NoPark /\ DogTyped' /\ dog.pc = "reconcile"
      BY Zenon, <1>5, <2>2 DEF reconcile_agent_retries, DogTyped, NodeTyped
    <3>2. Informed'
      BY Zenon, <1>1, <3>1 DEF Informed, Rostered, Busy
    <3> QED
      BY Zenon, <1>1, <3>1, <3>2, DogKeeps
  <2> QED
    BY Zenon, <2>1, <2>2
<1>6. CASE cleanup_superseded_node
  <2>1. CASE dog' = Resting(NoPark)
    BY Zenon, <1>1, <1>2, <2>1, DogKeeps
  <2>2. CASE dog' # Resting(NoPark)
    <3>1. /\ dog'.pc = "remove" /\ dog'.seen = dog.seen /\ dog'.park = dog.park
          /\ DogTyped' /\ dog.pc = "supersede"
      BY Zenon, <1>6, <2>2 DEF cleanup_superseded_node, DogTyped
    <3>2. Informed'
      BY Zenon, <1>1, <3>1 DEF Informed, Busy
    <3> QED
      BY Zenon, <1>1, <3>1, <3>2, DogKeeps
  <2> QED
    BY Zenon, <2>1, <2>2
<1>7. CASE SupervisorCrash
  BY Zenon, <1>1, <1>2, <1>7, DogKeeps DEF SupervisorCrash
<1> QED
  BY Zenon, <1>3, <1>4, <1>5, <1>6, <1>7

(* A park that outlives its tick is for the attempt after the node's. *)
LEMMA ParkKept ==
  ASSUME Watched, dog.pc \notin Busy
  PROVE  \/ dog.park = NoPark
         \/ /\ tracked.kind = "worker" /\ dog.park.attempt = tracked.attempt + 1
            /\ worker[tracked.agent].proc = "gone"
BY Zenon DEF Watched, Informed

(* A death is recorded, a node is failed or parked, only for the worker    *)
(* that was seen.                                                          *)
LEMMA VerdictStep ==
  ASSUME Watched,
         record_death_observed \/ synthesize_crash_backstop_failure
           \/ synthesize_worker_exit_failure
  PROVE  Watched'
<1> USE DEF Watched, Typed
<1>1. UNCHANGED <<worker, checkout>> /\ worker'[0].proc # "none" /\ dog.park \in ParkSet
  BY Zenon DEF record_death_observed, synthesize_crash_backstop_failure,
     synthesize_worker_exit_failure, Rostered, DogTyped
<1>2. ASSUME dog' = [Resting(dog.park) EXCEPT !.pc = "reconcile"], Same, dog.pc \notin Busy
      PROVE  DogTyped' /\ Informed'
  BY Zenon, <1>1, <1>2, RestEffect, ParkKept, RestInformed DEF Same
<1>3. CASE record_death_observed
  <2>1. /\ Same /\ NodeTyped' /\ tracked'.exit = tracked.exit
        /\ tracked'.report = tracked.report
    BY Zenon, <1>3 DEF record_death_observed, Same, NodeTyped, NodeFields, settled
  <2>2. DogTyped' /\ Informed'
    BY Zenon, <1>2, <1>3, <2>1 DEF record_death_observed, Busy
  <2> QED
    BY Zenon, <1>1, <2>1, <2>2, SettleKeeps
<1>4. CASE synthesize_crash_backstop_failure
  <2>1. worker[dog.seen.agent].proc = "gone" /\ dog.pc \notin Busy
    BY Zenon, <1>4 DEF synthesize_crash_backstop_failure, Informed, Busy
  <2>2. CASE still_untold(tracked) /\ may_park(tracked)
    <3>1. /\ tracked.kind = "worker" /\ tracked.attempt + 1 \in Name
          /\ worker[tracked.agent].proc = "gone"
      BY SMTT(60), <2>1, <2>2, WatchdogAssumption
      DEF still_untold, may_park, retry_eligible_kind, NodeTyped, Name
    <3>2. /\ UNCHANGED tracked
          /\ dog' = [Resting(NoPark) EXCEPT !.pc = "reconcile",
                       !.park = [attempt |-> tracked.attempt + 1, failures |-> 0]]
      BY Zenon, <1>4, <2>2 DEF synthesize_crash_backstop_failure
    <3>3. [attempt |-> tracked.attempt + 1, failures |-> 0] \in ParkSet
      BY SMTT(60), <3>1, WatchdogAssumption DEF ParkSet
    <3>4. /\ dog'.pc = "reconcile" /\ dog'.seen.agent = 0
          /\ dog'.park = [attempt |-> tracked.attempt + 1, failures |-> 0] /\ DogTyped'
      BY Zenon, <3>2, <3>3, Zero DEF Resting, DogTyped, Tracked
    <3>5. Informed'
      BY SMTT(60), <1>1, <3>1, <3>2, <3>4, RestInformed
    <3> QED
      BY Zenon, <1>1, <3>2, <3>4, <3>5, DogKeeps
  <2>3. CASE ~(still_untold(tracked) /\ may_park(tracked))
    <3>1. /\ dog' = [Resting(dog.park) EXCEPT !.pc = "reconcile"]
          /\ IF still_untold(tracked) THEN settle("failed", "supervisor")
             ELSE UNCHANGED tracked
      BY Zenon, <1>4, <2>3 DEF synthesize_crash_backstop_failure
    <3>2. Same /\ NodeTyped' /\ tracked'.exit = tracked.exit
      BY ZenonT(60), <3>1 DEF Same, NodeTyped, NodeFields, settle, settled, Settled
    <3>3. tracked'.report = tracked.report \/ OnlyDeadFail'
      BY Zenon, <1>1, <2>1, <3>1, <3>2 DEF OnlyDeadFail, still_untold, Same
    <3>4. DogTyped' /\ Informed'
      BY Zenon, <1>2, <2>1, <3>1, <3>2
    <3> QED
      BY Zenon, <1>1, <3>2, <3>3, <3>4, SettleKeeps
  <2> QED
    BY Zenon, <2>2, <2>3
<1>5. CASE synthesize_worker_exit_failure
  <2>1. /\ dog.seen.exit # NoExit /\ dog.pc \notin Busy
        /\ dog' = [Resting(dog.park) EXCEPT !.pc = "reconcile"]
        /\ \/ tracked.exit = dog.seen.exit /\ settle("failed", "supervisor")
           \/ UNCHANGED tracked
    BY Zenon, <1>5 DEF synthesize_worker_exit_failure, Informed, Busy
  <2>2. Same /\ NodeTyped' /\ tracked'.exit = tracked.exit
    BY Zenon, <2>1 DEF Same, NodeTyped, NodeFields, settle, settled, Settled
  <2>3. tracked'.report = tracked.report \/ OnlyDeadFail'
    BY Zenon, <1>1, <2>1, <2>2 DEF OnlyDeadFail, Told, Same
  <2>4. DogTyped' /\ Informed'
    BY Zenon, <1>2, <2>1, <2>2
  <2> QED
    BY Zenon, <1>1, <2>2, <2>3, <2>4, SettleKeeps
<1> QED
  BY Zenon, <1>3, <1>4, <1>5

(* A respawn that failed keeps its park, for the same attempt, or gives up. *)
LEMMA RespawnFailedStep ==
  ASSUME Watched, UNCHANGED <<tracked, worker, checkout>>, dog.pc = "spawn", RespawnFailed
  PROVE  Watched'
<1> USE DEF Watched, Typed
<1>1. /\ dog.park # NoPark /\ tracked.kind = "worker"
      /\ dog.park.attempt = tracked.attempt + 1 /\ worker[tracked.agent].proc = "gone"
  BY Zenon DEF Informed, Busy
<1>2. CASE dog' = [dog EXCEPT !.pc = "giveup"]
  <2>1. DogTyped' /\ dog'.pc = "giveup" /\ dog'.seen = dog.seen /\ dog'.park = dog.park
    BY Zenon, <1>2 DEF DogTyped
  <2>2. Informed'
    BY Zenon, <1>1, <2>1 DEF Informed, Busy
  <2> QED
    BY Zenon, <2>1, <2>2, DogKeeps
<1>3. CASE /\ dog' = Resting([dog.park EXCEPT !.failures = @ + 1])
           /\ dog.park.failures + 1 < MaxSpawnFailures
  <2>1. /\ [dog.park EXCEPT !.failures = @ + 1] \in ParkSet
        /\ [dog.park EXCEPT !.failures = @ + 1].attempt = tracked.attempt + 1
    BY SMTT(60), <1>1, <1>3, WatchdogAssumption DEF DogTyped, ParkSet
  <2>2. DogTyped' /\ dog'.pc = "idle" /\ dog'.seen.agent = 0
        /\ dog'.park.attempt = tracked.attempt + 1
    BY Zenon, <1>3, <2>1, IdleEffect
  <2>3. Informed'
    BY Zenon, <1>1, <2>2, RestInformed DEF Rostered
  <2> QED
    BY Zenon, <2>2, <2>3, DogKeeps
<1>4. dog.park.failures + 1 >= MaxSpawnFailures \/ dog.park.failures + 1 < MaxSpawnFailures
  BY SMTT(60), WatchdogAssumption DEF DogTyped, ParkSet
<1> QED
  BY Zenon, <1>2, <1>3, <1>4 DEF RespawnFailed

(* respawn_agent starts the one worker of a new checkout. *)
LEMMA RespawnStep == ASSUME Watched, respawn_agent PROVE Watched'
<1> USE DEF Watched, Typed
<1>1. dog.pc = "spawn" /\ UNCHANGED tracked
  BY Zenon DEF respawn_agent
<1>2. CASE RespawnFailed /\ UNCHANGED <<worker, checkout>>
  BY Zenon, <1>1, <1>2, RespawnFailedStep
<1>3. CASE ~(RespawnFailed /\ UNCHANGED <<worker, checkout>>)
  <2>1. PICK w \in Launch :
          /\ worker[w] = Unborn
          /\ worker' = [worker EXCEPT ![w] = Started(dog.park.attempt, dog.park.attempt)]
          /\ dog' = [dog EXCEPT !.pc = "rewire", !.fresh = w]
    BY Zenon, <1>3 DEF respawn_agent
  <2> DEFINE a == dog.park.attempt
  <2>2. ~checkout[a].branch /\ checkout' = [checkout EXCEPT ![a] = FreshCheckout]
    BY Zenon, <1>3 DEF respawn_agent
  <2>3. /\ a = tracked.attempt + 1 /\ tracked.kind = "worker" /\ dog.park # NoPark
        /\ worker[tracked.agent].proc = "gone" /\ dog.seen.name = tracked.name
    BY Zenon, <1>1 DEF Informed, Busy
  <2>4. a \in Name /\ tracked.attempt \in Nat
    BY Zenon, Zero DEF DogTyped, ParkSet, NodeTyped
  <2>5. w # 0 /\ w # tracked.agent /\ w # dog.seen.agent
    BY SMTT(60), <2>1 DEF Rostered, Informed, Unborn
  <2>6. /\ worker'[w].proc = "running" /\ worker'[w].attempt = a
        /\ worker'[w].name = a /\ worker'[w].housed = TRUE
        /\ \A v \in Launch \ {w} : worker'[v] = worker[v]
    BY Zenon, <2>1 DEF WorkerTyped, Started
  <2>7. WorkerTyped'
    BY Zenon, <2>1, <2>4, LaunchTyped
  <2>8. /\ checkout'[a].branch = TRUE /\ checkout'[a].tree = TRUE
        /\ checkout'[a].ahead = FALSE /\ checkout'[a].dirty = FALSE
        /\ \A b \in Name \ {a} : checkout'[b] = checkout[b]
    BY Zenon, <2>2, <2>4 DEF CheckoutTyped, FreshCheckout, NoCheckout
  <2>9. CheckoutTyped'
    BY Zenon, <2>2, <2>4 DEF CheckoutTyped, CheckoutFields, FreshCheckout, NoCheckout
  <2>10. /\ DogTyped' /\ dog'.pc = "rewire" /\ dog'.fresh = w /\ dog'.park = dog.park
         /\ dog'.seen = dog.seen
    BY Zenon, <2>1 DEF DogTyped
  <2>11. NodeTyped'
    BY Zenon, <1>1 DEF NodeTyped, settled
  <2> HIDE DEF a
  <2>12. \A v \in Launch \ {w} : worker[v].housed => worker[v].attempt # a
    BY SMTT(60), <2>2, <2>3, <2>4 DEF Rostered
  <2>13. Rostered'
    <3>1. tracked.agent \in Launch \ {w} /\ 0 \in Launch \ {w}
      BY Zenon, <2>5, Zero DEF NodeTyped
    <3>2. \A u, v \in Launch :
            /\ worker'[u].housed /\ worker'[v].housed
            /\ worker'[u].attempt = worker'[v].attempt /\ tracked.attempt <= worker'[u].attempt
            => u = v
      BY SMTT(60), <2>6, <2>12 DEF Rostered
    <3>3. ASSUME NEW v \in Launch, worker'[v].housed
          PROVE  /\ worker'[v].name = worker'[v].attempt
                 /\ worker'[v].attempt < tracked.attempt => worker'[v].proc # "running"
                 /\ tracked.attempt <= worker'[v].attempt => checkout'[worker'[v].name].branch
      <4>1. CASE v = w
        BY SMTT(60), <2>3, <2>4, <2>6, <2>8, <4>1
      <4>2. CASE v # w
        <5>1. worker'[v] = worker[v] /\ worker[v].name \in Name
          BY Zenon, <2>6, <4>2 DEF WorkerTyped
        <5> QED
          BY SMTT(60), <2>3, <2>8, <3>3, <5>1, <2>12, <4>2 DEF Rostered
      <4> QED
        BY Zenon, <4>1, <4>2
    <3> QED
      BY Zenon, <1>1, <2>3, <2>6, <3>1, <3>2, <3>3 DEF Rostered
  <2>14. tracked.name # a
    BY SMTT(60), <2>3, <2>4 DEF Rostered
  <2>15. WorkSurvives'
    BY Zenon, <2>8 DEF Grounded, WorkSurvives
  <2>16. \A v \in Launch : worker'[v].housed /\ worker'[v].proc = "running" =>
           checkout'[worker'[v].name].branch /\ checkout'[worker'[v].name].tree
    BY SMTT(60), <2>6, <2>8 DEF Grounded, WorkerTyped
  <2>17. Grounded'
    BY Zenon, <1>1, <2>8, <2>14, <2>15, <2>16 DEF Grounded, NodeTyped
  <2>18. Told'
    BY SMTT(60), <1>1, <2>1, <2>5, <2>6 DEF Told, OnlyDeadFail, Unborn, NodeTyped
  <2>19. Informed'
    BY SMTT(60), <1>1, <2>3, <2>5, <2>6, <2>8, <2>10 DEF Informed, Busy, DogTyped, NodeTyped, a
  <2> QED
    BY Zenon, <2>7, <2>9, <2>10, <2>11, <2>13, <2>17, <2>18, <2>19
<1> QED
  BY Zenon, <1>2, <1>3

(* Giving up fails a node whose worker is dead. *)
LEMMA GiveUpStep == ASSUME Watched, terminalize_respawn_failure PROVE Watched'
<1> USE DEF Watched, Typed
<1>1. /\ UNCHANGED <<worker, checkout>> /\ worker'[0].proc # "none" /\ dog.park \in ParkSet
      /\ worker[tracked.agent].proc = "gone" /\ dog.pc \notin Busy
  BY Zenon DEF terminalize_respawn_failure, Rostered, DogTyped, Informed, Busy
<1>2. /\ Same /\ NodeTyped' /\ tracked'.exit = tracked.exit
  BY Zenon DEF terminalize_respawn_failure, Same, NodeTyped, NodeFields, settle, settled, Settled
<1>3. OnlyDeadFail'
  BY Zenon, <1>1, <1>2 DEF OnlyDeadFail, Same
<1>4. dog' = Resting(NoPark) \/ dog' = Resting(dog.park)
  BY Zenon DEF terminalize_respawn_failure
<1>5. DogTyped' /\ Informed'
  BY Zenon, <1>1, <1>2, <1>4, IdleEffect, NoParkTyped, ParkKept, RestInformed DEF Same
<1> QED
  BY Zenon, <1>1, <1>2, <1>3, <1>5, SettleKeeps

(* record_node_retry gives the node the fresh worker and its checkout.     *)
LEMMA RetryStep == ASSUME Watched, record_node_retry PROVE Watched'
<1> USE DEF Watched, Typed
<1> DEFINE a == tracked.attempt + 1
           f == dog.fresh
<1>1. /\ dog.pc = "rewire" /\ UNCHANGED worker /\ tracked.kind = "worker"
      /\ dog.park # NoPark /\ dog.park.attempt = a /\ worker[tracked.agent].proc = "gone"
      /\ f \in Launch /\ worker[f].housed /\ worker[f].proc # "none"
      /\ worker[f].attempt = a /\ checkout[a].tree /\ dog.seen.name = tracked.name
  BY Zenon DEF record_node_retry, Informed, Busy
<1>2. CASE UNCHANGED <<tracked, checkout>>
  <2>1. CASE dog' = [dog EXCEPT !.pc = "teardown", !.park = NoPark]
    <3>1. /\ DogTyped' /\ dog'.pc = "teardown" /\ dog'.park = NoPark
          /\ dog'.seen = dog.seen /\ dog'.fresh = f
      BY Zenon, <2>1, NoParkTyped DEF DogTyped
    <3>2. Informed'
      BY Zenon, <1>1, <1>2, <3>1 DEF Informed, Busy
    <3> QED
      BY Zenon, <1>1, <1>2, <3>1, <3>2, DogKeeps
  <2>2. CASE dog' = [dog EXCEPT !.pc = "teardown"]
    <3>1. /\ DogTyped' /\ dog'.pc = "teardown" /\ dog'.park = dog.park
          /\ dog'.seen = dog.seen /\ dog'.fresh = f
      BY Zenon, <2>2 DEF DogTyped
    <3>2. Informed'
      BY Zenon, <1>1, <1>2, <3>1 DEF Informed, Busy
    <3> QED
      BY Zenon, <1>1, <1>2, <3>1, <3>2, DogKeeps
  <2>3. CASE /\ tracked' = retried(tracked) /\ dog' = [dog EXCEPT !.pc = "supersede"]
    <3>1. tracked'.attempt = a /\ tracked.attempt \in Nat
      BY Zenon, <1>1, <2>3, Zero DEF retried, NodeTyped, NodeFields
    <3> QED
      BY SMTT(60), <1>2, <3>1
  <2> QED
    BY Zenon, <1>2, <2>1, <2>2, <2>3 DEF record_node_retry
<1>3. CASE ~UNCHANGED <<tracked, checkout>>
  <2>1. /\ tracked' = retried(tracked) /\ ~settled(tracked)
        /\ checkout' = [checkout EXCEPT ![a].attached = TRUE]
        /\ dog' = [dog EXCEPT !.pc = "supersede"]
    BY Zenon, <1>1, <1>3 DEF record_node_retry
  <2>2. /\ tracked'.attempt = a /\ tracked'.agent = f /\ tracked'.name = a
        /\ tracked'.kind = "worker" /\ tracked'.exit = NoExit /\ tracked'.report = "none"
        /\ tracked'.status = tracked.status /\ tracked' = [x \in NodeFields |-> tracked'[x]]
    BY Zenon, <1>1, <2>1 DEF retried, NodeTyped, NodeFields
  <2>3. a \in Name /\ tracked.attempt \in Nat /\ tracked.attempt \in Name
    BY Zenon, <1>1, Zero DEF NodeTyped, WorkerTyped
  <2>4. NodeTyped'
    BY Zenon, <1>1, <2>2, <2>3 DEF NodeTyped, Kinds
  <2>5. WorkerTyped' /\ CheckoutTyped'
    BY Zenon, <1>1, <2>1, <2>3 DEF WorkerTyped, CheckoutTyped, CheckoutFields
  <2>6. /\ checkout'[a].attached = TRUE
        /\ \A b \in Name : /\ checkout'[b].branch = checkout[b].branch
                           /\ checkout'[b].tree = checkout[b].tree
                           /\ checkout'[b].ahead = checkout[b].ahead
                           /\ checkout'[b].dirty = checkout[b].dirty
                           /\ b # a => checkout'[b].attached = checkout[b].attached
    BY ZenonT(60), <2>1, <2>3 DEF CheckoutTyped, CheckoutFields
  <2>7. /\ DogTyped' /\ dog'.pc = "supersede" /\ dog'.park = dog.park
        /\ dog'.seen = dog.seen /\ dog'.fresh = f
    BY Zenon, <2>1 DEF DogTyped
  <2>8. \A w \in Launch : worker[w].name \in Name /\ worker[w].attempt \in Nat
    BY Zenon, Zero DEF WorkerTyped
  <2>9. worker[f].name = a /\ checkout[a].branch /\ tracked.name = tracked.attempt
    BY SMTT(60), <1>1, <2>3 DEF Rostered
  <2> HIDE DEF a, f
  <2>10. Rostered'
    <3>1. ASSUME NEW v \in Launch, worker[v].housed
          PROVE  /\ worker[v].name = worker[v].attempt
                 /\ worker[v].attempt < a => worker[v].proc # "running"
                 /\ a <= worker[v].attempt => checkout'[worker[v].name].branch
      <4>1. worker[v].attempt = tracked.attempt => v = tracked.agent
        BY SMTT(60), <3>1, <2>3 DEF Rostered, NodeTyped
      <4>2. worker[v].attempt < a => worker[v].proc # "running"
        BY SMTT(60), <1>1, <2>3, <2>8, <3>1, <4>1 DEF Rostered, a
      <4> QED
        BY SMTT(60), <1>1, <2>3, <2>6, <2>8, <3>1, <4>2 DEF Rostered, a
    <3>2. \A v, w \in Launch :
            /\ worker[v].housed /\ worker[w].housed
            /\ worker[v].attempt = worker[w].attempt /\ a <= worker[v].attempt
            => v = w
      BY SMTT(60), <2>3, <2>8 DEF Rostered, a
    <3> QED
      BY ZenonT(60), <1>1, <2>2, <2>9, <3>1, <3>2 DEF Rostered
  <2>11. Grounded'
    <3>1. WorkSurvives'
      BY Zenon, <1>1, <2>3, <2>6, <2>9 DEF Grounded, WorkSurvives, a
    <3> QED
      BY SMTT(60), <1>1, <2>2, <2>3, <2>6, <2>8, <2>9, <3>1 DEF Grounded, a
  <2>12. Told'
    BY Zenon, <2>2 DEF Told, OnlyDeadFail
  <2>13. Informed'
    BY SMTT(60), <1>1, <2>2, <2>3, <2>6, <2>7, <2>9 DEF Informed, Busy, Grounded, a
  <2> QED
    BY Zenon, <2>4, <2>5, <2>7, <2>10, <2>11, <2>12, <2>13
<1> QED
  BY Zenon, <1>2, <1>3

(* A fresh worker that the node never got loses only its own checkout.     *)
LEMMA TearStep == ASSUME Watched, teardown_respawn_outcome PROVE Watched'
<1> USE DEF Watched, Typed
<1> DEFINE a == tracked.attempt + 1
           f == dog.fresh
<1>1. /\ dog.pc = "teardown" /\ UNCHANGED tracked /\ tracked.kind = "worker"
      /\ f \in Launch /\ worker[f].housed /\ worker[f].proc # "none"
      /\ worker[f].attempt = a /\ dog' = Resting(dog.park)
  BY Zenon DEF teardown_respawn_outcome, Informed
<1>2. a \in Name /\ tracked.attempt \in Nat /\ tracked.name = tracked.attempt
      /\ worker[f].name = a
  BY Zenon, <1>1, Zero DEF NodeTyped, WorkerTyped, Rostered
<1>3. /\ worker'[f].housed = FALSE /\ worker'[f].attempt = a /\ worker'[f].name = a
      /\ worker'[f].proc = worker[f].proc \/ worker'[f].proc = "gone"
      /\ \A v \in Launch \ {f} : worker'[v] = worker[v]
  BY SMTT(60), <1>1, <1>2 DEF teardown_respawn_outcome, WorkerTyped, WorkerFields
<1>4. WorkerTyped'
  <2>1. worker' = [v \in Launch |-> worker'[v]]
    BY Zenon DEF teardown_respawn_outcome, WorkerTyped
  <2>2. worker'[f] = [x \in WorkerFields |-> worker'[f][x]]
    BY SMTT(60), ZenonT(60), <1>1 DEF teardown_respawn_outcome, WorkerTyped, WorkerFields
  <2>3. worker'[f].proc \in {"none", "running", "gone"}
    BY Zenon, <1>1, <1>3 DEF WorkerTyped
  <2> QED
    BY Zenon, <1>2, <1>3, <2>1, <2>2, <2>3 DEF WorkerTyped
<1>5. checkout' = [checkout EXCEPT ![a] = NoCheckout]
  BY Zenon, <1>2 DEF teardown_respawn_outcome
<1>6. /\ checkout'[a].attached = FALSE /\ checkout'[a].ahead = FALSE
      /\ checkout'[a].dirty = FALSE
      /\ \A b \in Name \ {a} : checkout'[b] = checkout[b]
  BY Zenon, <1>2, <1>5 DEF CheckoutTyped, NoCheckout
<1>7. CheckoutTyped' /\ NodeTyped'
  BY Zenon, <1>1, <1>2, <1>5 DEF CheckoutTyped, CheckoutFields, NoCheckout, NodeTyped, settled
<1>8. f # tracked.agent /\ tracked.agent \in Launch
  BY SMTT(60), <1>1, <1>2 DEF Rostered, NodeTyped
<1>9. \A v \in Launch \ {f} : worker[v].housed =>
        worker[v].name = worker[v].attempt /\ worker[v].name # a /\ worker[v].name \in Name
  BY SMTT(60), <1>1, <1>2 DEF Rostered, WorkerTyped
<1> HIDE DEF a, f
<1>10. Rostered'
  <2>1. worker'[0].proc # "none"
    BY ZenonT(60), <1>1, <1>3, Zero DEF Rostered
  <2>2. \A u, v \in Launch :
          /\ worker'[u].housed /\ worker'[v].housed
          /\ worker'[u].attempt = worker'[v].attempt /\ tracked.attempt <= worker'[u].attempt
          => u = v
    BY ZenonT(60), <1>3 DEF Rostered
  <2>3. \A v \in Launch : worker'[v].housed =>
          /\ worker'[v].name = worker'[v].attempt
          /\ worker'[v].attempt < tracked.attempt => worker'[v].proc # "running"
          /\ tracked.attempt <= worker'[v].attempt => checkout'[worker'[v].name].branch
    BY SMTT(60), <1>1, <1>3, <1>6, <1>9 DEF Rostered
  <2> QED
    BY Zenon, <1>1, <1>2, <1>3, <1>8, <2>1, <2>2, <2>3 DEF Rostered
<1>11. Grounded'
  <2>1. WorkSurvives'
    BY Zenon, <1>6 DEF Grounded, WorkSurvives
  <2>2. tracked.name \in Name \ {a}
    BY SMTT(60), <1>2 DEF NodeTyped, a
  <2>3. \A v \in Launch : worker'[v].housed /\ worker'[v].proc = "running" =>
          checkout'[worker'[v].name].branch /\ checkout'[worker'[v].name].tree
    BY SMTT(60), <1>3, <1>6, <1>9 DEF Grounded
  <2> QED
    BY Zenon, <1>1, <1>6, <2>1, <2>2, <2>3 DEF Grounded
<1>12. Told'
  BY Zenon, <1>1, <1>3, <1>8 DEF Told, OnlyDeadFail, NoExit
<1>13. dog.park \in ParkSet /\ worker'[0].proc # "none" /\ dog.pc \notin Busy
  BY Zenon, <1>1, <1>10 DEF DogTyped, Rostered, Busy
<1>14. DogTyped' /\ Informed'
  BY Zenon, <1>1, <1>3, <1>8, <1>13, IdleEffect, ParkKept, RestInformed
<1> QED
  BY Zenon, <1>4, <1>7, <1>10, <1>11, <1>12, <1>14

(* A superseded checkout goes only when no worker is in it and Git has     *)
(* nothing to lose.                                                        *)
LEMMA RemoveStep == ASSUME Watched, remove_superseded PROVE Watched'
<1> USE DEF Watched, Typed
<1> DEFINE s == dog.seen.name
<1>1. /\ UNCHANGED <<tracked, worker>> /\ dog' = Resting(NoPark)
      /\ tracked.kind = "worker" /\ s < tracked.name /\ checkout[s].attached
      /\ s \in Name
  BY Zenon DEF remove_superseded, Informed, Busy, DogTyped
<1>2. DogTyped' /\ Informed'
  BY Zenon, <1>1, IdleEffect, NoParkTyped, RestInformed DEF Rostered
<1>3. CASE UNCHANGED checkout
  BY Zenon, <1>1, <1>2, <1>3, DogKeeps
<1>4. CASE ~UNCHANGED checkout
  <2>1. PICK kept \in {TRUE, checkout[s].ahead} :
          checkout' = [checkout EXCEPT ![s].tree = FALSE, ![s].branch = kept]
    BY Zenon, <1>4 DEF remove_superseded
  <2>2. ~(checkout[s].tree /\ checkout[s].dirty)
    BY Zenon, <1>4 DEF remove_superseded
  <2>3. /\ checkout'[s].branch = kept /\ checkout'[s].ahead = checkout[s].ahead
        /\ checkout'[s].dirty = checkout[s].dirty
        /\ checkout'[s].attached = checkout[s].attached
        /\ checkout'[s] = [x \in CheckoutFields |-> checkout'[s][x]]
    <3>1. checkout'[s] = [[checkout[s] EXCEPT !.tree = FALSE] EXCEPT !.branch = kept]
      BY Zenon, <1>1, <2>1 DEF CheckoutTyped
    <3>2. checkout[s] = [x \in CheckoutFields |-> checkout[s][x]]
      BY Zenon, <1>1 DEF CheckoutTyped
    <3> QED
      BY Zenon, <3>1, <3>2 DEF CheckoutFields
  <2>4. \A b \in Name \ {s} : checkout'[b] = checkout[b]
    BY Zenon, <1>1, <2>1 DEF CheckoutTyped
  <2>5. checkout' = [b \in Name |-> checkout'[b]]
    BY ZenonT(60), <1>1, <2>1 DEF CheckoutTyped
  <2>6. CheckoutTyped' /\ NodeTyped' /\ WorkerTyped'
    BY SMTT(60), <1>1, <2>3, <2>4, <2>5 DEF CheckoutTyped, NodeTyped, settled, WorkerTyped
  <2>7. /\ tracked.name \in Name \ {s} /\ tracked.name = tracked.attempt
        /\ tracked.name \in Nat /\ s \in Nat
    BY SMTT(60), <1>1, Zero DEF NodeTyped, Rostered
  <2>8. \A v \in Launch : worker[v].name \in Name
    BY Zenon DEF WorkerTyped
  <2> HIDE DEF s
  <2>9. Rostered'
    <3>1. ASSUME NEW v \in Launch, worker[v].housed, tracked.attempt <= worker[v].attempt
          PROVE  checkout'[worker[v].name].branch
      <4>1. worker[v].name = worker[v].attempt /\ checkout[worker[v].name].branch
        BY Zenon, <1>1, <3>1 DEF Rostered
      <4>2. worker[v].name # s /\ worker[v].name \in Name
        BY SMTT(60), <1>1, <2>7, <2>8, <3>1, <4>1
      <4> QED
        BY Zenon, <2>4, <4>1, <4>2
    <3> QED
      BY Zenon, <1>1, <3>1 DEF Rostered
  <2>10. ASSUME NEW v \in Launch, worker[v].housed, worker[v].proc = "running"
         PROVE  worker[v].name # s
    BY Zenon, <1>1, <2>7, <2>10 DEF Rostered
  <2>11. WorkSurvives'
    BY Zenon, <1>1, <2>2, <2>3, <2>4 DEF Grounded, WorkSurvives
  <2>12. Grounded'
    BY Zenon, <1>1, <2>3, <2>4, <2>7, <2>8, <2>10, <2>11 DEF Grounded
  <2>13. Told'
    BY Zenon, <1>1 DEF Told, OnlyDeadFail
  <2> QED
    BY Zenon, <1>2, <2>6, <2>9, <2>12, <2>13
<1> QED
  BY Zenon, <1>3, <1>4

(* Every step of the watchdog, the workers and everyone else keeps what is *)
(* known true.                                                             *)
LEMMA WatchedStep == Watched /\ [WatchdogNext]_watchdog_vars => Watched'
<1> SUFFICES ASSUME Watched, [WatchdogNext]_watchdog_vars PROVE Watched'
  BY Zenon
<1>1. CASE UNCHANGED watchdog_vars
  <2>1. DogTyped' /\ Informed'
    BY Zenon, <1>1 DEF watchdog_vars, Watched, Typed, DogTyped, Informed, Busy
  <2> QED
    BY Zenon, <1>1, <2>1, DogKeeps DEF watchdog_vars
<1>2. CASE Tick \/ SupervisorCrash
  BY Zenon, <1>2, LookStep, VerdictStep, RespawnStep, GiveUpStep, RetryStep, TearStep, RemoveStep
  DEF Tick
<1>3. CASE WatchdogNext /\ ~(Tick \/ SupervisorCrash)
  BY Zenon, <1>3, ExitStep, WorkStep, ReportStep, ResumeStep DEF WatchdogNext
<1> QED
  BY Zenon, <1>1, <1>2, <1>3

(* What is known is what the node and the disk promise. *)
LEMMA WatchedSafe == Watched => WatchdogSound
<1> SUFFICES ASSUME Watched PROVE WatchdogSound
  BY Zenon
<1>1. WatchdogTypeOK
  BY Zenon, Zero DEF Watched, Typed, NodeTyped, WorkerTyped, DogTyped, ParkSet, Grounded,
     WatchdogTypeOK, Name
<1>2. ExitIsOwn /\ OnlyDeadFail /\ WorkSurvives
  BY Zenon DEF Watched, Told, Grounded, ExitIsOwn
<1> QED
  BY Zenon, <1>1, <1>2 DEF WatchdogSound

(* Only record_node_retry moves the node, from a checkout with nothing in  *)
(* it, and every change of worker takes the next number.                   *)
LEMMA MoveStep ==
  Watched /\ [WatchdogNext]_watchdog_vars => RetryLeavesNothing /\ BoundedRetry
<1> SUFFICES ASSUME Watched, [WatchdogNext]_watchdog_vars
             PROVE  RetryLeavesNothing /\ BoundedRetry
  BY Zenon
<1>1. NodeTyped
  BY Zenon DEF Watched, Typed
<1>2. CASE record_node_retry
  <2>1. CASE UNCHANGED tracked
    BY Zenon, <2>1 DEF RetryLeavesNothing, BoundedRetry
  <2>2. CASE ~UNCHANGED tracked
    <3>1. /\ tracked' = retried(tracked) /\ node_is_empty_handed(tracked)
          /\ dog.park.attempt = tracked.attempt + 1
      BY Zenon, <1>2, <2>2 DEF record_node_retry, Watched, Informed, Busy
    <3>2. tracked'.attempt = tracked.attempt + 1
      BY Zenon, <1>1, <3>1 DEF NodeTyped, NodeFields, retried
    <3>3. ~checkout[tracked.name].ahead /\ ~checkout[tracked.name].dirty
      BY Zenon, <1>1, <3>1 DEF node_is_empty_handed, Watched, Grounded, WorkSurvives, NodeTyped
    <3> QED
      BY Zenon, <3>2, <3>3 DEF RetryLeavesNothing, BoundedRetry
  <2> QED
    BY Zenon, <2>1, <2>2
<1>3. CASE Resumed
  <2>1. tracked'.name = tracked.name /\ tracked'.attempt = tracked.attempt + 1
    BY Zenon, <1>1, <1>3 DEF Resumed, NodeTyped, NodeFields
  <2> QED
    BY Zenon, <2>1 DEF RetryLeavesNothing, BoundedRetry
<1>4. CASE tracked'.name = tracked.name /\ tracked'.agent = tracked.agent
  BY Zenon, <1>4 DEF RetryLeavesNothing, BoundedRetry
<1>5. CASE Tick /\ ~record_node_retry
  BY Zenon, <1>1, <1>4, <1>5 DEF Tick, watchdog_tick, check_liveness, record_death_observed,
     synthesize_crash_backstop_failure, synthesize_worker_exit_failure,
     reconcile_agent_retries, respawn_agent, terminalize_respawn_failure,
     teardown_respawn_outcome, cleanup_superseded_node, remove_superseded, settle,
     NodeTyped, NodeFields
<1>6. CASE SupervisorCrash \/ Reported \/ MergeStep \/ RoundReported
           \/ (\E b \in Name : LateCommit(b)) \/ UNCHANGED watchdog_vars
  BY Zenon, <1>1, <1>4, <1>6 DEF SupervisorCrash, Reported, MergeStep, RoundReported, LateCommit,
     watchdog_vars, settle, NodeTyped, NodeFields
<1>7. ASSUME NEW w \in Launch,
             \/ Work(w) \/ await_published_node(w) \/ record_worker_exit(w)
             \/ ShimLost(w) \/ \E code \in {"clean", "fail"} : Exit(w, code)
      PROVE  RetryLeavesNothing /\ BoundedRetry
  BY Zenon, <1>1, <1>4, <1>7 DEF Work, await_published_node, record_worker_exit, ShimLost, Exit,
     NodeTyped, NodeFields
<1> QED
  BY Zenon, <1>2, <1>3, <1>5, <1>6, <1>7 DEF WatchdogNext

(* watchdog_tick and everything it calls, for every number of attempts,    *)
(* launches, crashes and faults: an exit told is that of the node's own    *)
(* worker, the supervisor fails a node only when its worker is gone, and   *)
(* work in a checkout that was the node's survives every retry.            *)
THEOREM WatchdogSafe == WatchdogSpec => []WatchdogSound
<1>1. WatchdogInit => Watched
  BY Zenon, WatchedInit
<1>2. Watched /\ [WatchdogNext]_watchdog_vars => Watched'
  BY Zenon, WatchedStep
<1>3. Watched => WatchdogSound
  BY Zenon, WatchedSafe
<1> QED
  BY <1>1, <1>2, <1>3, PTL DEF WatchdogSpec

(* record_node_retry and a resume, in every reachable state: a retry       *)
(* leaves no commit and no edit behind, and each new worker of the node    *)
(* takes the next attempt number.                                          *)
THEOREM RetrySafe == WatchdogSpec => RetryIsSafe
<1> DEFINE Step == RetryLeavesNothing /\ BoundedRetry
<1>1. Watched /\ [WatchdogNext]_watchdog_vars => Step
  BY Zenon, MoveStep
<1>2. WatchdogInit => Watched
  BY Zenon, WatchedInit
<1>3. Watched /\ [WatchdogNext]_watchdog_vars => Watched'
  BY Zenon, WatchedStep
<1> HIDE DEF Step
<1>4. WatchdogSpec => [][Step]_watchdog_vars
  BY <1>1, <1>2, <1>3, PTL DEF WatchdogSpec
<1> QED
  BY Zenon, <1>4 DEF Step, RetryIsSafe

=============================================================================
