----------------------------- MODULE Observers ------------------------------
(***************************************************************************)
(* Those who watch a run: `run wait` polls the projections of several runs *)
(* and reports what it found, `event tail` follows the log while writers   *)
(* append to it and crash, and the supervisor pages the parent about an    *)
(* open question or a reported round.                                      *)
(*                                                                         *)
(* None of them stops the run.  A wait reads one run at a time, decides,   *)
(* and reads every run again for its answer; in between a supervisor is    *)
(* revived, a run is merged, a question is answered.  A page reads its     *)
(* candidate, and looks again under the run lock.  A follower can have     *)
(* read half a line that a crashed writer left and the next one cuts off.  *)
(* Time is the freedom to pass: an open question ripens, a manifest grows  *)
(* stale, a deadline is overrun, when nothing says otherwise.              *)
(***************************************************************************)
EXTENDS Integers, Sequences, FiniteSets

CONSTANTS
    LastRun,    \* the runs are 1..LastRun
    Waiters,    \* the callers of run wait
    Errands,    \* what they ask: [any, terminal, fail, timeout, check]; 0 is no deadline
    MaxGen,     \* how many questions and rounds a run has
    MaxSeq,     \* the length of the log
    Sceneries   \* budgets: [waits, moves, deaths, slips, writes, tears, tails, signals] and a
                \* start: [first, kind], the runs that are not over: [busy], and whether
                \* the waits have deadlines: [timed], run 1 a notify command: [hook]

Limits == {"waits", "moves", "deaths", "slips", "writes", "tears", "tails", "signals"}
SceneFields == {"first", "kind", "busy", "timed", "hook"} \cup Limits
ASSUME ObserversAssumption ==
    /\ LastRun \in Nat \ {0} /\ MaxGen \in Nat /\ MaxSeq \in Nat
    /\ Errands \subseteq [any : BOOLEAN, terminal : BOOLEAN, fail : BOOLEAN,
                          timeout : Nat, check : Nat]
    /\ \A s \in Sceneries : s = [x \in SceneFields |-> s[x]] /\ s.busy \subseteq 1..LastRun

VARIABLES
    world,      \* run -> its projections and its supervisor
    waits,      \* waiter -> its call
    feed,       \* events.jsonl in half lines
    tail,       \* the follower of the log
    pager,      \* the supervisor of run 1 as far as it pages
    scenery

observer_vars == <<world, waits, feed, tail, pager, scenery>>

ORuns == 1..LastRun
Signals == {"ask", "round"}
Gens == 1..MaxGen

NoVerdict == [stall |-> FALSE, attention |-> FALSE, ask |-> 0, caller |-> FALSE, round |-> 0]
NoOutcome == [status |-> "none", stalled |-> FALSE, attention |-> FALSE, awaiting |-> FALSE,
              caller |-> FALSE, round |-> FALSE, leftover |-> FALSE]
NotWaiting == [pc |-> "home", ask |-> [any |-> FALSE, terminal |-> FALSE, fail |-> FALSE,
                                       timeout |-> 0, check |-> 0],
               at |-> 1, elapsed |-> 0, latch |-> [r \in ORuns |-> NoVerdict], settled |-> {},
               stop |-> "none", told |-> [r \in ORuns |-> NoOutcome], exit |-> 0]
NoPage == [signal |-> "ask", gen |-> 0]
NoTail == [pc |-> "off", follow |-> TRUE, from |-> 1, open |-> FALSE, pos |-> 0, buf |-> <<>>,
           last |-> 0, out |-> <<>>, torn |-> FALSE, cancel |-> FALSE]

ObserversInit ==
    /\ scenery \in Sceneries
    /\ world = [r \in ORuns |->
                  [status |-> IF r \in scenery.busy THEN "pending" ELSE "done",
                   node |-> IF r \in scenery.busy THEN "pending" ELSE "done",
                   nodes |-> IF r = 1 THEN scenery.first ELSE 1,
                   sup |-> "alive", fresh |-> r \in scenery.busy, exit |-> "none",
                   ask |-> 0, ripe |-> FALSE, round |-> 0, overdue |-> FALSE, gens |-> 0, pi |-> "started",
                   merged |-> r \notin scenery.busy, kept |-> r \in scenery.busy]]
    /\ waits = [w \in Waiters |-> NotWaiting]
    /\ feed = [there |-> FALSE, lines |-> <<>>, ids |-> 0, writer |-> "none"]
    /\ tail = NoTail
    /\ pager = [pc |-> "idle", page |-> NoPage, told |-> [s \in Signals |-> 0],
                marked |-> [s \in Signals |-> {}], fired |-> [s \in Signals |-> [g \in Gens |-> 0]],
                slips |-> [s \in Signals |-> [g \in Gens |-> 0]]]

is_terminal(status) == status \in {"done", "failed", "cancelled"}
Tally(kind) == scenery[kind] > 0 /\ scenery' = [scenery EXCEPT ![kind] = @ - 1]

\* An ordinary run, a resident one or one whose agent is the caller's own.
Kind(r) == IF r = 1 THEN scenery.kind ELSE "plain"

\* The run lock of run 1 is held from the page to its marker.
Unlocked(r) == r = 1 => pager.pc # "mark"

-----------------------------------------------------------------------------
(* What a reader makes of the projections.                                 *)

\* A supervisor that is certainly gone leaves a run stillborn, if it never
\* started, or orphaned, once its manifest has been still for the grace.
stall_kind(r) ==
    /\ world[r].status = "pending" /\ world[r].sup = "dead"
    /\ world[r].nodes = 0 \/ ~world[r].fresh

\* A worker that ended well and left its node open; a resident that reported
\* is waiting, until its idle time has found unlanded work.
node_attention(r) ==
    /\ world[r].exit # "none" /\ world[r].node = "pending"
    /\ IF Kind(r) = "resident" /\ world[r].round # 0 THEN world[r].overdue
       ELSE world[r].exit = "clean"

needs_attention(r) == Kind(r) = "caller" /\ world[r].pi = "stopped"
is_escalated(r) == world[r].ask # 0 /\ world[r].ripe

current_settle(r) ==
    [stall |-> ~node_attention(r) /\ stall_kind(r), attention |-> node_attention(r),
     ask |-> IF is_escalated(r) THEN world[r].ask ELSE 0, caller |-> needs_attention(r),
     round |-> IF is_terminal(world[r].node) THEN 0 ELSE world[r].round]

\* Whether a poll that saw this counts the run as settled.
Counts(status, v, terminal) ==
    \/ is_terminal(status)
    \/ ~terminal /\ (v.stall \/ v.attention \/ v.ask # 0 \/ v.caller \/ v.round # 0)

-----------------------------------------------------------------------------
(* run wait.                                                               *)

Place(w) == waits[w].at
Waits(w, new) == waits' = [waits EXCEPT ![w] = new]

StartWait(w, ask) ==
    /\ waits[w].pc = "home" /\ (ask.timeout + ask.check > 0) = scenery.timed /\ Tally("waits")
    /\ Waits(w, [NotWaiting EXCEPT !.pc = "poll", !.ask = ask])
    /\ UNCHANGED <<world, feed, tail, pager>>

\* The next run of the list, under its shared lock.
PollRun(w) ==
    /\ waits[w].pc = "poll" /\ Place(w) \in ORuns /\ Unlocked(Place(w))
    /\ LET r == Place(w)
           v == current_settle(r)
       IN  Waits(w, [waits[w] EXCEPT !.at = r + 1, !.latch[r] = v,
                       !.settled = IF Counts(world[r].status, v, waits[w].ask.terminal)
                                     THEN @ \cup {r} ELSE @])
    /\ UNCHANGED <<world, feed, tail, pager, scenery>>

\* The earlier deadline, also when both have passed.
deadline_stop(ask, elapsed) ==
    IF /\ ask.timeout # 0 /\ elapsed >= ask.timeout
       /\ ask.check = 0 \/ ask.timeout <= ask.check
      THEN "timed-out"
    ELSE IF ask.check # 0 /\ elapsed >= ask.check THEN "check-in" ELSE "none"

Met(w) == IF waits[w].ask.any THEN waits[w].settled # {} ELSE waits[w].settled = ORuns

\* The end of a poll; the time it took, and the sleep after it, may be long.
Decide(w) ==
    /\ waits[w].pc = "poll" /\ Place(w) = LastRun + 1
    /\ LET me == waits[w]
           stop == IF Met(w) THEN "condition-met" ELSE deadline_stop(me.ask, me.elapsed)
       IN  IF stop # "none"
             THEN Waits(w, [me EXCEPT !.pc = "outcome", !.at = 1, !.stop = stop])
             ELSE \E t \in me.elapsed..(IF me.ask.timeout + me.ask.check = 0 THEN 0 ELSE 3) :
                    Waits(w, [me EXCEPT !.at = 1, !.elapsed = t, !.settled = {},
                                        !.latch = NotWaiting.latch])
    /\ UNCHANGED <<world, feed, tail, pager, scenery>>

\* Faulty variant: the verdict of a fresh look.
read_outcome_fresh(w, r) ==
    LET over == is_terminal(world[r].status)
        v    == current_settle(r)
    IN  [status |-> world[r].status, attention |-> ~over /\ v.attention,
         stalled |-> ~over /\ ~v.attention /\ v.stall, awaiting |-> ~over /\ v.ask # 0,
         caller |-> ~over /\ v.caller, round |-> ~over /\ v.round # 0,
         leftover |-> world[r].status = "done" /\ ~world[r].merged /\ world[r].kept]

\* The verdict of the poll that ended the wait, unless the run has ended.  A
\* terminal-only wait was not ended by a question or a stopped caller.
read_outcome(w, r) ==
    LET over == is_terminal(world[r].status)
        only == waits[w].ask.terminal
        v    == waits[w].latch[r]
    IN  [status |-> world[r].status, attention |-> ~over /\ v.attention,
         stalled |-> ~over /\ ~v.attention /\ v.stall,
         awaiting |-> ~over /\ ~only /\ v.ask # 0,
         caller |-> ~over /\ ~only /\ v.caller, round |-> ~over /\ v.round # 0,
         leftover |-> world[r].status = "done" /\ ~world[r].merged /\ world[r].kept]

ReadOutcome(w) ==
    /\ waits[w].pc = "outcome" /\ Place(w) \in ORuns /\ Unlocked(Place(w))
    /\ Waits(w, [waits[w] EXCEPT !.at = @ + 1, !.told[Place(w)] = read_outcome(w, Place(w))])
    /\ UNCHANGED <<world, feed, tail, pager, scenery>>

any_settled_error(w) ==
    \E r \in ORuns :
        LET o == waits[w].told[r]
        IN  /\ waits[w].ask.terminal => is_terminal(o.status)
            /\ \/ o.status \in {"failed", "cancelled"} \/ o.stalled \/ o.attention
               \/ o.awaiting \/ o.caller \/ o.leftover

\* The exit code, and the end of the process.
exit_code(w) == LET me == waits[w] IN
    CASE me.stop = "timed-out" -> 2
      [] me.stop = "check-in" -> 4
      [] me.ask.fail /\ any_settled_error(w) -> 3
      [] OTHER -> 0

AnswerWait(w) ==
    /\ waits[w].pc = "outcome" /\ Place(w) = LastRun + 1
    /\ Waits(w, [waits[w] EXCEPT !.pc = "said", !.exit = exit_code(w)])
    /\ UNCHANGED <<world, feed, tail, pager, scenery>>

LeaveWait(w) ==
    /\ waits[w].pc = "said"
    /\ Waits(w, NotWaiting)
    /\ UNCHANGED <<world, feed, tail, pager, scenery>>

-----------------------------------------------------------------------------
(* What the others do to a run, each in one locked step.                   *)

World(r, new) == world' = [world EXCEPT ![r] = new]
Others == UNCHANGED <<waits, feed, tail, pager>>
Open(r) == Unlocked(r) /\ world[r].nodes > 0 /\ ~is_terminal(world[r].node)

NodeAppears(r) ==
    /\ Unlocked(r) /\ world[r].nodes = 0 /\ Tally("moves")
    /\ World(r, [world[r] EXCEPT !.nodes = 1, !.fresh = TRUE]) /\ Others

Asks(r) ==
    /\ Open(r) /\ Kind(r) # "caller" /\ world[r].exit = "none" /\ world[r].ask = 0
    /\ world[r].gens < MaxGen /\ Tally("moves")
    /\ World(r, [world[r] EXCEPT !.gens = @ + 1, !.ask = world[r].gens + 1, !.ripe = FALSE])
    /\ Others

Resolved(r) ==
    /\ Unlocked(r) /\ world[r].ask # 0 /\ Tally("moves")
    /\ World(r, [world[r] EXCEPT !.ask = 0, !.ripe = FALSE]) /\ Others

\* A caller's agent has a lifecycle of its own.
ExitTold(r) ==
    /\ Open(r) /\ Kind(r) # "caller" /\ world[r].exit = "none" /\ Tally("moves")
    /\ \E how \in {"clean", "failing"} :
          World(r, [world[r] EXCEPT !.exit = how, !.ask = 0, !.ripe = FALSE])
    /\ Others

CallerMoves(r) ==
    /\ Open(r) /\ Kind(r) = "caller" /\ Tally("moves")
    /\ World(r, [world[r] EXCEPT !.pi = IF @ = "started" THEN "stopped" ELSE "started"])
    /\ Others

RoundReported(r) ==
    /\ Open(r) /\ Kind(r) = "resident" /\ world[r].exit = "none"
    /\ world[r].gens < MaxGen /\ Tally("moves")
    /\ World(r, [world[r] EXCEPT !.gens = @ + 1, !.round = world[r].gens + 1,
                                  !.ask = 0, !.ripe = FALSE])
    /\ Others

Messaged(r) ==
    /\ Open(r) /\ world[r].round # 0 /\ world[r].exit # "none" /\ Tally("moves")
    /\ World(r, [world[r] EXCEPT !.round = 0, !.exit = "none", !.overdue = FALSE,
                                  !.ask = 0, !.ripe = FALSE])
    /\ Others

IdleExpires(r) ==
    /\ Open(r) /\ world[r].round # 0 /\ world[r].exit # "none" /\ ~world[r].overdue
    /\ world[r].sup # "dead" /\ Tally("moves")
    /\ World(r, [world[r] EXCEPT !.overdue = TRUE]) /\ Others

\* A node is marked blocked, which the supervisor does not roll up.
Blocks(r) ==
    /\ Open(r) /\ world[r].node = "pending" /\ Tally("moves")
    /\ World(r, [world[r] EXCEPT !.node = "blocked"]) /\ Others

\* A report ends the node; the manifest follows.
Reports(r) ==
    /\ Open(r) /\ Tally("moves")
    /\ \E how \in {"done", "failed"}, merged \in BOOLEAN :
          /\ merged => how = "done"
          /\ World(r, [world[r] EXCEPT !.node = how, !.merged = merged, !.ask = 0, !.ripe = FALSE])
    /\ Others

\* A node that had ended without it is merged after all.
LateMerge(r) ==
    /\ Unlocked(r) /\ world[r].node \in {"failed", "done"} /\ ~world[r].merged /\ Tally("moves")
    /\ World(r, [world[r] EXCEPT !.node = "done", !.merged = TRUE]) /\ Others

\* Only the supervisor ends the run; a failed one is corrected.
RollsUp(r) ==
    /\ Unlocked(r) /\ world[r].sup # "dead" /\ is_terminal(world[r].node)
    /\ \/ world[r].status = "pending"
       \/ world[r].status = "failed" /\ world[r].node = "done"
    /\ World(r, [world[r] EXCEPT !.status = world[r].node, !.fresh = TRUE])
    /\ UNCHANGED scenery /\ Others

Cancelled(r) ==
    /\ Unlocked(r) /\ ~is_terminal(world[r].status) /\ Tally("moves")
    /\ World(r, [world[r] EXCEPT !.node = IF is_terminal(@) THEN @ ELSE "cancelled",
                                  !.status = "cancelled", !.ask = 0, !.ripe = FALSE])
    /\ Others

CleanedUp(r) ==
    /\ is_terminal(world[r].status) /\ world[r].kept /\ Tally("moves")
    /\ World(r, [world[r] EXCEPT !.kept = FALSE]) /\ Others

\* Time passes: an open question has waited for its grace, a manifest has been
\* still for its own.
Ripens(r) ==
    /\ world[r].ask # 0 /\ ~world[r].ripe
    /\ World(r, [world[r] EXCEPT !.ripe = TRUE]) /\ UNCHANGED scenery /\ Others

GrowsStale(r) ==
    /\ world[r].fresh
    /\ World(r, [world[r] EXCEPT !.fresh = FALSE]) /\ UNCHANGED scenery /\ Others

\* The page under way loses its marker.
unmarked == [pager.slips EXCEPT ![pager.page.signal][pager.page.gen] = @ + 1]

\* The supervisor dies: what it knew of its pages goes with it, and a page
\* without a marker may be repeated.
SupervisorDies(r) ==
    /\ world[r].sup # "dead" /\ Tally("deaths")
    /\ World(r, [world[r] EXCEPT !.sup = "dead"])
    /\ pager' = IF r # 1 THEN pager
                ELSE [pager EXCEPT !.pc = "idle", !.page = NoPage, !.told = [s \in Signals |-> 0],
                        !.slips = IF pager.pc = "mark" THEN unmarked ELSE @]
    /\ UNCHANGED <<waits, feed, tail>>

Revived(r) ==
    /\ world[r].sup = "dead" /\ Tally("moves")
    /\ World(r, [world[r] EXCEPT !.sup = "alive"]) /\ Others

\* Its record cannot be read for a while; the process lives.
RecordBlurs(r) ==
    /\ world[r].sup \in {"alive", "unreadable"} /\ Tally("moves")
    /\ World(r, [world[r] EXCEPT !.sup = IF @ = "alive" THEN "unreadable" ELSE "alive"])
    /\ Others

WorldMoves(r) ==
    \/ NodeAppears(r) \/ Asks(r) \/ Resolved(r) \/ ExitTold(r) \/ CallerMoves(r)
    \/ RoundReported(r) \/ Messaged(r) \/ IdleExpires(r) \/ Blocks(r) \/ Reports(r) \/ LateMerge(r)
    \/ RollsUp(r) \/ Cancelled(r) \/ CleanedUp(r) \/ Ripens(r) \/ GrowsStale(r)
    \/ SupervisorDies(r) \/ Revived(r) \/ RecordBlurs(r)

-----------------------------------------------------------------------------
(* The log, in half lines, and its follower.                               *)

Torn == feed.lines # <<>> /\ feed.lines[Len(feed.lines)].half = 1
Feed(new) == feed' = new /\ UNCHANGED <<world, waits, pager>>

\* The next writer cuts off what a crashed one left.
RepairTail ==
    /\ feed.writer = "none" /\ Torn /\ feed.ids < MaxSeq
    /\ Feed([feed EXCEPT !.lines = SubSeq(@, 1, Len(@) - 1)])
    /\ tail' = [tail EXCEPT !.torn = @ \/ tail.pos >= Len(feed.lines)]
    /\ UNCHANGED scenery

WriteHalf ==
    /\ feed.writer = "none" /\ ~Torn /\ feed.ids < MaxSeq /\ Tally("writes")
    /\ Feed([there |-> TRUE, ids |-> feed.ids + 1, writer |-> "mid",
             lines |-> Append(feed.lines, [seq |-> Len(feed.lines) \div 2 + 1,
                                           id |-> feed.ids + 1, half |-> 1])])
    /\ UNCHANGED tail

WriteRest ==
    /\ feed.writer = "mid"
    /\ Feed([feed EXCEPT !.writer = "none",
                         !.lines = Append(@, [@[Len(@)] EXCEPT !.half = 2])])
    /\ UNCHANGED <<tail, scenery>>

WriterDies ==
    /\ feed.writer = "mid" /\ Tally("tears")
    /\ Feed([feed EXCEPT !.writer = "none"]) /\ UNCHANGED tail

Follow(new) == tail' = new /\ UNCHANGED <<world, waits, feed, pager>>

StartTail(follow, from) ==
    /\ tail.pc = "off" /\ Tally("tails")
    /\ Follow([NoTail EXCEPT !.pc = "drain", !.follow = follow, !.from = from, !.open = feed.there])

Interrupt ==
    /\ tail.pc \in {"drain", "sleep"} /\ ~tail.cancel /\ Tally("signals")
    /\ Follow([tail EXCEPT !.cancel = TRUE])

\* The end of a drain.
DrainEnds(t) == [t EXCEPT !.pc = IF ~t.follow THEN "result" ELSE "sleep"]

\* A complete line: emitted when it is wanted and new.
Emitted(t, line) ==
    LET new == line.seq > t.last
    IN  [t EXCEPT !.buf = <<>>, !.last = IF new THEN line.seq ELSE @,
                  !.out = IF new /\ line.seq >= t.from THEN Append(@, line) ELSE @]

\* One read_line: up to a newline or the end of the file; what is partial
\* stays in the buffer.  A line put together from two writers' halves is
\* corrupt, or happens to parse.
drain(t) ==
    LET rest == SubSeq(feed.lines, t.pos + 1, Len(feed.lines))
        stop == {i \in 1..Len(rest) : rest[i].half = 2}
        upto == IF stop = {} THEN Len(rest) ELSE CHOOSE i \in stop : \A j \in stop : i <= j
        buf  == t.buf \o SubSeq(rest, 1, upto)
        on   == [t EXCEPT !.pos = @ + upto]
    IN  IF ~t.open \/ upto = 0 THEN {DrainEnds(t)}
        ELSE IF stop = {} THEN {DrainEnds([on EXCEPT !.buf = buf])}
        ELSE IF \A c \in {buf[i] : i \in 1..Len(buf)} : c.id = buf[1].id
          THEN {Emitted(on, [seq |-> buf[1].seq, id |-> buf[1].id])}
        ELSE {[on EXCEPT !.pc = "failed"], Emitted(on, [seq |-> buf[1].seq, id |-> 0])}

\* The signal is looked at between two lines.
Drain ==
    /\ tail.pc = "drain"
    /\ \E new \in (IF tail.cancel THEN {[tail EXCEPT !.pc = "cancelled"]} ELSE drain(tail)) :
          Follow(new)
    /\ UNCHANGED scenery

\* A poll: the log is opened once it is there, and must not have shrunk.
PollTail ==
    /\ tail.pc = "sleep"
    /\ LET open == tail.open \/ feed.there
       IN  Follow(IF tail.cancel THEN [tail EXCEPT !.pc = "cancelled"]
                ELSE IF ~open THEN tail
                ELSE IF Len(feed.lines) < tail.pos THEN [tail EXCEPT !.pc = "failed"]
                ELSE [tail EXCEPT !.pc = "drain", !.open = TRUE])
    /\ UNCHANGED scenery

-----------------------------------------------------------------------------
(* The pages of the supervisor of run 1.                                   *)

OpenGen(signal) == IF signal = "ask" THEN world[1].ask ELSE world[1].round
Page(new) == pager' = new /\ UNCHANGED <<world, waits, feed, tail>>
Dismissed(p) == [p EXCEPT !.pc = "idle", !.page = NoPage, !.told[p.page.signal] = p.page.gen]

\* A tick reads its candidate under the shared lock.
Candidate(signal) ==
    /\ scenery.hook /\ pager.pc = "idle" /\ world[1].sup # "dead" /\ OpenGen(signal) # 0
    /\ pager.told[signal] # OpenGen(signal)
    /\ IF signal = "ask" THEN world[1].ripe
       ELSE ~is_terminal(world[1].status) /\ ~is_terminal(world[1].node)
    /\ Page([pager EXCEPT !.pc = "fire", !.page = [signal |-> signal, gen |-> OpenGen(signal)]])
    /\ UNCHANGED scenery

\* Faulty variant: the page goes out unless the run is over.
still_open_then(page) == ~is_terminal(world[1].node)

\* What the candidate must still be when the lock is held.
still_open(page) ==
    /\ ~is_terminal(world[1].node) /\ OpenGen(page.signal) = page.gen
    /\ page.signal = "ask" => /\ ~is_terminal(world[1].status) /\ world[1].exit = "none"
                              /\ world[1].ripe

find_prior(page) == page.gen \in pager.marked[page.signal]

\* Fire first, record second.  A hook that cannot be spawned is tried again.
FirePage ==
    /\ pager.pc = "fire"
    /\ LET page == pager.page
           send == still_open(page) /\ ~find_prior(page)
       IN  \/ ~send /\ Page(Dismissed(pager)) /\ UNCHANGED scenery
           \/ /\ send /\ UNCHANGED scenery
              /\ Page([pager EXCEPT !.pc = "mark", !.fired[page.signal][page.gen] = @ + 1])
           \/ send /\ Tally("slips") /\ Page([pager EXCEPT !.pc = "idle", !.page = NoPage])

MarkPage ==
    /\ pager.pc = "mark"
    /\ LET page == pager.page
       IN  \/ /\ Page([Dismissed(pager) EXCEPT !.marked[page.signal] = @ \cup {page.gen}])
              /\ UNCHANGED scenery
           \/ /\ Tally("slips")
              /\ Page([pager EXCEPT !.pc = "idle", !.page = NoPage,
                                    !.slips = unmarked])

-----------------------------------------------------------------------------
(* The specification.                                                      *)

ObserversQuiet ==
    /\ \A w \in Waiters : waits[w].pc = "home"
    /\ tail.pc \notin {"drain", "sleep"} /\ pager.pc = "idle" /\ feed.writer = "none"
    /\ UNCHANGED observer_vars

WaitSteps(w) == PollRun(w) \/ Decide(w) \/ ReadOutcome(w) \/ AnswerWait(w)

ObserversNext ==
    \/ \E w \in Waiters : WaitSteps(w) \/ LeaveWait(w) \/ \E ask \in Errands : StartWait(w, ask)
    \/ \E r \in scenery.busy : WorldMoves(r)
    \/ RepairTail \/ WriteHalf \/ WriteRest \/ WriterDies
    \/ \E follow \in BOOLEAN, from \in 1..2 : StartTail(follow, from)
    \/ Interrupt \/ Drain \/ PollTail
    \/ \E signal \in Signals : Candidate(signal)
    \/ FirePage \/ MarkPage
    \/ ObserversQuiet

\* A wait, a follower and a living supervisor go on polling, and clocks advance.
ObserversFair ==
    /\ \A w \in Waiters : WF_observer_vars(WaitSteps(w))
    /\ \A r \in ORuns : WF_observer_vars(GrowsStale(r))
    /\ WF_observer_vars(Drain) /\ WF_observer_vars(PollTail)
    /\ \A signal \in Signals : WF_observer_vars(Candidate(signal))
    /\ WF_observer_vars(FirePage) /\ WF_observer_vars(MarkPage)

ObserversSpec == ObserversInit /\ [][ObserversNext]_observer_vars /\ ObserversFair

-----------------------------------------------------------------------------
(* Properties.                                                             *)

\* Types: a wait walks its list of runs, answers with every run it was asked
\* about, and no buffer holds more than half a line between two polls.
ObserversTypeOK ==
    /\ \A w \in Waiters :
          /\ waits[w].pc \in {"home", "poll", "outcome", "said"}
          /\ waits[w].at \in 1..LastRun + 1 /\ waits[w].settled \subseteq ORuns
          /\ waits[w].pc = "said" => \A r \in ORuns : waits[w].told[r].status # "none"
    /\ \A r \in ORuns :
          /\ world[r].node \in {"pending", "blocked", "done", "failed", "cancelled"}
          /\ world[r].sup \in {"alive", "dead", "unreadable"}
          /\ {world[r].ask, world[r].round, world[r].gens} \subseteq 0..MaxGen
    /\ tail.pc \in {"off", "drain", "sleep", "result", "cancelled", "failed"}
    /\ Len(tail.buf) <= 1 /\ pager.pc \in {"idle", "fire", "mark"}

Said(w) == waits[w].pc = "said" /\ waits[w].stop = "condition-met"
Explained(o) ==
    is_terminal(o.status) \/ o.stalled \/ o.attention \/ o.awaiting \/ o.caller \/ o.round

\* A wait that ended because its condition was met says why: the summary of
\* every run it waited for (of one of them, under --any) shows the run ended or
\* carries the signal that settled it, although run reattach, an answer or a
\* message may have taken the signal back before the summary was read.
ConditionIsExplained ==
    \A w \in Waiters : Said(w) =>
        LET why == {r \in ORuns : Explained(waits[w].told[r])}
        IN  IF waits[w].ask.any THEN why # {} ELSE why = ORuns

\* Exit code 0 of `run wait --all --fail-on-error` means that every run is done
\* with nothing left behind that was not merged, or is a resident whose round
\* was reported and that nobody has to look after.
CleanExitIsClean ==
    \A w \in Waiters : Said(w) /\ waits[w].ask.fail /\ ~waits[w].ask.any /\ waits[w].exit = 0 =>
        \A r \in ORuns :
            LET o == waits[w].told[r]
            IN  \/ o.status = "done" /\ ~o.leftover
                \/ o.status = "pending" /\ o.round /\ ~o.stalled /\ ~o.attention

\* A wait that overslept both its deadlines reports the one that came first, and
\* never a deadline when its last poll met the condition.
StopIsTheEarlierDeadline ==
    \A w \in Waiters :
        LET me == waits[w]
        IN  /\ me.stop = "timed-out" => me.ask.check = 0 \/ me.ask.timeout <= me.ask.check
            /\ me.stop = "check-in" => me.ask.timeout = 0 \/ me.ask.check < me.ask.timeout
            /\ me.stop \in {"timed-out", "check-in"} => ~Met(w)

\* A follower shows the log: as long as no writer has cut off a half line that it
\* had read, it has emitted the complete lines of the log from the number it was
\* asked for on, each once, in order and without a gap, and has not failed.
FollowerFaithful ==
    ~tail.torn =>
        /\ tail.pc # "failed"
        /\ \A i \in 1..Len(tail.out) :
              /\ tail.out[i].seq = tail.from + i - 1
              /\ \E j \in 1..Len(feed.lines) :
                    feed.lines[j] = [seq |-> tail.out[i].seq, id |-> tail.out[i].id, half |-> 2]

\* While a page is being sent and recorded the question it is about is still
\* open, past its grace and unanswered (the round is still open): an answer
\* that races the supervisor's tick never gets a page after it.
PageIsCurrent ==
    pager.pc = "mark" =>
        /\ OpenGen(pager.page.signal) = pager.page.gen /\ ~is_terminal(world[1].node)
        /\ pager.page.signal = "ask" => world[1].ripe /\ world[1].exit = "none"

\* A question or a round is paged once, over all restarts of the supervisor;
\* again only when a death or a failed append lost the marker of a page.
PagedOnce ==
    \A s \in Signals, g \in Gens : pager.fired[s][g] <= 1 + pager.slips[s][g]

\* A wait without deadlines on runs whose supervisors are all gone does not wait
\* forever: the runs are found stillborn or orphaned unless somebody revives one.
StrandedIsNoticed ==
    \A w \in Waiters :
        /\ waits[w].pc = "poll" /\ ~waits[w].ask.terminal
        /\ \A r \in ORuns : is_terminal(world[r].status) \/ world[r].sup = "dead"
        ~> \/ waits[w].pc # "poll"
           \/ \E r \in ORuns : ~is_terminal(world[r].status) /\ world[r].sup # "dead"

Lines == SelectSeq(feed.lines, LAMBDA c : c.half = 2 /\ c.seq >= tail.from)

\* A follower catches up with every complete line, also when the log appeared
\* after it started, unless it is stopped or a half line it read was cut off.
FollowerKeepsUp ==
    []<>(tail.pc \in {"drain", "sleep"} /\ tail.follow
           => Len(tail.out) >= Len(Lines) \/ tail.cancel \/ tail.torn)

\* A question past its grace, or a reported round, that stays open under a living
\* supervisor is paged, whatever was paged before it.
RequestIsPaged ==
    []<>(\A s \in Signals, g \in Gens :
           /\ scenery.hook /\ OpenGen(s) = g /\ world[1].sup # "dead"
           /\ ~is_terminal(world[1].node) /\ ~is_terminal(world[1].status)
           /\ (s = "ask" => world[1].ripe)
           => pager.fired[s][g] > 0)

\* What `run wait` answers holds together: the reason, the exit code and the
\* summaries agree although each was read at another time (wait.rs).
WaitIsHonest ==
    ObserversTypeOK /\ ConditionIsExplained /\ CleanExitIsClean /\ StopIsTheEarlierDeadline

\* What an observer is told it is told once and in time: the lines of the log
\* by `event tail`, an open question or a round by the pager.
ToldOnceInTime == FollowerFaithful /\ PageIsCurrent /\ PagedOnce

=============================================================================
