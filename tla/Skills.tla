------------------------------- MODULE Skills -------------------------------
(***************************************************************************)
(* `taskfleet skill install`: the bundled skills are copied into three     *)
(* layouts of the user's home (Claude: a directory with an in-directory    *)
(* marker per skill; Pi: a pure mirror whose provenance record lives in    *)
(* the state root; Codex: flat prompts with one shared marker), and a      *)
(* forced redeploy removes what an earlier binary installed and this one   *)
(* no longer ships.  The installer holds no lock: the user edits, deletes  *)
(* and replaces files between any two of its steps, it may be killed       *)
(* between any two, a write or a delete may fail, and another version of   *)
(* the binary may run next.                                                *)
(*                                                                         *)
(* A file is a record of its layout, its skill and its name in the skill's *)
(* directory; its content is the version of the binary whose bytes it      *)
(* holds (the SHA-256 of the code tells versions apart and nothing else),  *)
(* "user" for any other bytes, "link" or "dir" for what is no regular      *)
(* file, "none" when there is nothing.  `--target` and `--dest` installs   *)
(* write outside these layouts and keep no record; they are left out.      *)
(***************************************************************************)
EXTENDS Integers, Sequences, FiniteSets, SequencesExt

CONSTANTS
    Versions,   \* the versions of the binary
    Bundle,     \* version -> shipped skill -> the companions it bundles
    Requests,   \* the installs asked for: [force, name, agents]
    Edited,     \* the files the user meddles with
    Trials      \* budgets: [calls, edits, kills, faults, spoils, swaps]

VARIABLES
    binary,     \* the version on the PATH
    homedir,    \* file -> content
    marks,      \* skill -> its Claude marker: [hash, comps]
    flat,       \* the Codex marker: [prompts, comps]
    prov,       \* the Pi provenance record: [whole, files]
    ins,        \* the running install
    diary,      \* history: how the last install ended, what it wrote
    budget

skills_vars == <<binary, homedir, marks, flat, prov, ins, diary, budget>>

All == "*"
Layouts == {"claude", "pi", "codex"}
SkillNames == UNION {DOMAIN Bundle[v] : v \in Versions}
Companions == UNION UNION {{Bundle[v][s] : s \in DOMAIN Bundle[v]} : v \in Versions}
File(a, s, f) == [lay |-> a, skill |-> s, file |-> f]

Files ==
    {File(a, s, f) : a \in {"claude", "pi"}, s \in SkillNames,
                     f \in Companions \cup {"body"}}
        \cup {File("codex", s, "body") : s \in SkillNames}
        \cup {File("codex", All, f) : f \in Companions}

PiFiles == {p \in Files : p.lay = "pi"}
Regular(p) == homedir[p] \in Versions \cup {"user"}
NoMark == [hash |-> "none", comps |-> {}]

Bundled(v, s) == IF s \in DOMAIN Bundle[v] THEN Bundle[v][s] ELSE {}
Chosen(v, req) == IF req.name = All THEN DOMAIN Bundle[v] ELSE {req.name}

\* What an install writes, in order: for each skill and each agent the
\* companions of a Claude or Pi skill before its body, and one self-contained
\* prompt for Codex.
PlanFor(v, s, a) ==
    SetToSeq({File(a, s, c) : c \in IF a = "codex" THEN {} ELSE Bundled(v, s)})
        \o <<File(a, s, "body")>>

Planned(v, req) ==
    LET names  == SetToSeq(Chosen(v, req))
        agents == SelectSeq(<<"claude", "pi", "codex">>, LAMBDA a : a \in req.agents)
    IN  FlattenSeq([i \in 1..Len(names) |->
            FlattenSeq([j \in 1..Len(agents) |-> PlanFor(v, names[i], agents[j])])])

\* Pruning what left the catalog needs the full-catalog forced redeploy.
prune_eligible(req) == req.name = All /\ req.force /\ "claude" \in req.agents

codex_prune_eligible(req) == req.name = All /\ req.force

NoRequest == [force |-> FALSE, name |-> "none", agents |-> {}]

NoInstall ==
    [pc |-> "idle", ver |-> "none", req |-> NoRequest, todo |-> <<>>, sure |-> "look",
     allowed |-> {}, rec |-> [p \in PiFiles |-> "none"],
     lines |-> [prompts |-> {}, comps |-> {}], kept |-> {}, past |-> {}]

SkillsInit ==
    /\ binary \in Versions
    /\ marks = [s \in SkillNames |-> NoMark]
    /\ \E old \in {{}, Companions} :  \* external Codex companions of a retired layout
         /\ homedir = [p \in Files |-> IF p.skill = All /\ p.file \in old
                                          THEN CHOOSE v \in Versions : TRUE ELSE "none"]
         /\ flat = [prompts |-> {}, comps |-> old]
    /\ prov = [whole |-> TRUE, files |-> [p \in PiFiles |-> "none"]]
    /\ ins = NoInstall
    /\ diary = [last |-> "none", mine |-> {}, settled |-> {}, raced |-> FALSE,
                failed |-> FALSE, req |-> NoRequest, ver |-> "none"]
    /\ budget \in Trials

Pay(kind) == budget[kind] > 0 /\ budget' = [budget EXCEPT ![kind] = @ - 1]

\* The install ends with an answer; what it wrote is settled if it completed.
Ends(answer) ==
    /\ ins' = NoInstall
    /\ diary' = [diary EXCEPT !.last = answer,
                              !.settled = IF answer = "done" THEN @ \cup diary.mine ELSE @]

-----------------------------------------------------------------------------
(* The install.                                                            *)

load_pi_provenance_for_write(req) == "pi" \in req.agents => prov.whole

\* The record is loaded, and refused when damaged, before anything is written.
InstallBegin(req) ==
    /\ ins.pc = "idle"
    /\ req.name \in DOMAIN Bundle[binary] \cup {All}
    /\ Pay("calls")
    /\ LET fresh == [diary EXCEPT !.mine = {}, !.raced = FALSE, !.failed = FALSE,
                                  !.req = req, !.ver = binary]
       IN  IF load_pi_provenance_for_write(req)
             THEN /\ ins' = [NoInstall EXCEPT !.pc = "preflight", !.ver = binary, !.req = req,
                                              !.rec = prov.files]
                  /\ diary' = [fresh EXCEPT !.last = "running"]
             ELSE /\ UNCHANGED ins
                  /\ diary' = [fresh EXCEPT !.last = "refused"]
    /\ UNCHANGED <<binary, homedir, marks, flat, prov>>

preflight(plan, force) ==
    \A p \in plan : homedir[p] # "dir" /\ (homedir[p] = "none" \/ force)

\* The whole plan is checked before the first write, and the files that may
\* be overwritten are decided here once and for all.
Preflight ==
    /\ ins.pc = "preflight"
    /\ LET order == Planned(ins.ver, ins.req)
           plan  == ToSet(order)
       IN  IF preflight(plan, ins.req.force)
             THEN /\ ins' = [ins EXCEPT !.pc = "write", !.todo = order,
                                        !.allowed = {p \in plan : ins.req.force /\ homedir[p] # "none"}]
                  /\ UNCHANGED diary
             ELSE Ends("refused")
    /\ UNCHANGED <<binary, homedir, marks, flat, prov, budget>>

\* A file that was not there at preflight is created only if it still is not.
persist(p, allowed) == homedir[p] # "dir" /\ (p \in allowed \/ homedir[p] = "none")

WriteFile ==
    /\ ins.pc = "write" /\ ins.todo # <<>>
    /\ LET p == Head(ins.todo)
       IN  \/ /\ persist(p, ins.allowed)
              /\ homedir' = [homedir EXCEPT ![p] = ins.ver]
              /\ ins' = [ins EXCEPT !.todo = Tail(@),
                                    !.rec = IF p.lay = "pi" THEN [@ EXCEPT ![p] = ins.ver] ELSE @]
              /\ diary' = [diary EXCEPT !.mine = @ \cup {p}, !.settled = @ \ {p}]
           \/ /\ ~persist(p, ins.allowed)
              /\ Ends("clobber")
              /\ UNCHANGED homedir
    /\ UNCHANGED <<binary, marks, flat, prov, budget>>

\* The Claude markers come next, one per installed skill.
Written ==
    /\ ins.pc = "write" /\ ins.todo = <<>>
    /\ ins' = [ins EXCEPT !.pc = "mark",
                          !.todo = IF "claude" \in ins.req.agents
                                     THEN SetToSeq(Chosen(ins.ver, ins.req)) ELSE <<>>]
    /\ UNCHANGED <<binary, homedir, marks, flat, prov, diary, budget>>

\* A companion the marker recorded and this binary no longer bundles is an
\* orphan while a regular file is there.
Unbundled(s) == marks[s].comps \ Bundled(ins.ver, s)

\* --force removes an orphan companion; one that cannot be removed stays
\* tracked, one that is no regular file is dropped.
DropCompanion ==
    /\ ins.pc = "mark" /\ ins.todo # <<>> /\ ins.req.force
    /\ \E c \in Unbundled(Head(ins.todo)) \ ins.past :
         LET p == File("claude", Head(ins.todo), c)
         IN  \/ /\ homedir' = IF Regular(p) THEN [homedir EXCEPT ![p] = "none"] ELSE homedir
                /\ ins' = [ins EXCEPT !.past = @ \cup {c}]
                /\ UNCHANGED <<diary, budget>>
             \/ /\ Regular(p) /\ Pay("faults")
                /\ ins' = [ins EXCEPT !.past = @ \cup {c}, !.kept = @ \cup {c}]
                /\ diary' = [diary EXCEPT !.failed = TRUE]
                /\ UNCHANGED homedir
    /\ UNCHANGED <<binary, marks, flat, prov>>

\* Faulty variant: the record restarts from what this binary bundles.
carried_forgotten(s) == ins.kept

\* The companions no longer bundled that the new marker still names.
carried(s) ==
    IF ins.req.force THEN ins.kept ELSE {c \in Unbundled(s) : Regular(File("claude", s, c))}

WriteMarker ==
    /\ ins.pc = "mark" /\ ins.todo # <<>>
    /\ LET s == Head(ins.todo)
       IN  /\ ins.req.force => Unbundled(s) \subseteq ins.past
           /\ marks' = [marks EXCEPT ![s] = [hash |-> ins.ver,
                                             comps |-> Bundled(ins.ver, s) \cup carried(s)]]
    /\ ins' = [ins EXCEPT !.todo = Tail(@), !.kept = {}, !.past = {}]
    /\ UNCHANGED <<binary, homedir, flat, prov, diary, budget>>

-----------------------------------------------------------------------------
(* Pruning: every candidate is inspected, then removed, in two steps.      *)

\* A Claude directory is Taskfleet's when its marker records the bytes of its
\* body.
is_managed_skill_dir(s) ==
    marks[s].hash # "none" /\ homedir[File("claude", s, "body")] = marks[s].hash

dir_contains_only(s) == \A c \in Companions : homedir[File("claude", s, c)] = "none"

Marked ==
    /\ ins.pc = "mark" /\ ins.todo = <<>>
    /\ ins' = [ins EXCEPT !.pc = "dirs",
                          !.todo = IF prune_eligible(ins.req)
                                     THEN SetToSeq({s \in SkillNames \ DOMAIN Bundle[ins.ver] :
                                                      is_managed_skill_dir(s)})
                                     ELSE <<>>]
    /\ UNCHANGED <<binary, homedir, marks, flat, prov, diary, budget>>

prune_managed_claude_dir(s) == is_managed_skill_dir(s) /\ dir_contains_only(s)

InspectDir ==
    /\ ins.pc = "dirs" /\ ins.todo # <<>> /\ ins.sure = "look"
    /\ ins' = IF prune_managed_claude_dir(Head(ins.todo))
                THEN [ins EXCEPT !.sure = "body"]
                ELSE [ins EXCEPT !.todo = Tail(@)]
    /\ UNCHANGED <<binary, homedir, marks, flat, prov, diary, budget>>

\* The body, then the marker; a failure leaves the rest of the directory.
RemoveDir ==
    /\ ins.pc = "dirs" /\ ins.sure \in {"body", "marker"}
    /\ LET s == Head(ins.todo)
           p == File("claude", s, "body")
           next == [ins EXCEPT !.todo = Tail(@), !.sure = "look"]
       IN  \/ /\ ins.sure = "body" /\ (Regular(p) \/ homedir[p] = "link")
              /\ homedir' = [homedir EXCEPT ![p] = "none"]
              /\ ins' = [ins EXCEPT !.sure = "marker"]
              /\ UNCHANGED <<marks, diary, budget>>
           \/ /\ ins.sure = "body" /\ homedir[p] \in {"none", "dir"}
              /\ ins' = next
              /\ UNCHANGED <<homedir, marks, diary, budget>>
           \/ /\ ins.sure = "marker"
              /\ marks' = [marks EXCEPT ![s] = NoMark]
              /\ ins' = next
              /\ UNCHANGED <<homedir, diary, budget>>
           \/ /\ Pay("faults")
              /\ ins' = next
              /\ diary' = [diary EXCEPT !.failed = TRUE]
              /\ UNCHANGED <<homedir, marks>>
    /\ UNCHANGED <<binary, flat, prov>>

\* The new Codex marker merges what was just written with what was recorded.
merged(req) == [prompts |-> Chosen(ins.ver, req) \cup flat.prompts, comps |-> flat.comps]

CodexBegin ==
    /\ ins.pc = "dirs" /\ ins.todo = <<>>
    /\ LET new == merged(ins.req)
       IN  ins' = IF "codex" \in ins.req.agents
                    THEN [ins EXCEPT
                            !.pc = "flat", !.lines = new,
                            !.todo = IF codex_prune_eligible(ins.req)
                                       THEN SetToSeq({File("codex", o, "body") :
                                                o \in new.prompts \ DOMAIN Bundle[ins.ver]})
                                              \o SetToSeq({File("codex", All, c) : c \in new.comps})
                                       ELSE <<>>]
                    ELSE [ins EXCEPT !.pc = "merged"]
    /\ UNCHANGED <<binary, homedir, marks, flat, prov, diary, budget>>

\* A recorded prompt or companion is removed if it is a regular file, and
\* stays recorded when that fails.
prune_codex_file ==
    /\ ins.pc = "flat" /\ ins.todo # <<>>
    /\ LET p == Head(ins.todo)
       IN  \/ /\ homedir' = IF Regular(p) THEN [homedir EXCEPT ![p] = "none"] ELSE homedir
              /\ ins' = [ins EXCEPT !.todo = Tail(@), !.lines.prompts = @ \ {p.skill},
                                    !.lines.comps = @ \ {p.file}]
              /\ UNCHANGED <<diary, budget>>
           \/ /\ Regular(p) /\ Pay("faults")
              /\ ins' = [ins EXCEPT !.todo = Tail(@)]
              /\ diary' = [diary EXCEPT !.failed = TRUE]
              /\ UNCHANGED homedir
    /\ UNCHANGED <<binary, marks, flat, prov>>

write_codex_marker ==
    /\ ins.pc = "flat" /\ ins.todo = <<>>
    /\ flat' = ins.lines
    /\ ins' = [ins EXCEPT !.pc = "merged"]
    /\ UNCHANGED <<binary, homedir, marks, prov, diary, budget>>

\* Recorded companions of an installed skill that this binary dropped.
stale(req) ==
    {p \in PiFiles : /\ req.force /\ p.skill \in Chosen(ins.ver, req)
                     /\ p.file # "body" /\ p.file \notin Bundled(ins.ver, p.skill)
                     /\ ins.rec[p] # "none"}

\* Recorded files of a skill that left the catalog.
orphaned(req) ==
    {p \in PiFiles : /\ prune_eligible(req) /\ p.skill \notin DOMAIN Bundle[ins.ver]
                     /\ ins.rec[p] # "none"}

BodiesLast(S) ==
    SetToSeq({p \in S : p.file # "body"}) \o SetToSeq({p \in S : p.file = "body"})

PiBegin ==
    /\ ins.pc = "merged"
    /\ IF "pi" \in ins.req.agents
         THEN /\ ins' = [ins EXCEPT !.pc = "pi",
                            !.todo = SetToSeq(stale(ins.req)) \o BodiesLast(orphaned(ins.req))]
              /\ UNCHANGED diary
         ELSE Ends("done")
    /\ UNCHANGED <<binary, homedir, marks, flat, prov, budget>>

\* Only bytes that hash to the recorded value are removed.
OurCopy(p) == homedir[p] = ins.rec[p]

\* A copy that is not ours is left and no longer tracked; one that cannot be
\* inspected stays tracked.
InspectPi ==
    /\ ins.pc = "pi" /\ ins.todo # <<>> /\ ins.sure = "look"
    /\ \/ /\ OurCopy(Head(ins.todo))
          /\ ins' = [ins EXCEPT !.sure = "body"]
          /\ UNCHANGED <<diary, budget>>
       \/ /\ ~OurCopy(Head(ins.todo))
          /\ ins' = [ins EXCEPT !.rec[Head(ins.todo)] = "none", !.todo = Tail(@)]
          /\ UNCHANGED <<diary, budget>>
       \/ /\ Pay("faults")
          /\ ins' = [ins EXCEPT !.todo = Tail(@)]
          /\ diary' = [diary EXCEPT !.failed = TRUE]
    /\ UNCHANGED <<binary, homedir, marks, flat, prov>>

\* A file that cannot be removed, or is gone by now, stays tracked.
RemovePi ==
    /\ ins.pc = "pi" /\ ins.sure = "body"
    /\ LET p == Head(ins.todo)
           next == [ins EXCEPT !.todo = Tail(@), !.sure = "look"]
       IN  \/ /\ Regular(p) \/ homedir[p] = "link"
              /\ homedir' = [homedir EXCEPT ![p] = "none"]
              /\ ins' = [next EXCEPT !.rec[p] = "none"]
              /\ UNCHANGED <<diary, budget>>
           \/ /\ homedir[p] \in {"none", "dir"}
              /\ ins' = next
              /\ UNCHANGED <<homedir, diary, budget>>
           \/ /\ Pay("faults")
              /\ ins' = next
              /\ diary' = [diary EXCEPT !.failed = TRUE]
              /\ UNCHANGED homedir
    /\ UNCHANGED <<binary, marks, flat, prov>>

write_pi_provenance ==
    /\ ins.pc = "pi" /\ ins.todo = <<>>
    /\ prov' = [whole |-> TRUE, files |-> ins.rec]
    /\ Ends("done")
    /\ UNCHANGED <<binary, homedir, marks, flat, budget>>

\* SIGKILL, or a write that fails for good, wherever the install stands.
Interrupted ==
    /\ ins.pc # "idle" /\ Pay("kills")
    /\ Ends("killed")
    /\ UNCHANGED <<binary, homedir, marks, flat, prov>>

-----------------------------------------------------------------------------
(* The user and the machine.                                               *)

Noticed == IF ins.pc = "idle" THEN [diary EXCEPT !.last = "none"] ELSE [diary EXCEPT !.raced = TRUE]

Meddle ==
    /\ Pay("edits")
    /\ \E p \in Edited, c \in {"none", "user", "link", "dir"} :
         homedir[p] # c /\ homedir' = [homedir EXCEPT ![p] = c]
    /\ diary' = Noticed
    /\ UNCHANGED <<binary, marks, flat, prov, ins>>

\* The record is cut short, or rewritten by a binary with a later schema.
RecordSpoilt ==
    /\ prov.whole /\ Pay("spoils")
    /\ prov' = [prov EXCEPT !.whole = FALSE]
    /\ diary' = Noticed
    /\ UNCHANGED <<binary, homedir, marks, flat, ins>>

\* The user backs the damaged record up and removes it.
RecordRemoved ==
    /\ ~prov.whole
    /\ prov' = [whole |-> TRUE, files |-> [p \in PiFiles |-> "none"]]
    /\ diary' = [Noticed EXCEPT !.settled = @ \ PiFiles]
    /\ UNCHANGED <<binary, homedir, marks, flat, ins, budget>>

OtherBinary ==
    /\ Pay("swaps")
    /\ binary' \in Versions \ {binary}
    /\ UNCHANGED <<homedir, marks, flat, prov, ins, diary>>

Shelved == ins.pc = "idle" /\ prov.whole /\ UNCHANGED skills_vars

SkillsNext ==
    \/ \E req \in Requests : InstallBegin(req)
    \/ Preflight \/ WriteFile \/ Written \/ DropCompanion \/ WriteMarker
    \/ Marked \/ InspectDir \/ RemoveDir \/ CodexBegin \/ prune_codex_file
    \/ write_codex_marker \/ PiBegin \/ InspectPi \/ RemovePi \/ write_pi_provenance
    \/ Interrupted \/ Meddle \/ RecordSpoilt \/ RecordRemoved \/ OtherBinary \/ Shelved

SkillsSpec == SkillsInit /\ [][SkillsNext]_skills_vars

-----------------------------------------------------------------------------
(* Properties.                                                             *)

\* Types of the home, the records and the running install.
SkillsTypeOK ==
    /\ binary \in Versions
    /\ homedir \in [Files -> Versions \cup {"none", "user", "link", "dir"}]
    /\ marks \in [SkillNames -> [hash : Versions \cup {"none"}, comps : SUBSET Companions]]
    /\ flat \in [prompts : SUBSET SkillNames, comps : SUBSET Companions]
    /\ prov \in [whole : BOOLEAN, files : [PiFiles -> Versions \cup {"none"}]]
    /\ ins.pc \in {"idle", "preflight", "write", "mark", "dirs", "flat", "merged", "pi"}
    /\ ins.sure \in {"look", "body", "marker"}
    /\ ins.kept \subseteq ins.past /\ ins.past \subseteq Companions
    /\ ins.lines \in [prompts : SUBSET SkillNames, comps : SUBSET Companions]

\* A step of the program, not of the user.
Programs == ins' # ins

\* An install without --force replaces and removes nothing that is there when
\* it gets to it, whatever the user put there after the preflight.
PlainKeepsFiles ==
    Programs /\ ins.pc # "idle" /\ ~ins.req.force =>
      \A p \in Files : homedir[p] # "none" => homedir'[p] = homedir[p]

\* An install of one skill changes no file of another, forced or not.
TargetedLeavesRest ==
    Programs /\ ins.pc # "idle" /\ ins.req.name # All =>
      \A p \in Files : p.skill # ins.req.name => homedir'[p] = homedir[p]

\* What a prune removes from the Pi mirror, or as the body of a Claude skill,
\* is what the record says Taskfleet wrote, unless the user changed the file
\* while the install was running.
PrunesOwnBytes ==
    \A p \in Files :
      /\ Programs /\ homedir[p] # "none" /\ homedir'[p] = "none"
      /\ p.lay = "pi" \/ (p.lay = "claude" /\ p.file = "body")
      => \/ diary.raced
         \/ homedir[p] = IF p.lay = "pi" THEN prov.files[p] ELSE marks[p.skill].hash

\* A provenance record that was damaged when the install began is left as it is.
DamagedRecordKept ==
    Programs /\ ~prov.whole /\ ins.pc # "idle" /\ ~diary.raced => prov' = prov

\* An install that stops half-way over an existing file does so only because
\* the file appeared while it was running: the preflight sees the rest.
PartialOnlyByRace == diary.last = "clobber" => diary.raced

Tracked(p) ==
    CASE p.lay = "claude" -> IF p.file = "body" THEN marks[p.skill].hash = homedir[p]
                             ELSE p.file \in marks[p.skill].comps
      [] p.lay = "pi"     -> prov.whole => prov.files[p] = homedir[p]
      [] p.lay = "codex"  -> p.skill \in flat.prompts

\* A file that a completed install wrote, and that still has Taskfleet's
\* bytes, is on record: later installs, killed or not, with or without
\* --force, of this skill or another, by another version, do not forget it.
SettledIsTracked ==
    \A p \in diary.settled : homedir[p] \in Versions => Tracked(p)

\* After a forced install of everything that nothing disturbed, the layouts
\* hold this binary's files, and of the files completed installs of other
\* versions left only those in a Claude directory that is not empty but for
\* its body.
MirrorsCatalog ==
    /\ diary.last = "done" /\ ~diary.raced /\ ~diary.failed
    /\ diary.req.name = All /\ diary.req.force /\ diary.req.agents = Layouts
    => LET shipped == ToSet(Planned(diary.ver, diary.req))
       IN  /\ \A p \in shipped : homedir[p] = diary.ver
           /\ \A p \in diary.settled \ shipped : homedir[p] \in Versions =>
                /\ p.lay = "claude" /\ p.skill \notin DOMAIN Bundle[diary.ver]
                /\ ~dir_contains_only(p.skill)

\* The installer knows what is its own: whatever the user does to the files
\* meanwhile, and however installs are killed, fail or alternate between
\* versions, it keeps track of what it wrote and takes away nothing else.
InstallsOnlyOwn ==
    [][ /\ SkillsTypeOK' /\ PartialOnlyByRace' /\ SettledIsTracked' /\ MirrorsCatalog'
        /\ PlainKeepsFiles /\ TargetedLeavesRest
        /\ PrunesOwnBytes /\ DamagedRecordKept ]_skills_vars

=============================================================================
