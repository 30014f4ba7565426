----------------------------- MODULE VisualPrep -----------------------------
(***************************************************************************)
(* Phase 2 of the media tooling: tools/asset_pipeline/cli.py and the files *)
(* behind it.  The commands scan, extract, all, verify and report take an  *)
(* inventory of the source videos, render keyframes and a contact sheet of *)
(* each, and write documents that the next phase reads.  Every file is     *)
(* replaced atomically, the set of files is not: a command may end between *)
(* any two of them, and the sources may change while it runs.              *)
(*                                                                         *)
(* A content is a number, Absent stands for no file.  The source id of a   *)
(* video is its path and content: assign_source_ids makes it of the hash   *)
(* and of the path, longer until unique.  FFmpeg reads a source once for   *)
(* each frame, so a rendered file is named by the set of the contents it   *)
(* was rendered from, {} for no file.  A source may get back a content     *)
(* that it had, its size and time of modification with it.                 *)
(***************************************************************************)
EXTENDS Naturals, FiniteSets

CONSTANTS
  Paths,      \* relative paths of source videos
  MaxContents,\* bound: contents of the sources
  MaxEdits,   \* bound: edits of the sources
  MaxFaults,  \* bound: failing probes and renderings, lost outputs
  MaxAborts   \* bound: commands that end in the middle

ASSUME PathsAssumption == IsFiniteSet(Paths) /\ Paths # {}
ASSUME BoundsAssumption ==
  MaxContents \in Nat \ {0} /\ MaxEdits \in Nat /\ MaxFaults \in Nat /\ MaxAborts \in Nat

VARIABLES
  source,        \* content of each path in assets_source
  snapshot,      \* source_snapshot_before.json
  inventory,     \* inventory.json: source ids, and the paths that failed
  csv,           \* the source ids in inventory.csv
  duplicates,    \* the groups in duplicates.json
  index,         \* visual_index.json: source ids and their groups
  keyframes,     \* what the directory of each id was rendered from
  sheets,        \* the same of its contact sheet
  state,         \* pipeline_state.json: the output hashes of each id
  integrity,     \* integrity_result.json
  verification,  \* verification.json
  tests, report, \* test_results.json and docs/PHASE_2_REPORT.md
  pc, command,   \* the running command and what it does next
  job,           \* the pool's work on the video of each path
  calm,          \* TRUE while a command runs that nothing disturbed
  disturbed,     \* history: ids whose source changed before it was all read
  restored,      \* history: those of them whose source came back
  edits, faults, aborts

lists == <<snapshot, inventory, csv, duplicates, index>>
outputs == <<keyframes, sheets>>
results == <<integrity, verification, tests, report>>
bounds == <<disturbed, restored, edits, faults, aborts>>
vars == <<source, lists, outputs, state, results, pc, command, job, calm, bounds>>

-----------------------------------------------------------------------------
Absent == 0
Contents == 1..MaxContents
Ids == Paths \X Contents
Idle(p) == [at |-> "idle", content |-> {}]
Rendered == [frames : SUBSET Contents, sheet : SUBSET Contents]
Nothing == [frames |-> {}, sheet |-> {}]
Found(files) == {<<p, files[p]>> : p \in {q \in Paths : files[q] # Absent}}

\* build_duplicates: videos of one content form a group.
Groups(ids) == {g \in {{i \in ids : i[2] = c} : c \in Contents} : Cardinality(g) > 1}

\* Mistake: an entry in the state is enough.
CurrentByState(i) == state[i] # Nothing

\* _state_is_current: all outputs are there with the recorded hashes.
Current(i) == /\ state[i] # Nothing
              /\ state[i] = [frames |-> keyframes[i], sheet |-> sheets[i]]
              /\ keyframes[i] # {} /\ sheets[i] # {}

TypeOK ==
  /\ source \in [Paths -> Contents \cup {Absent}] /\ snapshot \in [Paths -> Contents \cup {Absent}]
  /\ inventory \in [known : BOOLEAN, ids : SUBSET Ids, failed : SUBSET Paths]
  /\ csv \subseteq Ids
  /\ duplicates \in [known : BOOLEAN, groups : SUBSET SUBSET Ids]
  /\ index \in [ids : SUBSET Ids, groups : SUBSET SUBSET Ids]
  /\ keyframes \in [Ids -> SUBSET Contents] /\ sheets \in [Ids -> SUBSET Contents]
  /\ state \in [Ids -> Rendered]
  /\ integrity \in {"none", "PASS", "FAIL"} /\ verification \in {"none", "PASS", "FAIL"}
  /\ tests \in {"none", "PASS", "FAIL"} /\ report \in {"none", "CONDITIONAL FAIL", "PASS"}
  /\ pc \in {"idle", "probe", "csv", "duplicates", "extract", "work", "orphans", "state",
             "index", "integrity", "verify", "report", "passed", "failed"}
  /\ command \in {"none", "scan", "extract", "all", "verify", "report"}
  /\ job \in [Paths -> [at : {"idle", "reused", "todo", "rendering", "rendered", "removed", "framed",
                              "done", "failed"},
                        content : SUBSET Contents]]
  /\ calm \in BOOLEAN /\ disturbed \subseteq Ids /\ restored \subseteq disturbed
  /\ edits \in 0..MaxEdits /\ faults \in 0..MaxFaults /\ aborts \in 0..MaxAborts

\* All sources start with one content, so they begin as exact duplicates.
Init ==
  /\ source = [p \in Paths |-> 1] /\ snapshot = [p \in Paths |-> Absent]
  /\ inventory = [known |-> FALSE, ids |-> {}, failed |-> {}]
  /\ csv = {} /\ duplicates = [known |-> FALSE, groups |-> {}]
  /\ index = [ids |-> {}, groups |-> {}]
  /\ keyframes = [i \in Ids |-> {}] /\ sheets = keyframes
  /\ state = [i \in Ids |-> Nothing]
  /\ integrity = "none" /\ verification = "none" /\ tests = "none" /\ report = "none"
  /\ pc = "idle" /\ command = "none" /\ job = [p \in Paths |-> Idle(p)]
  /\ calm = FALSE /\ disturbed = {} /\ restored = {} /\ edits = 0 /\ faults = 0 /\ aborts = 0

-----------------------------------------------------------------------------
(* The world around the commands. *)

\* The running command has the content of p in its snapshot, and has yet to read
\* some of what it renders from p.
Reading(p) ==
  /\ command \in {"all", "extract"} /\ snapshot[p] # Absent
  /\ \/ pc \in {"probe", "csv", "duplicates", "extract"}
     \/ pc = "work" /\ job[p].at \in {"todo", "rendering"}

\* A source is replaced, removed or brought back; one source always remains.
Edit(p) ==
  /\ edits < MaxEdits
  /\ edits' = edits + 1
  /\ \E c \in Contents \cup {Absent} :
       /\ c # source[p]
       /\ c = Absent => \E q \in Paths \ {p} : source[q] # Absent
       /\ source' = [source EXCEPT ![p] = c]
       /\ disturbed' = disturbed \cup (IF Reading(p) THEN {<<p, snapshot[p]>>} ELSE {})
       /\ restored' = restored \cup (disturbed' \cap {<<p, c>>})
  /\ calm' = FALSE
  /\ UNCHANGED <<lists, outputs, state, results, pc, command, job, faults, aborts>>

\* The keyframes or the sheet of a video get lost.
Lose(i) ==
  /\ faults < MaxFaults
  /\ faults' = faults + 1
  /\ \/ keyframes[i] # {} /\ keyframes' = [keyframes EXCEPT ![i] = {}] /\ UNCHANGED sheets
     \/ sheets[i] # {} /\ sheets' = [sheets EXCEPT ![i] = {}] /\ UNCHANGED keyframes
  /\ calm' = FALSE
  /\ UNCHANGED <<source, lists, state, results, pc, command, job, disturbed, restored, edits, aborts>>

\* The command is killed, or an exception leaves it: a full disk, a source that
\* changes while it is hashed.
Abort ==
  /\ pc \notin {"idle", "passed", "failed"} /\ aborts < MaxAborts
  /\ aborts' = aborts + 1
  /\ pc' = "idle" /\ command' = "none" /\ job' = [p \in Paths |-> Idle(p)] /\ calm' = FALSE
  /\ UNCHANGED <<source, lists, outputs, state, results, disturbed, restored, edits, faults>>

Return ==
  /\ pc \in {"passed", "failed"}
  /\ pc' = "idle" /\ command' = "none" /\ job' = [p \in Paths |-> Idle(p)] /\ calm' = FALSE
  /\ UNCHANGED <<source, lists, outputs, state, results, bounds>>

-----------------------------------------------------------------------------
(* How the commands begin. *)

Begin(c, next) == pc = "idle" /\ command' = c /\ calm' = TRUE /\ pc' = next

StartScan(c) ==
  /\ Begin(c, "probe")
  /\ snapshot' = source
  /\ UNCHANGED <<source, inventory, csv, duplicates, index, outputs, state, results, job, bounds>>

\* extract works on the inventory on disk, which must be that of the sources; a
\* missing duplicates.json is made up for in memory.
StartExtract ==
  /\ Begin("extract", IF inventory.ids = Found(source) /\ inventory.failed = {}
                      THEN "extract" ELSE "failed")
  /\ snapshot' = source
  /\ UNCHANGED <<source, inventory, csv, duplicates, index, outputs, state, results, job, bounds>>

StartVerify ==
  /\ Begin("verify", "integrity")
  /\ Found(snapshot) # {}
  /\ UNCHANGED <<source, lists, outputs, state, results, job, bounds>>

\* report may first record the outcome of the tests.
StartReport ==
  /\ Begin("report", "report")
  /\ tests' \in {tests, "PASS", "FAIL"}
  /\ UNCHANGED <<source, lists, outputs, state, integrity, verification, report, job, bounds>>

-----------------------------------------------------------------------------
(* scan: the inventory and what is derived from it *)

\* Every video of the snapshot is probed, or keeps the record of the same path
\* and content; a failing probe costs its own video only.
Probe ==
  /\ pc = "probe"
  /\ \E broken \in SUBSET {p \in Paths : <<p, snapshot[p]>> \in Found(snapshot) \ inventory.ids} :
       LET gone == {p \in Paths : <<p, snapshot[p]>> \in Found(snapshot) \ inventory.ids
                                  /\ source[p] = Absent}
           failed == broken \cup gone
       IN /\ faults + Cardinality(broken) <= MaxFaults
          /\ faults' = faults + Cardinality(broken)
          /\ calm' = (calm /\ failed = {})
          /\ inventory' = [known |-> TRUE, failed |-> failed,
                           ids |-> {i \in Found(snapshot) : i[1] \notin failed}]
  /\ pc' = "csv"
  /\ UNCHANGED <<source, snapshot, csv, duplicates, index, outputs, state, results, command, job,
                 disturbed, restored, edits, aborts>>

WriteCsv ==
  /\ pc = "csv" /\ pc' = "duplicates"
  /\ csv' = inventory.ids
  /\ UNCHANGED <<source, snapshot, inventory, duplicates, index, outputs, state, results, command, job, calm, bounds>>

WriteDuplicates ==
  /\ pc = "duplicates" /\ pc' = IF command = "all" THEN "extract" ELSE "index"
  /\ duplicates' = [known |-> TRUE, groups |-> Groups(inventory.ids)]
  /\ UNCHANGED <<source, snapshot, inventory, csv, index, outputs, state, results, command, job, calm, bounds>>

-----------------------------------------------------------------------------
(* extract: a pool of threads renders the videos that are not current *)

Id(p) == CHOOSE i \in inventory.ids : i[1] = p
Listed == {i[1] : i \in inventory.ids}
At(p, at) == job' = [job EXCEPT ![p].at = at]

\* extract_visuals decides which videos it can skip.
StartWork ==
  /\ pc = "extract" /\ pc' = "work"
  /\ job' = [p \in Paths |-> IF p \notin Listed THEN Idle(p)
                             ELSE [at |-> IF Current(Id(p)) THEN "reused" ELSE "todo", content |-> {}]]
  /\ UNCHANGED <<source, lists, outputs, state, results, command, calm, bounds>>

\* The frames are rendered into a temporary directory, one reading of the source
\* after the other, and the sheet from the frames.
Render(p) ==
  /\ pc = "work" /\ job[p].at \in {"todo", "rendering"} /\ source[p] # Absent
  /\ \E at \in IF job[p].at = "todo" THEN {"rendering"} ELSE {"rendering", "rendered"} :
       job' = [job EXCEPT ![p] = [at |-> at, content |-> @.content \cup {source[p]}]]
  /\ UNCHANGED <<source, lists, outputs, state, results, pc, command, calm, bounds>>

\* The old directory is removed, the new one takes its place, then the sheet is
\* replaced and all outputs are hashed.
RemoveOld(p) ==
  /\ pc = "work" /\ job[p].at = "rendered"
  /\ keyframes' = [keyframes EXCEPT ![Id(p)] = {}]
  /\ At(p, "removed")
  /\ UNCHANGED <<source, lists, sheets, state, results, pc, command, calm, bounds>>

PlaceFrames(p) ==
  /\ pc = "work" /\ job[p].at = "removed"
  /\ keyframes' = [keyframes EXCEPT ![Id(p)] = job[p].content]
  /\ At(p, "framed")
  /\ UNCHANGED <<source, lists, sheets, state, results, pc, command, calm, bounds>>

PlaceSheet(p) ==
  /\ pc = "work" /\ job[p].at = "framed"
  /\ sheets' = [sheets EXCEPT ![Id(p)] = job[p].content]
  /\ At(p, IF keyframes[Id(p)] = {} THEN "failed" ELSE "done")
  /\ UNCHANGED <<source, lists, keyframes, state, results, pc, command, calm, bounds>>

\* FFmpeg or a file operation fails, or the source is gone: an error for this
\* video, the others go on.
WorkFails(p) ==
  /\ pc = "work" /\ job[p].at \in {"todo", "rendering", "rendered", "removed", "framed"}
  /\ IF job[p].at \in {"todo", "rendering"} /\ source[p] = Absent THEN UNCHANGED faults
     ELSE faults < MaxFaults /\ faults' = faults + 1
  /\ At(p, "failed")
  /\ calm' = FALSE
  /\ UNCHANGED <<source, lists, outputs, state, results, pc, command, disturbed, restored, edits, aborts>>

\* The pool is drained.
Drain ==
  /\ pc = "work" /\ pc' = "orphans"
  /\ \A p \in Listed : job[p].at \in {"reused", "done", "failed"}
  /\ UNCHANGED <<source, lists, outputs, state, results, command, job, calm, bounds>>

\* cleanup_orphans removes the outputs of ids that are no longer listed.
CleanUp ==
  /\ pc = "orphans" /\ pc' = "state"
  /\ keyframes' = [i \in Ids |-> IF i \in inventory.ids THEN keyframes[i] ELSE {}]
  /\ sheets' = [i \in Ids |-> IF i \in inventory.ids THEN sheets[i] ELSE {}]
  /\ UNCHANGED <<source, lists, state, results, command, job, calm, bounds>>

\* Mistake: the hash of the sheet is left out.
WriteStateFrames ==
  /\ pc = "state" /\ pc' = "index"
  /\ state' = [i \in Ids |->
       CASE i \notin inventory.ids -> Nothing
         [] i \in inventory.ids /\ job[i[1]].at = "done" -> [frames |-> job[i[1]].content]
         [] OTHER -> IF job[i[1]].at = "reused" \/ Current(i) THEN state[i] ELSE Nothing]
  /\ UNCHANGED <<source, lists, outputs, results, command, job, calm, bounds>>

\* New hashes for what was rendered; what was skipped, and what failed but is
\* still current, keeps its entry.
WriteState ==
  /\ pc = "state" /\ pc' = "index"
  /\ state' = [i \in Ids |->
       CASE i \notin inventory.ids -> Nothing
         [] i \in inventory.ids /\ job[i[1]].at = "done" ->
              [frames |-> job[i[1]].content, sheet |-> job[i[1]].content]
         [] OTHER -> IF job[i[1]].at = "reused" \/ Current(i) THEN state[i] ELSE Nothing]
  /\ UNCHANGED <<source, lists, outputs, results, command, job, calm, bounds>>

WriteIndex ==
  /\ pc = "index" /\ pc' = "integrity"
  /\ index' = [ids |-> inventory.ids,
               groups |-> IF duplicates.known THEN duplicates.groups ELSE Groups(inventory.ids)]
  /\ UNCHANGED <<source, snapshot, inventory, csv, duplicates, outputs, state, results, command, job, calm, bounds>>

-----------------------------------------------------------------------------
(* The second snapshot, the verification and the report *)

Errors == inventory.failed \cup {p \in Paths : job[p].at = "failed"}

\* Mistake: the snapshots are not compared.
FinalizePass ==
  /\ pc = "integrity"
  /\ integrity' = "PASS"
  /\ pc' = IF command = "scan" THEN IF Errors = {} THEN "passed" ELSE "failed" ELSE "verify"
  /\ UNCHANGED <<source, lists, outputs, state, verification, tests, report, command, job, calm, bounds>>

\* A second snapshot of the sources compared with the first.
Untouched == source = snapshot

Finalize ==
  /\ pc = "integrity"
  /\ integrity' = IF Untouched THEN "PASS" ELSE "FAIL"
  /\ pc' = IF command = "scan"
           THEN IF Errors = {} /\ integrity' = "PASS" THEN "passed" ELSE "failed"
           ELSE "verify"
  /\ UNCHANGED <<source, lists, outputs, state, verification, tests, report, command, job, calm, bounds>>

\* Mistake: the outputs on disk are not counted.
VerifiedDocuments ==
  LET n == Cardinality(inventory.ids)
  IN /\ inventory.known /\ inventory.failed = {} /\ integrity = "PASS" /\ duplicates.known
     /\ csv = inventory.ids /\ Cardinality(index.ids) = n
     /\ \A i \in index.ids : state[i] # Nothing => Current(i)

\* verify_outputs compares numbers of records and files, and hashes only what
\* the index and the state both name.
Verified ==
  LET n == Cardinality(inventory.ids)
  IN /\ inventory.known /\ inventory.failed = {} /\ integrity = "PASS" /\ duplicates.known
     /\ csv = inventory.ids
     /\ Cardinality(index.ids) = n
     /\ Cardinality({i \in index.ids : keyframes[i] # {}}) = n
     /\ Cardinality({i \in index.ids : sheets[i] # {}}) = n
     /\ Cardinality({i \in Ids : state[i] # Nothing}) = n
     /\ \A i \in index.ids : state[i] # Nothing => Current(i)

Verify ==
  /\ pc = "verify" /\ pc' = "report"
  /\ verification' = IF Verified THEN "PASS" ELSE "FAIL"
  /\ UNCHANGED <<source, lists, outputs, state, integrity, tests, report, command, job, calm, bounds>>

WriteReport ==
  /\ pc = "report"
  /\ report' = IF verification = "PASS" /\ tests = "PASS" THEN "PASS" ELSE "CONDITIONAL FAIL"
  /\ pc' = IF command = "report" \/ (verification = "PASS" /\ Errors = {}) THEN "passed" ELSE "failed"
  /\ UNCHANGED <<source, lists, outputs, state, integrity, verification, tests, command, job, calm, bounds>>

-----------------------------------------------------------------------------
Commands == (\E c \in {"scan", "all"} : StartScan(c)) \/ StartExtract \/ StartVerify \/ StartReport
Scan == Probe \/ WriteCsv \/ WriteDuplicates
Work(p) == Render(p) \/ RemoveOld(p) \/ PlaceFrames(p) \/ PlaceSheet(p) \/ WorkFails(p)
Extract == StartWork \/ (\E p \in Paths : Work(p)) \/ Drain \/ CleanUp \/ WriteState
Finish == WriteIndex \/ Finalize \/ Verify \/ WriteReport \/ Return
World == (\E p \in Paths : Edit(p)) \/ (\E i \in Ids : Lose(i)) \/ Abort

Next == Commands \/ Scan \/ Extract \/ Finish \/ World
Spec == Init /\ [][Next]_vars

-----------------------------------------------------------------------------
\* The documents speak of the videos of the snapshot, and each of these has
\* keyframes and a sheet, rendered from the content in the snapshot and nothing
\* else. The exception: a run, this one or one before, had its source replaced
\* between the snapshot and the last reading, and the content came back. Outputs
\* of the other content are recorded for that in the snapshot, and count as current
\* when it is there again.
Prepared ==
  LET ids == Found(snapshot)
  IN /\ inventory.ids = ids /\ csv = ids /\ index.ids = ids
     /\ \A i \in ids : keyframes[i] # {} /\ sheets[i] # {}
     /\ \A i \in ids \ restored : keyframes[i] = {i[2]} /\ sheets[i] = {i[2]}

\* pipeline_state.json has the hashes of the outputs of each of them.
Recorded == \A i \in inventory.ids : state[i] # Nothing

\* No outputs of other videos are left.
NoOrphans == \A i \in Ids \ inventory.ids : keyframes[i] = {} /\ sheets[i] = {} /\ state[i] = Nothing

\* When all or extract finds everything in order, it is, its hashes are recorded,
\* and the outputs of other videos are gone, whatever earlier runs left and
\* whatever changed meanwhile.
VerifiedIsPrepared ==
  [][Verify /\ verification' = "PASS" /\ command \in {"all", "extract"}
       => Prepared /\ Recorded /\ NoOrphans]_vars

\* The same of the outputs for any command, with the groups of duplicates, if no
\* command was ever cut off and the inventory is of the snapshot: verify compares
\* numbers of records, and an extract that refuses its inventory has replaced the
\* snapshot. The hashes may be missing: of pipeline_state.json it counts the
\* entries and checks those it has, which may be of other videos.
VerifyIsPrepared ==
  [][Verify /\ verification' = "PASS" /\ aborts = 0 /\ inventory.ids = Found(snapshot)
       => Prepared /\ index.groups = Groups(inventory.ids)]_vars

\* all that nothing disturbs passes: the remains of other runs cannot stop it.
CalmAllPasses == calm /\ command = "all" => pc # "failed"
=============================================================================
