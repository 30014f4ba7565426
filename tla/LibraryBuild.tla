---------------------------- MODULE LibraryBuild ----------------------------
(***************************************************************************)
(* The Phase 4 library: tools/asset_pipeline/phase4.py turns every source  *)
(* video into three media files (video, poster, blurred poster), records   *)
(* what it finished in build_state.json, and describes the library in a    *)
(* master manifest, delivery manifests and views.  One command runs at a   *)
(* time; inside a build a pool of threads works on the assets and the main *)
(* thread collects them.  A command may die between any two file           *)
(* operations, and the sources may change while it runs.                   *)
(*                                                                         *)
(* The content of a source is a number, 0 stands for no file.  A source    *)
(* has its contents in the order of their numbers, unless somebody reverts *)
(* it to a content that it had, size and time of modification included.  A *)
(* media file, a hash and a fingerprint are named by the content they come *)
(* from: profile, policy and FFmpeg are the same in all builds.            *)
(***************************************************************************)
EXTENDS Naturals, FiniteSets, Functions

CONSTANTS
  N,          \* number of assets of the seed (43 in the code)
  MaxContents,\* bound: contents of the sources
  MaxEdits,   \* bound: edits of the sources
  MaxFaults,  \* bound: failing FFmpeg calls and file operations, lost files
  MaxCrashes  \* bound: commands that die in the middle

ASSUME NAssumption == N \in Nat \ {0}
ASSUME BoundsAssumption ==
  MaxContents \in Nat \ {0} /\ MaxEdits \in Nat /\ MaxFaults \in Nat /\ MaxCrashes \in Nat

VARIABLES
  source,     \* content of each source video
  analysis,   \* content of each video as inventory.json of Phase 2 describes it
  media,      \* the three files of each asset in the output directory
  before,     \* reports/source_snapshot_before.json
  entries,    \* "assets" of manifests/build_state.json
  manifests,  \* the video hash each manifest lists for each asset
  pc,         \* what the running command does next
  command,    \* the running command
  previous,   \* the build's copy of the entries it found
  job,        \* the pool's work on each asset
  states,     \* the entries the main thread has collected
  calm,       \* TRUE while a command runs that nothing disturbed
  disturbed,  \* history: assets whose source changed before a build had read it all
  reverted,   \* history: assets whose source got back a content that it had
  edits, faults, crashes

history == <<disturbed, reverted, edits>>
sources == <<source, analysis, history>>
local == <<pc, command, previous, job, states, calm>>
bounds == <<faults, crashes>>
vars == <<sources, media, before, entries, manifests, local, bounds>>

-----------------------------------------------------------------------------
Assets == 1..N
Contents == 1..MaxContents
NoFile == 0
Parts == {"video", "poster", "blur"}
Manifests == {"character", "vault", "view"}

\* The files of an asset, and its entry in build_state.json: the fingerprint of
\* the input and the hashes of the outputs.
Files == [Parts -> Contents \cup {NoFile}]
NoFiles == [p \in Parts |-> NoFile]
Entries == [fp : Contents \cup {NoFile}, outputs : Files]
NoEntry == [fp |-> NoFile, outputs |-> NoFiles]
NoList == [a \in Assets |-> NoFile]
Lists == [Assets -> Contents \cup {NoFile}]

\* What a thread does for an asset, and the files it has encoded.
Jobs == [at : {"idle", "todo", "encode", "video", "poster", "blur", "placed", "reused",
               "collected", "failed"},
         files : Files]
Job(at) == [at |-> at, files |-> NoFiles]

\* Mistake: the thread reports an asset done that the main thread never takes.
AfterNever(at) == CASE at = "encode" -> "video" [] at = "video" -> "poster"
                    [] at = "poster" -> "blur" [] at = "blur" -> "done"

\* Mistake: the images are moved before the video.
AfterImagesFirst(at) == CASE at = "encode" -> "poster" [] at = "poster" -> "blur"
                          [] at = "blur" -> "video" [] at = "video" -> "placed"

\* The order in which an asset's thread moves its files into place.
After(at) == CASE at = "encode" -> "video" [] at = "video" -> "poster"
               [] at = "poster" -> "blur" [] at = "blur" -> "placed"

\* Mistake: the files of the asset are not looked at.
EntryTrusted(e, fingerprint, files) == e.fp = fingerprint

\* _state_entry_valid: the fingerprint is that of the input and each file of the
\* asset is there with the recorded hash.
EntryValid(e, fingerprint, files) ==
  /\ e.fp = fingerprint
  /\ NoFile \notin Range(files)
  /\ files = e.outputs

\* validate_library: every listed video is there with the listed hash; of the
\* images only the presence is looked at.
LibraryValid(list, files) ==
  \A a \in Assets : /\ list[a] # NoFile
                    /\ files[a]["video"] = list[a]
                    /\ files[a]["poster"] # NoFile
                    /\ files[a]["blur"] # NoFile

TypeOK ==
  /\ source \in [Assets -> Contents] /\ analysis \in [Assets -> Contents]
  /\ media \in [Assets -> Files]
  /\ before \in Lists
  /\ entries \in [Assets -> Entries] /\ previous \in [Assets -> Entries]
  /\ states \in [Assets -> Entries]
  /\ manifests \in [Manifests -> Lists]
  /\ pc \in {"idle", "work", "character", "vault", "view", "state", "check", "passed", "failed"}
  /\ command \in {"none", "build", "validate"}
  /\ job \in [Assets -> Jobs]
  /\ calm \in BOOLEAN /\ disturbed \subseteq Assets /\ reverted \subseteq Assets
  /\ edits \in 0..MaxEdits /\ faults \in 0..MaxFaults /\ crashes \in 0..MaxCrashes

Init ==
  /\ source = [a \in Assets |-> 1] /\ analysis = source
  /\ media = [a \in Assets |-> NoFiles]
  /\ before = NoList
  /\ entries = [a \in Assets |-> NoEntry] /\ previous = entries /\ states = entries
  /\ manifests = [m \in Manifests |-> NoList]
  /\ pc = "idle" /\ command = "none"
  /\ job = [a \in Assets |-> Job("idle")]
  /\ calm = FALSE /\ disturbed = {} /\ reverted = {}
  /\ edits = 0 /\ faults = 0 /\ crashes = 0

-----------------------------------------------------------------------------
(* The world around the commands. *)

\* The running build has yet to read some of what it makes of a.
Reading(a) == pc = "work" /\ job[a].at \in {"todo", "encode"}

\* Somebody replaces a source video, or brings back an older one.
Edit(a) ==
  /\ edits < MaxEdits
  /\ edits' = edits + 1
  /\ \E c \in Contents \ {source[a]} :
       /\ source' = [source EXCEPT ![a] = c]
       /\ reverted' = IF c < source[a] THEN reverted \cup {a} ELSE reverted
  /\ disturbed' = IF Reading(a) THEN disturbed \cup {a} ELSE disturbed
  /\ calm' = FALSE
  /\ UNCHANGED <<analysis, media, before, entries, manifests, pc, command, previous, job, states, bounds>>

\* Phases 2 and 3 are run again on the sources.
Reanalyse ==
  /\ pc = "idle" /\ analysis # source
  /\ analysis' = source
  /\ UNCHANGED <<source, history, media, before, entries, manifests, local, bounds>>

\* A media file disappears.
Lose(a, part) ==
  /\ faults < MaxFaults /\ media[a][part] # NoFile
  /\ faults' = faults + 1
  /\ media' = [media EXCEPT ![a][part] = NoFile]
  /\ calm' = FALSE
  /\ UNCHANGED <<sources, before, entries, manifests, pc, command, previous, job, states, crashes>>

\* The process ends, what it had in memory is gone.
End ==
  /\ pc' = "idle" /\ command' = "none" /\ calm' = FALSE
  /\ previous' = [a \in Assets |-> NoEntry] /\ states' = previous'
  /\ job' = [a \in Assets |-> Job("idle")]

\* The command is killed, or an I/O error ends it.
Crash ==
  /\ pc \notin {"idle", "passed", "failed"} /\ crashes < MaxCrashes
  /\ crashes' = crashes + 1
  /\ End
  /\ UNCHANGED <<sources, media, before, entries, manifests, faults>>

\* The command has returned its exit code.
Return ==
  /\ pc \in {"passed", "failed"}
  /\ End
  /\ UNCHANGED <<sources, media, before, entries, manifests, bounds>>

-----------------------------------------------------------------------------
(* build *)

\* build_policy_records: the documents of Phases 2 and 3 must be of exactly the
\* sources in the snapshot.
RecordsMatch(snapshot) == analysis = snapshot

\* Snapshot of the sources, then the policy records; labels, registry and source
\* map follow from them.
StartBuild ==
  /\ pc = "idle"
  /\ command' = "build" /\ calm' = TRUE
  /\ before' = source
  /\ IF RecordsMatch(source)
     THEN /\ pc' = "work"
          /\ previous' = entries
          /\ states' = [a \in Assets |-> NoEntry]
          /\ job' = [a \in Assets |-> Job("todo")]
     ELSE pc' = "failed" /\ UNCHANGED <<previous, states, job>>
  /\ UNCHANGED <<sources, media, entries, manifests, bounds>>

\* A thread finds the files of the previous build good.
Reuse(a) ==
  /\ pc = "work" /\ job[a].at = "todo"
  /\ EntryValid(previous[a], before[a], media[a])
  /\ job' = [job EXCEPT ![a] = Job("reused")]
  /\ UNCHANGED <<sources, media, before, entries, manifests, pc, command, previous, states, calm, bounds>>

\* Three runs of FFmpeg, each of which reads the source, encode the files of an
\* asset under temporary names; the video among them is verified.
NextPart(files) == CASE files["video"] = NoFile -> "video"
                     [] files["video"] # NoFile /\ files["poster"] = NoFile -> "poster"
                     [] OTHER -> "blur"

Encode(a) ==
  /\ pc = "work" /\ job[a].at \in {"todo", "encode"}
  /\ job[a].at = "todo" => ~EntryValid(previous[a], before[a], media[a])
  /\ LET part == NextPart(job[a].files)
     IN job' = [job EXCEPT ![a] = [at |-> IF part = "blur" THEN After("encode") ELSE "encode",
                                   files |-> [@.files EXCEPT ![part] = source[a]]]]
  /\ UNCHANGED <<sources, media, before, entries, manifests, pc, command, previous, states, calm, bounds>>

\* A thread moves the next of the three files over the old one.
Place(a) ==
  /\ pc = "work" /\ job[a].at \in Parts
  /\ media' = [media EXCEPT ![a][job[a].at] = job[a].files[job[a].at]]
  /\ job' = [job EXCEPT ![a].at = After(job[a].at)]
  /\ UNCHANGED <<sources, before, entries, manifests, pc, command, previous, states, calm, bounds>>

\* FFmpeg, the verification of its output or a file operation fails: the other
\* temporary files are removed.
WorkFails(a) ==
  /\ pc = "work" /\ job[a].at \in {"todo", "encode"} \cup Parts
  /\ faults < MaxFaults
  /\ faults' = faults + 1
  /\ job' = [job EXCEPT ![a] = Job("failed")]
  /\ calm' = FALSE
  /\ UNCHANGED <<sources, media, before, entries, manifests, pc, command, previous, states, crashes>>

\* The main thread takes a finished asset and writes a checkpoint.  The hash of
\* a new video was taken before it moved, those of the images are read now; an
\* image that is gone makes the asset fail.
Collect(a) ==
  /\ pc = "work"
  /\ \/ /\ job[a].at = "reused"
        /\ states' = [states EXCEPT ![a] = previous[a]]
     \/ /\ job[a].at = "placed" /\ NoFile \notin {media[a]["poster"], media[a]["blur"]}
        /\ states' = [states EXCEPT ![a] =
             [fp |-> before[a], outputs |-> [media[a] EXCEPT !["video"] = job[a].files["video"]]]]
  /\ entries' = states'
  /\ job' = [job EXCEPT ![a] = Job("collected")]
  /\ UNCHANGED <<sources, media, before, manifests, pc, command, previous, calm, bounds>>

HashFails(a) ==
  /\ pc = "work" /\ job[a].at = "placed" /\ NoFile \in {media[a]["poster"], media[a]["blur"]}
  /\ job' = [job EXCEPT ![a] = Job("failed")]
  /\ UNCHANGED <<sources, media, before, entries, manifests, pc, command, previous, states, calm, bounds>>

\* Mistake: the snapshots are not compared.
SettleAnyway ==
  /\ pc = "work" /\ \A a \in Assets : job[a].at \in {"collected", "failed"}
  /\ pc' = IF \A a \in Assets : job[a].at = "collected" THEN "character" ELSE "failed"
  /\ previous' = [a \in Assets |-> NoEntry] /\ job' = [a \in Assets |-> Job("idle")]
  /\ UNCHANGED <<sources, media, before, entries, manifests, command, states, calm, bounds>>

\* The pool is drained: a second snapshot must equal the first, and no asset may
\* have failed.
Settle ==
  /\ pc = "work" /\ \A a \in Assets : job[a].at \in {"collected", "failed"}
  /\ pc' = IF source = before /\ \A a \in Assets : job[a].at = "collected"
           THEN "character" ELSE "failed"
  /\ previous' = [a \in Assets |-> NoEntry] /\ job' = [a \in Assets |-> Job("idle")]
  /\ UNCHANGED <<sources, media, before, entries, manifests, command, states, calm, bounds>>

\* The master manifest, then the delivery manifests, then the views.
Following(m) == CASE m = "character" -> "vault" [] m = "vault" -> "view" [] m = "view" -> "state"

WriteManifest ==
  /\ pc \in Manifests
  /\ manifests' = [manifests EXCEPT ![pc] = [a \in Assets |-> states[a].outputs["video"]]]
  /\ pc' = Following(pc)
  /\ UNCHANGED <<sources, media, before, entries, command, previous, job, states, calm, bounds>>

\* build_state.json, now complete; coverage and cues do not depend on the media.
WriteState ==
  /\ pc = "state"
  /\ entries' = states
  /\ pc' = "check"
  /\ UNCHANGED <<sources, media, before, manifests, command, previous, job, states, calm, bounds>>

\* validate_library on the manifests of the build, or on those on disk.  The
\* reports that follow are read by no command.
Check ==
  /\ pc = "check"
  /\ pc' = CASE ~LibraryValid(manifests["character"], media) -> "failed"
             [] manifests["vault"] = NoList \/ manifests["view"] = NoList -> "failed"
             [] OTHER -> "passed"
  /\ UNCHANGED <<sources, media, before, entries, manifests, command, previous, job, states, calm, bounds>>

-----------------------------------------------------------------------------
(* validate *)

StartValidate ==
  /\ pc = "idle" /\ before # NoList
  /\ command' = "validate" /\ calm' = TRUE
  /\ pc' = IF source = before THEN "check" ELSE "failed"
  /\ UNCHANGED <<sources, media, before, entries, manifests, previous, job, states, bounds>>

-----------------------------------------------------------------------------
Build == \/ StartBuild \/ Settle \/ WriteManifest \/ WriteState \/ Check
         \/ \E a \in Assets : \/ Reuse(a) \/ Encode(a) \/ Place(a) \/ WorkFails(a)
                              \/ Collect(a) \/ HashFails(a)
World == \/ Reanalyse \/ Crash
         \/ \E a \in Assets : Edit(a) \/ \E p \in Parts : Lose(a, p)
Other == StartValidate \/ Return

Next == Build \/ World \/ Other
Spec == Init /\ [][Next]_vars

-----------------------------------------------------------------------------
\* The resume state describes the files on disk, under the content in the
\* snapshot, and all manifests list the videos among them.
Agrees(a) ==
  /\ entries[a] = [fp |-> before[a], outputs |-> media[a]]
  /\ \A m \in Manifests : manifests[m][a] = media[a]["video"]

\* When the check at the end of a build passes, resume state and manifests are
\* those of the files it leaves, and the files come from the content in the
\* snapshot, whatever earlier builds left behind and whatever changed meanwhile.
\* The exception: the source of an asset changed before some build had read it
\* all, and got back its content, for which the files of the other are recorded.
BuildVouches ==
  [][pc = "check" /\ command = "build" /\ pc' = "passed"
       => /\ \A a \in Assets : Agrees(a)
          /\ \A a \in Assets \ (disturbed \cap reverted), p \in Parts : media[a][p] = before[a]]_vars

\* A build that nothing disturbs, over sources that were analysed, passes; the
\* remains of interrupted builds cannot make it fail.
CalmBuildPasses ==
  calm /\ command = "build" /\ analysis = before => pc # "failed"

\* A library that validate accepts has the images of its videos, although it does
\* not look at their hashes: of every asset whose source never changed between two
\* readings of it, and never got back a content that it had.
ImagesBelong ==
  [][pc = "check" /\ pc' = "passed"
       => \A a \in Assets \ (disturbed \cup reverted), i \in {"poster", "blur"} :
            media[a][i] = media[a]["video"]]_vars
=============================================================================
