-------------------------- MODULE LibraryBuildProofs --------------------------
(***************************************************************************)
(* Proofs about LibraryBuild, for any number of assets, contents, edits,   *)
(* faults and crashes: what a build vouches for is so (BuildVouches), an   *)
(* undisturbed build passes (CalmBuildPasses), images belong to their      *)
(* videos (ImagesBelong).  All three rest on one inductive invariant,      *)
(* AssetInv, which says of each asset how source, snapshot, media, entries *)
(* and manifests are related.  Its parts hold of different assets.  Entry  *)
(* and files agree of all (WorkInv, DoneInv).  Entries are true of those   *)
(* that every build read undisturbed (TrueInv).  Nothing is newer than the *)
(* source of those that were never reverted, and so an entry made for the  *)
(* present source is true of it (OrderInv).  Images belong to videos where *)
(* both hold (ImagesInv).                                                  *)
(***************************************************************************)
EXTENDS LibraryBuild, TLAPS

-----------------------------------------------------------------------------
Whole(c) == [fp |-> c, outputs |-> [p \in Parts |-> c]]

\* The files of an asset are those of an entry, or lost.
OnDisk(a, e) == \A p \in Parts : media[a][p] \in {NoFile, e.outputs[p]}

\* An entry made for the present source is of one content.
Recorded(e, c) == e.fp <= c /\ (e.fp = c => e = Whole(c))

\* The steps of a build after the pool.
Writing == {"character", "vault", "view", "state", "check"}

\* Of a source that was never reverted nothing is newer than itself, and what a
\* running build has encoded is not older than its snapshot.
OrderInv(a) == a \notin reverted =>
  /\ before[a] <= source[a]
  /\ \A p \in Parts : media[a][p] <= source[a]
  /\ \A m \in Manifests : manifests[m][a] <= source[a]
  /\ Recorded(entries[a], source[a])
  /\ Recorded(previous[a], source[a])
  /\ Recorded(states[a], source[a])
  /\ pc = "work" => \A p \in Parts : job[a].files[p] # NoFile =>
                       before[a] <= job[a].files[p] /\ job[a].files[p] <= source[a]
  /\ pc = "work" \/ (pc \in Writing /\ command = "build") => manifests["character"][a] <= before[a]

\* Of a source that never changed before a build had read it all, every entry is
\* true, and the files of the running build are of its snapshot.
TrueInv(a) == a \notin disturbed =>
  /\ entries[a] = Whole(entries[a].fp)
  /\ previous[a] = Whole(previous[a].fp)
  /\ states[a] = Whole(states[a].fp)
  /\ pc = "work" => \A p \in Parts : job[a].files[p] \in {NoFile, before[a]}
  /\ Reading(a) => source[a] = before[a]

\* What a thread has moved into place, by the step it has come to.
Placed(at) == CASE at = "poster" -> {"video"} [] at = "blur" -> {"video", "poster"}
                [] at = "placed" -> Parts [] OTHER -> {}

\* An entry that a running build takes over or has made.
Made(a, e) == e.fp = before[a] /\ e.outputs["video"] # NoFile /\ OnDisk(a, e)

WorkInv(a) == pc = "work" =>
  /\ before[a] # NoFile
  /\ job[a].at = "todo" => job[a].files = NoFiles
  /\ job[a].at = "encode" => job[a].files["video"] # NoFile
  /\ job[a].at \in Parts \cup {"placed"} => \A p \in Parts : job[a].files[p] # NoFile
  /\ \A p \in Placed(job[a].at) : media[a][p] \in {NoFile, job[a].files[p]}
  /\ job[a].at = "reused" => Made(a, previous[a])
  /\ job[a].at = "collected" => Made(a, states[a])

\* Which documents are written, and what they say.
DoneInv(a) == pc \in Writing /\ command = "build" =>
  /\ before[a] # NoFile /\ Made(a, states[a])
  /\ a \in disturbed \cap reverted \/ states[a] = Whole(before[a])
  /\ pc # "character" => manifests["character"][a] = states[a].outputs["video"]
  /\ pc \notin {"character", "vault"} => manifests["vault"][a] = states[a].outputs["video"]
  /\ pc \notin {"character", "vault", "view"} => manifests["view"][a] = states[a].outputs["video"]
  /\ pc = "check" => entries[a] = states[a]

CalmInv(a) == calm /\ command = "build" /\ pc \in {"work"} \cup Writing =>
  /\ before[a] = source[a]
  /\ pc = "work" => job[a].at # "failed"
  /\ pc = "work" => \A p \in Placed(job[a].at) : media[a][p] # NoFile
  /\ (pc = "work" => job[a].at \in {"reused", "collected"}) => NoFile \notin {media[a][p] : p \in Parts}

\* A video moves before its images, and all media are at least as new as the
\* master manifest, or the manifest does not list them.
ImagesInv(a) == a \notin disturbed \cup reverted =>
  /\ pc = "work" => \A p \in Parts : media[a][p] <= before[a]
  /\ \A i \in {"poster", "blur"} : media[a][i] # NoFile =>
       /\ media[a]["video"] # NoFile => media[a][i] <= media[a]["video"]
       /\ manifests["character"][a] <= media[a][i]

OfAsset(a) == /\ OrderInv(a) /\ TrueInv(a) /\ WorkInv(a) /\ DoneInv(a)
              /\ CalmInv(a) /\ ImagesInv(a)
AssetInv == \A a \in Assets : OfAsset(a)

CommandInv ==
  /\ pc \in {"work"} \cup (Writing \ {"check"}) => command = "build"
  /\ pc = "check" => command \in {"build", "validate"}
  /\ calm /\ command = "build" /\ pc = "failed" => analysis # before

IInv == TypeOK /\ CommandInv /\ AssetInv

-----------------------------------------------------------------------------
(* Types *)

USE DEF Assets, NoFile

LEMMA Nothing ==
  /\ NoFiles \in Files /\ NoEntry \in Entries /\ NoList \in Lists
  /\ \A at \in {"idle", "todo", "reused", "collected", "failed"} : Job(at) \in Jobs
BY DEF NoFiles, Files, NoEntry, Entries, NoList, Lists, Job, Jobs

LEMMA InitType == Init => TypeOK
<1> SUFFICES ASSUME Init PROVE TypeOK
  OBVIOUS
<1>1. 1 \in Contents
  BY BoundsAssumption DEF Contents
<1>2. /\ source \in [Assets -> Contents] /\ analysis \in [Assets -> Contents]
      /\ media \in [Assets -> Files] /\ before \in Lists /\ manifests \in [Manifests -> Lists]
      /\ job \in [Assets -> Jobs]
  BY <1>1, Nothing DEF Init
<1>3. entries \in [Assets -> Entries] /\ previous \in [Assets -> Entries] /\ states \in [Assets -> Entries]
  BY Nothing DEF Init
<1>4. pc = "idle" /\ command = "none" /\ calm \in BOOLEAN
  BY DEF Init
<1>5. disturbed \subseteq Assets /\ reverted \subseteq Assets
  BY DEF Init
<1>6. edits \in 0..MaxEdits /\ faults \in 0..MaxFaults /\ crashes \in 0..MaxCrashes
  BY BoundsAssumption DEF Init
<1> QED BY <1>2, <1>3, <1>4, <1>5, <1>6 DEF TypeOK

LEMMA BuildType ==
  ASSUME TypeOK, Build
  PROVE  TypeOK'
<1> USE NAssumption, BoundsAssumption, Nothing DEF history
<1>1. CASE StartBuild
  <2>1. source \in Lists
    BY DEF TypeOK, Lists
  <2> QED BY <1>1, <2>1 DEF TypeOK, StartBuild, sources, bounds
<1>2. CASE Settle
  BY <1>2 DEF TypeOK, Settle, sources, bounds
<1>3. CASE WriteManifest
  <2>1. [a \in Assets |-> states[a].outputs["video"]] \in Lists
    BY DEF TypeOK, Lists, Entries, Files, Parts
  <2>2. manifests' \in [Manifests -> Lists] /\ pc' \in {"vault", "view", "state"}
    BY <1>3, <2>1 DEF TypeOK, WriteManifest, Following, Manifests
  <2> QED BY <1>3, <2>2 DEF TypeOK, WriteManifest, sources, bounds
<1>4. CASE WriteState
  BY <1>4 DEF TypeOK, WriteState, sources, bounds
<1>5. CASE Check
  BY <1>5 DEF TypeOK, Check, sources, bounds
<1>6. ASSUME NEW a \in Assets, Reuse(a) PROVE TypeOK'
  BY <1>6 DEF TypeOK, Reuse, sources, bounds
<1>7. ASSUME NEW a \in Assets, Encode(a) PROVE TypeOK'
  <2> DEFINE part == NextPart(job[a].files)
  <2>1. part \in Parts /\ source[a] \in Contents /\ job[a].files \in Files
    BY DEF TypeOK, Jobs, NextPart, Parts
  <2>2. [job[a].files EXCEPT ![part] = source[a]] \in Files
    BY <2>1 DEF Files
  <2>3. job'[a] \in Jobs /\ job' = [job EXCEPT ![a] = job'[a]]
    BY <1>7, <2>2 DEF Encode, TypeOK, Jobs, After
  <2>4. job' \in [Assets -> Jobs]
    BY <2>3 DEF TypeOK
  <2> QED BY <1>7, <2>4 DEF TypeOK, Encode, sources, bounds
<1>8. ASSUME NEW a \in Assets, Place(a) PROVE TypeOK'
  <2>1. job[a] \in Jobs /\ media[a] \in Files /\ job[a].at \in Parts
    BY <1>8 DEF TypeOK, Place
  <2>2. [media[a] EXCEPT ![job[a].at] = job[a].files[job[a].at]] \in Files
    BY <2>1 DEF Files, Jobs
  <2>3. [job[a] EXCEPT !.at = After(job[a].at)] \in Jobs
    BY <2>1 DEF Jobs, After, Parts
  <2>4. media' \in [Assets -> Files] /\ job' \in [Assets -> Jobs]
    BY <1>8, <2>2, <2>3 DEF Place, TypeOK
  <2> QED BY <1>8, <2>4 DEF TypeOK, Place, sources, bounds
<1>9. ASSUME NEW a \in Assets, WorkFails(a) PROVE TypeOK'
  <2>1. faults' \in 0..MaxFaults
    BY <1>9 DEF TypeOK, WorkFails
  <2> QED BY <1>9, <2>1 DEF TypeOK, WorkFails, sources
<1>10. ASSUME NEW a \in Assets, Collect(a) PROVE TypeOK'
  <2>1. /\ job[a].files["video"] \in Contents \cup {NoFile} /\ before[a] \in Contents \cup {NoFile}
        /\ media[a] \in Files
    BY DEF TypeOK, Jobs, Lists, Files, Parts
  <2>2. [media[a] EXCEPT !["video"] = job[a].files["video"]] \in Files
    BY <2>1 DEF Files
  <2>3. [fp |-> before[a], outputs |-> [media[a] EXCEPT !["video"] = job[a].files["video"]]] \in Entries
    BY <2>1, <2>2 DEF Entries
  <2>4. states' \in [Assets -> Entries]
    BY <1>10, <2>3 DEF Collect, TypeOK
  <2> QED BY <1>10, <2>4 DEF TypeOK, Collect, sources, bounds
<1>11. ASSUME NEW a \in Assets, HashFails(a) PROVE TypeOK'
  BY <1>11 DEF TypeOK, HashFails, sources, bounds
<1> QED BY <1>1, <1>2, <1>3, <1>4, <1>5, <1>6, <1>7, <1>8, <1>9, <1>10, <1>11 DEF Build

LEMMA WorldType ==
  ASSUME TypeOK, World
  PROVE  TypeOK'
<1> USE NAssumption, BoundsAssumption, Nothing DEF history
<1>1. CASE Reanalyse
  BY <1>1 DEF TypeOK, Reanalyse, local, bounds
<1>2. CASE Crash
  <2>1. crashes' \in 0..MaxCrashes
    BY <1>2 DEF TypeOK, Crash
  <2> QED BY <1>2, <2>1 DEF TypeOK, Crash, End, sources
<1>3. ASSUME NEW a \in Assets, Edit(a) PROVE TypeOK'
  <2>1. source' \in [Assets -> Contents] /\ reverted' \subseteq Assets /\ disturbed' \subseteq Assets
    BY <1>3 DEF TypeOK, Edit
  <2>2. edits' \in 0..MaxEdits
    BY <1>3 DEF TypeOK, Edit
  <2> QED BY <1>3, <2>1, <2>2 DEF TypeOK, Edit, bounds
<1>4. ASSUME NEW a \in Assets, NEW p \in Parts, Lose(a, p) PROVE TypeOK'
  <2>1. [media[a] EXCEPT ![p] = NoFile] \in Files /\ faults' \in 0..MaxFaults
    BY <1>4 DEF TypeOK, Lose, Files
  <2> QED BY <1>4, <2>1 DEF TypeOK, Lose, sources
<1> QED BY <1>1, <1>2, <1>3, <1>4 DEF World

LEMMA OtherType ==
  ASSUME TypeOK, Other
  PROVE  TypeOK'
<1> USE Nothing DEF history
<1>1. CASE StartValidate
  BY <1>1 DEF TypeOK, StartValidate, sources, bounds
<1>2. CASE Return
  BY <1>2 DEF TypeOK, Return, End, sources, bounds
<1> QED BY <1>1, <1>2 DEF Other

LEMMA StutterType ==
  ASSUME TypeOK, UNCHANGED vars
  PROVE  TypeOK'
BY DEF TypeOK, vars, sources, history, local, bounds

\* Every reachable state is well typed.
THEOREM TypeCorrect == Spec => []TypeOK
<1>1. TypeOK /\ [Next]_vars => TypeOK'
  BY BuildType, WorldType, OtherType, StutterType DEF Next
<1> QED BY <1>1, InitType, PTL DEF Spec

-----------------------------------------------------------------------------
(* One asset *)

LEMMA AssetTypes ==
  ASSUME TypeOK, NEW a \in Assets
  PROVE  /\ source[a] \in Nat /\ source[a] > 0
         /\ before[a] \in Nat
         /\ media[a] \in [Parts -> Nat]
         /\ \A m \in Manifests : manifests[m][a] \in Nat
         /\ job[a] \in Jobs /\ job[a].files \in [Parts -> Nat]
         /\ entries[a] \in Entries /\ previous[a] \in Entries /\ states[a] \in Entries
         /\ entries[a].fp \in Nat /\ previous[a].fp \in Nat /\ states[a].fp \in Nat
<1>1. Contents \cup {NoFile} \subseteq Nat
  BY BoundsAssumption DEF Contents
<1>2. source[a] \in Contents /\ before[a] \in Contents \cup {NoFile}
  BY DEF TypeOK, Lists
<1>3. \A m \in Manifests : manifests[m][a] \in Contents \cup {NoFile}
  <2>1. manifests \in [Manifests -> Lists]
    BY DEF TypeOK
  <2>2. \A m \in Manifests : manifests[m] \in Lists
    BY <2>1
  <2> QED BY <2>2 DEF Lists
<1>4. media[a] \in [Parts -> Nat]
  BY <1>1 DEF TypeOK, Files
<1>5. job[a] \in Jobs /\ job[a].files \in [Parts -> Nat]
  BY <1>1 DEF TypeOK, Jobs, Files
<1>6. entries[a] \in Entries /\ previous[a] \in Entries /\ states[a] \in Entries
  BY DEF TypeOK
<1>7. \A e \in Entries : e.fp \in Nat
  BY <1>1 DEF Entries
<1> QED BY <1>1, <1>2, <1>3, <1>4, <1>5, <1>6, <1>7, BoundsAssumption DEF Contents

\* The entry that stands for none is true.
LEMMA NoEntryTrue == NoEntry = Whole(NoEntry.fp) /\ NoEntry.fp = NoFile
BY DEF NoEntry, Whole, NoFiles

\* What does not touch an asset, and only may end the calm, keeps what holds of it.
LEMMA Untouched ==
  ASSUME NEW a \in Assets, OfAsset(a),
         a \in disturbed => a \in disturbed', a \in reverted => a \in reverted',
         source'[a] = source[a], before'[a] = before[a], media'[a] = media[a],
         manifests["character"]'[a] = manifests["character"][a],
         manifests["vault"]'[a] = manifests["vault"][a],
         manifests["view"]'[a] = manifests["view"][a],
         entries'[a] \in {entries[a], states[a]}, previous'[a] = previous[a], states'[a] = states[a],
         job'[a] = job[a], pc' = pc, command' = command, calm' => calm
  PROVE  OfAsset(a)'
<1> USE DEF OfAsset
<1>1. OrderInv(a)'
  BY DEF OrderInv, Recorded, Whole, Manifests
<1>2. TrueInv(a)'
  BY DEF TrueInv, Whole, Reading
<1>3. WorkInv(a)'
  BY DEF WorkInv, Made, OnDisk, Placed
<1>4. DoneInv(a)'
  BY DEF DoneInv, Made, OnDisk, Whole
<1>5. CalmInv(a)'
  BY DEF CalmInv, Placed
<1>6. ImagesInv(a)'
  BY DEF ImagesInv
<1> QED BY <1>1, <1>2, <1>3, <1>4, <1>5, <1>6

-----------------------------------------------------------------------------
(* The pool *)

LEMMA ReuseKeeps ==
  ASSUME TypeOK, AssetInv, NEW b \in Assets, Reuse(b), NEW a \in Assets
  PROVE  OfAsset(a)'
<1> USE DEF Reuse, sources, history, bounds
<1>1. CASE a # b
  BY <1>1, AssetTypes, Untouched DEF AssetInv, TypeOK
<1>2. CASE a = b
  <2> USE <1>2 DEF OfAsset, AssetInv
  <2>1. job'[a] = Job("reused") /\ pc = "work" /\ job[a].at = "todo"
    BY DEF TypeOK
  <2>2. previous[a].fp = before[a] /\ media[a] = previous[a].outputs /\ \A p \in Parts : media[a][p] # NoFile
    BY AssetTypes DEF EntryValid, Range
  <2>3. \A p \in Parts : job'[a].files[p] = NoFile
    BY <2>1 DEF Job, NoFiles
  <2>4. OrderInv(a)'
    BY <2>3 DEF OrderInv, Recorded
  <2>5. TrueInv(a)'
    BY <2>1, <2>3 DEF TrueInv, Reading, Job
  <2>6. WorkInv(a)'
    BY <2>1, <2>2 DEF WorkInv, Job, Placed, Made, OnDisk, Parts
  <2>7. DoneInv(a)'
    BY <2>1 DEF DoneInv, Writing
  <2>8. CalmInv(a)'
    BY <2>1, <2>2 DEF CalmInv, Job, Placed, Writing
  <2>9. ImagesInv(a)'
    BY DEF ImagesInv
  <2> QED BY <2>4, <2>5, <2>6, <2>7, <2>8, <2>9
<1> QED BY <1>1, <1>2

\* The files a thread has encoded after one more run of FFmpeg.
LEMMA Encoded ==
  ASSUME TypeOK, AssetInv, NEW a \in Assets, Encode(a)
  PROVE  LET part == NextPart(job[a].files)
         IN /\ part \in Parts /\ pc = "work" /\ job[a].at \in {"todo", "encode"}
            /\ job'[a].at = (IF part = "blur" THEN "video" ELSE "encode")
            /\ \A p \in Parts : job'[a].files[p] = IF p = part THEN source[a] ELSE job[a].files[p]
            /\ part # "video" => job[a].files["video"] # NoFile
            /\ part = "blur" => job[a].files["poster"] # NoFile
<1> DEFINE part == NextPart(job[a].files)
<1>1. part \in Parts /\ pc = "work" /\ job[a].at \in {"todo", "encode"}
  BY DEF Encode, NextPart, Parts
<1>2. job'[a] = [at |-> IF part = "blur" THEN After("encode") ELSE "encode",
                 files |-> [job[a].files EXCEPT ![part] = source[a]]]
  BY DEF Encode, TypeOK
<1>3. \A p \in Parts : job'[a].files[p] = IF p = part THEN source[a] ELSE job[a].files[p]
  BY <1>1, <1>2, AssetTypes
<1>4. /\ part # "video" => job[a].files["video"] # NoFile
      /\ part = "blur" => job[a].files["poster"] # NoFile
  BY DEF NextPart
<1> QED BY <1>1, <1>2, <1>3, <1>4 DEF After

LEMMA EncodeKeeps ==
  ASSUME TypeOK, AssetInv, NEW b \in Assets, Encode(b), NEW a \in Assets
  PROVE  OfAsset(a)'
<1>1. /\ UNCHANGED <<sources, media, before, entries, manifests, pc, command, previous, states, calm, bounds>>
      /\ a # b => job'[a] = job[a]
  BY DEF Encode, TypeOK
<1> USE DEF sources, history, bounds
<1>2. CASE a # b
  BY <1>1, <1>2, AssetTypes, Untouched DEF AssetInv
<1>3. CASE a = b
  <2> USE <1>3 DEF OfAsset, AssetInv
  <2> DEFINE part == NextPart(job[a].files)
  <2>1. /\ part \in Parts /\ pc = "work" /\ job[a].at \in {"todo", "encode"}
        /\ job'[a].at = (IF part = "blur" THEN "video" ELSE "encode")
        /\ \A p \in Parts : job'[a].files[p] = IF p = part THEN source[a] ELSE job[a].files[p]
        /\ part # "video" => job[a].files["video"] # NoFile
        /\ part = "blur" => job[a].files["poster"] # NoFile
    BY Encoded
  <2>2. OrderInv(a)'
    BY <1>1, <2>1, AssetTypes DEF OrderInv, Recorded
  <2>3. TrueInv(a)'
    BY <1>1, <2>1 DEF TrueInv, Reading
  <2>4. WorkInv(a)'
    <3>1. job'[a].at = "encode" => job'[a].files["video"] # NoFile
      BY <2>1, AssetTypes DEF Parts
    <3>2. job'[a].at \in Parts \cup {"placed"} => \A p \in Parts : job'[a].files[p] # NoFile
      BY <2>1, AssetTypes DEF Parts
    <3>3. Placed(job'[a].at) = {} /\ job'[a].at \notin {"todo", "reused", "collected"}
      BY <2>1 DEF Placed
    <3> QED BY <1>1, <2>1, <3>1, <3>2, <3>3 DEF WorkInv
  <2>5. DoneInv(a)'
    BY <1>1, <2>1 DEF DoneInv, Writing
  <2>6. CalmInv(a)'
    BY <1>1, <2>1 DEF CalmInv, Placed, Writing
  <2>7. ImagesInv(a)'
    BY <1>1 DEF ImagesInv
  <2> QED BY <2>2, <2>3, <2>4, <2>5, <2>6, <2>7
<1> QED BY <1>2, <1>3

LEMMA PlaceKeeps ==
  ASSUME TypeOK, AssetInv, NEW b \in Assets, Place(b), NEW a \in Assets
  PROVE  OfAsset(a)'
<1> USE DEF Place, sources, history, bounds
<1>1. CASE a # b
  BY <1>1, AssetTypes, Untouched DEF AssetInv, TypeOK
<1>2. CASE a = b
  <2> USE <1>2 DEF OfAsset, AssetInv
  <2> DEFINE at == job[a].at
             c == job[a].files[at]
  <2>1. /\ pc = "work" /\ at \in Parts
        /\ job'[a].at = After(at) /\ job'[a].files = job[a].files
        /\ media'[a] = [media[a] EXCEPT ![at] = c]
    BY AssetTypes DEF TypeOK, Jobs
  <2>2. \A p \in Parts : media'[a][p] = IF p = at THEN c ELSE media[a][p]
    BY <2>1, AssetTypes
  <2>3. /\ before[a] # NoFile /\ \A p \in Parts : job[a].files[p] # NoFile
        /\ \A p \in Placed(at) : media[a][p] \in {NoFile, job[a].files[p]}
    BY <2>1 DEF WorkInv
  <2>4. After(at) \in Parts \cup {"placed"}
    BY <2>1 DEF After, Parts
  <2>5. OrderInv(a)'
    BY <2>1, <2>2, <2>3 DEF OrderInv, Recorded
  <2>6. TrueInv(a)'
    BY <2>1, <2>4 DEF TrueInv, Reading, Parts
  <2>7. WorkInv(a)'
    <3>1. \A p \in Placed(After(at)) : media'[a][p] \in {NoFile, job[a].files[p]}
      BY <2>1, <2>2, <2>3 DEF Placed, After, Parts
    <3> QED BY <2>1, <2>3, <2>4, <3>1 DEF WorkInv, Parts
  <2>8. DoneInv(a)'
    BY <2>1 DEF DoneInv, Writing
  <2>9. CalmInv(a)'
    <3> SUFFICES ASSUME calm, command = "build"
                 PROVE  CalmInv(a)'
      BY <2>1 DEF CalmInv
    <3>1. \A p \in Placed(After(at)) : media'[a][p] # NoFile
      BY <2>1, <2>2, <2>3, AssetTypes DEF CalmInv, Placed, After, Parts
    <3> QED BY <2>1, <2>4, <3>1 DEF CalmInv, Parts, Writing
  <2>10. ImagesInv(a)'
    <3> SUFFICES ASSUME a \notin disturbed, a \notin reverted
                 PROVE  ImagesInv(a)'
      BY DEF ImagesInv
    <3>1. /\ \A p \in Parts : job[a].files[p] = before[a]
          /\ \A p \in Parts : media[a][p] <= before[a]
          /\ manifests["character"][a] <= before[a]
      BY <2>1, <2>3 DEF TrueInv, ImagesInv, OrderInv
    <3>2. \A p \in Parts : media'[a][p] <= before[a]
      BY <2>1, <2>2, <3>1, AssetTypes
    <3> SUFFICES ASSUME NEW i \in {"poster", "blur"}, media'[a][i] # NoFile
                 PROVE  /\ media'[a]["video"] # NoFile => media'[a][i] <= media'[a]["video"]
                        /\ manifests["character"][a] <= media'[a][i]
      BY <3>2 DEF ImagesInv
    <3>3. CASE at = "video"
      BY <2>2, <3>1, <3>3, AssetTypes DEF ImagesInv, Parts
    <3>4. CASE at # "video"
      <4>1. media[a]["video"] \in {NoFile, before[a]}
        BY <2>1, <2>3, <3>1, <3>4 DEF Placed, Parts
      <4> QED BY <2>1, <2>2, <3>1, <3>4, <4>1, AssetTypes DEF ImagesInv, Parts
    <3> QED BY <3>3, <3>4
  <2> QED BY <2>5, <2>6, <2>7, <2>8, <2>9, <2>10
<1> QED BY <1>1, <1>2

LEMMA FailKeeps ==
  ASSUME TypeOK, AssetInv, NEW b \in Assets, WorkFails(b) \/ HashFails(b), NEW a \in Assets
  PROVE  OfAsset(a)'
<1> USE DEF WorkFails, HashFails, sources, history, bounds
<1>1. CASE a # b
  <2>1. OfAsset(a)
    BY DEF AssetInv
  <2>2. CASE WorkFails(b)
    BY <1>1, <2>1, <2>2, Untouched DEF TypeOK
  <2>3. CASE HashFails(b)
    BY <1>1, <2>1, <2>3, Untouched DEF TypeOK
  <2> QED BY <2>2, <2>3
<1>2. CASE a = b
  <2> USE <1>2 DEF OfAsset, AssetInv
  <2>1. job'[a] = Job("failed") /\ pc = "work"
    BY DEF TypeOK
  <2>2. ~calm' \/ command # "build"
    BY <2>1, AssetTypes DEF CalmInv, Placed, Parts
  <2>3. \A p \in Parts : job'[a].files[p] = NoFile
    BY <2>1 DEF Job, NoFiles
  <2>4. OrderInv(a)'
    BY <2>3 DEF OrderInv, Recorded
  <2>5. TrueInv(a)'
    BY <2>1, <2>3 DEF TrueInv, Reading, Job
  <2>6. WorkInv(a)'
    BY <2>1 DEF WorkInv, Job, Placed, Parts
  <2>7. DoneInv(a)'
    BY <2>1 DEF DoneInv, Writing
  <2>8. CalmInv(a)'
    BY <2>2 DEF CalmInv
  <2>9. ImagesInv(a)'
    BY DEF ImagesInv
  <2> QED BY <2>4, <2>5, <2>6, <2>7, <2>8, <2>9
<1> QED BY <1>1, <1>2

\* The entry that the main thread makes of a finished asset.
LEMMA Collected ==
  ASSUME TypeOK, AssetInv, NEW a \in Assets, Collect(a)
  PROVE  /\ pc = "work" /\ Made(a, states'[a])
         /\ a \notin reverted => Recorded(states'[a], source[a])
         /\ a \notin disturbed => states'[a] = Whole(before[a])
         /\ NoFile \notin {media[a]["poster"], media[a]["blur"]} \/ job[a].at = "reused"
<1> USE DEF OfAsset, AssetInv
<1>1. CASE job[a].at = "reused"
  <2>1. states'[a] = previous[a] /\ pc = "work"
    BY <1>1 DEF Collect, TypeOK
  <2> QED BY <1>1, <2>1 DEF OrderInv, TrueInv, WorkInv, Made
<1>2. CASE job[a].at # "reused"
  <2> DEFINE files == job[a].files
  <2>1. /\ pc = "work" /\ job[a].at = "placed"
        /\ states'[a] = [fp |-> before[a], outputs |-> [media[a] EXCEPT !["video"] = files["video"]]]
        /\ media[a]["poster"] # NoFile /\ media[a]["blur"] # NoFile
    BY <1>2 DEF Collect, TypeOK
  <2>2. /\ \A p \in Parts : files[p] # NoFile /\ media[a][p] \in {NoFile, files[p]}
    BY <2>1 DEF WorkInv, Placed
  <2>3. [media[a] EXCEPT !["video"] = files["video"]] = [p \in Parts |-> files[p]]
    BY <2>1, <2>2, AssetTypes DEF Parts
  <2>4. states'[a] = [fp |-> before[a], outputs |-> [p \in Parts |-> files[p]]]
    BY <2>1, <2>3
  <2>5. Made(a, states'[a])
    BY <2>2, <2>4 DEF Made, OnDisk, Parts
  <2>6. (\A p \in Parts : files[p] = before[a]) => states'[a] = Whole(before[a])
    BY <2>4 DEF Whole
  <2>7. ASSUME a \notin reverted PROVE Recorded(states'[a], source[a])
    <3>1. before[a] <= source[a] /\ \A p \in Parts : before[a] <= files[p] /\ files[p] <= source[a]
      BY <2>1, <2>2, <2>7 DEF OrderInv
    <3>2. before[a] = source[a] => \A p \in Parts : files[p] = before[a]
      BY <3>1, AssetTypes
    <3> QED BY <2>4, <2>6, <3>1, <3>2 DEF Recorded
  <2>8. ASSUME a \notin disturbed PROVE states'[a] = Whole(before[a])
    BY <2>1, <2>2, <2>6, <2>8 DEF TrueInv
  <2> QED BY <2>1, <2>5, <2>7, <2>8
<1> QED BY <1>1, <1>2

LEMMA CollectKeeps ==
  ASSUME TypeOK, AssetInv, NEW b \in Assets, Collect(b), NEW a \in Assets
  PROVE  OfAsset(a)'
<1>1. /\ UNCHANGED <<sources, media, before, manifests, pc, command, previous, calm, bounds>>
      /\ pc = "work" /\ entries' = states' /\ job' = [job EXCEPT ![b] = Job("collected")]
      /\ job[b].at \in {"reused", "placed"}
      /\ \A x \in Assets : x # b => states'[x] = states[x] /\ job'[x] = job[x]
  BY DEF Collect, TypeOK
<1> USE DEF sources, history, bounds
<1>2. CASE a # b
  BY <1>1, <1>2, Untouched DEF AssetInv
<1>3. CASE a = b
  <2> USE <1>3 DEF OfAsset, AssetInv
  <2>1. job'[a] = Job("collected") /\ \A p \in Parts : job'[a].files[p] = NoFile
    BY <1>1 DEF TypeOK, Job, NoFiles
  <2>2. /\ Made(a, states'[a])
        /\ a \notin reverted => Recorded(states'[a], source[a])
        /\ a \notin disturbed => states'[a] = Whole(before[a])
    BY Collected
  <2>3. entries'[a] = states'[a]
    BY <1>1
  <2>4. OrderInv(a)'
    BY <1>1, <2>1, <2>2, <2>3 DEF OrderInv, Recorded, Whole
  <2>5. TrueInv(a)'
    <3>1. a \notin disturbed => states'[a] = Whole(states'[a].fp)
      BY <2>2 DEF Made
    <3> QED BY <1>1, <2>1, <2>3, <3>1 DEF TrueInv, Reading, Job
  <2>6. WorkInv(a)'
    BY <1>1, <2>1, <2>2 DEF WorkInv, Job, Placed, Parts, Made, OnDisk
  <2>7. DoneInv(a)'
    BY <1>1 DEF DoneInv, Writing
  <2>8. CalmInv(a)'
    BY <1>1, <2>1 DEF CalmInv, Job, Placed, Parts, Writing
  <2>9. ImagesInv(a)'
    BY <1>1 DEF ImagesInv
  <2> QED BY <2>4, <2>5, <2>6, <2>7, <2>8, <2>9
<1> QED BY <1>2, <1>3

-----------------------------------------------------------------------------
(* The steps of the main thread *)

\* Outside the build's steps little is asked of an asset; what a process had in
\* memory may be gone.
LEMMA Quiet ==
  ASSUME TypeOK, NEW a \in Assets, OfAsset(a), UNCHANGED history,
         source'[a] = source[a], before'[a] \in {before[a], source[a]}, media'[a] = media[a],
         manifests' = manifests, entries' = entries,
         previous'[a] \in {previous[a], NoEntry}, states'[a] \in {states[a], NoEntry},
         pc' \notin {"work"} \cup Writing \/ (command' # "build" /\ pc' # "work")
  PROVE  OfAsset(a)'
<1> USE DEF OfAsset, history
<1>1. Recorded(NoEntry, source[a])
  BY AssetTypes, NoEntryTrue DEF Recorded
<1>2. OrderInv(a)'
  BY <1>1, AssetTypes DEF OrderInv, Recorded, Whole
<1>3. TrueInv(a)'
  BY NoEntryTrue DEF TrueInv, Reading, Whole
<1>4. WorkInv(a)' /\ DoneInv(a)' /\ CalmInv(a)'
  BY DEF WorkInv, DoneInv, CalmInv, Writing
<1>5. ImagesInv(a)'
  BY DEF ImagesInv
<1> QED BY <1>2, <1>3, <1>4, <1>5

LEMMA StartBuildKeeps ==
  ASSUME TypeOK, AssetInv, StartBuild, NEW a \in Assets
  PROVE  OfAsset(a)'
<1> USE DEF StartBuild, sources, history, bounds
<1>1. CASE ~RecordsMatch(source)
  BY <1>1, AssetTypes, Quiet DEF AssetInv, Writing
<1>2. CASE RecordsMatch(source)
  <2> USE <1>2 DEF OfAsset, AssetInv
  <2>1. /\ job'[a] = Job("todo") /\ states'[a] = NoEntry /\ previous'[a] = entries[a]
        /\ before'[a] = source[a] /\ pc' = "work"
    OBVIOUS
  <2>2. job'[a].files = NoFiles /\ \A p \in Parts : job'[a].files[p] = NoFile
    BY <2>1 DEF Job, NoFiles
  <2>3. OrderInv(a)'
    <3>1. Recorded(NoEntry, source[a])
      BY AssetTypes, NoEntryTrue DEF Recorded
    <3> QED BY <2>1, <2>2, <3>1, AssetTypes DEF OrderInv, Recorded, Manifests
  <2>4. TrueInv(a)'
    BY <2>1, <2>2, NoEntryTrue DEF TrueInv, Reading
  <2>5. WorkInv(a)'
    BY <2>1, <2>2, AssetTypes DEF WorkInv, Job, Placed, Parts
  <2>6. DoneInv(a)'
    BY <2>1 DEF DoneInv, Writing
  <2>7. CalmInv(a)'
    BY <2>1 DEF CalmInv, Job, Placed
  <2>8. ImagesInv(a)'
    BY <2>1 DEF ImagesInv, OrderInv
  <2> QED BY <2>3, <2>4, <2>5, <2>6, <2>7, <2>8
<1> QED BY <1>1, <1>2

LEMMA SettleKeeps ==
  ASSUME TypeOK, CommandInv, AssetInv, Settle, NEW a \in Assets
  PROVE  OfAsset(a)'
<1> USE DEF Settle, sources, history, bounds
<1>1. previous'[a] = NoEntry
  OBVIOUS
<1>2. CASE pc' = "failed"
  BY <1>1, <1>2, AssetTypes, Quiet DEF AssetInv, Writing
<1>3. CASE pc' = "character"
  <2> USE <1>3 DEF OfAsset, AssetInv
  <2>1. source = before /\ job[a].at = "collected" /\ pc = "work"
    OBVIOUS
  <2>2. before[a] # NoFile /\ Made(a, states[a])
    BY <2>1 DEF WorkInv
  <2>3. a \in disturbed \cap reverted \/ states[a] = Whole(before[a])
    BY <2>1, <2>2 DEF OrderInv, TrueInv, Recorded, Made
  <2>4. OrderInv(a)'
    <3>1. Recorded(NoEntry, source[a])
      BY AssetTypes, NoEntryTrue DEF Recorded
    <3> QED BY <1>1, <2>1, <3>1 DEF OrderInv, Recorded
  <2>5. TrueInv(a)'
    BY <1>1, NoEntryTrue DEF TrueInv, Reading
  <2>6. DoneInv(a)'
    BY <2>2, <2>3 DEF DoneInv, Made, OnDisk, Whole
  <2>7. WorkInv(a)' /\ ImagesInv(a)'
    BY DEF WorkInv, ImagesInv
  <2>8. CalmInv(a)'
    BY <2>1 DEF CalmInv, CommandInv
  <2> QED BY <2>4, <2>5, <2>6, <2>7, <2>8
<1> QED BY <1>2, <1>3

LEMMA WriteManifestKeeps ==
  ASSUME TypeOK, CommandInv, AssetInv, WriteManifest, NEW a \in Assets
  PROVE  OfAsset(a)'
<1> USE DEF WriteManifest, sources, history, bounds, OfAsset, AssetInv
<1> DEFINE video == states[a].outputs["video"]
<1>1. /\ pc \in {"character", "vault", "view"} /\ pc \in Writing /\ command = "build"
      /\ pc' = Following(pc) /\ pc' # "work"
  BY DEF Manifests, Writing, CommandInv, Following
<1>2. /\ before[a] # NoFile /\ Made(a, states[a])
      /\ a \in disturbed \cap reverted \/ states[a] = Whole(before[a])
  BY <1>1 DEF DoneInv
<1>3. \A m \in Manifests : manifests'[m][a] = IF m = pc THEN video ELSE manifests[m][a]
  BY DEF TypeOK
<1>4. a \notin disturbed \cap reverted =>
        video = before[a] /\ \A p \in Parts : media[a][p] \in {NoFile, before[a]}
  BY <1>2 DEF Whole, Parts, Made, OnDisk
<1>5. OrderInv(a)'
  <2> SUFFICES ASSUME a \notin reverted PROVE OrderInv(a)'
    BY DEF OrderInv
  <2>1. /\ before[a] <= source[a] /\ manifests["character"][a] <= before[a]
        /\ \A m \in Manifests : manifests[m][a] <= source[a]
    BY <1>1 DEF OrderInv
  <2>2. \A m \in Manifests : manifests'[m][a] <= source[a]
    BY <1>3, <1>4, <2>1
  <2>3. manifests'["character"][a] <= before[a]
    BY <1>3, <1>4, <2>1, AssetTypes DEF Manifests
  <2> QED BY <1>1, <2>2, <2>3 DEF OrderInv, Recorded
<1>6. TrueInv(a)'
  BY <1>1 DEF TrueInv, Whole, Reading
<1>7. WorkInv(a)'
  BY <1>1 DEF WorkInv
<1>8. DoneInv(a)'
  BY <1>1, <1>2, <1>3 DEF DoneInv, Made, OnDisk, Whole, Following, Manifests
<1>9. CalmInv(a)'
  BY <1>1 DEF CalmInv, Following, Writing
<1>10. ImagesInv(a)'
  <2> SUFFICES ASSUME a \notin disturbed, a \notin reverted PROVE ImagesInv(a)'
    BY DEF ImagesInv
  <2>1. manifests'["character"][a] \in {before[a], manifests["character"][a]}
    BY <1>3, <1>4 DEF Manifests
  <2> QED BY <1>1, <1>4, <2>1, AssetTypes DEF ImagesInv, Parts
<1> QED BY <1>5, <1>6, <1>7, <1>8, <1>9, <1>10

LEMMA WriteStateKeeps ==
  ASSUME TypeOK, CommandInv, AssetInv, WriteState, NEW a \in Assets
  PROVE  OfAsset(a)'
<1> USE DEF WriteState, sources, history, bounds, OfAsset, AssetInv
<1>1. command = "build"
  BY DEF CommandInv, Writing
<1>2. OrderInv(a)'
  BY <1>1 DEF OrderInv, Recorded, Writing
<1>3. TrueInv(a)'
  BY DEF TrueInv, Reading, Whole
<1>4. WorkInv(a)' /\ ImagesInv(a)'
  BY DEF WorkInv, ImagesInv
<1>5. DoneInv(a)'
  BY <1>1 DEF DoneInv, Writing, Made, OnDisk, Whole
<1>6. CalmInv(a)'
  BY <1>1 DEF CalmInv, Writing
<1> QED BY <1>2, <1>3, <1>4, <1>5, <1>6

LEMMA BuildKeeps ==
  ASSUME TypeOK, CommandInv, AssetInv, Build
  PROVE  AssetInv'
<1> SUFFICES ASSUME NEW a \in Assets PROVE OfAsset(a)'
  BY DEF AssetInv
<1>1. CASE Check
  BY <1>1, AssetTypes, Quiet DEF Check, sources, bounds, AssetInv, Writing
<1> QED BY <1>1, StartBuildKeeps, SettleKeeps, WriteManifestKeeps, WriteStateKeeps,
           ReuseKeeps, EncodeKeeps, PlaceKeeps, FailKeeps, CollectKeeps DEF Build

LEMMA OtherKeeps ==
  ASSUME TypeOK, AssetInv, Other
  PROVE  AssetInv'
<1> SUFFICES ASSUME NEW a \in Assets PROVE OfAsset(a)'
  BY DEF AssetInv
<1>1. CASE StartValidate
  BY <1>1, AssetTypes, Quiet DEF StartValidate, sources, bounds, AssetInv, Writing
<1>2. CASE Return
  BY <1>2, AssetTypes, Quiet DEF Return, End, sources, bounds, AssetInv, Writing
<1> QED BY <1>1, <1>2 DEF Other

-----------------------------------------------------------------------------
(* The world around the commands *)

LEMMA EditKeeps ==
  ASSUME TypeOK, AssetInv, NEW b \in Assets, Edit(b), NEW a \in Assets
  PROVE  OfAsset(a)'
<1>1. /\ UNCHANGED <<media, before, entries, manifests, pc, command, previous, job, states, bounds>>
      /\ a # b => source'[a] = source[a]
      /\ a \in disturbed => a \in disturbed'
      /\ a \in reverted => a \in reverted'
      /\ ~calm'
  BY DEF Edit, TypeOK
<1>2. CASE a # b
  BY <1>1, <1>2, AssetTypes, Untouched DEF AssetInv
<1>3. CASE a = b
  <2> USE <1>3 DEF OfAsset, AssetInv
  <2>1. a \notin reverted' => source[a] < source'[a]
    <3>1. PICK c \in Contents \ {source[a]} :
            /\ source' = [source EXCEPT ![a] = c]
            /\ reverted' = IF c < source[a] THEN reverted \cup {a} ELSE reverted
      BY DEF Edit
    <3>2. source'[a] = c /\ c \in Nat /\ c # source[a]
      BY <3>1, BoundsAssumption DEF TypeOK, Contents
    <3> QED BY <3>1, <3>2, AssetTypes
  <2>2. a \notin disturbed' => ~Reading(a)
    BY DEF Edit
  <2>3. OrderInv(a)'
    <3> SUFFICES ASSUME a \notin reverted' PROVE OrderInv(a)'
      BY DEF OrderInv
    <3>1. source[a] < source'[a] /\ source'[a] \in Nat /\ a \notin reverted
      <4>1. source'[a] \in Contents
        BY DEF Edit, TypeOK
      <4> QED BY <1>1, <2>1, <4>1, BoundsAssumption DEF Contents
    <3>2. ASSUME NEW e, e.fp \in Nat, Recorded(e, source[a]) PROVE Recorded(e, source'[a])
      BY <3>1, <3>2, AssetTypes DEF Recorded
    <3>3. /\ Recorded(entries[a], source'[a]) /\ Recorded(previous[a], source'[a])
          /\ Recorded(states[a], source'[a])
      BY <3>1, <3>2, AssetTypes DEF OrderInv
    <3>4. /\ before[a] <= source'[a]
          /\ \A p \in Parts : media[a][p] <= source'[a]
          /\ \A m \in Manifests : manifests[m][a] <= source'[a]
          /\ pc = "work" => \A p \in Parts : job[a].files[p] # NoFile =>
                               before[a] <= job[a].files[p] /\ job[a].files[p] <= source'[a]
      BY <3>1, AssetTypes DEF OrderInv
    <3> QED BY <1>1, <3>1, <3>3, <3>4 DEF OrderInv, Recorded, Whole
  <2>4. TrueInv(a)'
    BY <1>1, <2>2 DEF TrueInv, Reading, Whole
  <2>5. WorkInv(a)'
    BY <1>1 DEF WorkInv, Made, OnDisk, Placed
  <2>6. DoneInv(a)'
    BY <1>1 DEF DoneInv, Made, OnDisk, Whole
  <2>7. CalmInv(a)' /\ ImagesInv(a)'
    BY <1>1 DEF CalmInv, ImagesInv
  <2> QED BY <2>3, <2>4, <2>5, <2>6, <2>7
<1> QED BY <1>2, <1>3

LEMMA LoseKeeps ==
  ASSUME TypeOK, AssetInv, NEW b \in Assets, NEW q \in Parts, Lose(b, q), NEW a \in Assets
  PROVE  OfAsset(a)'
<1> USE DEF Lose, sources, history
<1>1. CASE a # b
  <2>1. media'[a] = media[a]
    BY <1>1 DEF TypeOK
  <2> QED BY <2>1, AssetTypes, Untouched DEF AssetInv
<1>2. CASE a = b
  <2> USE <1>2 DEF OfAsset, AssetInv
  <2>1. \A p \in Parts : media'[a][p] = IF p = q THEN NoFile ELSE media[a][p]
    BY AssetTypes DEF TypeOK
  <2>2. OrderInv(a)'
    <3>1. (\A p \in Parts : media[a][p] <= source[a]) => \A p \in Parts : media'[a][p] <= source[a]
      BY <2>1, AssetTypes
    <3> QED BY <3>1 DEF OrderInv, Recorded
  <2>3. TrueInv(a)'
    BY DEF TrueInv, Reading, Whole
  <2>4. WorkInv(a)'
    <3>1. Placed(job[a].at) \subseteq Parts
      BY DEF Placed, Parts
    <3> QED BY <2>1, <3>1, AssetTypes DEF WorkInv, Made, OnDisk, Placed
  <2>5. DoneInv(a)'
    BY <2>1 DEF DoneInv, Made, OnDisk, Whole
  <2>6. CalmInv(a)'
    BY DEF CalmInv
  <2>7. ImagesInv(a)'
    BY <2>1, AssetTypes DEF ImagesInv, Parts
  <2> QED BY <2>2, <2>3, <2>4, <2>5, <2>6, <2>7
<1> QED BY <1>1, <1>2

LEMMA WorldKeeps ==
  ASSUME TypeOK, AssetInv, World
  PROVE  AssetInv'
<1> SUFFICES ASSUME NEW a \in Assets PROVE OfAsset(a)'
  BY DEF AssetInv
<1>1. CASE Reanalyse
  <2>1. OfAsset(a) /\ UNCHANGED <<source, history, media, before, entries, manifests, local>>
    BY <1>1 DEF Reanalyse, AssetInv
  <2> QED BY <2>1, Untouched DEF history, local
<1>2. CASE Crash
  BY <1>2, AssetTypes, Quiet DEF Crash, End, sources, AssetInv, Writing
<1> QED BY <1>1, <1>2, EditKeeps, LoseKeeps DEF World

LEMMA StutterKeeps ==
  ASSUME CommandInv, AssetInv,
         UNCHANGED <<sources, media, before, entries, manifests, local>>
  PROVE  CommandInv' /\ AssetInv'
<1> USE DEF sources, history, local
<1>1. CommandInv'
  BY DEF CommandInv
<1>2. ASSUME NEW a \in Assets PROVE OfAsset(a)'
  BY <1>2, Untouched DEF AssetInv
<1> QED BY <1>1, <1>2 DEF AssetInv

-----------------------------------------------------------------------------
(* The commands *)

\* At the end of the pool of a calm build nothing is wrong.
LEMMA CalmSettles ==
  ASSUME TypeOK, AssetInv, Settle, calm, command = "build"
  PROVE  pc' = "character"
<1>1. \A a \in Assets : before[a] = source[a] /\ job[a].at = "collected"
  BY DEF Settle, AssetInv, OfAsset, CalmInv
<1>2. source = before
  <2>1. source \in [Assets -> Contents] /\ before \in [Assets -> Contents \cup {NoFile}]
    BY DEF TypeOK, Lists
  <2>2. source = [a \in Assets |-> source[a]] /\ before = [a \in Assets |-> before[a]]
    BY <2>1
  <2>3. [a \in Assets |-> source[a]] = [a \in Assets |-> before[a]]
    BY <1>1
  <2> QED BY <2>2, <2>3
<1> QED BY <1>1, <1>2 DEF Settle

\* Nor at the check of a calm build.
LEMMA CalmChecks ==
  ASSUME TypeOK, AssetInv, Check, calm, command = "build"
  PROVE  pc' = "passed"
<1>1. ASSUME NEW a \in Assets
      PROVE  /\ \A p \in Parts : media[a][p] # NoFile
             /\ \A m \in Manifests : manifests[m][a] = media[a]["video"]
  <2>1. Made(a, states[a]) /\ \A m \in Manifests : manifests[m][a] = states[a].outputs["video"]
    BY DEF Check, AssetInv, OfAsset, DoneInv, Writing, Manifests
  <2>2. \A p \in Parts : media[a][p] # NoFile
    BY DEF Check, AssetInv, OfAsset, CalmInv, Writing
  <2> QED BY <2>1, <2>2 DEF Made, OnDisk, Parts
<1>2. LibraryValid(manifests["character"], media)
  BY <1>1 DEF LibraryValid, Manifests, Parts
<1>3. manifests["vault"] # NoList /\ manifests["view"] # NoList
  <2>1. 1 \in Assets
    BY NAssumption
  <2>2. manifests["vault"][1] # NoList[1] /\ manifests["view"][1] # NoList[1]
    BY <1>1, <2>1 DEF Manifests, NoList, Parts
  <2> QED BY <2>2
<1> QED BY <1>2, <1>3 DEF Check

LEMMA CommandBuild ==
  ASSUME TypeOK, CommandInv, AssetInv, Build
  PROVE  CommandInv'
<1> USE DEF CommandInv, Writing, sources
<1>1. CASE StartBuild
  BY <1>1 DEF StartBuild, RecordsMatch
<1>2. CASE Settle
  BY <1>2, CalmSettles DEF Settle
<1>3. CASE WriteManifest
  BY <1>3 DEF WriteManifest, Manifests, Following
<1>4. CASE WriteState
  BY <1>4 DEF WriteState
<1>5. CASE Check
  BY <1>5, CalmChecks DEF Check
<1>6. ASSUME NEW a \in Assets,
             Reuse(a) \/ Encode(a) \/ Place(a) \/ WorkFails(a) \/ Collect(a) \/ HashFails(a)
      PROVE  CommandInv'
  BY <1>6 DEF Reuse, Encode, Place, WorkFails, Collect, HashFails
<1> QED BY <1>1, <1>2, <1>3, <1>4, <1>5, <1>6 DEF Build

LEMMA CommandOther ==
  ASSUME CommandInv, World \/ Other
  PROVE  CommandInv'
<1> USE DEF CommandInv, Writing, sources
<1>1. CASE World
  BY <1>1 DEF World, Reanalyse, Crash, End, Edit, Lose, local
<1>2. CASE Other
  BY <1>2 DEF Other, StartValidate, Return, End
<1> QED BY <1>1, <1>2

-----------------------------------------------------------------------------
(* The theorems *)

LEMMA InitInv == Init => IInv
<1> SUFFICES ASSUME Init PROVE CommandInv /\ AssetInv
  BY InitType DEF IInv
<1>1. CommandInv
  BY DEF Init, CommandInv, Writing
<1>2. ASSUME NEW a \in Assets PROVE OfAsset(a)
  <2>1. OrderInv(a)
    BY DEF Init, OrderInv, Recorded, NoList, NoFiles, NoEntry, Writing
  <2>2. TrueInv(a)
    BY NoEntryTrue DEF Init, TrueInv, Reading
  <2>3. WorkInv(a) /\ DoneInv(a) /\ CalmInv(a)
    BY DEF Init, WorkInv, DoneInv, CalmInv, Writing
  <2>4. ImagesInv(a)
    BY DEF Init, ImagesInv, NoFiles, Parts
  <2> QED BY <2>1, <2>2, <2>3, <2>4 DEF OfAsset
<1> QED BY <1>1, <1>2 DEF AssetInv

LEMMA StepInv == IInv /\ [Next]_vars => IInv'
<1> SUFFICES ASSUME IInv, [Next]_vars PROVE IInv'
  OBVIOUS
<1> USE DEF IInv
<1>1. CASE Build
  BY <1>1, BuildType, BuildKeeps, CommandBuild
<1>2. CASE World
  BY <1>2, WorldType, WorldKeeps, CommandOther
<1>3. CASE Other
  BY <1>3, OtherType, OtherKeeps, CommandOther
<1>4. CASE UNCHANGED vars
  BY <1>4, StutterType, StutterKeeps DEF vars
<1> QED BY <1>1, <1>2, <1>3, <1>4 DEF Next

LEMMA Invariant == Spec => []IInv
BY InitInv, StepInv, PTL DEF Spec

\* An undisturbed build over analysed sources passes: files, manifests and state
\* that interrupted builds left behind cannot make Settle or Check fail.
THEOREM CalmPasses == Spec => []CalmBuildPasses
<1>1. IInv => CalmBuildPasses
  BY DEF IInv, CommandInv, CalmBuildPasses
<1> QED BY <1>1, Invariant, PTL

\* Only validate_library lets a command pass the check.
LEMMA PassIsCheck ==
  ASSUME Next, pc = "check", pc' = "passed"
  PROVE  Check
<1>1. ~Build \/ Check
  BY DEF Build, StartBuild, Settle, WriteManifest, WriteState, Manifests,
         Reuse, Encode, Place, WorkFails, Collect, HashFails
<1>2. ~World
  BY DEF World, Reanalyse, Crash, End, Edit, Lose, local
<1>3. ~Other
  BY DEF Other, StartValidate, Return, End
<1> QED BY <1>1, <1>2, <1>3 DEF Next

\* When the check of a build passes, resume state and manifests are those of the
\* files on disk, and the files are of the content in the snapshot, but for the
\* assets whose source changed before a build had read it all and got back a
\* content that it had.
THEOREM Vouches == Spec => BuildVouches
<1>1. IInv /\ [Next]_vars
        => [pc = "check" /\ command = "build" /\ pc' = "passed"
              => /\ \A a \in Assets : Agrees(a)
                 /\ \A a \in Assets \ (disturbed \cap reverted), p \in Parts : media[a][p] = before[a]]_vars
  <2> SUFFICES ASSUME IInv, Next, pc = "check", command = "build", pc' = "passed", NEW a \in Assets
               PROVE  /\ Agrees(a)
                      /\ a \notin disturbed \cap reverted => \A p \in Parts : media[a][p] = before[a]
    OBVIOUS
  <2>1. Check /\ LibraryValid(manifests["character"], media)
    BY PassIsCheck DEF Check
  <2>2. /\ Made(a, states[a]) /\ entries[a] = states[a]
        /\ a \in disturbed \cap reverted \/ states[a] = Whole(before[a])
        /\ \A m \in Manifests : manifests[m][a] = states[a].outputs["video"]
    BY DEF IInv, AssetInv, OfAsset, DoneInv, Writing, Manifests
  <2>3. \A p \in Parts : media[a][p] # NoFile
    BY <2>1 DEF LibraryValid, Parts
  <2>4. \A p \in Parts : media[a][p] = states[a].outputs[p]
    BY <2>2, <2>3 DEF Made, OnDisk
  <2>5. states[a] = [fp |-> before[a], outputs |-> media[a]]
    <3>1. states[a] \in Entries /\ media[a] \in [Parts -> Nat] /\ states[a].fp = before[a]
      BY <2>2, AssetTypes DEF IInv, Made
    <3>2. states[a].outputs = [p \in Parts |-> states[a].outputs[p]] /\ media[a] = [p \in Parts |-> media[a][p]]
      BY <3>1 DEF Entries, Files
    <3>3. [p \in Parts |-> states[a].outputs[p]] = [p \in Parts |-> media[a][p]]
      BY <2>4
    <3>4. states[a] = [fp |-> states[a].fp, outputs |-> states[a].outputs]
      BY <3>1 DEF Entries
    <3> QED BY <3>1, <3>2, <3>3, <3>4
  <2>6. Agrees(a)
    BY <2>2, <2>4, <2>5 DEF Agrees, Parts
  <2> QED BY <2>2, <2>4, <2>6 DEF Whole
<1> QED BY <1>1, Invariant, PTL DEF Spec, BuildVouches

\* A library that passes validate_library, in a build or in validate, has the
\* images of its videos, although only their presence is looked at: of each asset
\* whose source never changed between two readings and was never reverted.
THEOREM Belong == Spec => ImagesBelong
<1>1. IInv /\ [Next]_vars
        => [pc = "check" /\ pc' = "passed"
              => \A a \in Assets \ (disturbed \cup reverted), i \in {"poster", "blur"} :
                   media[a][i] = media[a]["video"]]_vars
  <2> SUFFICES ASSUME IInv, Next, pc = "check", pc' = "passed",
                      NEW a \in Assets \ (disturbed \cup reverted), NEW i \in {"poster", "blur"}
               PROVE  media[a][i] = media[a]["video"]
    OBVIOUS
  <2>1. LibraryValid(manifests["character"], media)
    BY PassIsCheck DEF Check
  <2> QED BY <2>1, AssetTypes DEF IInv, AssetInv, OfAsset, ImagesInv, LibraryValid, Parts, Manifests
<1> QED BY <1>1, Invariant, PTL DEF Spec, ImagesBelong
=============================================================================
