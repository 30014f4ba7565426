------------------------- MODULE LibraryReleaseProofs -------------------------
(***************************************************************************)
(* Proofs about LibraryRelease, for any number of assets and any bounds:   *)
(* the package that is served never vanishes (PackageSurvives), also while *)
(* a build runs beside the script, and as long as no build does, it tells  *)
(* the truth about itself (PackagesAreSound).  The second needs the        *)
(* invariant of LibraryBuild: that a video carries the listed hash says    *)
(* something of the images beside it only because builds move the video    *)
(* first and list no video newer than an image; and that only of an asset  *)
(* whose source was never changed between two readings and never reverted. *)
(***************************************************************************)
EXTENDS LibraryRelease, LibraryBuildProofs

USE DEF Assets, NoFile

-----------------------------------------------------------------------------
Full(list) == \A a \in Assets : list[a] # NoFile

\* The bundled manifest was once the master manifest, and hashes only grow where
\* no source was reverted.
BundleInv ==
  /\ manifests["character"] = NoList \/ Full(manifests["character"])
  /\ bundled = NoList \/ Full(bundled)
  /\ \A a \in Assets \ reverted : bundled[a] <= manifests["character"][a]

\* Where the script stands while it has taken a package away.
SwapInv ==
  /\ pub.at # "off" => bundled # NoList
  /\ pub.at \in {"hash", "copy", "images", "swap", "retire", "install"} => staging.manifest # NoList
  /\ pub.at \in {"retire", "discard"} => output # NoPackage
  /\ pub.at = "install" => backup # NoPackage
  /\ pub.at \in {"manifest", "hash", "copy", "images"} => pub.asset <= N

\* The history of an asset's source is one that builds can cope with.
Plain(a) == a \notin disturbed \cup reverted

Copied(a) ==
  /\ staging.videos[a] = pub.listed[a] /\ staging.integrity[a] = pub.listed[a]
  /\ Plain(a) => \A i \in Images : staging.images[a][i] \in {NoFile, pub.listed[a]}

\* The video to be copied is the one that was hashed, and its images are its own.
Hashed(a) ==
  /\ media[a]["video"] \in {NoFile, pub.listed[a]}
  /\ Plain(a) => \A p \in Parts : media[a][p] \in {NoFile, pub.listed[a]}

\* What the script has put together, while no command of phase4.py runs.
CopyInv ==
  /\ pub.at # "off" => pc = "idle" /\ pub.listed = bundled
  /\ pub.at \in {"hash", "copy", "images", "swap", "retire", "install"} => staging.manifest = pub.listed
  /\ pub.at \in {"manifest", "hash", "copy", "images"} =>
       \A a \in Assets : a < pub.asset => Copied(a)
  /\ pub.at \in {"copy", "images"} => Hashed(pub.asset)
  /\ pub.at = "images" => staging.videos[pub.asset] = pub.listed[pub.asset]
  /\ pub.at \in {"swap", "retire", "install"} => Sound(staging)
  /\ PackagesAreSound

-----------------------------------------------------------------------------
(* The library goes on as if nobody published. *)

LEMMA LibraryStep ==
  ASSUME IInv, ReleaseNext
  PROVE  IInv'
<1>1. CASE Library
  BY <1>1, StepInv DEF Library, Next
<1>2. CASE UNCHANGED <<library, bounds>>
  BY <1>2, StepInv DEF library, vars
<1>3. CASE InstallFails \/ PublishCrash
  <2>1. UNCHANGED library /\ faults' \in 0..MaxFaults /\ crashes' \in 0..MaxCrashes
    BY <1>3, BoundsAssumption DEF IInv, TypeOK, InstallFails, PublishCrash, bounds
  <2>2. TypeOK'
    BY <2>1 DEF IInv, TypeOK, library, sources, history, local
  <2>3. CommandInv' /\ AssetInv'
    BY <2>1, StutterKeeps DEF IInv, library
  <2> QED BY <2>2, <2>3 DEF IInv
<1> QED BY <1>1, <1>2, <1>3
        DEF ReleaseNext, Publish, Bundle, StartPublish, CopyManifest, HashVideo, CopyVideo,
            CopyImages, Swap, Retire, Install, Discard

-----------------------------------------------------------------------------
(* Types *)

LEMMA NoPackageType == NoPackage \in Packages /\ NoList \in Lists
BY DEF NoPackage, Packages, NoList, Lists, NoImages

LEMMA PublishType ==
  ASSUME TypeOK, ReleaseTypeOK, SwapInv, Publish
  PROVE  ReleaseTypeOK'
<1> USE NAssumption, NoPackageType
<1>1. manifests["character"] \in Lists
  BY DEF TypeOK, Manifests
<1>2. Off \in [at : {"off", "manifest", "hash", "copy", "images", "swap", "retire", "install", "discard"},
               asset : 1..(N + 1), listed : Lists]
  BY DEF Off
<1>3. CASE Bundle \/ StartPublish
  BY <1>1, <1>3 DEF ReleaseTypeOK, Bundle, StartPublish
<1>4. CASE CopyManifest
  <2>1. [staging EXCEPT !.manifest = bundled] \in Packages
    BY DEF ReleaseTypeOK, Packages
  <2> QED BY <1>4, <2>1 DEF ReleaseTypeOK, CopyManifest
<1>5. CASE HashVideo
  BY <1>2, <1>5 DEF ReleaseTypeOK, HashVideo, GiveUp
<1>6. CASE CopyVideo
  <2>1. pub.asset \in Assets
    BY <1>6 DEF ReleaseTypeOK, CopyVideo, SwapInv
  <2>2. media[pub.asset]["video"] \in Contents \cup {NoFile}
    BY <2>1 DEF TypeOK, Files, Parts
  <2>3. [staging EXCEPT !.videos[pub.asset] = media[pub.asset]["video"]] \in Packages
    BY <2>1, <2>2 DEF ReleaseTypeOK, Packages, Lists
  <2> QED BY <1>2, <1>6, <2>3 DEF ReleaseTypeOK, CopyVideo, GiveUp
<1>7. CASE CopyImages
  <2>1. pub.asset \in Assets /\ pub.asset + 1 \in 1..(N + 1)
    BY <1>7 DEF ReleaseTypeOK, CopyImages, SwapInv
  <2>2. [i \in Images |-> media[pub.asset][i]] \in [Images -> Contents \cup {NoFile}]
    BY <2>1 DEF TypeOK, Files, Parts, Images
  <2>3. pub.listed[pub.asset] \in Contents \cup {NoFile}
    BY <2>1 DEF ReleaseTypeOK, Lists
  <2>4. staging' \in Packages
    BY <1>7, <2>1, <2>2, <2>3 DEF CopyImages, ReleaseTypeOK, Packages, Lists
  <2> QED BY <1>7, <2>1, <2>4 DEF ReleaseTypeOK, CopyImages
<1>8. ASSUME NEW r \in BOOLEAN, Swap(r) PROVE ReleaseTypeOK'
  BY <1>2, <1>8 DEF ReleaseTypeOK, Swap, GiveUp
<1>9. CASE Retire \/ Install \/ InstallFails \/ Discard \/ PublishCrash
  BY <1>2, <1>9 DEF ReleaseTypeOK, Retire, Install, InstallFails, Discard, PublishCrash, GiveUp
<1> QED BY <1>3, <1>4, <1>5, <1>6, <1>7, <1>8, <1>9 DEF Publish

-----------------------------------------------------------------------------
(* The swap *)

LEMMA PublishSwaps ==
  ASSUME TypeOK, ReleaseTypeOK, SwapInv, Publish
  PROVE  /\ SwapInv'
         /\ {output, backup} # {NoPackage} => {output', backup'} # {NoPackage}
<1> USE NAssumption DEF SwapInv
<1>1. CASE Bundle
  BY <1>1 DEF Bundle
<1>2. CASE StartPublish
  BY <1>2 DEF StartPublish
<1>3. CASE CopyManifest
  BY <1>3 DEF CopyManifest, ReleaseTypeOK, Packages
<1>4. CASE HashVideo
  BY <1>4 DEF HashVideo, GiveUp, Off, ReleaseTypeOK
<1>5. CASE CopyVideo
  <2>1. media[pub.asset]["video"] # NoFile => staging'.manifest = staging.manifest
    BY <1>5 DEF CopyVideo, ReleaseTypeOK, Packages
  <2> QED BY <1>5, <2>1 DEF CopyVideo, GiveUp, Off, ReleaseTypeOK
<1>6. CASE CopyImages
  <2>1. staging'.manifest = staging.manifest
    BY <1>6 DEF CopyImages, ReleaseTypeOK, Packages
  <2>2. pub.asset # N => pub.asset + 1 <= N
    BY <1>6 DEF CopyImages, ReleaseTypeOK
  <2> QED BY <1>6, <2>1, <2>2 DEF CopyImages, ReleaseTypeOK
<1>7. ASSUME NEW r \in BOOLEAN, Swap(r)
      PROVE  /\ SwapInv'
             /\ {output, backup} # {NoPackage} => {output', backup'} # {NoPackage}
  BY <1>7 DEF Swap, GiveUp, Off, ReleaseTypeOK
<1>8. CASE Retire
  BY <1>8 DEF Retire, ReleaseTypeOK
<1>9. CASE Install
  <2>1. staging # NoPackage
    BY <1>9 DEF Install, NoPackage
  <2> QED BY <1>9, <2>1 DEF Install, ReleaseTypeOK
<1>10. CASE InstallFails \/ Discard \/ PublishCrash
  BY <1>10 DEF InstallFails, Discard, PublishCrash, GiveUp, Off
<1> QED BY <1>1, <1>2, <1>3, <1>4, <1>5, <1>6, <1>7, <1>8, <1>9, <1>10 DEF Publish

-----------------------------------------------------------------------------
(* The bundled manifest *)

\* What a source has gone through is not forgotten.
LEMMA HistoryGrows ==
  ASSUME Next
  PROVE  disturbed \subseteq disturbed' /\ reverted \subseteq reverted'
BY DEF Next, Build, World, Other, StartBuild, Settle, WriteManifest, WriteState, Check,
       Reuse, Encode, Place, WorkFails, Collect, HashFails, Reanalyse, Crash, Edit,
       Lose, StartValidate, Return, sources, history

LEMMA LibraryBundle ==
  ASSUME IInv, BundleInv, Next, bundled' = bundled, bundled \in Lists
  PROVE  BundleInv'
<1>1. CASE WriteManifest /\ pc = "character"
  <2>1. ASSUME NEW a \in Assets
        PROVE  /\ manifests'["character"][a] # NoFile
               /\ a \notin reverted => bundled[a] <= manifests'["character"][a]
    <3>1. DoneInv(a) /\ OrderInv(a) /\ command = "build"
      BY <1>1 DEF IInv, AssetInv, OfAsset, CommandInv, Writing
    <3>2. /\ states[a].outputs["video"] # NoFile
          /\ a \notin reverted => states[a].outputs["video"] = before[a]
                                /\ manifests["character"][a] <= before[a]
      BY <1>1, <3>1 DEF DoneInv, OrderInv, Writing, Made, Whole, Parts
    <3>3. manifests'["character"][a] = states[a].outputs["video"]
      BY <1>1 DEF WriteManifest, IInv, TypeOK, Manifests
    <3>4. bundled[a] \in Nat /\ manifests["character"][a] \in Nat /\ before[a] \in Nat
      BY AssetTypes, BoundsAssumption DEF IInv, Lists, Contents, Manifests
    <3> QED BY <3>2, <3>3, <3>4 DEF BundleInv
  <2>2. reverted' = reverted
    BY <1>1 DEF WriteManifest, sources, history
  <2> QED BY <2>1, <2>2 DEF BundleInv, Full
<1>2. CASE ~(WriteManifest /\ pc = "character")
  <2>1. manifests'["character"] = manifests["character"]
    BY <1>2 DEF Next, Build, World, Other, StartBuild, Settle, WriteManifest, WriteState, Check,
       Reuse, Encode, Place, WorkFails, Collect, HashFails, Reanalyse, Crash, Edit,
       Lose, StartValidate, Return, IInv, TypeOK, Manifests
  <2> QED BY <2>1, HistoryGrows DEF BundleInv, Full
<1> QED BY <1>1, <1>2

LEMMA PublishBundle ==
  ASSUME IInv, BundleInv, ReleaseTypeOK, Publish
  PROVE  BundleInv'
<1>1. CASE Bundle
  <2>1. \A a \in Assets : bundled'[a] <= manifests["character"][a]
    BY <1>1, AssetTypes DEF Bundle, IInv, Manifests
  <2> QED BY <1>1, <2>1 DEF Bundle, BundleInv, Full, library, sources, history
<1>2. CASE ~Bundle
  <2>1. bundled' = bundled /\ UNCHANGED <<manifests, reverted>>
    BY <1>2 DEF Publish, StartPublish, CopyManifest, HashVideo, CopyVideo, CopyImages, Swap, Retire,
                Install, InstallFails, Discard, PublishCrash, library, sources, history
  <2> QED BY <2>1 DEF BundleInv, Full
<1> QED BY <1>1, <1>2

-----------------------------------------------------------------------------
(* The package *)

\* While the script works only losses touch the media.
LEMMA LibraryCopies ==
  ASSUME ~Overlap, IInv, ReleaseTypeOK, SwapInv, CopyInv, Library, UNCHANGED packages
  PROVE  CopyInv'
<1> USE DEF packages
<1>0. Next /\ disturbed \subseteq disturbed' /\ reverted \subseteq reverted'
  BY HistoryGrows DEF Library, Next
<1>1. CASE pub.at = "off"
  BY <1>0, <1>1 DEF CopyInv, PackagesAreSound, Sound
<1>2. CASE pub.at # "off"
  <2>1. World
    BY <1>2 DEF Library
  <2>2. pc' = "idle"
    BY <1>2, <2>1 DEF World, Reanalyse, Crash, End, Edit, Lose, local, CopyInv
  <2>3. ASSUME NEW a \in Assets, NEW p \in Parts PROVE media'[a][p] \in {NoFile, media[a][p]}
    <3>1. media \in [Assets -> Files] /\ media[a] \in [Parts -> Contents \cup {NoFile}]
      BY DEF IInv, TypeOK, Files
    <3>2. CASE UNCHANGED media
      BY <3>2
    <3>3. ASSUME NEW b \in Assets, NEW q \in Parts, Lose(b, q) PROVE media'[a][p] \in {NoFile, media[a][p]}
      BY <3>1, <3>3 DEF Lose
    <3> QED BY <2>1, <3>2, <3>3 DEF World, Reanalyse, Crash, Edit
  <2>4. pub.at \in {"copy", "images"} => Hashed(pub.asset)'
    <3> SUFFICES ASSUME pub.at \in {"copy", "images"} PROVE Hashed(pub.asset)'
      OBVIOUS
    <3>1. pub.asset \in Assets /\ Hashed(pub.asset)
      BY NAssumption DEF ReleaseTypeOK, SwapInv, CopyInv
    <3> QED BY <1>0, <2>3, <3>1 DEF Hashed, Plain, Parts
  <2>5. \A a \in Assets : Copied(a) => Copied(a)'
    BY <1>0 DEF Copied, Plain
  <2> QED BY <1>0, <2>2, <2>4, <2>5 DEF CopyInv, PackagesAreSound, Sound
<1> QED BY <1>1, <1>2

\* The digest of the video vouches for the images.
LEMMA HashVouches ==
  ASSUME IInv, BundleInv, ReleaseTypeOK, NEW a \in Assets, bundled # NoList,
         media[a]["video"] = bundled[a], Plain(a)
  PROVE  \A p \in Parts : media[a][p] \in {NoFile, bundled[a]}
<1> USE DEF Plain
<1>1. bundled[a] # NoFile /\ bundled[a] <= manifests["character"][a]
  BY DEF BundleInv, Full
<1>2. \A i \in {"poster", "blur"} : media[a][i] # NoFile =>
        media[a][i] <= bundled[a] /\ manifests["character"][a] <= media[a][i]
  BY <1>1 DEF IInv, AssetInv, OfAsset, ImagesInv
<1>3. /\ bundled[a] \in Nat /\ manifests["character"][a] \in Nat /\ \A p \in Parts : media[a][p] \in Nat
  BY AssetTypes, BoundsAssumption DEF IInv, ReleaseTypeOK, Lists, Contents, Manifests
<1> QED BY <1>1, <1>2, <1>3 DEF Parts

LEMMA PublishCopies ==
  ASSUME ~Overlap, IInv, ReleaseTypeOK, BundleInv, SwapInv, CopyInv, Publish
  PROVE  CopyInv'
<1> USE NAssumption DEF library, sources, history, local, Plain
<1>0. UNCHANGED <<disturbed, reverted>>
  BY DEF Publish, Bundle, StartPublish, CopyManifest, HashVideo, CopyVideo, CopyImages, Swap, Retire,
         Install, InstallFails, Discard, PublishCrash
<1>1. Sound(NoPackage)
  BY DEF Sound, NoPackage, NoList, NoImages
<1>2. CASE Bundle
  BY <1>2 DEF Bundle, CopyInv, PackagesAreSound, Sound, Copied
<1>3. CASE StartPublish
  BY <1>3 DEF StartPublish, CopyInv, PackagesAreSound, Sound, Copied
<1>4. CASE CopyManifest
  <2>1. /\ staging'.manifest = pub.listed /\ staging'.videos = staging.videos
        /\ staging'.integrity = staging.integrity /\ staging'.images = staging.images
        /\ pub'.at = "hash" /\ pub'.asset = pub.asset /\ pub'.listed = pub.listed
    BY <1>4 DEF CopyManifest, CopyInv, ReleaseTypeOK, Packages
  <2> QED BY <1>4, <2>1 DEF CopyManifest, CopyInv, PackagesAreSound, Sound, Copied
<1>5. CASE pub' = Off /\ output' = output /\ backup' = backup
  BY <1>0, <1>5 DEF Off, CopyInv, PackagesAreSound, Sound
<1>6. CASE HashVideo /\ pub' # Off
  <2>1. /\ media[pub.asset]["video"] = pub.listed[pub.asset] /\ pub.at = "hash"
        /\ pub'.at = "copy" /\ pub'.asset = pub.asset /\ pub'.listed = pub.listed
        /\ staging' = staging /\ pub.listed = bundled /\ bundled # NoList
    BY <1>6 DEF HashVideo, GiveUp, ReleaseTypeOK, CopyInv, SwapInv
  <2>2. pub.asset \in Assets
    BY <2>1 DEF ReleaseTypeOK, SwapInv
  <2>3. Hashed(pub.asset)
    BY <2>1, <2>2, HashVouches DEF Hashed
  <2> QED BY <1>6, <2>1, <2>3 DEF HashVideo, Hashed, CopyInv, PackagesAreSound, Sound, Copied
<1>7. CASE CopyVideo /\ pub' # Off
  <2>1. /\ media[pub.asset]["video"] # NoFile /\ pub.at = "copy"
        /\ pub'.at = "images" /\ pub'.asset = pub.asset /\ pub'.listed = pub.listed
        /\ staging' = [staging EXCEPT !.videos[pub.asset] = media[pub.asset]["video"]]
    BY <1>7 DEF CopyVideo, GiveUp, ReleaseTypeOK
  <2>2. pub.asset \in Assets
    BY <2>1 DEF ReleaseTypeOK, SwapInv
  <2>3. media[pub.asset]["video"] = pub.listed[pub.asset]
    BY <2>1 DEF CopyInv, Hashed
  <2>4. /\ staging'.manifest = staging.manifest /\ staging'.integrity = staging.integrity
        /\ staging'.images = staging.images
        /\ \A a \in Assets : staging'.videos[a] = IF a = pub.asset THEN pub.listed[a] ELSE staging.videos[a]
    BY <2>1, <2>2, <2>3 DEF ReleaseTypeOK, Packages, Lists
  <2>5. \A a \in Assets : a < pub.asset => Copied(a)'
    BY <1>0, <2>1, <2>2, <2>4 DEF CopyInv, Copied
  <2> QED BY <1>0, <1>7, <2>1, <2>2, <2>4, <2>5 DEF CopyVideo, Hashed, CopyInv, PackagesAreSound, Sound
<1>8. CASE CopyImages
  <2>1. /\ pub.at = "images" /\ pub'.at = (IF pub.asset = N THEN "swap" ELSE "hash")
        /\ pub'.asset = pub.asset + 1 /\ pub'.listed = pub.listed
    BY <1>8 DEF CopyImages, ReleaseTypeOK
  <2>2. pub.asset \in Assets
    BY <2>1 DEF ReleaseTypeOK, SwapInv
  <2>3. /\ staging'.manifest = staging.manifest /\ staging'.videos = staging.videos
        /\ \A a \in Assets : staging'.integrity[a] = IF a = pub.asset THEN pub.listed[a] ELSE staging.integrity[a]
        /\ \A a \in Assets : staging'.images[a] = IF a = pub.asset THEN [i \in Images |-> media[a][i]]
                                                                  ELSE staging.images[a]
    BY <1>8, <2>2 DEF CopyImages, ReleaseTypeOK, Packages, Lists
  <2>4. ASSUME NEW a \in Assets, a < pub.asset + 1 PROVE Copied(a)'
    <3>1. CASE a = pub.asset
      <4>1. Plain(a) => \A p \in Parts : media[a][p] \in {NoFile, pub.listed[a]}
        BY <2>1, <3>1 DEF CopyInv, Hashed
      <4>2. Plain(a) => \A i \in Images : staging'.images[a][i] \in {NoFile, pub.listed[a]}
        <5>1. staging'.images[a] = [i \in Images |-> media[a][i]]
          BY <2>3, <3>1
        <5>2. \A i \in Images : staging'.images[a][i] = media[a][i] /\ i \in Parts
          BY <5>1 DEF Images, Parts
        <5> QED BY <4>1, <5>2
      <4>3. staging'.videos[a] = pub.listed[a] /\ staging'.integrity[a] = pub.listed[a]
        BY <2>1, <2>3, <3>1 DEF CopyInv
      <4> QED BY <1>8, <2>1, <4>2, <4>3 DEF CopyImages, Copied
    <3>2. CASE a # pub.asset
      <4>1. a < pub.asset
        BY <2>2, <2>4, <3>2
      <4> QED BY <1>8, <2>1, <2>3, <3>2, <4>1 DEF CopyImages, CopyInv, Copied
    <3> QED BY <3>1, <3>2
  <2>5. pub.asset = N => Sound(staging')
    <3> SUFFICES ASSUME pub.asset = N PROVE Sound(staging')
      OBVIOUS
    <3>1. /\ staging'.manifest \in Lists /\ staging'.videos \in Lists /\ staging'.integrity \in Lists
      BY <1>8, LibraryStep, PublishType DEF IInv, ReleaseTypeOK, Packages
    <3>2. \A a \in Assets : /\ staging'.videos[a] = pub.listed[a] /\ staging'.integrity[a] = pub.listed[a]
                            /\ Plain(a)' => \A i \in Images : staging'.images[a][i] \in {NoFile, pub.listed[a]}
      BY <2>1, <2>4 DEF Copied
    <3>3. staging'.manifest = pub.listed
      BY <2>1, <2>3 DEF CopyInv
    <3>4. /\ staging'.videos = [a \in Assets |-> staging'.videos[a]]
          /\ staging'.integrity = [a \in Assets |-> staging'.integrity[a]]
          /\ pub.listed = [a \in Assets |-> pub.listed[a]]
      BY <3>1, <3>3 DEF Lists
    <3>5. staging'.videos = pub.listed
      <4>1. [a \in Assets |-> staging'.videos[a]] = [a \in Assets |-> pub.listed[a]]
        BY <3>2
      <4> QED BY <3>4, <4>1
    <3>6. staging'.integrity = pub.listed
      <4>1. [a \in Assets |-> staging'.integrity[a]] = [a \in Assets |-> pub.listed[a]]
        BY <3>2
      <4> QED BY <3>4, <4>1
    <3> QED BY <1>0, <3>2, <3>3, <3>5, <3>6 DEF Sound
  <2> QED BY <1>8, <2>1, <2>2, <2>3, <2>4, <2>5
          DEF CopyImages, CopyInv, PackagesAreSound, Sound
<1>9. ASSUME NEW r \in BOOLEAN, Swap(r) PROVE CopyInv'
  BY <1>1, <1>9 DEF Swap, GiveUp, Off, CopyInv, PackagesAreSound, ReleaseTypeOK, library, local, Sound
<1>10. CASE Retire
  BY <1>1, <1>10 DEF Retire, CopyInv, PackagesAreSound, ReleaseTypeOK, library, local, Sound
<1>11. CASE Install
  BY <1>1, <1>11 DEF Install, CopyInv, PackagesAreSound, ReleaseTypeOK, library, local, Sound
<1>12. CASE InstallFails \/ Discard
  BY <1>1, <1>12 DEF InstallFails, Discard, GiveUp, Off, CopyInv, PackagesAreSound, Sound
<1> QED BY <1>2, <1>3, <1>4, <1>5, <1>6, <1>7, <1>8, <1>9, <1>10, <1>11, <1>12
        DEF Publish, HashVideo, CopyVideo, PublishCrash, GiveUp

-----------------------------------------------------------------------------
(* The theorems *)

ReleaseInv == IInv /\ ReleaseTypeOK /\ BundleInv /\ SwapInv /\ (~Overlap => CopyInv)

LEMMA ReleaseInitInv == ReleaseInit => ReleaseInv
<1> SUFFICES ASSUME ReleaseInit PROVE ReleaseInv
  OBVIOUS
<1>1. IInv
  BY InitInv DEF ReleaseInit
<1>2. ReleaseTypeOK
  BY NAssumption, NoPackageType DEF ReleaseInit, ReleaseTypeOK, Off
<1>3. BundleInv
  BY DEF ReleaseInit, Init, BundleInv, NoList, Manifests
<1>4. SwapInv
  BY DEF ReleaseInit, SwapInv, Off
<1>5. CopyInv
  BY DEF ReleaseInit, CopyInv, Off, PackagesAreSound, Sound, NoPackage, NoList, NoImages
<1> QED BY <1>1, <1>2, <1>3, <1>4, <1>5 DEF ReleaseInv

LEMMA ReleaseStepInv ==
  ReleaseInv /\ [ReleaseNext]_<<vars, packages>> => ReleaseInv'
<1> SUFFICES ASSUME ReleaseInv, [ReleaseNext]_<<vars, packages>> PROVE ReleaseInv'
  OBVIOUS
<1> USE DEF ReleaseInv
<1>1. CASE Library /\ UNCHANGED packages
  <2>1. IInv' /\ Next
    BY <1>1, LibraryStep DEF ReleaseNext, Library, Next
  <2>2. ReleaseTypeOK' /\ SwapInv'
    BY <1>1 DEF packages, ReleaseTypeOK, SwapInv
  <2>3. BundleInv'
    BY <1>1, <2>1, LibraryBundle DEF packages, ReleaseTypeOK
  <2>4. ~Overlap => CopyInv'
    BY <1>1, LibraryCopies
  <2> QED BY <2>1, <2>2, <2>3, <2>4
<1>2. CASE Publish
  BY <1>2, LibraryStep, PublishType, PublishSwaps, PublishBundle, PublishCopies DEF ReleaseNext, IInv
<1>3. CASE UNCHANGED <<vars, packages>>
  <2>1. IInv'
    BY <1>3, StepInv
  <2>2. ReleaseTypeOK' /\ SwapInv' /\ BundleInv' /\ (~Overlap => CopyInv')
    BY <1>3 DEF vars, sources, history, packages, local, Plain, Hashed, ReleaseTypeOK, SwapInv, BundleInv, Full, CopyInv,
                PackagesAreSound, Sound, Copied
  <2> QED BY <2>1, <2>2
<1> QED BY <1>1, <1>2, <1>3 DEF ReleaseNext

LEMMA ReleaseInvariant == ReleaseSpec => []ReleaseInv
BY ReleaseInitInv, ReleaseStepInv, PTL DEF ReleaseSpec

\* Every reachable state of library and packages is well typed.
THEOREM ReleaseTypes == ReleaseSpec => [](TypeOK /\ ReleaseTypeOK)
<1>1. ReleaseInv => TypeOK /\ ReleaseTypeOK
  BY DEF ReleaseInv, IInv
<1> QED BY <1>1, ReleaseInvariant, PTL

\* Once publish_media.py has published there always is a package, in its place
\* or in the backup, wherever the script dies and whatever rename fails.
THEOREM Survives == ReleaseSpec => PackageSurvives
<1>1. ReleaseInv /\ [ReleaseNext]_<<vars, packages>>
        => [{output, backup} # {NoPackage} => {output', backup'} # {NoPackage}]_<<vars, packages>>
  <2> SUFFICES ASSUME ReleaseInv, ReleaseNext, {output, backup} # {NoPackage}
               PROVE  {output', backup'} # {NoPackage}
    OBVIOUS
  <2> QED BY PublishSwaps DEF ReleaseInv, IInv, ReleaseNext, packages
<1> QED BY <1>1, ReleaseInvariant, PTL DEF ReleaseSpec, PackageSurvives

\* What serve_media.py serves tells the truth about itself, if the library is not
\* rebuilt while it is published: manifest and digests of all videos, and the
\* images of all whose source was never changed between two readings and never
\* reverted.
THEOREM PackagesSound == ReleaseSpec => [](~Overlap => PackagesAreSound)
<1>1. ReleaseInv => (~Overlap => PackagesAreSound)
  BY DEF ReleaseInv, CopyInv
<1> QED BY <1>1, ReleaseInvariant, PTL
=============================================================================
