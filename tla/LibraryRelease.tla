--------------------------- MODULE LibraryRelease ---------------------------
(***************************************************************************)
(* The library of LibraryBuild and the script that publishes it:           *)
(* tools/media_vault/publish_media.py copies the app's vault manifest, the *)
(* videos and their images into a staging directory beside the published   *)
(* one and swaps the two by renaming.  serve_media.py serves what is       *)
(* published.                                                              *)
(***************************************************************************)
EXTENDS LibraryBuild

CONSTANT Overlap  \* TRUE: the library may be rebuilt while it is published

ASSUME OverlapAssumption == Overlap \in BOOLEAN

VARIABLES
  bundled,  \* app/assets/character/character_manifest.json, the manifest the script is given
  pub,      \* the running script: next step, asset it works on, manifest it read
  staging,  \* the package it is putting together
  output,   \* the published package
  backup    \* the package it replaced

packages == <<bundled, pub, staging, output, backup>>
library == <<sources, media, before, entries, manifests, local>>

-----------------------------------------------------------------------------
(* A package: the copied manifest, the copied videos, the copied images, and *)
(* the digests of integrity.json.                                            *)
Images == {"poster", "blur"}
NoImages == [a \in Assets |-> [i \in Images |-> NoFile]]
Packages == [manifest : Lists, videos : Lists, integrity : Lists,
             images : [Assets -> [Images -> Contents \cup {NoFile}]]]
NoPackage == [manifest |-> NoList, videos |-> NoList, integrity |-> NoList, images |-> NoImages]

Off == [at |-> "off", asset |-> 1, listed |-> NoList]

ReleaseTypeOK ==
  /\ bundled \in Lists
  /\ pub \in [at : {"off", "manifest", "hash", "copy", "images", "swap", "retire", "install", "discard"},
              asset : 1..(N + 1), listed : Lists]
  /\ {staging, output, backup} \subseteq Packages

ReleaseInit ==
  /\ Init
  /\ bundled = NoList
  /\ pub = Off
  /\ staging = NoPackage /\ output = NoPackage /\ backup = NoPackage

-----------------------------------------------------------------------------
\* sanitize_phase4_manifest.dart makes the app's vault manifest of the master
\* manifest; it lists the same videos.
Bundle ==
  /\ pub.at = "off" \/ Overlap
  /\ manifests["character"] \notin {NoList, bundled}
  /\ bundled' = manifests["character"]
  /\ UNCHANGED <<library, bounds, pub, staging, output, backup>>

\* Mistake: the script counts the assets from 0.
StartPublishAtZero ==
  /\ pub.at = "off" /\ (Overlap \/ pc = "idle")
  /\ bundled # NoList
  /\ pub' = [at |-> "manifest", asset |-> 0, listed |-> bundled]
  /\ staging' = NoPackage
  /\ UNCHANGED <<library, bounds, bundled, output, backup>>

\* The script reads the manifest and makes a staging directory.
StartPublish ==
  /\ pub.at = "off" /\ (Overlap \/ pc = "idle")
  /\ bundled # NoList
  /\ pub' = [at |-> "manifest", asset |-> 1, listed |-> bundled]
  /\ staging' = NoPackage
  /\ UNCHANGED <<library, bounds, bundled, output, backup>>

\* It copies the manifest file, which it reads a second time.
CopyManifest ==
  /\ pub.at = "manifest"
  /\ staging' = [staging EXCEPT !.manifest = bundled]
  /\ pub' = [pub EXCEPT !.at = "hash"]
  /\ UNCHANGED <<library, bounds, bundled, output, backup>>

\* An error ends the script, which removes its staging directory.
GiveUp == pub' = Off /\ staging' = NoPackage

\* Mistake: the digest is not compared with that of the manifest.
HashVideoUnchecked ==
  /\ pub.at = "hash"
  /\ IF media[pub.asset]["video"] # NoFile
     THEN pub' = [pub EXCEPT !.at = "copy"] /\ UNCHANGED staging
     ELSE GiveUp
  /\ UNCHANGED <<library, bounds, bundled, output, backup>>

\* It hashes the next video and compares with what it read in the manifest.
HashVideo ==
  /\ pub.at = "hash"
  /\ IF media[pub.asset]["video"] = pub.listed[pub.asset]
     THEN pub' = [pub EXCEPT !.at = "copy"] /\ UNCHANGED staging
     ELSE GiveUp
  /\ UNCHANGED <<library, bounds, bundled, output, backup>>

\* It copies the video it has hashed.
CopyVideo ==
  /\ pub.at = "copy"
  /\ IF media[pub.asset]["video"] # NoFile
     THEN /\ staging' = [staging EXCEPT !.videos[pub.asset] = media[pub.asset]["video"]]
          /\ pub' = [pub EXCEPT !.at = "images"]
     ELSE GiveUp
  /\ UNCHANGED <<library, bounds, bundled, output, backup>>

\* It copies the images that are there; after the last asset it writes
\* integrity.json with the digests it computed.
CopyImages ==
  /\ pub.at = "images"
  /\ staging' = [staging EXCEPT !.images[pub.asset] = [i \in Images |-> media[pub.asset][i]],
                                !.integrity[pub.asset] = pub.listed[pub.asset]]
  /\ pub' = [pub EXCEPT !.asset = @ + 1, !.at = IF pub.asset = N THEN "swap" ELSE "hash"]
  /\ UNCHANGED <<library, bounds, bundled, output, backup>>

\* Without a published package the staging directory becomes it.  With one,
\* --replace first removes an old backup; otherwise the script gives up.
Swap(replace) ==
  /\ pub.at = "swap"
  /\ IF output = NoPackage THEN output' = staging /\ GiveUp /\ UNCHANGED backup
     ELSE /\ UNCHANGED output
          /\ IF replace THEN backup' = NoPackage /\ pub' = [pub EXCEPT !.at = "retire"] /\ UNCHANGED staging
                        ELSE GiveUp /\ UNCHANGED backup
  /\ UNCHANGED <<library, bounds, bundled>>

Retire ==
  /\ pub.at = "retire"
  /\ backup' = output /\ output' = NoPackage
  /\ pub' = [pub EXCEPT !.at = "install"]
  /\ UNCHANGED <<library, bounds, bundled, staging>>

Install ==
  /\ pub.at = "install"
  /\ output' = staging /\ staging' = NoPackage
  /\ pub' = [pub EXCEPT !.at = "discard"]
  /\ UNCHANGED <<library, bounds, bundled, backup>>

\* Mistake: the failure is not noticed, the backup is discarded.
InstallFailsUnseen ==
  /\ pub.at = "install" /\ faults < MaxFaults
  /\ faults' = faults + 1
  /\ backup' = NoPackage
  /\ GiveUp
  /\ UNCHANGED <<library, crashes, bundled, output>>

\* The renaming fails: the old package is put back.
InstallFails ==
  /\ pub.at = "install" /\ faults < MaxFaults
  /\ faults' = faults + 1
  /\ output' = backup /\ backup' = NoPackage
  /\ GiveUp
  /\ UNCHANGED <<library, crashes, bundled>>

Discard ==
  /\ pub.at = "discard"
  /\ backup' = NoPackage
  /\ GiveUp
  /\ UNCHANGED <<library, bounds, bundled, output>>

\* The script is killed; its staging directory has a name of its own and is
\* never looked at again.
PublishCrash ==
  /\ pub.at # "off" /\ crashes < MaxCrashes
  /\ crashes' = crashes + 1
  /\ GiveUp
  /\ UNCHANGED <<library, faults, bundled, output, backup>>

-----------------------------------------------------------------------------
Publish == \/ Bundle \/ StartPublish \/ CopyManifest \/ HashVideo \/ CopyVideo \/ CopyImages
           \/ (\E r \in BOOLEAN : Swap(r)) \/ Retire \/ Install \/ InstallFails \/ Discard
           \/ PublishCrash
Library == \/ (Build \/ Other) /\ (Overlap \/ pub.at = "off")
           \/ World

ReleaseNext == \/ Library /\ UNCHANGED packages
               \/ Publish
ReleaseSpec == ReleaseInit /\ [][ReleaseNext]_<<vars, packages>>

-----------------------------------------------------------------------------
\* A package tells the truth about itself: videos are those its manifest and
\* its integrity.json list, and an image belongs to its video. The script takes
\* the images that lie beside a video: they may be of another content when the
\* source changed between two readings, or got back a content that it had.
Sound(package) ==
  /\ package.videos = package.manifest
  /\ package.integrity = package.manifest
  /\ \A a \in Assets \ (disturbed \cup reverted), i \in Images : package.images[a][i] \in {NoFile, package.videos[a]}

\* What serve_media.py serves, and what it would serve from the backup, is
\* always a sound package, though builds fail half-way, files get lost and
\* both scripts die at any point.
PackagesAreSound == Sound(output) /\ Sound(backup)

\* Once there is a package there always is one, published or in the backup:
\* no crash and no failing rename loses both.
PackageSurvives ==
  [][{output, backup} # {NoPackage} => {output', backup'} # {NoPackage}]_<<vars, packages>>
=============================================================================
