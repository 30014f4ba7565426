-------------------------- MODULE VisualPrepProofs --------------------------
(***************************************************************************)
(* Proofs about VisualPrep, for any number of paths, edits, faults and     *)
(* aborts: what a passing verification says of the outputs, and that all   *)
(* passes when nothing disturbs it.                                        *)
(***************************************************************************)
EXTENDS VisualPrep, FiniteSetTheorems, TLAPS

-----------------------------------------------------------------------------
(* The inductive invariant *)

\* A path has one source id at most.
FuncInv == \A i, j \in inventory.ids : i[1] = j[1] => i = j

\* What there is of a video was rendered from its content, and so recorded.
Sound(i) ==
  /\ keyframes[i] \in {{}, {i[2]}} /\ sheets[i] \in {{}, {i[2]}}
  /\ state[i] \in {Nothing, [frames |-> {i[2]}, sheet |-> {i[2]}]}

\* True of every video no run of which was disturbed.
SoundInv == \A i \in Ids \ disturbed : Sound(i)

\* What a run has yet to read is still what it has in its snapshot, unless it was
\* disturbed; a disturbed content that is there was restored.
ReadInv ==
  /\ pc \in {"extract", "work"} => command \in {"all", "extract"}
  /\ \A p \in Paths : Reading(p) /\ <<p, snapshot[p]>> \notin disturbed => source[p] = snapshot[p]
  /\ \A i \in disturbed : source[i[1]] = i[2] => i \in restored

Before == {"idle", "probe", "csv", "duplicates", "extract"}
Holding == {"rendering", "rendered", "removed", "framed", "done"}

\* What the pool has read of p, if anything.
Read(p) == /\ job[p].content # {}
           /\ Id(p) \notin disturbed => job[p].content = {Id(p)[2]}

\* The pool works on listed videos, and has read their content alone.
JobInv ==
  /\ pc \in Before => \A p \in Paths : job[p].at = "idle"
  /\ \A p \in Paths : job[p].at # "idle" => p \in Listed
  /\ \A p \in Paths : job[p].at = "todo" => job[p].content = {}
  /\ \A p \in Paths : job[p].at \in Holding => Read(p)

\* Between the second snapshot and the verification the sources may change
\* again; the outputs are of the first.
CheckedInv == pc = "verify" /\ integrity = "PASS" => \A i \in Found(snapshot) \ restored : Sound(i)

Running == {"csv", "duplicates", "extract", "work", "orphans", "state", "index", "integrity", "verify"}

\* How far all and extract have got.
CommandInv == command \in {"all", "extract"} =>
  /\ pc \in {"probe", "csv", "duplicates"} => command = "all"
  /\ pc \in Running =>
       inventory.ids = {i \in Found(snapshot) : i[1] \notin inventory.failed}
  /\ pc \in {"integrity", "verify"} => index.ids = inventory.ids
  /\ pc \in {"state", "index", "integrity", "verify"} =>
       \A i \in Ids \ inventory.ids : keyframes[i] = {} /\ sheets[i] = {}
  /\ pc \in {"index", "integrity", "verify"} => \A i \in Ids \ inventory.ids : state[i] = Nothing

\* While no command is cut off, the documents are of one inventory in between.
AlignedInv == aborts = 0 =>
  /\ pc \notin {"csv", "duplicates", "extract", "work", "orphans", "state", "index"} =>
       index.ids = inventory.ids /\ index.groups = Groups(inventory.ids)
  /\ pc \notin {"csv", "duplicates"} /\ duplicates.known => duplicates.groups = Groups(inventory.ids)

\* The outputs of what the pool is done with, if nothing disturbs it.
Ready(p) ==
  /\ job[p].at = "reused" => Current(Id(p))
  /\ job[p].at \in {"framed", "done"} => keyframes[Id(p)] = job[p].content
  /\ job[p].at = "done" => sheets[Id(p)] = job[p].content

\* all in its stages, if nothing disturbs it.
CalmInv == calm /\ command = "all" =>
  /\ source = snapshot
  /\ pc # "probe" => inventory.known /\ inventory.failed = {} /\ inventory.ids = Found(snapshot)
  /\ pc \notin {"probe", "csv"} => csv = inventory.ids
  /\ pc \notin {"probe", "csv", "duplicates"} => duplicates.known
  /\ \A p \in Paths : job[p].at # "failed"
  /\ pc \in {"work", "orphans", "state"} => \A p \in Listed : Ready(p)
  /\ pc \in {"orphans", "state"} => \A p \in Listed : job[p].at \in {"reused", "done"}
  /\ pc \in {"index", "integrity", "verify"} => \A i \in inventory.ids : Current(i)
  /\ pc = "verify" => integrity = "PASS"
  /\ pc = "report" => verification = "PASS"
  /\ pc # "failed"

IInv ==
  /\ TypeOK /\ FuncInv /\ SoundInv /\ ReadInv /\ JobInv /\ CheckedInv /\ CommandInv /\ AlignedInv /\ CalmInv

-----------------------------------------------------------------------------
(* Operators *)

Steps == {"idle", "probe", "csv", "duplicates", "extract", "work", "orphans", "state",
          "index", "integrity", "verify", "report", "passed", "failed"}
JobTypes == [at : {"idle", "reused", "todo", "rendering", "rendered", "removed", "framed",
                   "done", "failed"},
             content : SUBSET Contents]
Inventories == [known : BOOLEAN, ids : SUBSET Ids, failed : SUBSET Paths]
Duplicates == [known : BOOLEAN, groups : SUBSET SUBSET Ids]
Indexes == [ids : SUBSET Ids, groups : SUBSET SUBSET Ids]
Sources == [Paths -> Contents \cup {Absent}]
Outputs == [Ids -> SUBSET Contents]
States == [Ids -> Rendered]
Jobs == [Paths -> JobTypes]
Verdicts == {"none", "PASS", "FAIL"}
Commanded == {"none", "scan", "extract", "all", "verify", "report"}
Reports == {"none", "CONDITIONAL FAIL", "PASS"}

\* TypeOK with names for the sets.
Shape ==
  /\ source \in Sources /\ snapshot \in Sources /\ inventory \in Inventories /\ csv \in SUBSET Ids
  /\ duplicates \in Duplicates /\ index \in Indexes
  /\ keyframes \in Outputs /\ sheets \in Outputs /\ state \in States
  /\ integrity \in Verdicts /\ verification \in Verdicts /\ tests \in Verdicts /\ report \in Reports
  /\ pc \in Steps /\ command \in Commanded /\ job \in Jobs /\ calm \in BOOLEAN
  /\ disturbed \in SUBSET Ids /\ restored \subseteq disturbed
  /\ edits \in 0..MaxEdits /\ faults \in 0..MaxFaults /\ aborts \in 0..MaxAborts

LEMMA Shapes == (TypeOK <=> Shape) /\ (TypeOK' <=> Shape')
BY DEF TypeOK, Shape, Sources, Inventories, Duplicates, Indexes, Outputs, States, Verdicts, Reports,
       Steps, Commanded, Jobs, JobTypes

LEMMA Basics ==
  /\ MaxEdits \in Nat /\ MaxFaults \in Nat /\ MaxAborts \in Nat
  /\ Absent \notin Contents /\ 1 \in Contents
  /\ \A i \in Ids : i[1] \in Paths /\ i[2] \in Contents /\ i = <<i[1], i[2]>>
BY BoundsAssumption DEF Absent, Contents, Ids

\* What the proofs use of the types.
LEMMA Kinds ==
  ASSUME TypeOK
  PROVE  /\ source \in [Paths -> Contents \cup {Absent}] /\ snapshot \in [Paths -> Contents \cup {Absent}]
         /\ keyframes \in [Ids -> SUBSET Contents] /\ sheets \in [Ids -> SUBSET Contents]
         /\ state \in [Ids -> Rendered] /\ job \in [Paths -> JobTypes]
         /\ inventory.ids \subseteq Ids /\ inventory.failed \subseteq Paths /\ index.ids \subseteq Ids
         /\ disturbed \subseteq Ids /\ restored \subseteq disturbed /\ aborts \in Nat /\ pc \in Steps
<1>1. Shape
  BY Shapes
<1>2. aborts \in Nat
  BY <1>1, Basics DEF Shape
<1> QED BY <1>1, <1>2 DEF Shape, Sources, Outputs, States, Jobs, Inventories, Indexes

\* A listed path has its id, and an id its path.
LEMMA IdOf ==
  ASSUME TypeOK, FuncInv
  PROVE  /\ \A p \in Listed : Id(p) \in inventory.ids /\ Id(p)[1] = p /\ Id(p) \in Ids /\ p \in Paths
         /\ \A i \in inventory.ids : i \in Ids /\ i[1] \in Listed /\ Id(i[1]) = i
<1>1. inventory.ids \subseteq Ids
  BY DEF TypeOK
<1>2. ASSUME NEW p \in Listed
      PROVE  Id(p) \in inventory.ids /\ Id(p)[1] = p /\ Id(p) \in Ids /\ p \in Paths
  <2>1. \E i \in inventory.ids : i[1] = p
    BY DEF Listed
  <2>2. Id(p) \in inventory.ids /\ Id(p)[1] = p
    BY <2>1 DEF Id
  <2> QED BY <1>1, <2>2, Basics
<1>3. ASSUME NEW i \in inventory.ids PROVE i \in Ids /\ i[1] \in Listed /\ Id(i[1]) = i
  <2>1. i[1] \in Listed
    BY DEF Listed
  <2>2. Id(i[1]) \in inventory.ids /\ Id(i[1])[1] = i[1]
    BY <1>2, <2>1
  <2> QED BY <1>1, <2>1, <2>2 DEF FuncInv
<1> QED BY <1>2, <1>3

\* The ids of files are those of their paths.
LEMMA FoundIds ==
  ASSUME NEW files \in [Paths -> Contents \cup {Absent}]
  PROVE  /\ Found(files) \subseteq Ids
         /\ \A i \in Ids : i \in Found(files) <=> files[i[1]] = i[2]
         /\ \A i \in Found(files) : i[1] \in Paths /\ files[i[1]] = i[2] /\ i[2] \in Contents
         /\ \A i, j \in Found(files) : i[1] = j[1] => i = j
<1>1. \A i \in Found(files) : i \in Ids /\ files[i[1]] = i[2]
  BY DEF Found, Ids
<1>2. \A i \in Ids : files[i[1]] = i[2] => i \in Found(files)
  <2> SUFFICES ASSUME NEW i \in Ids, files[i[1]] = i[2] PROVE i \in Found(files)
    OBVIOUS
  <2>1. i[1] \in Paths /\ files[i[1]] # Absent /\ i = <<i[1], files[i[1]]>>
    BY Basics
  <2> QED BY <2>1 DEF Found
<1> QED BY <1>1, <1>2, Basics

LEMMA SameIds ==
  ASSUME UNCHANGED inventory
  PROVE  Listed' = Listed /\ \A p \in Paths : Id(p)' = Id(p)
BY DEF Listed, Id

-----------------------------------------------------------------------------
(* Types *)

LEMMA TypeInit == Init => TypeOK
<1> SUFFICES ASSUME Init PROVE Shape
  BY Shapes
<1>1. Nothing \in Rendered
  BY DEF Nothing, Rendered
<1>2. \A p \in Paths : Idle(p) \in JobTypes
  BY DEF Idle, JobTypes
<1>3. source \in Sources /\ snapshot \in Sources
  BY Basics DEF Init, Sources
<1>4. inventory \in Inventories /\ duplicates \in Duplicates /\ index \in Indexes
  BY DEF Init, Inventories, Duplicates, Indexes
<1>5. edits \in 0..MaxEdits /\ faults \in 0..MaxFaults /\ aborts \in 0..MaxAborts
  BY Basics DEF Init
<1>6. keyframes \in Outputs /\ sheets \in Outputs /\ state \in States /\ job \in Jobs
  BY <1>1, <1>2 DEF Init, Outputs, States, Jobs
<1> QED BY <1>3, <1>4, <1>5, <1>6 DEF Init, Shape, Verdicts, Reports, Steps, Commanded

\* What happens to the record of one video.
LEMMA JobMoves ==
  ASSUME TypeOK, NEW p \in Paths, NEW to \in {"removed", "framed", "done", "failed"}, At(p, to)
  PROVE  /\ job' \in Jobs
         /\ job'[p].at = to /\ job'[p].content = job[p].content
         /\ \A q \in Paths \ {p} : job'[q] = job[q]
<1>1. job \in [Paths -> JobTypes] /\ job[p] \in JobTypes
  BY Shapes DEF Shape, Jobs
<1>2. job' = [job EXCEPT ![p] = [job[p] EXCEPT !.at = to]]
  BY DEF At
<1>3. [job[p] EXCEPT !.at = to] \in JobTypes /\ [job[p] EXCEPT !.at = to].at = to
      /\ [job[p] EXCEPT !.at = to].content = job[p].content
  BY <1>1 DEF JobTypes
<1> QED BY <1>1, <1>2, <1>3 DEF Jobs

LEMMA GroupsType == ASSUME NEW ids \in SUBSET Ids PROVE Groups(ids) \in SUBSET SUBSET Ids
BY DEF Groups

LEMMA TypeNext == ASSUME TypeOK, [Next]_vars PROVE TypeOK'
<1> USE DEF lists, outputs, results, bounds
<1>0. Shape /\ inventory.ids \in SUBSET Ids /\ job \in [Paths -> JobTypes]
  BY Shapes DEF Shape, Inventories, Jobs
<1> SUFFICES Shape'
  BY Shapes
<1>1. CASE Commands
  <2>1. tests' \in Verdicts /\ snapshot' \in Sources /\ command' \in Commanded /\ pc' \in Steps /\ calm' \in BOOLEAN
        /\ UNCHANGED <<source, inventory, csv, duplicates, index, outputs, state, integrity, verification,
                       report, job, bounds>>
    BY <1>0, <1>1 DEF Commands, StartScan, StartExtract, StartVerify, StartReport, Begin, Shape,
                      Verdicts, Commanded, Steps
  <2> QED BY <1>0, <2>1 DEF Shape
<1>2. CASE Probe
  <2>1. PICK broken \in SUBSET {p \in Paths : <<p, snapshot[p]>> \in Found(snapshot) \ inventory.ids} :
          LET gone == {p \in Paths : <<p, snapshot[p]>> \in Found(snapshot) \ inventory.ids
                                     /\ source[p] = Absent}
          IN /\ faults + Cardinality(broken) <= MaxFaults /\ faults' = faults + Cardinality(broken)
             /\ calm' = (calm /\ broken \cup gone = {})
             /\ inventory' = [known |-> TRUE, failed |-> broken \cup gone,
                              ids |-> {i \in Found(snapshot) : i[1] \notin broken \cup gone}]
    BY <1>2 DEF Probe
  <2>2. IsFiniteSet(broken) /\ Cardinality(broken) \in Nat
    BY PathsAssumption, FS_Subset, FS_CardinalityType
  <2>3. faults' \in 0..MaxFaults
    <3>1. faults \in Nat
      BY <1>0 DEF Shape
    <3> QED BY <2>1, <2>2, <3>1, BoundsAssumption
  <2>4. inventory' \in Inventories
    BY <1>0, <2>1, FoundIds DEF Shape, Sources, Inventories
  <2>5. calm' \in BOOLEAN
    BY <2>1
  <2> QED BY <1>0, <1>2, <2>3, <2>4, <2>5 DEF Probe, Shape, Steps
<1>3. CASE WriteCsv
  BY <1>0, <1>3 DEF WriteCsv, Shape, Steps
<1>4. CASE WriteDuplicates
  <2>1. duplicates' \in Duplicates
    BY <1>0, <1>4, GroupsType DEF WriteDuplicates, Duplicates
  <2> QED BY <1>0, <1>4, <2>1 DEF WriteDuplicates, Shape, Steps
<1>5. CASE StartWork
  <2>1. job' \in Jobs
    BY <1>5 DEF StartWork, JobTypes, Idle, Jobs
  <2> QED BY <1>0, <1>5, <2>1 DEF StartWork, Shape, Steps
<1>6. ASSUME NEW p \in Paths, Work(p) PROVE Shape'
  <2>1. job[p].content \in SUBSET Contents /\ source[p] \in Contents \cup {Absent}
    BY <1>0 DEF Shape, JobTypes, Sources
  <2>2. CASE Render(p)
    <3>1. PICK at \in {"rendering", "rendered"} :
            job' = [job EXCEPT ![p] = [at |-> at, content |-> job[p].content \cup {source[p]}]]
      BY <1>0, <2>2 DEF Render
    <3>2. [at |-> at, content |-> job[p].content \cup {source[p]}] \in JobTypes
      BY <2>1, <2>2 DEF JobTypes, Render
    <3>3. job' \in Jobs
      BY <1>0, <3>1, <3>2 DEF Jobs
    <3> QED BY <1>0, <2>2, <3>3 DEF Render, Shape
  <2>3. CASE RemoveOld(p)
    <3>1. job' \in Jobs /\ keyframes' \in Outputs
      BY <1>0, <2>3, JobMoves DEF RemoveOld, Shape, Outputs
    <3> QED BY <1>0, <2>3, <3>1 DEF RemoveOld, Shape
  <2>4. CASE PlaceFrames(p)
    <3>1. job' \in Jobs /\ keyframes' \in Outputs
      BY <1>0, <2>1, <2>4, JobMoves DEF PlaceFrames, Shape, Outputs
    <3> QED BY <1>0, <2>4, <3>1 DEF PlaceFrames, Shape
  <2>5. CASE PlaceSheet(p)
    <3>1. job' \in Jobs /\ sheets' \in Outputs
      BY <1>0, <2>1, <2>5, JobMoves DEF PlaceSheet, Shape, Outputs
    <3> QED BY <1>0, <2>5, <3>1 DEF PlaceSheet, Shape
  <2>6. CASE WorkFails(p)
    <3>1. job' \in Jobs
      BY <2>6, JobMoves DEF WorkFails
    <3>2. faults' \in 0..MaxFaults
      <4>1. faults \in 0..MaxFaults
        BY <1>0 DEF Shape
      <4>2. faults' = faults \/ (faults < MaxFaults /\ faults' = faults + 1)
        BY <2>6 DEF WorkFails
      <4> QED BY <4>1, <4>2, BoundsAssumption
    <3> QED BY <1>0, <2>6, <3>1, <3>2 DEF WorkFails, Shape
  <2> QED BY <1>6, <2>2, <2>3, <2>4, <2>5, <2>6 DEF Work
<1>7. CASE Drain
  BY <1>0, <1>7 DEF Drain, Shape, Steps
<1>8. CASE CleanUp
  <2>1. keyframes' \in Outputs /\ sheets' \in Outputs
    BY <1>0, <1>8 DEF CleanUp, Shape, Outputs
  <2> QED BY <1>0, <1>8, <2>1 DEF CleanUp, Shape, Steps
<1>9. CASE WriteState
  <2>1. ASSUME NEW i \in Ids PROVE state'[i] \in Rendered
    <3>1. Nothing \in Rendered /\ state[i] \in Rendered
      BY <1>0 DEF Shape, States, Nothing, Rendered
    <3>2. job[i[1]].content \in SUBSET Contents
      BY <1>0, Basics DEF JobTypes
    <3>3. [frames |-> job[i[1]].content, sheet |-> job[i[1]].content] \in Rendered
      BY <3>2 DEF Rendered
    <3> QED BY <1>9, <3>1, <3>3 DEF WriteState
  <2>2. state' \in States
    <3>1. state' = [i \in Ids |-> state'[i]]
      BY <1>9 DEF WriteState
    <3> QED BY <2>1, <3>1 DEF States
  <2> QED BY <1>0, <1>9, <2>2 DEF WriteState, Shape, Steps
<1>10. CASE WriteIndex
  <2>1. index' \in Indexes
    BY <1>0, <1>10, GroupsType DEF WriteIndex, Shape, Duplicates, Indexes
  <2> QED BY <1>0, <1>10, <2>1 DEF WriteIndex, Shape, Steps
<1>11. CASE Finalize
  BY <1>0, <1>11 DEF Finalize, Shape, Steps, Verdicts
<1>12. CASE Verify
  BY <1>0, <1>12 DEF Verify, Shape, Steps, Verdicts
<1>13. CASE WriteReport
  BY <1>0, <1>13 DEF WriteReport, Shape, Steps, Reports
<1>14. ASSUME NEW p \in Paths, Edit(p) PROVE Shape'
  <2>1. edits \in 0..MaxEdits /\ edits < MaxEdits /\ edits' = edits + 1
    BY <1>0, <1>14 DEF Edit, Shape
  <2>2. edits' \in 0..MaxEdits
    BY <2>1, BoundsAssumption
  <2>3. source' \in Sources
    BY <1>0, <1>14 DEF Edit, Shape, Sources
  <2>4. disturbed' \in SUBSET Ids /\ restored' \subseteq disturbed'
    <3>1. Reading(p) => <<p, snapshot[p]>> \in Ids
      BY <1>0 DEF Reading, Shape, Sources, Ids
    <3> QED BY <1>0, <1>14, <3>1 DEF Edit, Shape
  <2> QED BY <1>0, <1>14, <2>2, <2>3, <2>4 DEF Edit, Shape
<1>15. ASSUME NEW i \in Ids, Lose(i) PROVE Shape'
  <2>1. faults \in 0..MaxFaults /\ faults < MaxFaults /\ faults' = faults + 1
    BY <1>0, <1>15 DEF Lose, Shape
  <2>2. faults' \in 0..MaxFaults
    BY <2>1, BoundsAssumption
  <2>3. keyframes' \in Outputs /\ sheets' \in Outputs
    BY <1>0, <1>15 DEF Lose, Shape, Outputs
  <2> QED BY <1>0, <1>15, <2>2, <2>3 DEF Lose, Shape
<1>16. CASE Return \/ Abort
  <2>1. job' \in Jobs
    BY <1>16 DEF Return, Abort, JobTypes, Idle, Jobs
  <2>2. aborts' \in 0..MaxAborts
    <3>1. aborts \in 0..MaxAborts
      BY <1>0 DEF Shape
    <3>2. aborts' = aborts \/ (aborts < MaxAborts /\ aborts' = aborts + 1)
      BY <1>16 DEF Return, Abort
    <3> QED BY <3>1, <3>2, BoundsAssumption
  <2> QED BY <1>0, <1>16, <2>1, <2>2 DEF Return, Abort, Shape, Steps, Commanded
<1>17. CASE UNCHANGED vars
  BY <1>0, <1>17 DEF vars, Shape
<1> QED BY <1>1, <1>2, <1>3, <1>4, <1>5, <1>6, <1>7, <1>8, <1>9, <1>10, <1>11, <1>12, <1>13,
           <1>14, <1>15, <1>16, <1>17
        DEF Next, Scan, Extract, Finish, World

-----------------------------------------------------------------------------
(* Which actions write which variables *)

LEMMA Moves ==
  ASSUME [Next]_vars
  PROVE  /\ Probe \/ UNCHANGED inventory
         /\ (\E p \in Paths : Edit(p)) \/ UNCHANGED <<source, disturbed, restored>>
         /\ Commands \/ UNCHANGED <<snapshot, command>> \/ Return \/ Abort
         /\ (\E p \in Paths : Work(p)) \/ CleanUp \/ (\E i \in Ids : Lose(i)) \/ UNCHANGED outputs
         /\ WriteState \/ UNCHANGED state
         /\ StartWork \/ (\E p \in Paths : Work(p)) \/ Return \/ Abort \/ UNCHANGED job
<1> USE DEF lists, outputs, results, bounds
<1>1. CASE Commands
  BY <1>1 DEF Commands, StartScan, StartExtract, StartVerify, StartReport
<1>2. CASE Scan
  BY <1>2 DEF Scan, Probe, WriteCsv, WriteDuplicates
<1>3. CASE Extract
  <2>1. CASE \E p \in Paths : Work(p)
    BY <2>1 DEF Work, Render, RemoveOld, PlaceFrames, PlaceSheet, WorkFails
  <2> QED BY <1>3, <2>1 DEF Extract, StartWork, Drain, CleanUp, WriteState
<1>4. CASE Finish
  BY <1>4 DEF Finish, WriteIndex, Finalize, Verify, WriteReport, Return
<1>5. CASE World
  BY <1>5 DEF World, Edit, Lose, Abort
<1> QED BY <1>1, <1>2, <1>3, <1>4, <1>5 DEF Next, vars

-----------------------------------------------------------------------------
(* Ids and contents *)

LEMMA FuncNext == ASSUME TypeOK, FuncInv, [Next]_vars PROVE FuncInv'
<1>1. CASE Probe
  <2>1. inventory'.ids \subseteq Found(snapshot)
    BY <1>1 DEF Probe
  <2> QED BY <2>1, FoundIds DEF TypeOK, FuncInv
<1>2. CASE UNCHANGED inventory
  BY <1>2 DEF FuncInv
<1> QED BY <1>1, <1>2, Moves

\* What the pool does with the outputs: it removes them, or puts what it has
\* rendered under a listed id.
LEMMA WorkMoves ==
  ASSUME TypeOK, FuncInv, JobInv, NEW p \in Paths, Work(p)
  PROVE  /\ p \in Listed /\ Id(p) \in inventory.ids /\ Id(p) \in Ids /\ Id(p)[1] = p /\ pc = "work"
         /\ keyframes' = keyframes \/ keyframes' = [keyframes EXCEPT ![Id(p)] = {}]
            \/ (job[p].at = "removed" /\ keyframes' = [keyframes EXCEPT ![Id(p)] = job[p].content])
         /\ sheets' = sheets
            \/ (job[p].at = "framed" /\ sheets' = [sheets EXCEPT ![Id(p)] = job[p].content])
         /\ UNCHANGED <<source, lists, state, results, pc, command, disturbed, restored, edits, aborts>>
<1>1. job[p].at # "idle" /\ pc = "work"
  BY DEF Work, Render, RemoveOld, PlaceFrames, PlaceSheet, WorkFails
<1>2. p \in Listed
  BY <1>1 DEF JobInv
<1>3. /\ keyframes' = keyframes \/ keyframes' = [keyframes EXCEPT ![Id(p)] = {}]
         \/ (job[p].at = "removed" /\ keyframes' = [keyframes EXCEPT ![Id(p)] = job[p].content])
      /\ sheets' = sheets
         \/ (job[p].at = "framed" /\ sheets' = [sheets EXCEPT ![Id(p)] = job[p].content])
      /\ UNCHANGED <<source, lists, state, results, pc, command, disturbed, restored, edits, aborts>>
  BY DEF Work, Render, RemoveOld, PlaceFrames, PlaceSheet, WorkFails, outputs, bounds
<1> QED BY <1>1, <1>2, <1>3, IdOf

LEMMA SoundNext ==
  ASSUME TypeOK, FuncInv, SoundInv, JobInv, [Next]_vars
  PROVE  SoundInv'
<1>0. disturbed \subseteq disturbed'
  BY Moves DEF Edit
<1> SUFFICES ASSUME NEW i \in Ids, i \notin disturbed PROVE Sound(i)'
  BY <1>0 DEF SoundInv
<1>1. /\ keyframes \in [Ids -> SUBSET Contents] /\ sheets \in [Ids -> SUBSET Contents]
      /\ inventory.ids \subseteq Ids /\ i[1] \in Paths
  BY Basics, Kinds
<1>2. Sound(i)
  BY DEF SoundInv
<1>3. state'[i] \in {Nothing, [frames |-> {i[2]}, sheet |-> {i[2]}]}
  <2>1. CASE WriteState
    <3>1. CASE i \in inventory.ids /\ job[i[1]].at = "done"
      <4>1. Id(i[1]) = i
        BY <3>1, IdOf
      <4>2. job[i[1]].content = {i[2]}
        BY <1>1, <3>1, <4>1 DEF JobInv, Holding, Read
      <4> QED BY <2>1, <3>1, <4>2 DEF WriteState
    <3>2. CASE ~(i \in inventory.ids /\ job[i[1]].at = "done")
      <4>1. state'[i] \in {Nothing, state[i]}
        BY <2>1, <3>2 DEF WriteState
      <4> QED BY <1>2, <4>1 DEF Sound
    <3> QED BY <3>1, <3>2
  <2> QED BY <1>2, <2>1, Moves DEF Sound
<1>4. keyframes'[i] \in {{}, {i[2]}} /\ sheets'[i] \in {{}, {i[2]}}
  <2>0. keyframes[i] \in {{}, {i[2]}} /\ sheets[i] \in {{}, {i[2]}}
    BY <1>2 DEF Sound
  <2>1. ASSUME NEW p \in Paths, Work(p)
        PROVE  keyframes'[i] \in {{}, {i[2]}} /\ sheets'[i] \in {{}, {i[2]}}
    <3>1. CASE i = Id(p)
      <4>1. job[p].at \in Holding => job[p].content = {i[2]}
        BY <3>1 DEF JobInv, Read
      <4> QED BY <1>1, <2>0, <2>1, <3>1, <4>1, WorkMoves DEF Holding
    <3>2. CASE i # Id(p)
      BY <1>1, <2>0, <2>1, <3>2, WorkMoves
    <3> QED BY <3>1, <3>2
  <2>2. CASE CleanUp
    BY <2>0, <2>2 DEF CleanUp
  <2>3. ASSUME NEW j \in Ids, Lose(j)
        PROVE  keyframes'[i] \in {{}, {i[2]}} /\ sheets'[i] \in {{}, {i[2]}}
    BY <1>1, <2>0, <2>3 DEF Lose
  <2>4. CASE UNCHANGED outputs
    BY <2>0, <2>4 DEF outputs
  <2> QED BY <2>1, <2>2, <2>3, <2>4, Moves
<1> QED BY <1>3, <1>4 DEF Sound

-----------------------------------------------------------------------------
(* What a run has yet to read *)

LEMMA ReadNext ==
  ASSUME TypeOK, FuncInv, JobInv, CommandInv, ReadInv, [Next]_vars
  PROVE  ReadInv'
<1> USE DEF lists, outputs, results, bounds
<1>0. /\ source \in [Paths -> Contents \cup {Absent}] /\ job \in [Paths -> JobTypes]
      /\ disturbed \subseteq Ids
  BY Kinds
<1>1. pc' \in {"extract", "work"} => command' \in {"all", "extract"}
  <2>1. ASSUME NEW p \in Paths, Work(p) PROVE UNCHANGED <<pc, command>>
    BY <2>1, WorkMoves
  <2>2. CASE Commands
    BY <2>2 DEF Commands, StartScan, StartExtract, StartVerify, StartReport, Begin
  <2>3. CASE Scan
    BY <2>3 DEF Scan, Probe, WriteCsv, WriteDuplicates
  <2>4. CASE StartWork \/ Drain \/ CleanUp \/ WriteState
    BY <2>4 DEF StartWork, Drain, CleanUp, WriteState, ReadInv
  <2>5. CASE Finish
    BY <2>5 DEF Finish, WriteIndex, Finalize, Verify, WriteReport, Return
  <2>6. CASE World \/ UNCHANGED vars
    BY <2>6 DEF World, Edit, Lose, Abort, vars, ReadInv
  <2> QED BY <2>1, <2>2, <2>3, <2>4, <2>5, <2>6 DEF Next, Extract, ReadInv
<1>2. ASSUME NEW p \in Paths, Edit(p)
      PROVE  /\ \A q \in Paths : Reading(q)' /\ <<q, snapshot'[q]>> \notin disturbed' => source'[q] = snapshot'[q]
             /\ \A i \in disturbed' : source'[i[1]] = i[2] => i \in restored'
  <2>1. PICK c \in Contents \cup {Absent} :
          /\ c # source[p] /\ source' = [source EXCEPT ![p] = c]
          /\ disturbed' = disturbed \cup (IF Reading(p) THEN {<<p, snapshot[p]>>} ELSE {})
          /\ restored' = restored \cup (disturbed' \cap {<<p, c>>})
    BY <1>2 DEF Edit
  <2>2. UNCHANGED <<snapshot, command, pc, job>>
    BY <1>2 DEF Edit
  <2>3. \A q \in Paths : Reading(q)' = Reading(q)
    BY <2>2 DEF Reading
  <2>4. ASSUME NEW q \in Paths, Reading(q)', <<q, snapshot'[q]>> \notin disturbed'
        PROVE  source'[q] = snapshot'[q]
    BY <1>0, <2>1, <2>2, <2>3, <2>4 DEF ReadInv
  <2>5. ASSUME NEW i \in disturbed', source'[i[1]] = i[2] PROVE i \in restored'
    <3>1. CASE i[1] = p
      <4>1. disturbed' \subseteq Ids /\ i = <<i[1], i[2]>>
        <5>1. TypeOK'
          BY TypeNext
        <5> QED BY <2>5, <5>1, Basics DEF TypeOK
      <4>2. source'[p] = c
        BY <1>0, <2>1
      <4> QED BY <2>1, <2>5, <3>1, <4>1, <4>2
    <3>2. CASE i[1] # p
      <4>1. i \in disturbed
        BY <2>1, <2>5, <3>2
      <4>2. source[i[1]] = i[2]
        BY <1>0, <2>1, <2>5, <3>2, <4>1, Basics
      <4> QED BY <2>1, <4>1, <4>2 DEF ReadInv
    <3> QED BY <3>1, <3>2
  <2> QED BY <2>4, <2>5
<1>3. ASSUME UNCHANGED <<source, disturbed, restored>>
      PROVE  /\ \A q \in Paths : Reading(q)' /\ <<q, snapshot'[q]>> \notin disturbed' => source'[q] = snapshot'[q]
             /\ \A i \in disturbed' : source'[i[1]] = i[2] => i \in restored'
  <2>1. \A i \in disturbed' : source'[i[1]] = i[2] => i \in restored'
    BY <1>3 DEF ReadInv
  <2>2. ASSUME NEW q \in Paths, Reading(q)'
        PROVE  snapshot' = source \/ (Reading(q) /\ UNCHANGED snapshot)
    <3>0. command' \in {"all", "extract"} /\ (pc' = "work" => job'[q].at \in {"todo", "rendering"})
          /\ pc' \in {"probe", "csv", "duplicates", "extract", "work"} /\ snapshot'[q] # Absent
      BY <2>2 DEF Reading
    <3>1. CASE Commands
      BY <3>0, <3>1 DEF Commands, StartScan, StartExtract, StartVerify, StartReport, Begin
    <3>2. CASE Scan
      BY <3>0, <3>2 DEF Scan, Probe, WriteCsv, WriteDuplicates, Reading
    <3>3. ASSUME NEW p \in Paths, Work(p) PROVE Reading(q) /\ UNCHANGED snapshot
      <4>1. pc = "work" /\ p \in Listed /\ UNCHANGED <<pc, command, snapshot>>
        BY <3>3, WorkMoves
      <4>2. job[q].at \in {"todo", "rendering"}
        <5>1. CASE Render(p)
          BY <1>0, <3>0, <4>1, <5>1 DEF Render
        <5>2. CASE ~Render(p)
          <6>1. PICK to \in {"removed", "framed", "done", "failed"} : At(p, to)
            BY <3>3, <5>2 DEF Work, RemoveOld, PlaceFrames, PlaceSheet, WorkFails
          <6> QED BY <3>0, <4>1, <6>1, JobMoves
        <5> QED BY <5>1, <5>2
      <4> QED BY <3>0, <4>1, <4>2 DEF Reading
    <3>4. CASE StartWork
      BY <3>0, <3>4 DEF StartWork, Reading
    <3>5. CASE Drain \/ CleanUp \/ WriteState
      BY <3>0, <3>5 DEF Drain, CleanUp, WriteState
    <3>6. CASE Finish
      BY <3>0, <3>6 DEF Finish, WriteIndex, Finalize, Verify, WriteReport, Return
    <3>7. CASE World
      BY <3>0, <3>7 DEF World, Edit, Lose, Abort, Reading
    <3>8. CASE UNCHANGED vars
      BY <3>0, <3>8 DEF vars, Reading
    <3> QED BY <3>1, <3>2, <3>3, <3>4, <3>5, <3>6, <3>7, <3>8 DEF Next, Extract
  <2> QED BY <1>3, <2>1, <2>2 DEF ReadInv
<1>4. CASE \E p \in Paths : Edit(p)
  BY <1>1, <1>2, <1>4 DEF ReadInv
<1>5. CASE UNCHANGED <<source, disturbed, restored>>
  BY <1>1, <1>3, <1>5 DEF ReadInv
<1> QED BY <1>4, <1>5, Moves

-----------------------------------------------------------------------------
(* The work of the pool *)

LEMMA JobNext ==
  ASSUME TypeOK, FuncInv, ReadInv, CommandInv, JobInv, [Next]_vars
  PROVE  JobInv'
<1>0. /\ source \in [Paths -> Contents \cup {Absent}] /\ job \in [Paths -> JobTypes]
      /\ snapshot \in [Paths -> Contents \cup {Absent}] /\ inventory.ids \subseteq Ids
      /\ disturbed \subseteq disturbed'
  BY Kinds, Moves DEF Edit
<1>1. ASSUME pc' \in Before, NEW p \in Paths PROVE job'[p].at = "idle"
  <2>1. CASE Return \/ Abort
    BY <2>1 DEF Return, Abort, Idle
  <2>2. CASE Work(p)
    BY <1>1, <2>2, WorkMoves DEF Before
  <2>3. ASSUME ~(Return \/ Abort) PROVE pc \in Before /\ UNCHANGED job
    <3>1. CASE Commands
      BY <3>1 DEF Commands, StartScan, StartExtract, StartVerify, StartReport, Begin, Before
    <3>2. CASE Scan
      BY <3>2 DEF Scan, Probe, WriteCsv, WriteDuplicates, Before
    <3>3. CASE Extract
      <4>1. ~\E q \in Paths : Work(q)
        BY <1>1, WorkMoves DEF Before
      <4> QED BY <1>1, <3>3, <4>1 DEF Extract, StartWork, Drain, CleanUp, WriteState, Before
    <3>4. CASE Finish
      BY <1>1, <2>3, <3>4 DEF Finish, WriteIndex, Finalize, Verify, WriteReport, Before
    <3>5. CASE World
      BY <1>1, <2>3, <3>5 DEF World, Edit, Lose
    <3>6. CASE UNCHANGED vars
      BY <1>1, <3>6 DEF vars
    <3> QED BY <3>1, <3>2, <3>3, <3>4, <3>5, <3>6 DEF Next
  <2> QED BY <2>1, <2>3 DEF JobInv
<1>2. ASSUME NEW p \in Paths
      PROVE  /\ job'[p].at # "idle" => p \in Listed'
             /\ job'[p].at = "todo" => job'[p].content = {}
             /\ job'[p].at \in Holding => Read(p)'
  <2>1. CASE Probe
    BY <1>1, <2>1 DEF Probe, Before, Holding
  <2>2. CASE UNCHANGED inventory /\ UNCHANGED job
    <3>1. Listed' = Listed /\ Id(p)' = Id(p)
      BY <2>2, SameIds
    <3> QED BY <1>0, <2>2, <3>1 DEF JobInv, Read
  <2>3. CASE UNCHANGED inventory /\ StartWork
    <3>1. Listed' = Listed /\ Id(p)' = Id(p)
      BY <2>3, SameIds
    <3> QED BY <2>3, <3>1 DEF StartWork, Idle, Holding
  <2>4. ASSUME UNCHANGED inventory, NEW q \in Paths, Work(q)
        PROVE  /\ job'[p].at # "idle" => p \in Listed'
               /\ job'[p].at = "todo" => job'[p].content = {}
               /\ job'[p].at \in Holding => Read(p)'
    <3>1. /\ Listed' = Listed /\ Id(p)' = Id(p) /\ q \in Listed /\ pc = "work"
          /\ Id(q) \in inventory.ids /\ Id(q) \in Ids /\ Id(q)[1] = q
      BY <2>4, SameIds, WorkMoves
    <3>2. CASE Render(q)
      <4>1. PICK at \in {"rendering", "rendered"} :
              job' = [job EXCEPT ![q] = [at |-> at, content |-> job[q].content \cup {source[q]}]]
        BY <1>0, <3>2 DEF Render
      <4>2. CASE p = q
        <5>1. job'[q].at = at /\ job'[q].content = job[q].content \cup {source[q]}
          BY <1>0, <4>1
        <5>2. ASSUME Id(q) \notin disturbed PROVE job'[q].content = {Id(q)[2]}
          <6>1. Id(q) \in Found(snapshot)
            BY <3>1 DEF ReadInv, CommandInv, Running
          <6>2. snapshot[q] = Id(q)[2] /\ snapshot[q] # Absent /\ Id(q) = <<q, snapshot[q]>>
            BY <1>0, <3>1, <6>1, FoundIds, Basics
          <6>3. Reading(q)
            BY <3>1, <3>2, <6>2 DEF Reading, Render, ReadInv
          <6>4. source[q] = Id(q)[2]
            BY <5>2, <6>2, <6>3 DEF ReadInv
          <6>5. job[q].content \subseteq {Id(q)[2]}
            BY <3>2, <5>2 DEF Render, JobInv, Holding, Read
          <6> QED BY <5>1, <6>4, <6>5
        <5> QED BY <1>0, <3>1, <4>2, <5>1, <5>2 DEF Read
      <4>3. CASE p # q
        <5>1. job'[p] = job[p]
          BY <1>0, <4>1, <4>3
        <5> QED BY <1>0, <3>1, <5>1 DEF JobInv, Read
      <4> QED BY <4>2, <4>3
    <3>3. CASE ~Render(q)
      <4>1. PICK to \in {"removed", "framed", "done", "failed"} : At(q, to) /\ (to # "failed" => job[q].at \in Holding)
        BY <2>4, <3>3 DEF Work, RemoveOld, PlaceFrames, PlaceSheet, WorkFails, Holding
      <4>2. job'[q].at = to /\ job'[q].content = job[q].content /\ \A r \in Paths \ {q} : job'[r] = job[r]
        BY <4>1, JobMoves
      <4> QED BY <1>0, <3>1, <4>1, <4>2 DEF JobInv, Holding, Read
    <3> QED BY <3>2, <3>3
  <2>5. CASE Return \/ Abort
    BY <2>5 DEF Return, Abort, Idle, Holding
  <2> QED BY <2>1, <2>2, <2>3, <2>4, <2>5, Moves
<1> QED BY <1>1, <1>2 DEF JobInv

-----------------------------------------------------------------------------
(* The second snapshot *)

LEMMA CheckedNext ==
  ASSUME TypeOK, FuncInv, SoundInv, ReadInv, JobInv, CheckedInv, [Next]_vars
  PROVE  CheckedInv'
<1> SUFFICES ASSUME pc' = "verify", integrity' = "PASS", NEW i \in Found(snapshot)', i \notin restored' PROVE Sound(i)'
  BY DEF CheckedInv
<1> USE DEF lists, outputs, results, bounds
<1>0. snapshot \in [Paths -> Contents \cup {Absent}] /\ restored \subseteq restored'
  BY Kinds, Moves DEF Edit
<1>1. CASE Finalize
  <2>1. snapshot' = snapshot /\ source = snapshot /\ UNCHANGED <<keyframes, sheets, state, restored>>
    BY <1>1 DEF Finalize, Untouched
  <2>2. i \in Ids /\ source[i[1]] = i[2]
    BY <1>0, <2>1, FoundIds DEF Found
  <2>3. i \notin disturbed
    BY <2>1, <2>2 DEF ReadInv
  <2> QED BY <2>1, <2>2, <2>3 DEF SoundInv, Sound
<1>2. ASSUME ~Finalize, ~\E j \in Ids : Lose(j)
      PROVE  UNCHANGED <<pc, integrity, snapshot, keyframes, sheets, state>>
  <2>1. CASE Commands
    BY <2>1 DEF Commands, StartScan, StartExtract, StartVerify, StartReport, Begin
  <2>2. CASE Scan
    BY <2>2 DEF Scan, Probe, WriteCsv, WriteDuplicates
  <2>3. CASE Extract
    <3>1. ~\E q \in Paths : Work(q)
      BY WorkMoves
    <3> QED BY <2>3, <3>1 DEF Extract, StartWork, Drain, CleanUp, WriteState
  <2>4. CASE Finish
    BY <1>2, <2>4 DEF Finish, WriteIndex, Verify, WriteReport, Return
  <2>5. CASE World
    BY <1>2, <2>5 DEF World, Edit, Abort
  <2>6. CASE UNCHANGED vars
    BY <2>6 DEF vars
  <2> QED BY <2>1, <2>2, <2>3, <2>4, <2>5, <2>6 DEF Next
<1>3. CASE UNCHANGED <<pc, integrity, snapshot, keyframes, sheets, state>>
  BY <1>0, <1>3 DEF CheckedInv, Found, Sound
<1>4. ASSUME NEW j \in Ids, Lose(j) PROVE Sound(i)'
  <2>1. pc = "verify" /\ integrity = "PASS" /\ snapshot' = snapshot /\ state' = state
    BY <1>4 DEF Lose
  <2>2. i \in Found(snapshot) /\ i \in Ids /\ i \notin restored
    BY <1>0, <2>1, FoundIds DEF Found
  <2>3. Sound(i) /\ keyframes'[i] \in {keyframes[i], {}} /\ sheets'[i] \in {sheets[i], {}}
    BY <1>4, <2>1, <2>2, Kinds DEF CheckedInv, Lose
  <2> QED BY <2>1, <2>3 DEF Sound
<1> QED BY <1>1, <1>2, <1>3, <1>4

-----------------------------------------------------------------------------
(* The stages of all and extract *)

LEMMA CommandNext ==
  ASSUME TypeOK, FuncInv, JobInv, CommandInv, [Next]_vars
  PROVE  CommandInv'
<1> SUFFICES ASSUME command' \in {"all", "extract"} PROVE CommandInv'
  BY DEF CommandInv
<1> USE DEF lists, outputs, results, bounds
<1>1. CASE Commands
  <2>1. CASE \E c \in {"scan", "all"} : StartScan(c)
    BY <2>1 DEF StartScan, Begin, CommandInv, Running
  <2>2. CASE StartExtract
    <3>1. inventory' = inventory /\ snapshot' = source /\ pc' \in {"extract", "failed"}
          /\ (pc' = "extract" => inventory.ids = Found(source) /\ inventory.failed = {})
      BY <2>2 DEF StartExtract, Begin
    <3>2. Found(snapshot)' = Found(source)
      BY <3>1 DEF Found
    <3> QED BY <3>1, <3>2 DEF CommandInv, Running
  <2>3. CASE StartVerify \/ StartReport
    BY <2>3 DEF StartVerify, StartReport, Begin
  <2> QED BY <1>1, <2>1, <2>2, <2>3 DEF Commands
<1>2. CASE Probe
  BY <1>2 DEF Probe, CommandInv, Found, Running
<1>3. ASSUME UNCHANGED <<inventory, snapshot, index, keyframes, sheets, state, command>>
      PROVE  (\/ pc' = pc \/ WriteCsv \/ WriteDuplicates \/ StartWork \/ Drain
              \/ Finalize \/ Verify \/ WriteReport) => CommandInv'
  <2>0. Found(snapshot)' = Found(snapshot)
    BY <1>3 DEF Found
  <2>1. CASE pc' = pc
    BY <1>3, <2>0, <2>1 DEF CommandInv
  <2>2. CASE WriteCsv \/ WriteDuplicates
    BY <1>3, <2>0, <2>2 DEF CommandInv, WriteCsv, WriteDuplicates, Running
  <2>3. CASE StartWork \/ Drain
    BY <1>3, <2>0, <2>3 DEF CommandInv, StartWork, Drain, Running
  <2>4. CASE Finalize \/ Verify \/ WriteReport
    BY <1>3, <2>0, <2>4 DEF CommandInv, Finalize, Verify, WriteReport, Running
  <2> QED BY <2>1, <2>2, <2>3, <2>4
<1>4. CASE WriteCsv \/ WriteDuplicates \/ StartWork \/ Drain \/ Finalize \/ Verify \/ WriteReport
  <2>1. UNCHANGED <<inventory, snapshot, index, keyframes, sheets, state, command>>
    BY <1>4 DEF WriteCsv, WriteDuplicates, StartWork, Drain, Finalize, Verify, WriteReport
  <2> QED BY <1>3, <1>4, <2>1
<1>5. ASSUME NEW p \in Paths, Work(p) PROVE CommandInv'
  <2>1. pc = "work" /\ UNCHANGED <<pc, inventory, snapshot, command>>
    BY <1>5, WorkMoves
  <2> QED BY <2>1 DEF CommandInv, Running, Found
<1>6. CASE CleanUp
  BY <1>6 DEF CommandInv, CleanUp, Running, Found
<1>7. CASE WriteState
  <2>1. \A i \in Ids \ inventory.ids : state'[i] = Nothing
    BY <1>7 DEF WriteState
  <2> QED BY <1>7, <2>1 DEF CommandInv, WriteState, Running, Found
<1>8. CASE WriteIndex
  <2>1. index'.ids = inventory.ids
    BY <1>8 DEF WriteIndex
  <2> QED BY <1>8, <2>1 DEF CommandInv, WriteIndex, Running, Found
<1>9. ASSUME NEW j \in Ids, Lose(j) PROVE CommandInv'
  <2>1. \A i \in Ids : keyframes'[i] \in {keyframes[i], {}} /\ sheets'[i] \in {sheets[i], {}}
    BY <1>9, Kinds DEF Lose
  <2>2. UNCHANGED <<pc, inventory, snapshot, index, state, command>>
    BY <1>9 DEF Lose
  <2> QED BY <2>1, <2>2 DEF CommandInv, Found
<1>10. CASE (\E p \in Paths : Edit(p)) \/ UNCHANGED vars
  <2>1. UNCHANGED <<pc, inventory, snapshot, index, keyframes, sheets, state, command>>
    BY <1>10 DEF Edit, vars
  <2> QED BY <1>3, <2>1
<1>11. CASE Return \/ Abort
  BY <1>11 DEF Return, Abort
<1> QED BY <1>1, <1>2, <1>4, <1>5, <1>6, <1>7, <1>8, <1>9, <1>10, <1>11 DEF Next, Scan, Extract, Finish, World

-----------------------------------------------------------------------------
(* The documents while no command is cut off *)

LEMMA NoGroups == Groups({}) = {}
<1>1. \A c \in Contents : {i \in {} : i[2] = c} = {}
  OBVIOUS
<1> QED BY <1>1, FS_EmptySet DEF Groups

LEMMA AlignedNext == ASSUME TypeOK, FuncInv, JobInv, AlignedInv, [Next]_vars PROVE AlignedInv'
<1> SUFFICES ASSUME aborts' = 0 PROVE AlignedInv'
  BY DEF AlignedInv
<1> USE DEF lists, outputs, results, bounds
<1>1. CASE Abort
  BY <1>1, Kinds DEF Abort
<1>2. CASE Probe
  BY <1>2 DEF Probe, AlignedInv
<1>3. CASE WriteDuplicates
  <2>1. Groups(inventory.ids)' = Groups(inventory.ids)
    BY <1>3 DEF WriteDuplicates, Groups
  <2>2. duplicates'.groups = Groups(inventory.ids)
    BY <1>3 DEF WriteDuplicates
  <2> QED BY <1>3, <2>1, <2>2 DEF WriteDuplicates, AlignedInv
<1>4. CASE WriteIndex
  <2>1. Groups(inventory.ids)' = Groups(inventory.ids)
    BY <1>4 DEF WriteIndex, Groups
  <2>2. duplicates.known => duplicates.groups = Groups(inventory.ids)
    BY <1>4 DEF WriteIndex, AlignedInv
  <2>3. index'.ids = inventory.ids /\ index'.groups = Groups(inventory.ids)
    BY <1>4, <2>2 DEF WriteIndex
  <2> QED BY <1>4, <2>1, <2>2, <2>3 DEF WriteIndex, AlignedInv
<1>5. ASSUME UNCHANGED <<inventory, duplicates, index, aborts>>,
             pc' \notin {"csv", "duplicates", "extract", "work", "orphans", "state", "index"}
               => pc \notin {"csv", "duplicates", "extract", "work", "orphans", "state", "index"},
             pc' \notin {"csv", "duplicates"} => pc \notin {"csv", "duplicates"}
      PROVE  AlignedInv'
  <2>1. Groups(inventory.ids)' = Groups(inventory.ids)
    BY <1>5 DEF Groups
  <2> QED BY <1>5, <2>1 DEF AlignedInv
<1>6. CASE Commands
  BY <1>5, <1>6 DEF Commands, StartScan, StartExtract, StartVerify, StartReport, Begin
<1>7. CASE WriteCsv
  BY <1>5, <1>7 DEF WriteCsv
<1>8. CASE StartWork \/ Drain \/ CleanUp \/ WriteState
  BY <1>5, <1>8 DEF StartWork, Drain, CleanUp, WriteState
<1>9. ASSUME NEW p \in Paths, Work(p) PROVE AlignedInv'
  BY <1>5, <1>9, WorkMoves
<1>10. CASE Finalize \/ Verify \/ WriteReport \/ Return
  BY <1>5, <1>10 DEF Finalize, Verify, WriteReport, Return
<1>11. CASE (\E p \in Paths : Edit(p)) \/ (\E i \in Ids : Lose(i)) \/ UNCHANGED vars
  BY <1>5, <1>11 DEF Edit, Lose, vars
<1> QED BY <1>1, <1>2, <1>3, <1>4, <1>6, <1>7, <1>8, <1>9, <1>10, <1>11 DEF Next, Scan, Extract, Finish, World

-----------------------------------------------------------------------------
(* all that nothing disturbs *)

\* What all has prepared passes the verification.
LEMMA CalmVerified ==
  ASSUME TypeOK, CommandInv, CalmInv, calm, command = "all", pc = "verify"
  PROVE  Verified
<1>1. /\ inventory.known /\ inventory.failed = {} /\ csv = inventory.ids /\ duplicates.known
      /\ integrity = "PASS" /\ index.ids = inventory.ids
      /\ \A i \in inventory.ids : Current(i)
  BY DEF CalmInv, CommandInv
<1>2. {i \in index.ids : keyframes[i] # {}} = inventory.ids
  BY <1>1 DEF Current
<1>3. {i \in index.ids : sheets[i] # {}} = inventory.ids
  BY <1>1 DEF Current
<1>4. {i \in Ids : state[i] # Nothing} = inventory.ids
  <2>1. \A i \in Ids \ inventory.ids : state[i] = Nothing
    BY DEF CommandInv
  <2> QED BY <1>1, <2>1, Kinds DEF Current
<1> QED BY <1>1, <1>2, <1>3, <1>4 DEF Verified

\* What the pool does with one video leaves the others ready, and this one too.
LEMMA ReadyNext ==
  ASSUME TypeOK, FuncInv, JobInv, NEW p \in Paths, Work(p), NEW q \in Listed, \A r \in Listed : Ready(r)
  PROVE  Ready(q)'
<1>0. /\ keyframes \in [Ids -> SUBSET Contents] /\ sheets \in [Ids -> SUBSET Contents]
      /\ job \in [Paths -> JobTypes]
  BY Kinds
<1>1. /\ p \in Listed /\ Id(p) \in Ids /\ q \in Paths /\ Id(q) \in Ids /\ Id(p)' = Id(p) /\ Id(q)' = Id(q)
      /\ (p # q => Id(p) # Id(q)) /\ UNCHANGED <<inventory, state>>
  BY WorkMoves, IdOf, SameIds DEF lists
<1>2. CASE p # q
  <2>1. job'[q] = job[q]
    <3>1. CASE Render(p)
      BY <1>0, <1>1, <1>2, <3>1 DEF Render
    <3>2. CASE ~Render(p)
      <4>1. PICK to \in {"removed", "framed", "done", "failed"} : At(p, to)
        BY <3>2 DEF Work, RemoveOld, PlaceFrames, PlaceSheet, WorkFails
      <4> QED BY <1>1, <1>2, <4>1, JobMoves
    <3> QED BY <3>1, <3>2
  <2>2. keyframes'[Id(q)] = keyframes[Id(q)] /\ sheets'[Id(q)] = sheets[Id(q)]
    BY <1>0, <1>1, <1>2, WorkMoves
  <2> QED BY <1>1, <2>1, <2>2 DEF Ready, Current
<1>3. CASE p = q
  <2>1. CASE Render(p)
    BY <1>0, <1>1, <1>3, <2>1 DEF Render, Ready
  <2>2. CASE RemoveOld(p)
    <3>1. job'[p].at = "removed"
      BY <2>2, JobMoves DEF RemoveOld
    <3> QED BY <1>3, <3>1 DEF Ready
  <2>3. CASE PlaceFrames(p)
    <3>1. job'[p].at = "framed" /\ job'[p].content = job[p].content
      BY <2>3, JobMoves DEF PlaceFrames
    <3>2. keyframes'[Id(p)] = job[p].content
      BY <1>0, <1>1, <2>3 DEF PlaceFrames
    <3> QED BY <1>1, <1>3, <3>1, <3>2 DEF Ready
  <2>4. CASE PlaceSheet(p)
    <3>1. job'[p].at \in {"done", "failed"} /\ job'[p].content = job[p].content
      BY <2>4, JobMoves DEF PlaceSheet
    <3>2. keyframes'[Id(p)] = job[p].content /\ sheets'[Id(p)] = job[p].content
      BY <1>0, <1>1, <2>4 DEF PlaceSheet, Ready
    <3> QED BY <1>1, <1>3, <3>1, <3>2 DEF Ready
  <2>5. CASE WorkFails(p)
    <3>1. job'[p].at = "failed"
      BY <2>5, JobMoves DEF WorkFails
    <3> QED BY <1>3, <3>1 DEF Ready
  <2> QED BY <2>1, <2>2, <2>3, <2>4, <2>5 DEF Work
<1> QED BY <1>2, <1>3

LEMMA CalmNext ==
  ASSUME TypeOK, FuncInv, JobInv, CommandInv, CalmInv, [Next]_vars
  PROVE  CalmInv'
<1> SUFFICES ASSUME calm', command' = "all" PROVE CalmInv'
  BY DEF CalmInv
<1> USE DEF lists, outputs, results, bounds
<1>1. CASE Commands
  <2>1. StartScan("all")
    BY <1>1 DEF Commands, StartScan, StartExtract, StartVerify, StartReport, Begin
  <2>2. \A p \in Paths : job[p].at = "idle"
    BY <2>1 DEF StartScan, Begin, JobInv, Before
  <2> QED BY <2>1, <2>2 DEF StartScan, Begin, CalmInv
<1>2. CASE Return \/ Abort \/ (\E p \in Paths : Edit(p)) \/ (\E i \in Ids : Lose(i))
  BY <1>2 DEF Return, Abort, Edit, Lose
<1>3. ASSUME ~Commands, ~(Return \/ Abort \/ (\E p \in Paths : Edit(p)) \/ (\E i \in Ids : Lose(i)))
      PROVE  calm /\ command = "all" /\ UNCHANGED <<source, snapshot, command>>
  <2>1. CASE Scan
    BY <2>1 DEF Scan, Probe, WriteCsv, WriteDuplicates
  <2>2. ASSUME NEW p \in Paths, Work(p) PROVE calm /\ command = "all" /\ UNCHANGED <<source, snapshot, command>>
    BY <2>2 DEF Work, Render, RemoveOld, PlaceFrames, PlaceSheet, WorkFails
  <2>3. CASE StartWork \/ Drain \/ CleanUp \/ WriteState
    BY <2>3 DEF StartWork, Drain, CleanUp, WriteState
  <2>4. CASE Finish
    BY <1>3, <2>4 DEF Finish, WriteIndex, Finalize, Verify, WriteReport
  <2>5. CASE UNCHANGED vars
    BY <2>5 DEF vars
  <2> QED BY <1>3, <2>1, <2>2, <2>3, <2>4, <2>5 DEF Next, Extract, World
<1>4. ASSUME calm, command = "all", UNCHANGED <<source, snapshot, command>>,
             ~Commands, ~(Return \/ Abort \/ (\E p \in Paths : Edit(p)) \/ (\E i \in Ids : Lose(i)))
      PROVE  CalmInv'
  <2>0. /\ source = snapshot /\ (\A p \in Paths : job[p].at # "failed") /\ pc # "failed"
        /\ pc # "probe" => inventory.known /\ inventory.failed = {} /\ inventory.ids = Found(snapshot)
    BY <1>4 DEF CalmInv
  <2>1. Found(snapshot)' = Found(snapshot)
    BY <1>4 DEF Found
  <2>2. CASE Probe
    <3>1. PICK failed : /\ inventory' = [known |-> TRUE, failed |-> failed,
                                         ids |-> {i \in Found(snapshot) : i[1] \notin failed}]
                        /\ failed = {}
      BY <2>2 DEF Probe
    <3>2. inventory'.known /\ inventory'.failed = {} /\ inventory'.ids = Found(snapshot)
      BY <3>1
    <3> QED BY <1>4, <2>0, <2>1, <2>2, <3>2 DEF Probe, CalmInv
  <2>3. CASE WriteCsv
    BY <1>4, <2>0, <2>1, <2>3 DEF WriteCsv, CalmInv
  <2>4. CASE WriteDuplicates
    BY <1>4, <2>0, <2>1, <2>4 DEF WriteDuplicates, CalmInv
  <2>5. CASE StartWork
    <3>1. Listed' = Listed /\ \A p \in Paths : Id(p)' = Id(p)
      BY <2>5, SameIds DEF StartWork
    <3>2. \A p \in Paths : job'[p].at # "failed"
      BY <2>5 DEF StartWork, Idle
    <3>3. ASSUME NEW p \in Listed PROVE Ready(p)'
      <4>1. p \in Paths /\ Id(p)' = Id(p) /\ (job'[p].at = "reused" => Current(Id(p))) /\ job'[p].at \in {"reused", "todo"}
        BY <2>5, <3>1, IdOf DEF StartWork
      <4>2. UNCHANGED <<keyframes, sheets, state>>
        BY <2>5 DEF StartWork
      <4> QED BY <4>1, <4>2 DEF Ready, Current
    <3> QED BY <1>4, <2>0, <2>1, <2>5, <3>1, <3>2, <3>3 DEF StartWork, CalmInv
  <2>6. ASSUME NEW p \in Paths, Work(p) PROVE CalmInv'
    <3>1. Listed' = Listed /\ pc = "work" /\ UNCHANGED <<pc, inventory, csv, duplicates>>
      BY <2>6, WorkMoves, SameIds
    <3>2. \A q \in Listed : Ready(q)'
      BY <1>4, <2>6, <3>1, ReadyNext DEF CalmInv
    <3>3. ASSUME NEW q \in Paths PROVE job'[q].at # "failed"
      <4>1. p \in Listed /\ Id(p) \in Ids /\ job \in [Paths -> JobTypes]
        BY <2>6, WorkMoves, Kinds
      <4>2. CASE Render(p)
        BY <2>0, <4>1, <4>2 DEF Render
      <4>3. CASE RemoveOld(p) \/ PlaceFrames(p)
        BY <2>0, <4>3, JobMoves DEF RemoveOld, PlaceFrames
      <4>4. CASE PlaceSheet(p)
        <5>1. keyframes[Id(p)] = job[p].content /\ job[p].content # {}
          BY <1>4, <3>1, <4>1, <4>4 DEF PlaceSheet, CalmInv, Ready, JobInv, Holding, Read
        <5>2. At(p, "done")
          BY <4>4, <5>1 DEF PlaceSheet
        <5> QED BY <2>0, <5>2, JobMoves
      <4>5. CASE WorkFails(p)
        BY <4>5 DEF WorkFails
      <4> QED BY <2>6, <4>2, <4>3, <4>4, <4>5 DEF Work
    <3> QED BY <1>4, <2>0, <2>1, <3>1, <3>2, <3>3 DEF CalmInv
  <2>7. CASE Drain
    <3>1. Listed' = Listed /\ \A p \in Paths : Id(p)' = Id(p)
      BY <2>7, SameIds DEF Drain
    <3>2. ASSUME NEW p \in Listed PROVE Ready(p)' /\ job[p].at \in {"reused", "done"}
      <4>1. Ready(p) /\ p \in Paths /\ job[p].at \in {"reused", "done", "failed"}
        BY <1>4, <2>7, IdOf DEF Drain, CalmInv
      <4> QED BY <2>0, <2>7, <3>1, <4>1 DEF Ready, Current, Drain
    <3> QED BY <1>4, <2>0, <2>1, <2>7, <3>1, <3>2 DEF Drain, CalmInv
  <2>8. CASE CleanUp
    <3>1. Listed' = Listed /\ \A p \in Paths : Id(p)' = Id(p)
      BY <2>8, SameIds DEF CleanUp
    <3>2. ASSUME NEW p \in Listed PROVE Ready(p)' /\ job[p].at \in {"reused", "done"}
      <4>1. Ready(p) /\ p \in Paths /\ job[p].at \in {"reused", "done"} /\ Id(p) \in inventory.ids /\ Id(p) \in Ids
        BY <1>4, <2>8, IdOf DEF CleanUp, CalmInv
      <4>2. keyframes'[Id(p)] = keyframes[Id(p)] /\ sheets'[Id(p)] = sheets[Id(p)] /\ state' = state /\ job' = job
        BY <2>8, <4>1 DEF CleanUp
      <4> QED BY <3>1, <4>1, <4>2 DEF Ready, Current
    <3> QED BY <1>4, <2>0, <2>1, <2>8, <3>1, <3>2 DEF CleanUp, CalmInv
  <2>9. CASE WriteState
    <3>1. ASSUME NEW i \in inventory.ids PROVE Current(i)'
      <4>1. i \in Ids /\ i[1] \in Listed /\ i[1] \in Paths /\ Id(i[1]) = i
        BY IdOf, Basics
      <4>2. Ready(i[1]) /\ job[i[1]].at \in {"reused", "done"}
        BY <1>4, <2>9, <4>1 DEF WriteState, CalmInv
      <4>3. UNCHANGED <<keyframes, sheets>>
        BY <2>9 DEF WriteState
      <4>4. CASE job[i[1]].at = "done"
        <5>1. job[i[1]].content # {}
          BY <4>1, <4>4 DEF JobInv, Holding, Read
        <5>2. state'[i] = [frames |-> job[i[1]].content, sheet |-> job[i[1]].content]
          BY <2>9, <4>1, <4>4 DEF WriteState
        <5>3. keyframes[i] = job[i[1]].content /\ sheets[i] = job[i[1]].content
          BY <4>1, <4>2, <4>4 DEF Ready
        <5> QED BY <4>3, <5>1, <5>2, <5>3 DEF Current, Nothing
      <4>5. CASE job[i[1]].at = "reused"
        <5>1. state'[i] = state[i]
          BY <2>9, <4>1, <4>5 DEF WriteState
        <5> QED BY <4>1, <4>2, <4>3, <4>5, <5>1 DEF Current, Ready
      <4> QED BY <4>2, <4>4, <4>5
    <3> QED BY <1>4, <2>0, <2>1, <2>9, <3>1 DEF WriteState, CalmInv
  <2>10. CASE WriteIndex
    BY <1>4, <2>0, <2>1, <2>10 DEF WriteIndex, CalmInv, Current
  <2>11. CASE Finalize
    BY <1>4, <2>0, <2>1, <2>11 DEF Finalize, Untouched, CalmInv, Current
  <2>12. CASE Verify
    <3>1. Verified
      BY <1>4, <2>12, CalmVerified DEF Verify
    <3> QED BY <1>4, <2>0, <2>1, <2>12, <3>1 DEF Verify, CalmInv
  <2>13. CASE WriteReport
    <3>1. Errors = {} /\ verification = "PASS"
      BY <1>4, <2>0, <2>13 DEF WriteReport, CalmInv, Errors
    <3> QED BY <1>4, <2>0, <2>1, <2>13, <3>1 DEF WriteReport, CalmInv
  <2>14. CASE UNCHANGED vars
    <3>1. Listed' = Listed /\ \A p \in Paths : Id(p)' = Id(p)
      BY <2>14, SameIds DEF vars
    <3>2. \A p \in Listed : Ready(p) => Ready(p)'
      BY <2>14, <3>1, IdOf DEF Ready, Current, vars
    <3> QED BY <1>4, <2>0, <2>1, <2>14, <3>1, <3>2 DEF vars, CalmInv, Current
  <2> QED BY <1>4, <2>2, <2>3, <2>4, <2>5, <2>6, <2>7, <2>8, <2>9, <2>10, <2>11, <2>12, <2>13, <2>14
          DEF Next, Scan, Extract, Finish, World
<1> QED BY <1>1, <1>2, <1>3, <1>4

-----------------------------------------------------------------------------
(* The invariant *)

LEMMA InitInv == Init => IInv
<1> SUFFICES ASSUME Init PROVE IInv
  OBVIOUS
<1>1. TypeOK /\ FuncInv
  BY TypeInit DEF Init, FuncInv
<1>2. ReadInv
  BY DEF Init, ReadInv, Reading
<1>3. SoundInv
  BY DEF Init, SoundInv, Sound
<1>4. JobInv /\ CheckedInv
  BY DEF Init, JobInv, Idle, Holding, CheckedInv
<1>5. CommandInv /\ CalmInv
  BY DEF Init, CommandInv, CalmInv
<1>6. AlignedInv
  BY NoGroups DEF Init, AlignedInv
<1> QED BY <1>1, <1>2, <1>3, <1>4, <1>5, <1>6 DEF IInv

LEMMA StepInv == IInv /\ [Next]_vars => IInv'
<1> SUFFICES ASSUME IInv, [Next]_vars PROVE IInv'
  OBVIOUS
<1> QED BY TypeNext, FuncNext, SoundNext, ReadNext, JobNext, CheckedNext, CommandNext, AlignedNext, CalmNext
        DEF IInv

LEMMA Invariant == Spec => []IInv
BY InitInv, StepInv, PTL DEF Spec

\* Every reachable state is well typed.
THEOREM TypeCorrect == Spec => []TypeOK
<1>1. IInv => TypeOK
  BY DEF IInv
<1> QED BY <1>1, Invariant, PTL

\* all that nothing disturbs passes, whatever earlier commands left behind: outputs
\* and hashes of other videos, or half of the documents.
THEOREM CalmPasses == Spec => []CalmAllPasses
<1>1. IInv => CalmAllPasses
  BY DEF IInv, CalmInv, CalmAllPasses
<1> QED BY <1>1, Invariant, PTL

\* Outputs and hashes of a video are of the content its source has, unless that was
\* replaced while a run had yet to read it, and came back: what else extract skips
\* as current is never stale, although threads read sources that change.
NotStale == \A i \in Ids \ restored : source[i[1]] = i[2] => Sound(i)

THEOREM NeverStale == Spec => []NotStale
<1>1. IInv => NotStale
  BY DEF IInv, SoundInv, ReadInv, NotStale
<1> QED BY <1>1, Invariant, PTL

-----------------------------------------------------------------------------
(* What a passing verification says *)

LEMMA FiniteIds == ASSUME TypeOK PROVE IsFiniteSet(inventory.ids) /\ IsFiniteSet(index.ids)
<1>1. IsFiniteSet(Contents)
  BY BoundsAssumption, FS_Interval DEF Contents
<1>2. IsFiniteSet(Ids)
  BY <1>1, PathsAssumption, FS_Product DEF Ids
<1> QED BY <1>2, Kinds, FS_Subset

\* If the index has the videos of the inventory, each of them has its outputs:
\* the numbers agree.
LEMMA OutputsCounted ==
  ASSUME TypeOK, Verified, index.ids = inventory.ids
  PROVE  \A i \in inventory.ids : keyframes[i] # {} /\ sheets[i] # {}
<1>1. {i \in index.ids : keyframes[i] # {}} = inventory.ids
  BY FiniteIds, FS_Subset DEF Verified
<1>2. {i \in index.ids : sheets[i] # {}} = inventory.ids
  BY FiniteIds, FS_Subset DEF Verified
<1> QED BY <1>1, <1>2

\* Outputs that are there are those of the snapshot.
LEMMA PassPrepares ==
  ASSUME IInv, Verify, verification' = "PASS", index.ids = inventory.ids, inventory.ids = Found(snapshot)
  PROVE  Prepared
<1>1. pc = "verify" /\ Verified
  BY DEF Verify
<1>2. integrity = "PASS" /\ csv = inventory.ids
  BY <1>1 DEF Verified
<1>3. \A i \in inventory.ids : keyframes[i] # {} /\ sheets[i] # {}
  BY <1>1, OutputsCounted DEF IInv
<1>4. \A i \in inventory.ids \ restored : Sound(i)
  BY <1>1, <1>2 DEF IInv, CheckedInv
<1> QED BY <1>2, <1>3, <1>4 DEF Prepared, Sound

\* When all or extract verifies its outputs, they are those of the snapshot (for
\* sources that did not come back after they disturbed a run), their hashes are
\* recorded and no other outputs are left, although verify_outputs compares numbers
\* and the sources may change at any time.
THEOREM Vouches == Spec => VerifiedIsPrepared
<1>1. IInv /\ [Next]_vars
        => [Verify /\ verification' = "PASS" /\ command \in {"all", "extract"}
              => Prepared /\ Recorded /\ NoOrphans]_vars
  <2> SUFFICES ASSUME IInv, Verify, verification' = "PASS", command \in {"all", "extract"}
               PROVE  Prepared /\ Recorded /\ NoOrphans
    OBVIOUS
  <2>1. pc = "verify" /\ Verified
    BY DEF Verify
  <2>2. inventory.failed = {} /\ TypeOK /\ CommandInv
    BY <2>1 DEF Verified, IInv
  <2>3. index.ids = inventory.ids /\ inventory.ids = Found(snapshot)
    BY <2>1, <2>2 DEF CommandInv, Running
  <2>4. NoOrphans
    BY <2>1, <2>2 DEF CommandInv, NoOrphans
  <2>5. Recorded
    <3>1. {i \in Ids : state[i] # Nothing} \subseteq inventory.ids
      BY <2>4 DEF NoOrphans
    <3>2. {i \in Ids : state[i] # Nothing} = inventory.ids
      BY <2>1, <2>2, <3>1, FiniteIds, FS_Subset DEF Verified
    <3> QED BY <3>2 DEF Recorded
  <2> QED BY <2>3, <2>4, <2>5, PassPrepares
<1> QED BY <1>1, Invariant, PTL DEF Spec, VerifiedIsPrepared

\* verify and report say the same of the outputs if no command was ever cut off
\* and the inventory is of the snapshot; the hashes may be missing.
THEOREM VouchesLater == Spec => VerifyIsPrepared
<1>1. IInv /\ [Next]_vars
        => [Verify /\ verification' = "PASS" /\ aborts = 0 /\ inventory.ids = Found(snapshot)
              => Prepared /\ index.groups = Groups(inventory.ids)]_vars
  <2> SUFFICES ASSUME IInv, Verify, verification' = "PASS", aborts = 0, inventory.ids = Found(snapshot)
               PROVE  Prepared /\ index.groups = Groups(inventory.ids)
    OBVIOUS
  <2>1. index.ids = inventory.ids /\ index.groups = Groups(inventory.ids)
    BY DEF IInv, AlignedInv, Verify
  <2> QED BY <2>1, PassPrepares
<1> QED BY <1>1, Invariant, PTL DEF Spec, VerifyIsPrepared
=============================================================================
