--------------------------- MODULE MediaLifeProofs ---------------------------
(***************************************************************************)
(* Proofs about MediaLife, for any number of uploads, speakers, requests,  *)
(* schedulers, segments and deaths: a clean-up leaves no file behind whose *)
(* row it removed (OrphansFromWriters), and what the app was told of can   *)
(* be fetched until it expires or the cache has filled up                  *)
(* (AnnouncedIsServed).  The invariant counts files by their number only:  *)
(* a pruner whose list is longer than the cache takes a file that at least *)
(* Cap others followed, however old the list is.  Its types come last.     *)
(***************************************************************************)
EXTENDS MediaLife, FiniteSetTheorems, TLAPS

-----------------------------------------------------------------------------
SpeakerPcs == {"write", "commit", "announce", "list", "stat", "unlink", "done", "failed", "raised", "dead"}
SpeakerTypes == [pc : SpeakerPcs, left : Nat, mine : SUBSET Nat, seen : SUBSET Nat]
SchedulerTypes == [pc : {"asleep", "remove", "dead"}, batch : SUBSET (Posts \cup Nat)]

\* The part of TypeOK that the two invariants need; it bounds no counter.
ShapeInv ==
  /\ clipNo \in Nat /\ clips \subseteq 1..clipNo /\ announced \subseteq 1..clipNo
  /\ spk \in [Speakers -> SpeakerTypes]
  /\ \A s \in Speakers : spk[s].mine \subseteq 1..clipNo /\ spk[s].seen \subseteq 1..clipNo
  /\ \A s \in Speakers : spk[s].pc = "write" => spk[s].left > 0
  /\ sched \in [Schedulers -> SchedulerTypes]
  /\ \A s \in Schedulers : sched[s].batch \subseteq due
  /\ voices \subseteq Posts /\ due \subseteq Posts \cup Nat
  /\ post \in [Posts -> {"absent", "idle", "written", "accepted", "refused", "dead"}]

\* What a speaker has announced it no longer counts as its own; what it announces
\* it has committed.
SpeakerInv(s) ==
  /\ s \in Jobs /\ spk[s].pc \in {"write", "list", "stat", "unlink"} => spk[s].mine = {}
  /\ spk[s].pc \in {"announce", "list", "stat", "unlink"} => spk[s].mine \subseteq rows \cup due

\* A file that has not expired is there, or the cache has filled up since.
KeptInv == \A id \in (1..clipNo) \ due : id \in clips \/ clipNo - id >= Cap

IInv ==
  /\ ShapeInv
  /\ \A s \in Speakers : SpeakerInv(s)
  /\ announced \subseteq rows \cup due
  /\ KeptInv
  /\ OrphansFromWriters

LEMMA InitInv == Init => IInv
<1> SUFFICES ASSUME Init PROVE IInv
  OBVIOUS
<1> USE MediaAssumption DEF Init
<1>1. ShapeInv
  BY DEF ShapeInv, SpeakerTypes, SpeakerPcs, SchedulerTypes
<1>2. \A s \in Speakers : SpeakerInv(s)
  BY DEF SpeakerInv
<1>3. KeptInv /\ OrphansFromWriters
  BY DEF KeptInv, OrphansFromWriters
<1> QED BY <1>1, <1>2, <1>3 DEF IInv

-----------------------------------------------------------------------------
(* Recordings *)

LEMMA RecordKeeps ==
  ASSUME IInv, Record \/ Listen
  PROVE  IInv'
<1> USE DEF IInv, speechVars
<1>1. ASSUME NEW p \in Posts, Upload(p) \/ CommitUpload(p) \/ ApiDies(p) PROVE IInv'
  <2>1. ShapeInv'
    BY <1>1 DEF ShapeInv, Upload, CommitUpload, ApiDies
  <2>2. rows \subseteq rows' /\ due' = due
    BY <1>1 DEF Upload, CommitUpload, ApiDies
  <2>3. (\A s \in Speakers : SpeakerInv(s))' /\ KeptInv' /\ (announced \subseteq rows \cup due)'
    BY <1>1, <2>2 DEF SpeakerInv, KeptInv, Upload, CommitUpload, ApiDies
  <2>4. OrphansFromWriters'
    BY <1>1, <2>2 DEF OrphansFromWriters, ShapeInv, Upload, CommitUpload, ApiDies
  <2> QED BY <2>1, <2>3, <2>4
<1>2. CASE JobDies \/ Listen
  <2>1. ShapeInv'
    BY <1>2 DEF ShapeInv, JobDies, Listen, Hear, Heard
  <2>2. (\A s \in Speakers : SpeakerInv(s))' /\ KeptInv' /\ (announced \subseteq rows \cup due)'
    BY <1>2 DEF SpeakerInv, KeptInv, JobDies, Listen, Hear, Heard
  <2>3. OrphansFromWriters'
    BY <1>2 DEF OrphansFromWriters, JobDies, Listen, Hear, Heard
  <2> QED BY <2>1, <2>2, <2>3
<1> QED BY <1>1, <1>2 DEF Record

-----------------------------------------------------------------------------
(* Speech *)

\* What a step of speaker s leaves to the others.
LEMMA SpeechFrame ==
  ASSUME IInv, NEW s \in Speakers,
         Synthesize(s) \/ ProviderFails(s) \/ CommitSpeech(s) \/ Announce(s) \/ PruneList(s)
           \/ PruneStat(s) \/ PruneOldest(s) \/ Pruned(s) \/ SpeakerDies(s)
  PROVE  /\ UNCHANGED <<voiceVars, due, lease, sched>>
         /\ rows \subseteq rows'
         /\ \A u \in Speakers : u # s => spk'[u] = spk[u]
BY DEF IInv, ShapeInv, Synthesize, ProviderFails, CommitSpeech, Announce, PruneList, PruneStat,
       PruneOldest, Pruned, SpeakerDies, Goes, Raises, voiceVars

\* The invariant after a step of speaker s that writes no file: what is to show.
LEMMA SpeechKeeps ==
  ASSUME IInv, NEW s \in Speakers,
         Synthesize(s) \/ ProviderFails(s) \/ CommitSpeech(s) \/ Announce(s) \/ PruneList(s)
           \/ PruneStat(s) \/ PruneOldest(s) \/ Pruned(s) \/ SpeakerDies(s),
         clipNo' = clipNo, clips' \subseteq clips,
         spk' \in [Speakers -> SpeakerTypes],
         spk'[s].mine \subseteq spk[s].mine, spk'[s].seen \subseteq 1..clipNo,
         spk'[s].pc = "write" => spk'[s].left > 0,
         SpeakerInv(s)',
         announced' \subseteq (rows' \cup due) \cap (1..clipNo),
         \A id \in clips \ clips' : clipNo - id >= Cap,
         \A id \in spk[s].mine : spk[s].pc \in {"write", "commit", "failed", "dead"} =>
           \/ id \in rows'
           \/ id \in spk'[s].mine /\ spk'[s].pc \in {"write", "commit", "failed", "dead"}
  PROVE  IInv'
<1> USE SpeechFrame DEF IInv, voiceVars
<1>1. ShapeInv'
  <2>1. \A u \in Speakers : /\ spk'[u].mine \subseteq 1..clipNo /\ spk'[u].seen \subseteq 1..clipNo
                            /\ spk'[u].pc = "write" => spk'[u].left > 0
    BY DEF ShapeInv
  <2> QED BY <2>1 DEF ShapeInv
<1>2. ASSUME NEW u \in Speakers PROVE SpeakerInv(u)'
  <2>1. CASE u # s
    BY <2>1 DEF SpeakerInv
  <2> QED BY <2>1
<1>3. KeptInv'
  BY DEF KeptInv
<1>4. OrphansFromWriters'
  <2>1. \A p \in voices \ rows' : post[p] \in {"written", "refused", "dead"}
    BY DEF OrphansFromWriters
  <2>2. ASSUME NEW id \in clips \ rows'
        PROVE  \E u \in Speakers : id \in spk'[u].mine /\ spk'[u].pc \in {"write", "commit", "failed", "dead"}
    <3>1. PICK u \in Speakers : id \in spk[u].mine /\ spk[u].pc \in {"write", "commit", "failed", "dead"}
      BY <2>2 DEF OrphansFromWriters
    <3>2. CASE u = s
      BY <2>2, <3>1, <3>2
    <3>3. CASE u # s
      BY <3>1, <3>3
    <3> QED BY <3>2, <3>3
  <2> QED BY <2>1, <2>2 DEF OrphansFromWriters
<1> QED BY <1>1, <1>2, <1>3, <1>4

\* The list of a pruner that goes beyond the cache starts with a file that at
\* least Cap others followed.
LEMMA OldestIsOld ==
  ASSUME clipNo \in Nat, NEW seen \in SUBSET (1..clipNo), Cardinality(seen) > Cap,
         NEW oldest \in seen, \A other \in seen : oldest <= other
  PROVE  clipNo - oldest >= Cap
<1>1. Cap \in Nat /\ oldest \in Nat /\ oldest <= clipNo
  BY MediaAssumption
<1>2. IsFiniteSet(oldest..clipNo) /\ Cardinality(oldest..clipNo) = clipNo - oldest + 1
  BY <1>1, FS_Interval
<1>3. seen \subseteq oldest..clipNo
  BY <1>1
<1>4. Cardinality(seen) <= clipNo - oldest + 1 /\ IsFiniteSet(seen)
  BY <1>2, <1>3, FS_Subset
<1>5. Cardinality(seen) \in Nat
  BY <1>4, FS_CardinalityType
<1> QED BY <1>1, <1>4, <1>5

LEMMA SynthesizeKeeps ==
  ASSUME IInv, NEW s \in Speakers, Synthesize(s)
  PROVE  IInv'
<1> DEFINE n == clipNo + 1
           to == IF s \in Jobs \/ spk[s].left = 1 THEN "commit" ELSE "write"
<1>0. /\ UNCHANGED <<voiceVars, due, sched>> /\ rows' = rows /\ announced' = announced
      /\ \A u \in Speakers : u # s => spk'[u] = spk[u]
  BY SpeechFrame DEF Synthesize
<1>1. /\ clipNo' = n /\ clips' = clips \cup {n} /\ spk[s].pc = "write"
      /\ n \in Nat /\ clipNo \in Nat /\ spk[s].left > 0 /\ spk[s] \in SpeakerTypes
  BY DEF IInv, Synthesize, ShapeInv
<1>2. /\ spk'[s].pc = to /\ spk'[s].left = spk[s].left - 1 /\ spk'[s].mine = spk[s].mine \cup {n}
      /\ spk'[s].seen = spk[s].seen /\ spk' \in [Speakers -> SpeakerTypes]
  <2> DEFINE r == [spk[s] EXCEPT !.left = spk[s].left - 1, !.mine = spk[s].mine \cup {n}, !.pc = to]
  <2>1. /\ r.pc = to /\ r.left = spk[s].left - 1 /\ r.mine = spk[s].mine \cup {n}
        /\ r.seen = spk[s].seen
    BY <1>1 DEF SpeakerTypes
  <2>2. /\ to \in SpeakerPcs /\ spk[s].left - 1 \in Nat /\ spk[s].mine \cup {n} \in SUBSET Nat
        /\ spk[s].seen \in SUBSET Nat
    BY <1>1 DEF SpeakerTypes, SpeakerPcs
  <2>3. r \in SpeakerTypes
    BY <1>1, <2>2 DEF SpeakerTypes
  <2>4. spk' = [spk EXCEPT ![s] = r]
    BY <1>1 DEF Synthesize, IInv, ShapeInv, SpeakerTypes
  <2>5. spk'[s] = r /\ spk' \in [Speakers -> SpeakerTypes]
    BY <2>3, <2>4 DEF IInv, ShapeInv
  <2> QED BY <2>1, <2>5
<1>3. ShapeInv'
  <2>2. ASSUME NEW u \in Speakers
        PROVE  /\ spk'[u].mine \subseteq 1..n /\ spk'[u].seen \subseteq 1..n
               /\ spk'[u].pc = "write" => spk'[u].left > 0
    <3>1. spk[u].mine \subseteq 1..clipNo /\ spk[u].seen \subseteq 1..clipNo /\ 1..clipNo \subseteq 1..n
      BY <1>1 DEF IInv, ShapeInv
    <3>2. CASE u = s
      BY <1>1, <1>2, <3>1, <3>2 DEF SpeakerTypes
    <3>3. CASE u # s
      BY <1>0, <3>1, <3>3 DEF IInv, ShapeInv
    <3> QED BY <3>2, <3>3
  <2>3. (1..clipNo) \cup {n} \subseteq 1..n
    BY <1>1
  <2> QED BY <1>0, <1>1, <1>2, <2>2, <2>3 DEF IInv, ShapeInv, voiceVars
<1>4. ASSUME NEW u \in Speakers PROVE SpeakerInv(u)'
  <2>1. CASE u # s
    BY <1>0, <2>1 DEF IInv, SpeakerInv
  <2>2. CASE u = s
    BY <1>1, <1>2, <2>2 DEF SpeakerInv
  <2> QED BY <2>1, <2>2
<1>5. KeptInv'
  <2> SUFFICES ASSUME NEW id \in (1..n) \ due PROVE id \in clips' \/ n - id >= Cap
    BY <1>0, <1>1 DEF KeptInv
  <2>1. CASE id = n
    BY <1>1, <2>1
  <2>2. CASE id # n
    <3>1. id \in (1..clipNo) \ due /\ Cap \in Nat
      BY <1>1, <2>2, MediaAssumption
    <3> QED BY <1>1, <3>1 DEF IInv, KeptInv
  <2> QED BY <2>1, <2>2
<1>6. OrphansFromWriters'
  <2>1. ASSUME NEW id \in clips' \ rows
        PROVE  \E u \in Speakers : id \in spk'[u].mine /\ spk'[u].pc \in {"write", "commit", "failed", "dead"}
    <3>1. CASE id = n
      BY <1>2, <3>1
    <3>2. CASE id # n
      <4>1. PICK u \in Speakers : id \in spk[u].mine /\ spk[u].pc \in {"write", "commit", "failed", "dead"}
        BY <1>1, <2>1, <3>2 DEF IInv, OrphansFromWriters
      <4>2. CASE u = s
        BY <1>1, <1>2, <4>1, <4>2
      <4>3. CASE u # s
        BY <1>0, <4>1, <4>3
      <4> QED BY <4>2, <4>3
    <3> QED BY <3>1, <3>2
  <2> QED BY <1>0, <2>1 DEF IInv, OrphansFromWriters, voiceVars
<1> QED BY <1>0, <1>3, <1>4, <1>5, <1>6 DEF IInv

\* A speaker's new record.
LEMMA NewSpeaker ==
  ASSUME ShapeInv, NEW s \in Speakers
  PROVE  /\ \A to \in SpeakerPcs : Goes(s, to) =>
              spk' \in [Speakers -> SpeakerTypes] /\ spk'[s] = [spk[s] EXCEPT !.pc = to]
         /\ spk[s] \in SpeakerTypes
<1>1. spk[s] \in SpeakerTypes
  BY DEF ShapeInv
<1>2. ASSUME NEW to \in SpeakerPcs, Goes(s, to)
      PROVE  spk' \in [Speakers -> SpeakerTypes] /\ spk'[s] = [spk[s] EXCEPT !.pc = to]
  BY <1>1, <1>2 DEF Goes, ShapeInv, SpeakerTypes
<1> QED BY <1>1, <1>2

LEMMA SpeakKeeps ==
  ASSUME IInv, NEW s \in Speakers,
         ProviderFails(s) \/ CommitSpeech(s) \/ Announce(s) \/ PruneList(s) \/ PruneStat(s)
           \/ PruneOldest(s) \/ Pruned(s) \/ SpeakerDies(s)
  PROVE  IInv'
<1> USE DEF IInv
<1>0. /\ spk[s] \in SpeakerTypes /\ clipNo \in Nat
      /\ spk[s].mine \subseteq 1..clipNo /\ spk[s].seen \subseteq 1..clipNo
      /\ clips \subseteq 1..clipNo /\ announced \subseteq (rows \cup due) \cap (1..clipNo)
      /\ SpeakerInv(s)
  BY DEF ShapeInv
<1>1. CASE ProviderFails(s)
  <2>1. /\ spk' \in [Speakers -> SpeakerTypes] /\ spk[s].pc = "write"
        /\ spk'[s] = [spk[s] EXCEPT !.pc = IF s \in Jobs THEN "done" ELSE "failed"]
    BY <1>1, NewSpeaker DEF ProviderFails, SpeakerPcs
  <2>2. spk'[s].pc = (IF s \in Jobs THEN "done" ELSE "failed") /\ spk'[s].mine = spk[s].mine
        /\ spk'[s].seen = spk[s].seen
    BY <1>0, <2>1 DEF SpeakerTypes
  <2>3. SpeakerInv(s)'
    BY <2>2 DEF SpeakerInv
  <2>4. \A id \in spk[s].mine : id \in spk'[s].mine /\ spk'[s].pc = "failed"
    BY <1>0, <2>1, <2>2 DEF SpeakerInv
  <2> QED BY <1>0, <1>1, <2>1, <2>2, <2>3, <2>4, SpeechKeeps DEF ProviderFails
<1>2. CASE CommitSpeech(s)
  <2>1. /\ spk' \in [Speakers -> SpeakerTypes] /\ spk[s].pc = "commit"
        /\ spk'[s] = [spk[s] EXCEPT !.pc = IF s \in Jobs THEN "announce" ELSE "list"]
        /\ rows' = rows \cup spk[s].mine /\ due' = due
    BY <1>2, NewSpeaker DEF CommitSpeech, SpeakerPcs
  <2>2. spk'[s].pc = (IF s \in Jobs THEN "announce" ELSE "list") /\ spk'[s].mine = spk[s].mine
        /\ spk'[s].seen = spk[s].seen
    BY <1>0, <2>1 DEF SpeakerTypes
  <2>3. SpeakerInv(s)'
    BY <2>1, <2>2 DEF SpeakerInv
  <2> QED BY <1>0, <1>2, <2>1, <2>2, <2>3, SpeechKeeps DEF CommitSpeech
<1>3. CASE Announce(s)
  <2>1. /\ spk' = [spk EXCEPT ![s] = [@ EXCEPT !.mine = {}, !.pc = IF s \in Jobs THEN "list" ELSE "done"]]
        /\ spk[s].pc = "announce" /\ rows' = rows /\ due' = due
        /\ announced' = announced \cup spk[s].mine
    BY <1>0, <1>3 DEF Announce, ShapeInv, SpeakerTypes
  <2>2. spk'[s] = [spk[s] EXCEPT !.mine = {}, !.pc = IF s \in Jobs THEN "list" ELSE "done"]
    BY <2>1 DEF ShapeInv
  <2>3. /\ spk'[s].pc = (IF s \in Jobs THEN "list" ELSE "done") /\ spk'[s].mine = {}
        /\ spk'[s].seen = spk[s].seen /\ spk'[s] \in SpeakerTypes
    BY <1>0, <2>2 DEF SpeakerTypes, SpeakerPcs
  <2>4. spk' \in [Speakers -> SpeakerTypes]
    BY <2>1, <2>2, <2>3 DEF ShapeInv
  <2>5. SpeakerInv(s)'
    BY <2>3 DEF SpeakerInv
  <2>6. spk[s].mine \subseteq rows \cup due
    BY <1>0, <2>1 DEF SpeakerInv
  <2> QED BY <1>0, <1>3, <2>1, <2>3, <2>4, <2>5, <2>6, SpeechKeeps DEF Announce
<1>4. CASE PruneList(s)
  <2>1. /\ spk' = [spk EXCEPT ![s] = [@ EXCEPT !.seen = clips, !.pc = "stat"]]
        /\ spk[s].pc = "list" /\ rows' = rows /\ due' = due
    BY <1>0, <1>4 DEF PruneList, ShapeInv, SpeakerTypes
  <2>2. spk'[s] = [spk[s] EXCEPT !.seen = clips, !.pc = "stat"]
    BY <2>1 DEF ShapeInv
  <2>3. /\ spk'[s].pc = "stat" /\ spk'[s].mine = spk[s].mine
        /\ spk'[s].seen = clips /\ spk'[s] \in SpeakerTypes
    <3>1. clips \in SUBSET Nat
      BY <1>0
    <3> QED BY <1>0, <2>2, <3>1 DEF SpeakerTypes, SpeakerPcs
  <2>4. spk' \in [Speakers -> SpeakerTypes]
    BY <2>1, <2>2, <2>3 DEF ShapeInv
  <2>5. SpeakerInv(s)'
    BY <1>0, <2>1, <2>3 DEF SpeakerInv
  <2> QED BY <1>0, <1>4, <2>1, <2>3, <2>4, <2>5, SpeechKeeps DEF PruneList
<1>5. ASSUME Raises(s), spk[s].pc \in {"stat", "unlink"}, PruneStat(s) \/ PruneOldest(s), UNCHANGED clips
      PROVE  IInv'
  <2>1. /\ spk' = [spk EXCEPT ![s] = [@ EXCEPT !.pc = IF s \in Jobs THEN "raised" ELSE "failed", !.seen = {}]]
        /\ rows' = rows /\ due' = due /\ announced' = announced /\ clipNo' = clipNo
    BY <1>0, <1>5 DEF Raises, PruneStat, PruneOldest, ShapeInv, SpeakerTypes
  <2>2. spk'[s] = [spk[s] EXCEPT !.pc = IF s \in Jobs THEN "raised" ELSE "failed", !.seen = {}]
    BY <2>1 DEF ShapeInv
  <2>3. /\ spk'[s].pc = (IF s \in Jobs THEN "raised" ELSE "failed") /\ spk'[s].mine = spk[s].mine
        /\ spk'[s].seen = {} /\ spk'[s] \in SpeakerTypes
    BY <1>0, <2>2 DEF SpeakerTypes, SpeakerPcs
  <2>4. spk' \in [Speakers -> SpeakerTypes]
    BY <2>1, <2>2, <2>3 DEF ShapeInv
  <2>5. SpeakerInv(s)'
    BY <2>3 DEF SpeakerInv
  <2> QED BY <1>0, <1>5, <2>1, <2>3, <2>4, <2>5, SpeechKeeps
<1>6. CASE PruneStat(s)
  <2>1. CASE spk[s].seen \subseteq clips
    <3>1. /\ spk' \in [Speakers -> SpeakerTypes] /\ spk[s].pc = "stat" /\ rows' = rows /\ due' = due
          /\ spk'[s] = [spk[s] EXCEPT !.pc = "unlink"]
      BY <1>6, <2>1, NewSpeaker DEF PruneStat, SpeakerPcs
    <3>2. spk'[s].pc = "unlink" /\ spk'[s].mine = spk[s].mine /\ spk'[s].seen = spk[s].seen
      BY <1>0, <3>1 DEF SpeakerTypes
    <3>3. SpeakerInv(s)'
      BY <1>0, <3>1, <3>2 DEF SpeakerInv
    <3> QED BY <1>0, <1>6, <3>1, <3>2, <3>3, SpeechKeeps DEF PruneStat
  <2>2. CASE ~(spk[s].seen \subseteq clips)
    BY <1>5, <1>6, <2>2 DEF PruneStat
  <2> QED BY <2>1, <2>2
<1>7. CASE PruneOldest(s)
  <2>1. PICK oldest \in spk[s].seen :
          /\ \A other \in spk[s].seen : oldest <= other
          /\ IF oldest \in clips
             THEN /\ clips' = clips \ {oldest}
                  /\ spk' = [spk EXCEPT ![s].seen = @ \ {oldest}]
             ELSE Raises(s) /\ UNCHANGED clips
    BY <1>7 DEF PruneOldest
  <2>2. CASE oldest \in clips
    <3> DEFINE r == [spk[s] EXCEPT !.seen = spk[s].seen \ {oldest}]
    <3>1. /\ spk' = [spk EXCEPT ![s] = r] /\ clips' = clips \ {oldest}
          /\ spk[s].pc = "unlink" /\ rows' = rows /\ due' = due
      <4>1. spk[s].pc = "unlink" /\ rows' = rows /\ due' = due
        BY <1>7 DEF PruneOldest
      <4>2. clips' = clips \ {oldest} /\ spk' = [spk EXCEPT ![s].seen = @ \ {oldest}]
        BY <2>1, <2>2
      <4> QED BY <1>0, <4>1, <4>2 DEF ShapeInv, SpeakerTypes
    <3>2. spk'[s] = r
      BY <3>1 DEF ShapeInv
    <3>3. /\ spk'[s].pc = "unlink" /\ spk'[s].mine = spk[s].mine
          /\ spk'[s].seen = spk[s].seen \ {oldest} /\ spk'[s] \in SpeakerTypes
      BY <1>0, <3>1, <3>2 DEF SpeakerTypes, SpeakerPcs
    <3>4. spk' \in [Speakers -> SpeakerTypes]
      BY <3>1, <3>2, <3>3 DEF ShapeInv
    <3>5. SpeakerInv(s)'
      BY <1>0, <3>1, <3>3 DEF SpeakerInv
    <3>6. \A id \in clips \ clips' : clipNo - id >= Cap
      <4>1. Cardinality(spk[s].seen) > Cap
        BY <1>7 DEF PruneOldest
      <4>2. clipNo - oldest >= Cap
        BY <1>0, <2>1, <4>1, OldestIsOld
      <4> QED BY <3>1, <4>2
    <3> QED BY <1>0, <1>7, <3>1, <3>3, <3>4, <3>5, <3>6, SpeechKeeps DEF PruneOldest
  <2>3. CASE oldest \notin clips
    BY <1>5, <1>7, <2>1, <2>3 DEF PruneOldest
  <2> QED BY <2>2, <2>3
<1>8. CASE Pruned(s)
  <2> DEFINE to == IF s \in Requests THEN "announce" ELSE IF spk[s].left > 0 THEN "write" ELSE "done"
  <2>1. /\ spk' = [spk EXCEPT ![s] = [@ EXCEPT !.seen = {}, !.pc = to]]
        /\ spk[s].pc = "unlink" /\ rows' = rows /\ due' = due
    BY <1>0, <1>8 DEF Pruned, ShapeInv, SpeakerTypes
  <2>2. spk'[s] = [spk[s] EXCEPT !.seen = {}, !.pc = to]
    BY <2>1 DEF ShapeInv
  <2>3. /\ spk'[s].pc = to /\ spk'[s].mine = spk[s].mine /\ spk'[s].left = spk[s].left
        /\ spk'[s].seen = {} /\ spk'[s] \in SpeakerTypes
    BY <1>0, <2>2 DEF SpeakerTypes, SpeakerPcs
  <2>4. spk' \in [Speakers -> SpeakerTypes]
    BY <2>1, <2>2, <2>3 DEF ShapeInv
  <2>5. SpeakerInv(s)' /\ (spk'[s].pc = "write" => spk'[s].left > 0)
    BY <1>0, <2>1, <2>3 DEF SpeakerInv, Speakers
  <2> QED BY <1>0, <1>8, <2>1, <2>3, <2>4, <2>5, SpeechKeeps DEF Pruned
<1>9. CASE SpeakerDies(s)
  <2>1. /\ spk' = [spk EXCEPT ![s] = [@ EXCEPT !.pc = "dead", !.seen = {}]] /\ rows' = rows /\ due' = due
    BY <1>0, <1>9 DEF SpeakerDies, ShapeInv, SpeakerTypes
  <2>2. spk'[s] = [spk[s] EXCEPT !.pc = "dead", !.seen = {}]
    BY <2>1 DEF ShapeInv
  <2>3. /\ spk'[s].pc = "dead" /\ spk'[s].mine = spk[s].mine
        /\ spk'[s].seen = {} /\ spk'[s] \in SpeakerTypes
    BY <1>0, <2>2 DEF SpeakerTypes, SpeakerPcs
  <2>4. spk' \in [Speakers -> SpeakerTypes]
    BY <2>1, <2>2, <2>3 DEF ShapeInv
  <2>5. SpeakerInv(s)'
    BY <2>3 DEF SpeakerInv
  <2> QED BY <1>0, <1>9, <2>1, <2>3, <2>4, <2>5, SpeechKeeps DEF SpeakerDies
<1> QED BY <1>1, <1>2, <1>3, <1>4, <1>6, <1>7, <1>8, <1>9

-----------------------------------------------------------------------------
(* The schedulers *)

LEMMA CleanKeeps ==
  ASSUME IInv, NEW s \in Schedulers, Lead(s) \/ RemoveFile(s) \/ CommitCleanup(s) \/ SchedulerDies(s)
  PROVE  IInv'
<1> USE DEF IInv, voiceVars, speechVars
<1>0. sched[s] \in SchedulerTypes /\ sched[s].batch \subseteq due
  BY DEF ShapeInv
<1>1. CASE Lead(s)
  <2>1. PICK batch \in SUBSET (rows \cap due) : sched' = [sched EXCEPT ![s] = Busy(batch)]
    BY <1>1 DEF Lead
  <2>2. ShapeInv'
    <3>1. batch \subseteq Posts \cup Nat /\ batch \subseteq due
      BY DEF ShapeInv
    <3>2. Busy(batch) \in SchedulerTypes /\ Busy(batch).batch = batch
      BY <3>1 DEF Busy, SchedulerTypes
    <3> QED BY <1>1, <2>1, <3>1, <3>2 DEF Lead, ShapeInv
  <2>3. (\A u \in Speakers : SpeakerInv(u))' /\ KeptInv' /\ OrphansFromWriters'
    BY <1>1 DEF Lead, SpeakerInv, KeptInv, OrphansFromWriters
  <2> QED BY <1>1, <2>2, <2>3 DEF Lead
<1>2. CASE RemoveFile(s)
  <2>1. PICK id \in Remaining(s) : voices' = voices \ {id} /\ clips' = clips \ {id}
    BY <1>2 DEF RemoveFile
  <2>2. id \in due
    BY <1>0, <2>1 DEF Remaining
  <2>3. ShapeInv' /\ (\A u \in Speakers : SpeakerInv(u))'
    BY <1>2, <2>1 DEF RemoveFile, ShapeInv, SpeakerInv
  <2>4. KeptInv' /\ OrphansFromWriters'
    BY <1>2, <2>1, <2>2 DEF RemoveFile, KeptInv, OrphansFromWriters
  <2> QED BY <1>2, <2>3, <2>4 DEF RemoveFile
<1>3. CASE CommitCleanup(s)
  <2>1. ShapeInv'
    BY <1>3 DEF CommitCleanup, ShapeInv, Busy, SchedulerTypes
  <2>2. rows \subseteq rows' \cup due /\ (rows \ rows') \cap (voices \cup clips) = {}
    BY <1>0, <1>3 DEF CommitCleanup, Remaining
  <2>3. (\A u \in Speakers : SpeakerInv(u))' /\ KeptInv' /\ OrphansFromWriters'
    BY <1>3, <2>2 DEF CommitCleanup, SpeakerInv, KeptInv, OrphansFromWriters
  <2> QED BY <1>3, <2>1, <2>2, <2>3 DEF CommitCleanup
<1>4. CASE SchedulerDies(s)
  <2>1. ShapeInv'
    BY <1>4 DEF SchedulerDies, ShapeInv, SchedulerTypes
  <2> QED BY <1>4, <2>1 DEF SchedulerDies, SpeakerInv, KeptInv, OrphansFromWriters
<1> QED BY <1>1, <1>2, <1>3, <1>4

LEMMA TimeKeeps ==
  ASSUME IInv, Time
  PROVE  IInv'
<1> USE DEF IInv, voiceVars, speechVars
<1>1. ASSUME NEW id \in Media, Expires(id) PROVE IInv'
  <2>1. due \subseteq due' /\ due' \subseteq Posts \cup Nat
    BY <1>1 DEF Expires, Written, ShapeInv
  <2>2. UNCHANGED <<voiceVars, speechVars, rows, sched>>
    BY <1>1 DEF Expires
  <2> QED BY <2>1, <2>2 DEF ShapeInv, SpeakerInv, KeptInv, OrphansFromWriters
<1>2. CASE LeaseExpires
  BY <1>2 DEF LeaseExpires, ShapeInv, SpeakerInv, KeptInv, OrphansFromWriters
<1> QED BY <1>1, <1>2 DEF Time

LEMMA StepInv == IInv /\ [Next]_vars => IInv'
<1>1. IInv /\ Next => IInv'
  BY RecordKeeps, SynthesizeKeeps, SpeakKeeps, CleanKeeps, TimeKeeps DEF Next, Speak, Clean
<1>2. IInv /\ UNCHANGED vars => IInv'
  BY DEF vars, voiceVars, speechVars, IInv, ShapeInv, SpeakerInv, KeptInv, OrphansFromWriters
<1> QED BY <1>1, <1>2

LEMMA Invariant == Spec => []IInv
BY InitInv, StepInv, PTL DEF Spec

\* A clean-up, however cut short and by however many schedulers, deletes rows of
\* which no file is left.
THEOREM Orphans == Spec => []OrphansFromWriters
<1>1. IInv => OrphansFromWriters
  BY DEF IInv
<1> QED BY <1>1, Invariant, PTL

\* Pruners and schedulers at work together, on lists of any age, leave what was
\* announced until it expires or Cap later files have been written.
THEOREM Announced == Spec => []AnnouncedIsServed
<1>1. IInv => AnnouncedIsServed
  BY DEF IInv, ShapeInv, KeptInv, AnnouncedIsServed, Served
<1> QED BY <1>1, Invariant, PTL

-----------------------------------------------------------------------------
(* Types *)

\* The segments that have been spoken: their number is that of the files.
Spoken == {e \in Speakers \X (1..Segments) : e[2] > spk[e[1]].left}

CountInv ==
  /\ \A s \in Speakers : spk[s].left \in 0..Segments
  /\ Cardinality(Spoken) = clipNo

RestInv ==
  /\ rows \subseteq Written /\ due \subseteq Written
  /\ owner \in Posts \cup {None} /\ lease \in Schedulers \cup {None}
  /\ job \in {"none", "queued", "hearing", "ended"}
  /\ deaths \in 0..MaxDeaths

LEMMA SpokenFinite ==
  /\ IsFiniteSet(Speakers \X (1..Segments))
  /\ Cardinality(Speakers \X (1..Segments)) = MaxFiles
  /\ MaxFiles \in Nat
<1>1. IsFiniteSet(1..Segments) /\ Cardinality(1..Segments) = Segments /\ Segments \in Nat
  BY MediaAssumption, FS_Interval
<1>2. Cardinality(Speakers) \in Nat /\ IsFiniteSet(Speakers)
  BY MediaAssumption, FS_CardinalityType
<1>3. /\ IsFiniteSet(Speakers \X (1..Segments))
      /\ Cardinality(Speakers \X (1..Segments)) = Cardinality(Speakers) * Segments
  BY <1>1, <1>2, FS_Product
<1> QED BY <1>1, <1>2, <1>3 DEF MaxFiles

LEMMA CountBound == ASSUME CountInv PROVE clipNo \in 0..MaxFiles
<1>1. Spoken \subseteq Speakers \X (1..Segments)
  BY DEF Spoken
<1>2. IsFiniteSet(Spoken) /\ Cardinality(Spoken) <= MaxFiles
  BY <1>1, SpokenFinite, FS_Subset
<1>3. Cardinality(Spoken) \in Nat
  BY <1>2, FS_CardinalityType
<1> QED BY <1>2, <1>3, SpokenFinite DEF CountInv

LEMMA CountInit == Init => CountInv /\ RestInv
<1> SUFFICES ASSUME Init PROVE CountInv /\ RestInv
  OBVIOUS
<1>1. \A s \in Speakers : spk[s].left = Segments
  BY DEF Init
<1>2. Spoken = {}
  BY <1>1, MediaAssumption DEF Spoken
<1>3. CountInv
  BY <1>1, <1>2, FS_EmptySet, MediaAssumption DEF CountInv, Init
<1> QED BY <1>3, MediaAssumption DEF Init, RestInv

\* Only Synthesize speaks a segment.
LEMMA LeftMoves ==
  ASSUME IInv, [Next]_vars, ~\E s \in Speakers : Synthesize(s)
  PROVE  clipNo' = clipNo /\ \A s \in Speakers : spk'[s].left = spk[s].left
<1>0. spk \in [Speakers -> SpeakerTypes]
  BY DEF IInv, ShapeInv
<1>1. CASE Speak
  <2>1. PICK s \in Speakers : ProviderFails(s) \/ CommitSpeech(s) \/ Announce(s) \/ PruneList(s) \/ PruneStat(s)
                              \/ PruneOldest(s) \/ Pruned(s) \/ SpeakerDies(s)
    BY <1>1 DEF Speak
  <2>2. spk[s] \in SpeakerTypes
    BY <1>0
  <2>3. clipNo' = clipNo
    BY <2>1 DEF ProviderFails, CommitSpeech, Announce, PruneList, PruneStat, PruneOldest, Pruned, SpeakerDies
  <2>4. spk'[s].left = spk[s].left
    BY <1>0, <2>1, <2>2 DEF ProviderFails, CommitSpeech, Announce, PruneList, PruneStat, PruneOldest, Pruned,
                       SpeakerDies, Goes, Raises, SpeakerTypes
  <2>5. \A u \in Speakers : u # s => spk'[u] = spk[u]
    BY <2>1, SpeechFrame
  <2> QED BY <2>3, <2>4, <2>5
<1>2. CASE ~Speak
  <2>1. CASE Record \/ Listen \/ Time
    BY <2>1 DEF Record, Upload, CommitUpload, ApiDies, JobDies, Listen, Hear, Heard, Time, Expires,
                LeaseExpires, speechVars
  <2>2. ASSUME NEW s \in Schedulers, Lead(s) \/ RemoveFile(s) \/ CommitCleanup(s) \/ SchedulerDies(s)
        PROVE  UNCHANGED <<spk, clipNo>>
    BY <2>2 DEF Lead, RemoveFile, CommitCleanup, SchedulerDies, speechVars
  <2>3. CASE UNCHANGED vars
    BY <2>3 DEF vars, speechVars
  <2> QED BY <1>2, <2>1, <2>2, <2>3 DEF Next, Clean
<1> QED BY <1>1, <1>2

LEMMA CountNext == ASSUME IInv, CountInv, [Next]_vars PROVE CountInv'
<1>1. ASSUME NEW s \in Speakers, Synthesize(s) PROVE CountInv'
  <2> DEFINE e == <<s, spk[s].left>>
  <2>1. /\ spk[s].left \in 1..Segments /\ clipNo' = clipNo + 1
        /\ spk[s] \in SpeakerTypes /\ spk \in [Speakers -> SpeakerTypes]
    BY <1>1, MediaAssumption DEF Synthesize, IInv, ShapeInv, CountInv
  <2>2. spk'[s].left = spk[s].left - 1
    BY <1>1, <2>1 DEF Synthesize, SpeakerTypes
  <2>3. \A u \in Speakers : u # s => spk'[u] = spk[u]
    BY <1>1, SpeechFrame
  <2>4. Spoken' = Spoken \cup {e} /\ e \notin Spoken
    <3>1. ASSUME NEW f \in Speakers \X (1..Segments)
          PROVE  f[2] > spk'[f[1]].left <=> f[2] > spk[f[1]].left \/ f = e
      <4>1. f[1] \in Speakers /\ f[2] \in 1..Segments /\ f = <<f[1], f[2]>> /\ Segments \in Nat
        BY MediaAssumption
      <4>2. CASE f[1] = s
        BY <2>1, <2>2, <4>1, <4>2
      <4>3. CASE f[1] # s
        BY <2>3, <4>1, <4>3
      <4> QED BY <4>2, <4>3
    <3>2. e \in Speakers \X (1..Segments)
      BY <2>1
    <3>3. ~(e[2] > spk[e[1]].left)
      BY <2>1, MediaAssumption
    <3> QED BY <3>1, <3>2, <3>3 DEF Spoken
  <2>5. IsFiniteSet(Spoken)
    BY SpokenFinite, FS_Subset DEF Spoken
  <2>6. Cardinality(Spoken') = clipNo + 1
    BY <2>4, <2>5, FS_AddElement DEF CountInv
  <2>7. \A u \in Speakers : spk'[u].left \in 0..Segments
    BY <2>1, <2>2, <2>3, MediaAssumption DEF CountInv
  <2> QED BY <2>1, <2>6, <2>7 DEF CountInv
<1>2. CASE ~\E s \in Speakers : Synthesize(s)
  <2>1. clipNo' = clipNo /\ \A s \in Speakers : spk'[s].left = spk[s].left
    BY <1>2, LeftMoves
  <2>2. Spoken' = Spoken
    BY <2>1 DEF Spoken
  <2> QED BY <2>1, <2>2 DEF CountInv
<1> QED BY <1>1, <1>2

\* What has been written stays written.
LEMMA WrittenGrows == ASSUME IInv, [Next]_vars PROVE Written \subseteq Written'
<1>0. clipNo \in Nat /\ post \in [Posts -> {"absent", "idle", "written", "accepted", "refused", "dead"}]
  BY DEF IInv, ShapeInv
<1>1. clipNo' = clipNo \/ clipNo' = clipNo + 1
  BY LeftMoves DEF Synthesize
<1>2. ASSUME NEW p \in Posts, post[p] \notin {"absent", "idle"} PROVE post'[p] \notin {"absent", "idle"}
  <2>1. ASSUME NEW q \in Posts, Upload(q) \/ CommitUpload(q) \/ ApiDies(q) PROVE post'[p] \notin {"absent", "idle"}
    BY <1>0, <1>2, <2>1 DEF Upload, CommitUpload, ApiDies
  <2>2. CASE JobDies \/ Listen \/ Time
    BY <1>2, <2>2 DEF JobDies, Listen, Hear, Heard, Time, Expires, LeaseExpires, voiceVars
  <2>3. CASE Speak
    BY <1>2, <2>3, SpeechFrame DEF Speak, voiceVars
  <2>4. ASSUME NEW s \in Schedulers, Lead(s) \/ RemoveFile(s) \/ CommitCleanup(s) \/ SchedulerDies(s)
        PROVE  post' = post
    BY <2>4 DEF Lead, RemoveFile, CommitCleanup, SchedulerDies, voiceVars
  <2>5. CASE UNCHANGED vars
    BY <1>2, <2>5 DEF vars, voiceVars
  <2> QED BY <1>2, <2>1, <2>2, <2>3, <2>4, <2>5 DEF Next, Record, Clean
<1>3. 1..clipNo \subseteq 1..clipNo'
  BY <1>0, <1>1
<1> QED BY <1>2, <1>3 DEF Written

LEMMA RestNext == ASSUME IInv, RestInv, [Next]_vars PROVE RestInv'
<1>0. Written \subseteq Written'
  BY WrittenGrows
<1>1. deaths' \in 0..MaxDeaths
  <2>1. deaths' = deaths \/ (deaths < MaxDeaths /\ deaths' = deaths + 1)
    <3>1. CASE Record \/ Listen \/ Time
      BY <3>1 DEF Record, Upload, CommitUpload, ApiDies, JobDies, Listen, Hear, Heard, Time, Expires,
                  LeaseExpires, Die
    <3>2. ASSUME NEW s \in Speakers,
                 Synthesize(s) \/ ProviderFails(s) \/ CommitSpeech(s) \/ Announce(s) \/ PruneList(s)
                   \/ PruneStat(s) \/ PruneOldest(s) \/ Pruned(s) \/ SpeakerDies(s)
          PROVE  deaths' = deaths \/ (deaths < MaxDeaths /\ deaths' = deaths + 1)
      BY <3>2 DEF Synthesize, ProviderFails, CommitSpeech, Announce, PruneList, PruneStat, PruneOldest,
                  Pruned, SpeakerDies, Die
    <3>3. ASSUME NEW s \in Schedulers, Lead(s) \/ RemoveFile(s) \/ CommitCleanup(s) \/ SchedulerDies(s)
          PROVE  deaths' = deaths \/ (deaths < MaxDeaths /\ deaths' = deaths + 1)
      BY <3>3 DEF Lead, RemoveFile, CommitCleanup, SchedulerDies, Die
    <3> QED BY <3>1, <3>2, <3>3 DEF Next, Speak, Clean, vars
  <2> QED BY <2>1, MediaAssumption DEF RestInv
<1>2. CASE Record \/ Listen
  <2>1. ASSUME NEW p \in Posts, CommitUpload(p) PROVE RestInv'
    <3>1. CASE owner = None
      <4>1. post' = [post EXCEPT ![p] = "accepted"] /\ rows' = rows \cup {p} /\ owner' = p /\ job' = "queued"
            /\ UNCHANGED <<due, lease>>
        BY <2>1, <3>1 DEF CommitUpload
      <4>2. p \in Written'
        BY <4>1 DEF Written, IInv, ShapeInv
      <4> QED BY <1>0, <1>1, <4>1, <4>2 DEF RestInv
    <3>2. CASE owner # None
      <4>1. UNCHANGED <<rows, owner, job, due, lease>>
        BY <2>1, <3>2 DEF CommitUpload
      <4> QED BY <1>0, <1>1, <4>1 DEF RestInv
    <3> QED BY <3>1, <3>2
  <2>2. ASSUME NEW p \in Posts, Upload(p) \/ ApiDies(p) PROVE RestInv'
    BY <1>0, <1>1, <2>2 DEF Upload, ApiDies, RestInv
  <2>3. CASE JobDies \/ Listen
    BY <1>0, <1>1, <2>3 DEF JobDies, Listen, Hear, Heard, RestInv
  <2> QED BY <1>2, <2>1, <2>2, <2>3 DEF Record
<1>3. ASSUME NEW s \in Speakers,
             Synthesize(s) \/ ProviderFails(s) \/ CommitSpeech(s) \/ Announce(s) \/ PruneList(s)
               \/ PruneStat(s) \/ PruneOldest(s) \/ Pruned(s) \/ SpeakerDies(s)
      PROVE  RestInv'
  <2>1. UNCHANGED <<owner, job, due, lease>>
    BY <1>3, SpeechFrame DEF voiceVars
  <2>2. rows' = rows \/ rows' = rows \cup spk[s].mine
    BY <1>3 DEF Synthesize, ProviderFails, CommitSpeech, Announce, PruneList, PruneStat, PruneOldest,
                Pruned, SpeakerDies
  <2>3. spk[s].mine \subseteq Written
    BY DEF IInv, ShapeInv, Written
  <2> QED BY <1>0, <1>1, <2>1, <2>2, <2>3 DEF RestInv
<1>4. ASSUME NEW s \in Schedulers, Lead(s) \/ RemoveFile(s) \/ CommitCleanup(s) \/ SchedulerDies(s)
      PROVE  RestInv'
  <2>1. lease' \in {lease, s} /\ rows' \subseteq rows /\ UNCHANGED <<owner, job, due>>
    BY <1>4 DEF Lead, RemoveFile, CommitCleanup, SchedulerDies, voiceVars
  <2> QED BY <1>0, <1>1, <2>1 DEF RestInv
<1>5. CASE Time
  <2>1. /\ due' = due \/ \E id \in Written : due' = due \cup {id}
        /\ lease' \in {lease, None} /\ UNCHANGED <<rows, owner, job>>
    BY <1>5 DEF Time, Expires, LeaseExpires, voiceVars
  <2> QED BY <1>0, <1>1, <2>1 DEF RestInv
<1>6. CASE UNCHANGED vars
  BY <1>0, <1>6 DEF vars, voiceVars, RestInv
<1> QED BY <1>2, <1>3, <1>4, <1>5, <1>6 DEF Next, Speak, Clean

LEMMA AllTypes == ASSUME IInv, CountInv, RestInv PROVE TypeOK
<1>1. clipNo \in 0..MaxFiles /\ 1..clipNo \subseteq Clips
  BY CountBound, SpokenFinite DEF Clips
<1>2. ASSUME NEW s \in Speakers
      PROVE  spk[s] \in [pc : {"write", "commit", "announce", "list", "stat", "unlink", "done", "failed", "raised", "dead"},
                         left : 0..Segments, mine : SUBSET Clips, seen : SUBSET Clips]
  <2>1. spk[s] \in SpeakerTypes /\ spk[s].mine \subseteq Clips /\ spk[s].seen \subseteq Clips /\ spk[s].left \in 0..Segments
    BY <1>1 DEF IInv, ShapeInv, CountInv
  <2> QED BY <2>1 DEF SpeakerTypes, SpeakerPcs
<1>3. ASSUME NEW s \in Schedulers
      PROVE  sched[s] \in [pc : {"asleep", "remove", "dead"}, batch : SUBSET Media]
  <2>1. sched[s] \in SchedulerTypes /\ sched[s].batch \subseteq Media
    BY <1>1 DEF IInv, ShapeInv, RestInv, Written, Media
  <2> QED BY <2>1 DEF SchedulerTypes
<1>4. spk \in [Speakers ->
       [pc : {"write", "commit", "announce", "list", "stat", "unlink", "done", "failed", "raised", "dead"},
        left : 0..Segments, mine : SUBSET Clips, seen : SUBSET Clips]]
  BY <1>2 DEF IInv, ShapeInv
<1>5. sched \in [Schedulers -> [pc : {"asleep", "remove", "dead"}, batch : SUBSET Media]]
  BY <1>3 DEF IInv, ShapeInv
<1> QED BY <1>1, <1>4, <1>5 DEF TypeOK, IInv, ShapeInv, RestInv

\* Every reachable state is well typed; in particular no speaker writes more
\* segments than its reply has, however its work is interleaved with pruning.
THEOREM TypeCorrect == Spec => []TypeOK
<1>1. Init => IInv /\ CountInv /\ RestInv
  BY InitInv, CountInit
<1>2. (IInv /\ CountInv /\ RestInv) /\ [Next]_vars => (IInv /\ CountInv /\ RestInv)'
  BY StepInv, CountNext, RestNext
<1>3. IInv /\ CountInv /\ RestInv => TypeOK
  BY AllTypes
<1> QED BY <1>1, <1>2, <1>3, PTL DEF Spec
=============================================================================
