----------------------------- MODULE MediaLife -----------------------------
(***************************************************************************)
(* The life of audio: files under media_root (services/media.py), their    *)
(* rows in media_objects, and all that write, announce and remove them.    *)
(*   posts       attempts to upload one recording under one client_id      *)
(*               (create_voice_turn in api/turns.py), and its one job      *)
(*   speakers    the worker that speaks a reply (_synthesize) and requests *)
(*               for its speech (synthesize_turn_reply); each prunes       *)
(*   schedulers  the processes that compete for the lease and clean up     *)
(*               (scheduler/main.py)                                       *)
(* They are processes of their own on one directory and one database.      *)
(* Speech files are numbered in the order of their writing, which is the   *)
(* order of their mtime; a file counts 1 towards the limit of the cache.   *)
(***************************************************************************)
EXTENDS Naturals, FiniteSets, FiniteSetsExt

CONSTANTS
  Posts,       \* requests of POST /turns/voice
  Jobs,        \* speakers that are turns in the worker
  Requests,    \* speakers that are requests of POST /turns/{id}/speech
  Schedulers,
  None,        \* nobody
  Segments,    \* segments of a reply
  Cap,         \* tts_cache_max_bytes, in files
  Limit,       \* rows of one clean-up
  Casts,       \* bound: the sets of actors that may run together
  MaxDeaths    \* bound: processes that die

Speakers == Jobs \cup Requests
MaxFiles == Segments * Cardinality(Speakers)

ASSUME MediaAssumption ==
  /\ IsFiniteSet(Posts) /\ IsFiniteSet(Speakers) /\ IsFiniteSet(Schedulers)
  /\ Jobs \cap Requests = {} /\ None \notin Posts \cup Schedulers
  /\ Casts \subseteq SUBSET (Posts \cup Speakers \cup Schedulers)
  /\ Segments \in Nat \ {0} /\ Cap \in Nat \ {0} /\ Limit \in Nat \ {0} /\ MaxDeaths \in Nat

VARIABLES
  voices, clips,      \* files below voice/ and below tts/
  rows,               \* media_objects
  due,                \* media past its expires_at
  post, owner, job,   \* the uploads, the one that got the turn, and its job
  spk, clipNo,        \* the speakers; speech files so far
  announced,          \* segments the app was told of
  lease, sched,       \* scheduler:leader; the schedulers
  deaths

voiceVars == <<voices, post, owner, job>>
speechVars == <<clips, spk, clipNo, announced>>
vars == <<voiceVars, speechVars, rows, due, lease, sched, deaths>>

Clips == 1..MaxFiles
Media == Posts \cup Clips
Written == {p \in Posts : post[p] \notin {"absent", "idle"}} \cup 1..clipNo

TypeOK ==
  /\ voices \subseteq Posts /\ clips \subseteq 1..clipNo
  /\ rows \subseteq Written /\ due \subseteq Written /\ announced \subseteq 1..clipNo
  /\ post \in [Posts -> {"absent", "idle", "written", "accepted", "refused", "dead"}]
  /\ owner \in Posts \cup {None}
  /\ job \in {"none", "queued", "hearing", "ended"}
  /\ spk \in [Speakers ->
       [pc : {"write", "commit", "announce", "list", "stat", "unlink", "done", "failed", "raised", "dead"},
        left : 0..Segments, mine : SUBSET Clips, seen : SUBSET Clips]]
  /\ clipNo \in 0..MaxFiles
  /\ lease \in Schedulers \cup {None}
  /\ sched \in [Schedulers -> [pc : {"asleep", "remove", "dead"}, batch : SUBSET Media]]
  /\ deaths \in 0..MaxDeaths

\* The actors outside the cast are as if they had never started.
Init ==
  /\ voices = {} /\ clips = {} /\ rows = {} /\ due = {}
  /\ owner = None /\ job = "none"
  /\ clipNo = 0 /\ announced = {}
  /\ lease = None
  /\ deaths = 0
  /\ \E cast \in Casts :
       /\ post = [p \in Posts |-> IF p \in cast THEN "idle" ELSE "absent"]
       /\ spk = [s \in Speakers |-> [pc |-> IF s \in cast THEN "write" ELSE "done",
                                    left |-> Segments, mine |-> {}, seen |-> {}]]
       /\ sched = [s \in Schedulers |-> [pc |-> IF s \in cast THEN "asleep" ELSE "dead", batch |-> {}]]

Die == deaths < MaxDeaths /\ deaths' = deaths + 1

-----------------------------------------------------------------------------
(* A recording *)

\* No turn of this client_id yet: the recording is written, the rest follows.
Upload(p) ==
  /\ post[p] = "idle" /\ owner = None
  /\ post' = [post EXCEPT ![p] = "written"]
  /\ voices' = voices \cup {p}
  /\ UNCHANGED <<owner, job, speechVars, rows, due, lease, sched, deaths>>

\* The unique constraint on (user_id, client_id) lets one of them through.
CommitUpload(p) ==
  /\ post[p] = "written"
  /\ IF owner = None
     THEN /\ post' = [post EXCEPT ![p] = "accepted"]
          /\ rows' = rows \cup {p} /\ owner' = p
          /\ job' = "queued"
     ELSE /\ post' = [post EXCEPT ![p] = "refused"]
          /\ UNCHANGED <<rows, owner, job>>
  /\ UNCHANGED <<voices, speechVars, due, lease, sched, deaths>>

ApiDies(p) ==
  /\ post[p] = "written" /\ Die
  /\ post' = [post EXCEPT ![p] = "dead"]
  /\ UNCHANGED <<voices, owner, job, speechVars, rows, due, lease, sched>>

\* _transcribe looks the row up; without one the job ends, as it does at once if
\* the turn was closed meanwhile.
Hear ==
  /\ job = "queued"
  /\ job' \in (IF owner \in rows THEN {"hearing", "ended"} ELSE {"ended"})
  /\ UNCHANGED <<voices, post, owner, speechVars, rows, due, lease, sched, deaths>>

\* Whatever comes of the transcription, the recording is deleted.
Heard ==
  /\ job = "hearing"
  /\ voices' = voices \ {owner}
  /\ job' = "ended"
  /\ UNCHANGED <<post, owner, speechVars, rows, due, lease, sched, deaths>>

\* arq starts a job again whose worker stopped, but not for ever.
JobDies ==
  /\ job \in {"queued", "hearing"} /\ Die
  /\ job' \in {"queued", "ended"}
  /\ UNCHANGED <<voices, post, owner, speechVars, rows, due, lease, sched>>

-----------------------------------------------------------------------------
(* Speech *)

Goes(s, pc) == spk' = [spk EXCEPT ![s].pc = pc]

\* The worker commits each segment, the request all of them together.
Synthesize(s) ==
  /\ spk[s].pc = "write"
  /\ clipNo' = clipNo + 1 /\ clips' = clips \cup {clipNo + 1}
  /\ spk' = [spk EXCEPT ![s].left = @ - 1, ![s].mine = @ \cup {clipNo + 1},
                        ![s].pc = IF s \in Jobs \/ spk[s].left = 1 THEN "commit" ELSE "write"]
  /\ UNCHANGED <<voiceVars, rows, due, announced, lease, sched, deaths>>

\* The provider fails, or the worker finds its turn cancelled: the worker goes on
\* without speech; the request rolls back and answers 503.
ProviderFails(s) ==
  /\ spk[s].pc = "write"
  /\ Goes(s, IF s \in Jobs THEN "done" ELSE "failed")
  /\ UNCHANGED <<voiceVars, clips, clipNo, announced, rows, due, lease, sched, deaths>>

CommitSpeech(s) ==
  /\ spk[s].pc = "commit"
  /\ rows' = rows \cup spk[s].mine
  /\ Goes(s, IF s \in Jobs THEN "announce" ELSE "list")
  /\ UNCHANGED <<voiceVars, clips, clipNo, announced, due, lease, sched, deaths>>

\* tts.segment of the worker, before it prunes; the response of the request, after.
Announce(s) ==
  /\ spk[s].pc = "announce"
  /\ announced' = announced \cup spk[s].mine
  /\ spk' = [spk EXCEPT ![s].mine = {}, ![s].pc = IF s \in Jobs THEN "list" ELSE "done"]
  /\ UNCHANGED <<voiceVars, clips, clipNo, rows, due, lease, sched, deaths>>

\* MediaStore.prune: list, then stat each of them, then unlink the oldest.
PruneList(s) ==
  /\ spk[s].pc = "list"
  /\ spk' = [spk EXCEPT ![s].seen = clips, ![s].pc = "stat"]
  /\ UNCHANGED <<voiceVars, clips, clipNo, announced, rows, due, lease, sched, deaths>>

\* A file that went meanwhile: the exception of stat ends the worker's job; the
\* request answers 503 although its rows are committed.
Raises(s) == spk' = [spk EXCEPT ![s].pc = IF s \in Jobs THEN "raised" ELSE "failed", ![s].seen = {}]

PruneStat(s) ==
  /\ spk[s].pc = "stat"
  /\ IF spk[s].seen \subseteq clips THEN Goes(s, "unlink") ELSE Raises(s)
  /\ UNCHANGED <<voiceVars, clips, clipNo, announced, rows, due, lease, sched, deaths>>

\* Mistake: the newest file goes first.
PruneNewest(s) ==
  /\ spk[s].pc = "unlink" /\ Cardinality(spk[s].seen) > Cap
  /\ LET newest == Max(spk[s].seen)
     IN IF newest \in clips
        THEN /\ clips' = clips \ {newest}
             /\ spk' = [spk EXCEPT ![s].seen = @ \ {newest}]
        ELSE Raises(s) /\ UNCHANGED clips
  /\ UNCHANGED <<voiceVars, clipNo, announced, rows, due, lease, sched, deaths>>

PruneOldest(s) ==
  /\ spk[s].pc = "unlink" /\ Cardinality(spk[s].seen) > Cap
  /\ \E oldest \in spk[s].seen :
       /\ \A other \in spk[s].seen : oldest <= other
       /\ IF oldest \in clips
          THEN /\ clips' = clips \ {oldest}
               /\ spk' = [spk EXCEPT ![s].seen = @ \ {oldest}]
          ELSE Raises(s) /\ UNCHANGED clips
  /\ UNCHANGED <<voiceVars, clipNo, announced, rows, due, lease, sched, deaths>>

\* Mistake: one segment more than there are.
PrunedOneMore(s) ==
  /\ spk[s].pc = "unlink" /\ Cardinality(spk[s].seen) <= Cap
  /\ spk' = [spk EXCEPT ![s].seen = {},
       ![s].pc = IF s \in Requests THEN "announce" ELSE IF spk[s].left >= 0 THEN "write" ELSE "done"]
  /\ UNCHANGED <<voiceVars, clips, clipNo, announced, rows, due, lease, sched, deaths>>

Pruned(s) ==
  /\ spk[s].pc = "unlink" /\ Cardinality(spk[s].seen) <= Cap
  /\ spk' = [spk EXCEPT ![s].seen = {},
       ![s].pc = IF s \in Requests THEN "announce" ELSE IF spk[s].left > 0 THEN "write" ELSE "done"]
  /\ UNCHANGED <<voiceVars, clips, clipNo, announced, rows, due, lease, sched, deaths>>

SpeakerDies(s) ==
  /\ spk[s].pc \notin {"done", "failed", "raised", "dead"} /\ Die
  /\ spk' = [spk EXCEPT ![s].pc = "dead", ![s].seen = {}]
  /\ UNCHANGED <<voiceVars, clips, clipNo, announced, rows, due, lease, sched>>

-----------------------------------------------------------------------------
(* Expiry and the schedulers *)

\* All speech lives equally long: the oldest expires first.
Expires(id) ==
  /\ id \in Written \ due
  /\ id \in Clips => \A older \in 1..(id - 1) : older \in due
  /\ due' = due \cup {id}
  /\ UNCHANGED <<voiceVars, speechVars, rows, lease, sched, deaths>>

Busy(batch) == [pc |-> IF batch = {} THEN "asleep" ELSE "remove", batch |-> batch]

\* Mistake: the rows go first.
LeadRowsGo(s) ==
  /\ sched[s].pc = "asleep" /\ lease \in {None, s}
  /\ lease' = s
  /\ \E batch \in SUBSET (rows \cap due) :
       /\ Cardinality(batch) = Min({Limit, Cardinality(rows \cap due)})
       /\ sched' = [sched EXCEPT ![s] = Busy(batch)]
       /\ rows' = rows \ batch
  /\ UNCHANGED <<voiceVars, speechVars, due, deaths>>

\* SET NX, or the lease is still its own: some of what has expired is selected.
Lead(s) ==
  /\ sched[s].pc = "asleep" /\ lease \in {None, s}
  /\ lease' = s
  /\ \E batch \in SUBSET (rows \cap due) :
       /\ Cardinality(batch) = Min({Limit, Cardinality(rows \cap due)})
       /\ sched' = [sched EXCEPT ![s] = Busy(batch)]
  /\ UNCHANGED <<voiceVars, speechVars, rows, due, deaths>>

\* Mistake: the lease is set without an expiry and left by deleting it.
LeaseKept ==
  /\ lease # None /\ sched[lease].pc = "asleep"
  /\ lease' = None
  /\ UNCHANGED <<voiceVars, speechVars, rows, due, sched, deaths>>

\* The lease ends after 30 seconds, whatever its holder does: also between the
\* GET and the PEXPIRE of a renewal, and while it cleans up. A leaving holder
\* deletes it, even if it is another's by then.
LeaseExpires ==
  /\ lease # None
  /\ lease' = None
  /\ UNCHANGED <<voiceVars, speechVars, rows, due, sched, deaths>>

Remaining(s) == sched[s].batch \cap (voices \cup clips)

RemoveFile(s) ==
  /\ \E id \in Remaining(s) : voices' = voices \ {id} /\ clips' = clips \ {id}
  /\ UNCHANGED <<post, owner, job, spk, clipNo, announced, rows, due, lease, sched, deaths>>

CommitCleanup(s) ==
  /\ sched[s].pc = "remove" /\ Remaining(s) = {}
  /\ rows' = rows \ sched[s].batch
  /\ sched' = [sched EXCEPT ![s] = Busy({})]
  /\ UNCHANGED <<voiceVars, speechVars, due, lease, deaths>>

SchedulerDies(s) ==
  /\ sched[s].pc # "dead" /\ Die
  /\ sched' = [sched EXCEPT ![s] = [pc |-> "dead", batch |-> {}]]
  /\ UNCHANGED <<voiceVars, speechVars, rows, due, lease>>

-----------------------------------------------------------------------------
Record == \/ \E p \in Posts : Upload(p) \/ CommitUpload(p) \/ ApiDies(p)
          \/ JobDies
Listen == Hear \/ Heard
Speak == \E s \in Speakers :
  \/ Synthesize(s) \/ ProviderFails(s) \/ CommitSpeech(s) \/ Announce(s)
  \/ PruneList(s) \/ PruneStat(s) \/ PruneOldest(s) \/ Pruned(s) \/ SpeakerDies(s)
Clean == \E s \in Schedulers : Lead(s) \/ RemoveFile(s) \/ CommitCleanup(s)
Time == (\E id \in Media : Expires(id)) \/ LeaseExpires

Next == Record \/ Listen \/ Speak \/ Clean \/ Time \/ \E s \in Schedulers : SchedulerDies(s)
Spec == Init /\ [][Next]_vars

\* Time passes and a scheduler that lives takes its turn.
FairSpec ==
  /\ Spec /\ WF_vars(Time)
  /\ \A s \in Schedulers : WF_vars(Lead(s)) /\ WF_vars(RemoveFile(s) \/ CommitCleanup(s))

-----------------------------------------------------------------------------
\* GET /v1/media/{id} answers with the file.
Served(id) == id \in rows \ due /\ id \in voices \cup clips

\* What the app was told of can be fetched until it expires, unless the cache
\* has filled up since: pruners at work together never take more than the excess.
AnnouncedIsServed == \A id \in announced \ due : Served(id) \/ clipNo - id >= Cap

\* No clean-up, however it is cut short and however many lead, leaves a file
\* behind whose row it removed: a file without a row comes from a writer that
\* has not committed, and never will if it failed or died.
OrphansFromWriters ==
  /\ \A p \in voices \ rows : post[p] \in {"written", "refused", "dead"}
  /\ \A id \in clips \ rows : \E s \in Speakers :
       id \in spk[s].mine /\ spk[s].pc \in {"write", "commit", "failed", "dead"}

\* Though the leader may die with the lease, the backlog of expired media is
\* worked off as long as a scheduler lives.
Backlog == rows \cap due
BacklogClears ==
  Backlog # {} ~> Backlog = {} \/ \A s \in Schedulers : sched[s].pc = "dead"

\* A recording is not kept for good: it goes with the transcription or when it
\* expires.
RecordingsPass == \A p \in Posts : p \in voices ~> p \notin voices
=============================================================================
