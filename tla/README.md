# Hana: verification project

TLA+ models of the Hana companion (a Flutter iOS app, a FastAPI + arq backend,
offline media tools), the TLC configurations that check them on small
instances, and theorems about them with proofs checked by TLAPS.  Every
definition is translated from the source under `src/`; `PROJECT.json` maps each
of them to the lines it stands for.

- [1. The system](#1-the-system)
- [2. Plan](#2-plan)
- [3. Turns on the backend](#3-turns-on-the-backend)
- [4. Following a turn](#4-following-a-turn)
- [5. The life of audio](#5-the-life-of-audio)
- [6. The character engine](#6-the-character-engine)
- [7. The media tools](#7-the-media-tools)
- [8. Where code and documents disagree](#8-where-code-and-documents-disagree)
- [9. What is not modelled](#9-what-is-not-modelled)
- [10. Running the checks](#10-running-the-checks)

## 1. The system

A user talks to Hana by text or push-to-talk.  The app posts a *turn* to the
backend, which queues a job; a worker transcribes, asks the model, stores the
reply and publishes events to a Redis stream; the app follows the stream by SSE
and turns the events into messages, speech and the moods of an animated
character.

```
 app                                       backend
 ---                                       -------
 HomeScreen -> ChatController --HTTP-->  Turn API --(rows)--> Postgres
      ^            |   ^                    |   \--(job)--> arq/Redis
      |      events|   | SSE                |                   |
 VideoStage <- CharacterEngine          relay <- event bus <- Turn worker
      |          ^    |                     (Redis streams)  (orchestrator)
 CharacterVault  |  timers                                      |
 (clips)     TTS queues, recorder        Scheduler -> media <---+
```

### Backend (`src/backend/app`)

| Component | State | Operations | Interacts with | Hard behaviour | What makes it correct |
|---|---|---|---|---|---|
| Turn API (`api/turns.py`) | rows of `turns` | create (text, voice), cancel, follow, read, speak | Postgres, bus, arq | two requests between read and commit; superseding a turn that is finishing; a crash between commit and enqueue | one open turn per user; an accepted turn gets a job; closed stays closed |
| Turn orchestrator (`domain/conversation/orchestrator.py`) | row, messages | `process`: transcribe, build context, call the model, store the reply, speak, finish, fail | Postgres, bus, providers | cancellation at every await, provider errors, restarts | no reply for a closed turn; events follow commits; few segments after a cancellation |
| Event bus (`services/events.py`) | counter, stream and cancel flag per turn | `emit` (INCR, XADD), `cancel`, `is_cancelled` | API and workers publish to one stream | two publishers between INCR and XADD | unique numbers; a terminal event for each turn |
| Turn worker (`workers/settings.py`) | arq queue, tries | start, retry, give up | orchestrator | kill, timeout, loss of Redis | every open turn has a job |
| Scheduler (`scheduler/main.py`) | lease, media rows | take and renew the lease, clean up | Redis, media store | lease lost between check and work | one leader; no media in use is removed |
| Media store (`services/media.py`, `api/media.py`) | files, `media_objects` | save, read, range, delete | API, orchestrator, scheduler | file and row change separately; a recording expires before its job runs | a row without a file is never served |
| AI gateway and protocol | none | call with retry, parse the envelope, pick a cue | provider | malformed answers | a usable reply or an error |
| Voice providers, speech segmentation | none | transcribe, synthesize, split | provider | limits of lengths | segments join to the text |
| Backend shell | configuration | start, authenticate, health | - | - | - |

### App (`src/app/lib`)

| Component | State | Operations | Interacts with | Hard behaviour | What makes it correct |
|---|---|---|---|---|---|
| Character engine (`character/engine/character_engine.dart`) | activity, current turn, cue, deferred reply, timers | a reducer: one event in, effects out | runtime, chat controller, stage | late ticks and ends of clips, events of an old turn, pause in the middle of a reply | a stale tick or turn changes nothing; a held turn is on stage; no wait without a timer |
| Engine runtime (`effect_executor`, `timer_driver`, `character_runtime_controller`) | timers, subscriptions, private flag | dispatch, execute effects, open and lock the private session | engine, stage | events dropped while the private session is open | the engine recovers after the session |
| Chat controller (`chat/chat_controller.dart`) | messages, active turn, PTT state | send, press and release to talk, cancel, follow a turn | engine, HTTP, SSE, TTS | awaits between check and use; early TTS callbacks | one active turn; a stale stream is ignored |
| SSE client (`backend/sse_client.dart`) | last id, last seq, attempt | follow, reconnect, filter | backend relay | duplicates, reordering, end of the stream | the terminal event arrives once |
| TTS queues, recorder (`voice/*`) | segment queue, generation | add, drain, stop | audio player, native TTS | a segment added while `stop()` waits | nothing of a stopped reply plays |
| Character vault (`character/vault/*`) | cache index, manifest, downloads | download, pause, cancel, evict, commit | file system, HTTP | crash between two renames; concurrent persists | index and files agree after a crash |
| Asset resolver and policy | recent assets | resolve a cue to an asset | manifest, vault | empty candidate sets | never an asset that policy forbids |
| Video stage (`character/stage/video_stage.dart`) | controllers, generation | play, preload, release | video plugin | late initialisation of an old clip | at most three controllers; only the newest clip is shown |
| Private mode (`private_mode/*`, `core/secure_window_*`) | lock, timers, window flag | open, lock, auto-lock | runtime, platform | background in the middle of `open` | a locked session shows nothing |
| Native shells, screens, wiring | - | platform channels, widgets | - | - | - |

### Media tools (`src/tools`)

Offline commands, run by hand one after the other; they prepare the clips that
the app's vault downloads.

| Component | State | Operations | Interacts with | Hard behaviour | What makes it correct |
|---|---|---|---|---|---|
| Phase 2 pipeline (`asset_pipeline/`, without `phase4*`) | `inventory.json`, `.csv`, `duplicates.json`, keyframes, sheets, `pipeline_state.json`, reports | `scan`, `extract`, `all`, `verify`, `report` | the source videos, FFmpeg | a command that ends between two files; sources edited while it runs; what earlier runs left | what is verified is of the sources in the snapshot; an undisturbed run passes |
| Phase 4 library (`asset_pipeline/phase4*.py`) | three media files per asset, `build_state.json`, manifests, reports | `build` with a pool and checkpoints, `validate`, `record-tests` | documents of Phases 2 and 3, FFmpeg | killed between the moves of an asset's files | a build that passes describes the files it leaves |
| Publishing (`media_vault/`) | staging, published package, backup | copy, verify, swap; serve | library, app's manifest | death or error between two renames; a rebuild meanwhile | a package is always there and tells the truth about itself |

`PROJECT.json` lists under `hazards` what is hard to test in the parts read so
far, each at its line and with the properties that would catch it.

## 2. Plan

The order follows importance: what a user loses if it is wrong.

| # | Module(s) | Subject | Abstract specification | Theorems |
|---|---|---|---|---|
| 1 (done) | `TurnPromise`, `TurnService`, `TurnServiceProofs`, `TurnLimitsProofs` | API handlers, bus, jobs and orchestrator | `TurnPromise`: what a client may rely on for each turn | types, closed stays closed, refinement, events follow commits, unique numbers, one reply per try, one late segment, no recording kept; one open turn, which has an owner, when requests are serial |
| 2 (done) | `CharacterEngine`, `CharacterEngineProofs` | the reducer with its timers, playbacks and pause | - | types, a held turn is on stage, no wait without a timer, no reply of an old turn |
| 3 (done) | `TurnNews`, `TurnStream`, `TurnStreamProofs` | bus, relay, reconnecting client and its last resort | `TurnNews`: what a follower is promised | types, refinement, reconnecting skips nothing |
| 4 (done) | `MediaLife`, `MediaLifeProofs` | recordings, speech, pruning, lease, clean-up | - | types, no orphans of the clean-up, what is announced is served |
| 5 (done) | `LibraryBuild`, `LibraryRelease` and their proofs | Phase 4 and publishing | - | a build vouches for its media, packages are sound and survive |
| 6 (done) | `VisualPrep`, `VisualPrepProofs` | Phase 2 | - | types, a quiet `all` passes, a verdict vouches for the outputs, nothing stale counts as current but what a restored source leaves |
| 7 | `VaultIndex`, `VaultDownloads` | crash-safe commits, pause, cancel, eviction | an atomic register | the register refinement |
| 8 | `TtsQueue` | segment queue with stop and generations | a queue cleared by stop | nothing of a stopped reply plays |
| 9 | `VideoStage`, `PrivateLock` | controller generations; auto-lock and window flag | - | at most three controllers |
| 10 | `AssetResolver`, `Segmentation`, `RateLimit` | pure algorithms against reference definitions | - | lemmas about the operators |

How they are composed: `LibraryRelease` extends `LibraryBuild` and adds the
publishing script to its next-state relation, so that both scripts share the
media and the manifests.  `TurnService` and `TurnStream` are two views of one
turn: the first has the processes that write rows and publish, the second
reduces these to what they publish and has those who read.  `MediaLife` has the
same processes as far as they handle files.  `TurnPromise` and `TurnNews` are
instantiated with refinement mappings.

## 3. Turns on the backend

### `TurnService`: state and actions

A process is an HTTP handler (`r \in Reqs`) or the job of a turn (`t \in Turns`).
Every action is the code between two awaits that touch something shared.

| Variable | Code |
|---|---|
| `state`, `kind`, `answers` | columns of `turns`; assistant messages with the turn's id |
| `audio`, `uploads` | turns with an uploaded voice file, and with its row in `media_objects` |
| `seqNo`, `stream`, `flag` | Redis `seq:turn:{id}`, `ev:turn:{id}`, `cancel:turn:{id}` |
| `queue`, `tries` | arq's queue and `job_try` |
| `wpc`, `left`, `got` | where the job is, segments left, segments synthesized and not yet emitted |
| `req`, `issued` | the handlers' local variables; ids, numbered in the order of `created_at` |
| `out`, `held` | events a process has still to publish, the number it drew for the first |
| `faults` | faults so far (a bound) |

*Handlers.*  `Lookup` (duplicate check), `Select` (active turn, 409),
`SupersedeFlag` (cancel flag and `turn.cancelled`, before the commit),
`Commit` or `CommitConflict`, `Enqueue`; `CancelTurn` and `CancelFlag` are the
cancel endpoint.  *Job.*  `JobStart`, one action per step of `process`, and
`JobReturn` or `JobGiveUp`.  `Locked` is the transaction all of them share:
lock the row, stop if it is terminal, write, commit, then publish.  The
transcription keeps the order of its `try`: an error is stored and told in the
`except` clause (`TranscriptionFails`), and only then does the `finally` clause
delete the recording (`DeleteVoice`); text, silence and cancellation go through
`finally` first, in the step `Transcribed`.
*Bus.*  `Incr` and `Xadd` are the two commands of `emit`, so two publishers can
be interleaved between them.  *Scheduler.*  `UploadExpires` is its clean-up of an
upload whose job has not got to it; `ReadMedia` then finds no row, and the job
returns with the turn as it is.  *Faults.*  `ApiCrash`, `WorkerFault`.

The rows of the database are changed in one step because each of the code's
transactions either locks the row (`SELECT ... FOR UPDATE`) or commits at a
single point.  The superseding handler is the exception the code makes: it
changes an object it read earlier, and the model keeps the read (`Select`) and
the write (`Commit`) apart.

`TurnPromise` is what a client may rely on, per turn: absent, open, closed, and
whether a message is stored.  `ImplementsPromise` is the refinement, with
`outcome` and `replied` defined from `state` and `answers`.

### Runs

| Run | Instance | Shows |
|---|---|---|
| `turn_races` | 2 turns, 2 handlers, 2 client ids | `TypeOK`, `EventsFollowCommit`, `SeqsUnique`, `TerminalStays`, `ImplementsPromise` under every interleaving of two handlers and two jobs |
| `turn_voice` | 1 spoken voice turn, 3 segments, 3 tries, 3 faults, 2 handlers | `ReplyPerTry`, `OneLateSegment`, `VoiceIsTransient` |
| `turn_serial` | 1 handler, 2 voice turns, fair | `OneOpenTurn`, `OpenTurnOwned`, `TurnsClose`, `StreamsClose`: all hold when the app sends one request at a time and nothing fails, but for recordings that expire (below) |
| `turn_lost` | 1 handler, 1 turn, 1 fault, fair | `TurnsClose` fails: section 8 |

*Bounds.*  Two turns are enough for supersession, which relates a turn to the
one before; two handlers for a race between requests; three segments for a full
batch of two and a rest; three tries is the code's `max_tries`; three faults let
all three tries be cut short, so that the job is given up.  A voice turn and a text turn share all actions
after the transcription.  Deadlock is not checked: with the turn ids used up
and all jobs done the model really stops.

*What the properties except.*  `VoiceIsTransient` lets the recording of a failed turn
exist for as long as its job is in the `finally` clause, and after a fault until the
clean-up: the code commits the failure first.  `OpenTurnOwned` and the two liveness
properties name the case in which the code itself abandons a turn without any fault:
`Stranded`, a turn in `transcribing` whose media row was cleaned up before its job
looked for it.  `turn_serial` reaches it (section 8).

*Fairness.*  `FairSpec` assumes weak fairness of each handler that has begun,
each job and each Redis command: all are coroutines on an event loop, and every
provider call has a timeout.  Nothing is assumed about new requests, and
neither a cancellation nor a fault is ever required to happen.  `turn_serial` has
no faults; `turn_lost` shows that with a single one the property is lost.

### Proofs (`TurnServiceProofs`)

All theorems are for any number of turns, handlers, clients, tries and faults,
from `ConstantsAssumption`.

| Theorem | Statement |
|---|---|
| `TypeCorrect` | `TypeOK`, together with the fact that a job in the emitting step has segments left: `left - 1` stays in range only because of it |
| `RowsCorrect` | `RowInv`, the inductive invariant used by the others |
| `TerminalIsForever` | `TerminalStays` |
| `PromiseKept` | `ImplementsPromise` |
| `EventsAreTrue` | `EventsFollowCommit` |
| `SerialOneOpenTurn` | with at most one handler, `OneOpenTurn` |

The invariant.  `TerminalStays` is not inductive: `Commit` writes `queued` to
the row of the id it was issued, and a state in which that row is already
terminal would break it.  `LinkInv` adds what rules it out: ids above `issued`
have no row, two handlers that have not committed hold different ids whose rows
do not exist, a handler's `active` turn and a queued or running job's turn do
exist, and a job past `StoreReply` has stored an answer.  `RowInv` is `TypeOK`,
the segment fact and `LinkInv`; it is preserved by each action on its own, so
the proof has one step per action and a lemma (`LockedType`, `ProcessTouches`)
for what all the job's steps share.  `EventsFollowCommit` further needs that a
*pending* event is already true (`TruthsNext`): an event is only queued in the
step that commits what it says, and what it says stays true because answers
grow and terminal rows stay terminal.  For `SerialOneOpenTurn` the missing part
is that a handler about to commit holds the one open turn, if there is one, as
its `active` turn, which fails as soon as a second handler may commit between.

### Proofs (`TurnLimitsProofs`)

From the same assumption, what is published how often, and how long things last.

| Theorem | Statement |
|---|---|
| `NumbersAreUnique` | `SeqsUnique` |
| `RepliesPerTry` | `ReplyPerTry` |
| `OneSegmentPasses` | `OneLateSegment` |
| `RecordingsAreTransient` | `VoiceIsTransient` |
| `OpenTurnsHaveOwners` | `OpenTurnOwned`, if `SerialApi` (at most one handler) and `Reliable` (no faults, at least one try) |
| `NobodyClosesInSilence` | `faults = 0 => OutcomesTold`: the terminal event of a closed turn is in its stream, queued by a process, or the next thing its handler does |

The common ground is `TalkInv`, who says what: a handler tells of acceptance and
cancellation, a job of the rest, for its own turn only, and a reply or a segment is
always the first event it has to publish.  `SeqInv` adds to `SeqsUnique` the numbers
that are drawn and not yet used: a process that dies keeps its number from everybody.
`ReplyInv` counts the replies in the stream, the one waiting, and the one this try
may still produce; together they are at most the tries begun, and only `JobStart`
raises both sides.  `LateInv` rests on an order in the code: the flag is set before
the cancellation is published, and the job looks at the flag before each segment,
so that one segment at most can have been queued before.  `VoiceInv` bounds the steps
at which a job has its recording: every way out of the transcription deletes it, and a
failed turn has one only between `except` and `finally` or after a fault.
`OwnedInv` says who owes a turn its end: a job gives up an open turn only if its flag
is set, and then there is a handler about to commit the cancellation, or if the turn is
`Stranded`, and such a turn stays as it is until somebody cancels it (`RowStays`).
Neither premise
can be dropped: with two handlers a supersession is announced and then not committed
(section 8), with a fault a job may be lost.

`NobodyClosesInSilence` is the half of `StreamsClose` that is safety, and it holds
with any number of handlers, where `StreamsClose` itself is checked with one: a turn
closes in four ways (a superseding commit, a cancellation, a completion, a failure),
and each has said so before, says so in the same step, or has only that left to do.  `TellInv` adds what makes the first
true, that a handler about to commit over a turn has announced its cancellation; the
lemma `AnnouncedStays` says that an event queued or published is not lost while nobody
dies.  A death is what the premise is for: a handler that has committed a
cancellation and dies before it publishes leaves a closed turn whose stream has no end.

Only model-checked: `TurnsClose` and `StreamsClose`, which are liveness properties.

## 4. Following a turn

### `TurnStream`: state and actions

Those who end the turn are reduced to what they write to the row and publish: the
worker, the cancelling request, and one request whose new turn supersedes this one
(the *rival*).  In exchange the module has everybody who reads: the relay behind
`GET /turns/{id}/events`, the client that reconnects, and its last resort,
fetching the whole turn.  It begins when the POST has returned.

| Variable | Code |
|---|---|
| `row`, `message` | `Turn.state`; whether the turn has an assistant message |
| `worker`, `work` | whether this try has stored its reply; events it published so far (a bound) |
| `rival` | the superseding request: before `_supersede`, between that and its commit, or done |
| `claims` | history: outcomes the row had, and a cancellation once it is announced |
| `out`, `held`, `seqNo`, `stream`, `nextId`, `expiring` | the bus, as in section 3, with entry ids and the expiry that a terminal event sets |
| `relay` | the generator of `turn_events`: the state it read when the request began, and its cursor |
| `wire` | what the relay has sent and the client has not read |
| `client` | `turnEvents`: where it is, `lastEventId`, `lastSeq`, `attempt` |
| `given`, `heard`, `told` | what the client yielded: entries, a reply, the outcome |

*Publishing.*  `Work`, `Complete`, `Fail`, `Cancel` commit and queue events.  The
rival does it the other way round, as `_supersede` does: `SupersedeAnnounces`, then
`SupersedeCommits`, which writes `cancelled` over whatever the row has become, or
`SupersedeFails`, when the commit raises or the process dies.  `Incr`, `Xadd`
publish; `Die` loses what an emitter still had to publish;
`Expire` is the end of the keys, 900 seconds after the terminal event: by then no
request and no try of the job is under way.
*Relay.*  `Connect` reads the row, `Judge` decides between a snapshot from the
database and the stream, `Relay` is one entry of XREAD, `Refuse` what Redis answers
to the id of a snapshot.  *Client.*  `Read` filters by number and keeps the id,
`Drop` breaks the connection and loses any part of what is under way,
`Disconnected` counts attempts, `Recover` is `_recoverTerminal`.

`TurnNews` is the abstract specification: whoever follows a turn is told one
outcome, and not before the reply unless the turn is said to be cancelled.  What is
told was so: a completion or a failure had been committed.  Only a cancellation may
be announced before it is true (`Announce`), may overrule what the turn came to
meanwhile (`Overrule`), or may never come: then the follower was told something that
the row never says, which is what the code does (section 8).  `ImplementsNews` is the
refinement; it keeps `row`, `message`, `heard`, `told` and `claims` and hides bus,
relay, connection and attempts.

### Run

`stream`: 2 events of the worker before the end, a cancellation, a rival, 4 breaks,
1 death, fair; 3.1 million states.

- `NoneSkipped`: what lies before the client's `Last-Event-ID` was yielded.  The
  exception is written into it: an *overtaken* entry, one whose number is
  smaller than that of an entry before it, is dropped by the filter.
- `CursorIsReal`: a snapshot's id never becomes the cursor of XREAD.
- `ImplementsNews`, and `OutcomeArrives`: an outcome is told if the terminal
  events were published in order and at most three connections broke.

All but `ImplementsNews` suppose that the turn has one stream (`~Renumbered`): when
the rival announced and its commit failed, the stream expires under an open turn, and
a cancellation that comes later begins a second stream whose numbers start again
(section 8).  The run has this, and `ImplementsNews` holds of it too.

*Bounds.*  Two events and the two to four that end a turn are enough for a
reply with an event before or after it, and for a cancellation or an announcement
that publishes between any two.  Four breaks are one more than the client forgives.
One death lets every emitter die at every step; the rival may fail besides.
*Fairness*: weak, of publishing, relaying and
following; the turn need not go on and no connection needs to break.  The
premise of `OutcomeArrives` is what the code can promise; it excludes, and the
model has, these ways not to learn the outcome:

- the emitter of the terminal event died: the relay waits for it for ever and sends
  keepalives (`api/turns.py:557`);
- the terminal event was overtaken: the client drops it, and each new connection
  uses up an attempt;
- the attempts are counted over the whole turn (`sse_client.dart:103`): the
  fourth break of a long turn is the last, and the look at the row that follows
  may find it open.

### Proofs (`TurnStreamProofs`)

For any bounds, from `BoundsAssumption`.

| Theorem | Statement |
|---|---|
| `StreamTypes` | `TypeOK`, with the bound of ids and numbers |
| `ReconnectSkipsNothing` | `NoneSkipped` |
| `CursorsAreReal` | `CursorIsReal` |
| `NewsKept` | `ImplementsNews`: every step is one of `TurnNews` or stutters |

`IInv` follows an event on its way.  `TruthInv`: what is queued, in the stream or
on the wire is among the claims.  `IdInv` counts: the entries of the first stream
have the ids 1, 2, 3, ..., and there is room for whatever is still queued, which is
what bounds ids and numbers.  With two kinds of publishers, those who commit
first and one who announces first, the order of the reply and the end cannot be had
of the whole stream; it is had of the *worker's* events, all but the cancellations
(`OutInv`).  Their numbers ascend (`SeqInv`), a reply stands before the end that the
worker gives the turn (`ReplyInv`), and a cancellation may stand anywhere, as
nothing has to come before it.  `ChainInv`: wire and cursor continue exactly where
the client stands; this is what makes reconnecting safe.  `WireInv`: what the worker
has under way is new to the client, and the reply comes first; when the stream has
expired it stands alone, for snapshots.  `NoneSkipped` is part of the induction: a
client that skipped an entry could be told the outcome without the reply.

Only model-checked: `OutcomeArrives`.

## 5. The life of audio

### `MediaLife`: state and actions

Files below `voice/` and `tts/` (`voices`, `clips`), rows of `media_objects`
(`rows`), and who handles them, each a process of its own:

| Actor | Code | Actions |
|---|---|---|
| upload (`post`), all under one `client_id` | `create_voice_turn` | `Upload`, `CommitUpload`, `ApiDies` |
| its job (`owner`, `job`) | `_transcribe` | `Hear`, `Heard`, `JobDies` |
| speaker (`spk`): the worker, or a request | `_synthesize`, `synthesize_turn_reply`, `MediaStore.prune` | `Synthesize`, `ProviderFails`, `CommitSpeech`, `Announce`, `PruneList`, `PruneStat`, `PruneOldest`, `Pruned`, `SpeakerDies` |
| scheduler (`lease`, `sched`) | `scheduler/main.py`, `cleanup_expired_media` | `Lead`, `LeaseExpires`, `RemoveFile`, `CommitCleanup`, `SchedulerDies` |
| time (`due`) | `expires_at` | `Expires` |

`prune` is three steps, because other processes remove files between its listing,
its `stat` and its `unlink`; a file that is gone by then raises, which ends the
worker's job with the turn open, and turns a request whose rows are committed into
a 503 (`services/media.py:65`).  A lease may expire at any moment, also while its
holder cleans up.  Speech files have the size 1.

### Runs

| Run | Instance | Shows |
|---|---|---|
| `media` | any of five casts of three actors out of two uploads, a worker, a request and two schedulers; 2 segments, a cache of 2, batches of 1, 1 death | `TypeOK`, `AnnouncedIsServed`, `OrphansFromWriters`, `BacklogClears` |
| `media_kept` | two uploads and a scheduler, no deaths | `RecordingsPass` fails: section 8 |

*Bounds.*  Actors share nothing but the directory and the rows, and each hazard is
between two of them with the clean-up as a third: the casts hold every such
combination (`Casts` keeps the states few).  A cache of two files with two speakers
of two segments overflows; batches of one with two expired media make a backlog.
*Fairness*: time passes, and each scheduler that lives takes its turn; nothing
is assumed of uploads, jobs and speakers.

### Proofs (`MediaLifeProofs`)

For any set of actors, segments, cache size, batch and deaths.

| Theorem | Statement |
|---|---|
| `Announced` | `AnnouncedIsServed` |
| `Orphans` | `OrphansFromWriters` |
| `TypeCorrect` | `TypeOK` |

The heart is `KeptInv`: a speech file that has not expired is on disk, or at least
`Cap` newer ones were written.  It is inductive because a pruner removes the
oldest of those it has *seen*, only when it saw more than `Cap`, and files are
numbered in the order of their writing: several pruners with different, outdated
lists still remove only what is old enough.  `SpeakerInv` says that what is
announced has a row or is due, `ShapeInv` is the part of `TypeOK` these two theorems
need.  For the rest of `TypeOK`, the bound on `clipNo` is the point: `CountInv` says
that the files written so far are as many as the pairs of a speaker and a segment it
has spoken, and there are `MaxFiles` such pairs.  Left to TLC: `BacklogClears`.

## 6. The character engine

### `CharacterEngine`: state and actions

`CharacterEngine.reduce` is a pure function from a state and an event to a state
and effects, and `CharacterRuntimeController.dispatch` executes the effects
before it takes the next event.  The model keeps that shape: `eng` is one record,
state and pending timers, and every case of `reduce` is an operator from records
to records that has the case's name.  The actions are the callers: each dispatches one event (or the
two or three that one synchronous piece of code dispatches in a row).

| Model | Code |
|---|---|
| `eng.activity`, `.turn`, `.cue`, `.deferred`, `.context`, `.ended`, `.paused`, `.jobs` | `activity`, `currentTurnId`, the emotion of `pendingCue`, `deferredReply`, `stageContext`, `overlayCompletionPending`, `paused`, `activeJobIds` |
| `eng.timers[tag]` | the pending timer of `SystemTimerDriver`: the turn it was scheduled for, or `Off` |
| `eng.covered`, `.quarantined` | what the assets allow: the states that may keep a context other than daily; whether `transientAssetIds` is not empty |
| `private` | `isPrivateOpen`: events of the normal session are dropped |
| `submitted`, `followed`, `listening`, `replies`, `recording`, `uploads` | turns accepted, `ChatController.activeTurnId`, whether its stream is still subscribed to, replies streamed for it, `ChatController.recording`, recordings on their way |
| `Show`, `Idle`, `Working`, `Overlay`, `Thinking`, `ExitOverlay` | `_show`, `_idle`, ... |
| `AppPaused(e)` ... `ClipError(e, ...)` | the cases of `reduce` |
| `Follow`, `StreamReply`, `StreamFailed`, ..., `CancelTurn` | `_follow`, `_handle`, `cancelTurn` of the chat controller |
| `StreamRecovered`, `StreamLost` | `_recoverTerminal` with the snapshot of a closed turn; with that of an open one, or with none: the turn stays followed and nobody listens |
| `TtsStart`, `TtsFinish`, `TtsFail`, `StopAudio`, `PlayMessage` | callbacks of the speech queue, `stopAudio`, `playMessage` |
| `PttPress`, `PttRelease`, `PttCancel`, `UploadFail` | push-to-talk |
| `ClipEnd`, `ClipFail`, `AssetsChange`, `Touch`, `Pause`, `Resume` | stage, vault, input, app life cycle |
| `OpenPrivate`, `LockPrivate` | what a private session does to the normal one |
| `IdleToSleep` ... `ContextHold` | `_tick`, one action per tag; `Heard` says when a tick is dropped |

*Abstractions.*  Time: a timer may fire at any moment after it was scheduled, and
a minimal duration may or may not be over when it is looked at (`dwelt`,
`early`).  Tokens: a token is raised only together with the effect that cancels
or replaces the timer of its tag, so the timer that fires carries the current
token and the comparison never fails; the two places where effects are
dropped (`CueReceived` in sleep, `lockPrivate`) are modelled by keeping the
timers as they were.  Assets: the resolver chooses a clip, a poster or nothing,
and only its fallback to the daily context comes back into the state.  Play ids:
the end or the failure of an old clip changes nothing, and is left out.  The
permission question and the start of the recorder are part of `PttPress`.
No screen calls `cancelTurn` yet, and `JobStarted`,
`CueReceived` and `UserActivity` are handled by the engine, but only demos, or
nobody, dispatch them to the normal session so far; they are included.

### Runs

| Run | Instance | Shows |
|---|---|---|
| `engine_live` | 2 turns that may overlap, 1 reply each, fair | `TypeOK`, `TurnOnStage`, `WaitsAreTimed`, `DeferralsAreTimed`, `ReplyEnds`, `ReactionEnds` |
| `engine_patient` | 1 turn, no overlap, 1 job, cues of another context, assets that come and go, fair | `ActivitiesEnd`, `ThinkingEnds` |
| `engine_stuck` | as `engine_live` | `ThinkingEnds` fails: section 8 |

*Bounds.*  `MaxTurns` turns: a stale callback, timer or deferred reply relates a
turn to the next one, so two are enough; a replay (`PlayMessage`) brings an old
turn back without using up another.  `engine_patient` has one turn with its replays,
its job, recordings that fail to upload and contexts: what ends an activity does not
depend on a turn before it, and a second one with all of these is too large for a
temporal property.  `MaxReplies` replies per turn: the backend
sends one (a retried job may send a second).  One job makes the difference
between `working` and `idle`.  Deadlock is not checked: nothing forces the user
to go on.

*Fairness.*  Weak fairness of the timers that end something, which the platform's
event loop provides; of `LockPrivate`, which the auto-lock of the private screen
provides; and of `Upload`, because HTTP calls have timeouts.  Nothing is assumed of
the stream: the backend may never close a turn (`turn_lost`), its relay then sends
keepalives for ever, and a stream that is lost is given up if the snapshot is of an
open turn or cannot be had (`chat_controller.dart:199`, `:234`).  Nor is anything
assumed about the user, clips, speech callbacks, or the app's return to the
foreground.  A timer that is armed again counts as pending all along: in the code
`AppResumed` after a mere `inactive` starts the time of a reaction again, and the
model assumes that this does not go on for ever.

`ThinkingEnds` says what is left without that: the character thinks for ever at most
about a turn the app still follows, which push-to-talk and `cancelTurn` end.  It needs
the patient user of `Overlap = FALSE`: a text is sent, and speech replayed, only while
the engine holds no turn, the user does not speak and no recording is on its way.
Push-to-talk only needs that no recording is on its way: barging in on a held turn
stays allowed.

### Proofs (`CharacterEngineProofs`)

For any number of turns, replies and jobs, any contexts, cues and assets, with
and without overlap, from `ConstantsAssumption`.

| Theorem | Statement |
|---|---|
| `EngineInGoodOrder` | `IInv`, the inductive invariant |
| `TypeCorrect` | `TypeOK` |
| `TurnsAreOnStage` | `TurnOnStage` |
| `NoEndlessWait` | `WaitsAreTimed` |
| `NoStaleDeferral` | `DeferralsAreTimed` |
| `NothingLastsForEver` | `ActivitiesEnd`, if no cue is neutral |

`IInv` says that the engine of the normal session is `Good` whenever no private
session is open.  While one is, ticks are dropped and nothing but the types is
left; `LockPrivate` restores the rest.  `Good` strengthens the properties where
they are not inductive: a surprised character with a turn has its cue and no
deferred reply (or the end of the overlay would lead back to `thinking` with a
stale reply, or to `idle` with a turn), and a deferred reply is one of a turn (or the tick of
`thinking_min_dwell` would find nothing to take up and leave it without a timer).
The proof follows the code: lemmas say which fields `_show`, `_schedule` and
`_cancelTimers` change, then that `_idle`, `_working`, `_overlay` and `_thinking`
lead to a good state, then that each event and each tick does; the actions only
combine those.

Only model-checked: the liveness properties.

## 7. The media tools

Commands replace every file atomically, but not the set of files: a command may
end between any two of them, and what it leaves is where the next begins.  The
models have one step per file.  A content is a number; equal contents stand for
equal hash, size and time of modification.  Sources are edited at any moment, also
between two of the FFmpeg commands that read them, and an edit may bring back a
content that was there before, as restoring a file from a copy does.

### `VisualPrep` (Phase 2)

| Model | Code |
|---|---|
| `source` | `assets_source`, per path |
| `disturbed`, `restored` | history: videos whose source changed before a run had read it all; those whose source came back |
| `snapshot`, `inventory`, `csv`, `duplicates`, `index` | the documents of a scan |
| `keyframes`, `sheets`, `state` | outputs per source id, named by the contents they were rendered from, and `pipeline_state.json` with their hashes |
| `integrity`, `verification`, `tests`, `report` | results |
| `StartScan` ... `StartReport` | how `cli.py` begins a command |
| `Probe`, `WriteCsv`, `WriteDuplicates` | `scan` |
| `StartWork`, `Render` (once per reading) ... `PlaceSheet`, `WorkFails`, `Drain`, `CleanUp`, `WriteState`, `WriteIndex` | `extract`, with its pool |
| `Finalize`, `Verify`, `WriteReport` | the second snapshot, `verify_outputs`, the report |
| `Edit`, `Lose`, `Abort` | the world |

### `LibraryBuild` (Phase 4) and `LibraryRelease` (publishing)

| Model | Code |
|---|---|
| `source`, `analysis`, `before` | sources; the Phase 2 documents of them; `source_snapshot_before.json` |
| `media`, `entries`, `manifests` | the three files of each asset, `build_state.json`, the master, vault and view manifests |
| `disturbed`, `reverted` | history: assets whose source changed before a build had read it all; those whose source got back an older content |
| `previous`, `job`, `states` | the build's local variables: the entries it found, its pool, the entries collected |
| `StartBuild`, `Reuse`, `Encode` (three readings: video, poster, blur), `Place`, `Collect`, `Settle`, `WriteManifest`, `WriteState`, `Check` | `build` |
| `StartValidate` | `validate` |
| `bundled` | the manifest in the app's assets |
| `staging`, `output`, `backup`, `pub` | `publish_media.py` |
| `CopyManifest`, `HashVideo`, `CopyVideo`, `CopyImages`, `Swap`, `Retire`, `Install`, `InstallFails`, `Discard` | its steps |

`LibraryRelease` extends `LibraryBuild`: both scripts work on one set of media, and
the run checks the properties of both.  `Overlap` says whether they may run at the
same time.  The reports of Phase 4 and `record-tests` are left out: no command reads
them to decide anything.

### Runs

| Run | Instance | Shows |
|---|---|---|
| `pipeline` | 2 paths, 2 contents, 2 edits, 1 fault, 1 abort | `TypeOK`, `VerifiedIsPrepared`, `VerifyIsPrepared`, `CalmAllPasses` |
| `library` | 2 assets, 2 contents, 2 edits, 1 fault, 1 crash, `Overlap = FALSE` | `TypeOK`, `ReleaseTypeOK`, `CalmBuildPasses`, `BuildVouches`, `ImagesBelong`, `PackagesAreSound`, `PackageSurvives` |

Each says what a verdict is worth: when a command reports success, the files are
what it says, whatever earlier commands left (`VerifiedIsPrepared`,
`BuildVouches`, `ImagesBelong`); when nothing disturbs a command it reports
success, so that no remains need to be removed by hand (`CalmAllPasses`,
`CalmBuildPasses`).  *Bounds*: two assets, one of which may be touched while the
other is not; two edits, so that a content goes and comes back; one fault and one
crash or abort, so that a command can be cut off that was repairing what a fault
left.  In `pipeline` the paths are interchangeable (`MCVisualPrep` declares the
symmetry; all its properties are safety properties, and no `CHOOSE` depends on a
path).  17.8 and 5.6 million states.  The tools run to their end or are ended, so no
fairness is needed.

Premises that the code makes necessary:

- `VerifyIsPrepared` requires that no command was aborted and that the inventory
  is of the snapshot.  `verify_outputs` compares numbers of records
  (`verification.py:56`), so that documents of two runs may pass together; and
  an `extract` that refuses an outdated inventory has replaced the snapshot by
  then (`runner.py:139`), so that `verify` passes for outputs of the old sources.
  TLC finds both without the premises.  It says nothing of recorded hashes, other
  than `VerifiedIsPrepared`, for the reason given in section 8.
- `PackagesAreSound` requires `Overlap = FALSE`: the script reads the manifest and
  copies it later, and hashes each video and copies it later
  (`publish_media.py:63`).  With `Overlap = TRUE` TLC finds a package whose
  `integrity.json` is wrong.
- A source that was replaced while a command read it and then brought back is
  excepted: of `restored` videos and of assets in `disturbed \cap reverted` the
  outputs may be of the other content (section 8).  The history variables make the
  exception as small as it is: it needs both the replacement before the last reading
  and the return.  Every other replacement is caught by the second snapshot, by the
  fingerprints, or does no harm; that is what the properties say.
- `ImagesBelong`, and the images in `PackagesAreSound`, claim nothing of an asset
  that was `disturbed` or `reverted`: three runs of FFmpeg read its source, each for
  itself, a checkpoint of a failed build keeps what they made, and neither `validate`
  nor the publishing script looks at the hashes of images.  The videos in a package,
  and its two lists of them, need no such premise.

### Proofs (`LibraryBuildProofs`, `LibraryReleaseProofs`)

For any number of assets and any bounds, with or without `Overlap` unless it says
otherwise.

| Theorem | Statement |
|---|---|
| `LibraryBuildProofs!TypeCorrect` | `TypeOK` |
| `CalmPasses` | `CalmBuildPasses` |
| `Vouches` | `BuildVouches` |
| `Belong` | `ImagesBelong` |
| `ReleaseTypes` | `ReleaseTypeOK` |
| `Survives` | `PackageSurvives` |
| `PackagesSound` | `PackagesAreSound`, if not `Overlap` |

The invariant of the build (`AssetInv`) speaks of each asset by itself, and its parts
hold of different assets.  Of all: what a running build takes over or has made agrees
with the files on disk (`WorkInv`), and is carried through the writing of the
documents (`DoneInv`).  Of those that every build read undisturbed: entries are of one
content, the one they are filed under (`TrueInv`).  Of those never reverted: contents
only grow, so that an entry made for the present source speaks of it (`OrderInv`).
Where a history has one of the two, `Vouches` follows.  Where it has neither blemish,
a thread's order matters, video before images: an image is never newer than its
video and never older than the master manifest (`ImagesInv`), which is why
`validate`, which only looks whether images are there, still vouches for them.
For packages, `BundleInv` relates the app's manifest to
the master manifest, `SwapInv` says which directories exist while the two are
renamed, and `CopyInv` that a staging directory holds what it will claim.

### Proofs (`VisualPrepProofs`)

For any number of paths and any bounds.

| Theorem | Statement |
|---|---|
| `TypeCorrect` | `TypeOK` |
| `CalmPasses` | `CalmAllPasses` |
| `NeverStale` | `NotStale`: outputs and hashes of a video whose source has its content come from that content alone, or the video is `restored` |
| `Vouches` | `VerifiedIsPrepared` |
| `VouchesLater` | `VerifyIsPrepared` |

`verify_outputs` only counts, so what a passing verification says has to come from
elsewhere.  The proof goes from the sources to the counts:

1. `SoundInv`: outputs and hashes are of the content they are filed under, for every
   video of which no run was disturbed.  It holds however often contents come and go.
2. `ReadInv` connects that with the sources: what a run has yet to read is what its
   snapshot has, or the video is `disturbed`; and a disturbed content that is there
   has been `restored`.  `JobInv` says the same of what the threads hold.
3. `CheckedInv`: `Finalize` compares the sources with the snapshot, so at that
   moment every video of the snapshot is there, and is sound unless it was restored.
   It stays so until `Verify`, although the sources may change again.
4. `CommandInv` (for `all` and `extract`) and `AlignedInv` (for any command while
   none was cut off) say which documents are of the same inventory in which stage.
   Two finite sets, one in the other and of the same number, are equal: so the
   counts of `Verified` say that every listed video has its outputs, and, where
   nothing else has an entry, its hashes.
5. `CalmInv` follows `all` through its stages for `CalmPasses`; `Ready` is what the
   pool has established of each video so far.

## 8. Where code and documents disagree

With a run whose counterexample is a behaviour of the code:

- `turn_lost`: the scheduler is documented to requeue or fail lost turns
  (`docs/ARCHITECTURE.md:845`, `:896`); it does neither.  A turn whose job raised,
  or whose handler died before it enqueued the job, stays open.
- `engine_stuck`: `docs/PHASE_5_2_FIX_REPORT.md:111` saw no stuck engine; a text
  sent while the engine thinks about an earlier turn leaves it thinking:
  `TurnSubmitted` is ignored, `_follow` has already dropped the stream of the old
  turn, and no event of either turn is acted on any more.  (Thinking about a turn
  that is still followed does not violate the property.)
- `media_kept`: recordings are documented to be deleted after 24 hours
  (`docs/PRIVACY_SPEC.md:64`); one that was written before a commit that failed has
  no row, and nothing ever removes it.

Met while modelling, each reproduced or read off the code, without a run:

- Two concurrent posts make two open turns: the check and the insert are separate
  steps (`docs/ARCHITECTURE.md:803` allows one).  `OneOpenTurn` is therefore
  claimed for one handler at a time.
- A superseding post that read the turn earlier rewrites a completed one to
  cancelled (`:780` calls completed final).  `TerminalStays` claims that it stays
  terminal.
- No automatic retry is documented (`:828`); arq's `max_tries` is 3, and a job that
  a restart interrupts runs again from the start and may answer twice.
  `ReplyPerTry` claims one reply per try.
- A voice turn whose recording is cleaned up before its job looks for it
  (`orchestrator.py:161`) is left in `transcribing`: the job returns without closing
  it, no event ends its stream, and nothing but a supersession or a cancellation does.
  It takes `voice_upload_ttl_s` in the queue and no fault.
- A failed transcription is committed and told before its recording is deleted
  (`orchestrator.py:179-187`); a kill in between keeps the recording until the
  clean-up.
- Supersession is announced before it is committed (`api/turns.py:130-137`): when
  the commit fails on the `client_id` of a concurrent duplicate, the old turn is
  open in the row, but its follower was told that it was cancelled, its cancel flag
  stays and its worker stops.  The turn then stays open.  Its stream expires; if it
  is cancelled or superseded later, a new stream begins with number 1, below what a
  follower has seen, who drops it, and with entry ids after theirs.  When the turn
  completes before the commit, the row is overwritten: one follower is told the
  completion, another the cancellation.  `TurnStream` has all of this; `TurnNews`
  says what is left to rely on.
- A terminal event that was overtaken by another event of the turn is dropped by the
  client's filter, the relay ends, and the client reconnects behind it: to the
  silence of the stream, until that expires.
- Phase 2: a video is replaced while `extract` renders it and the second snapshot
  makes the run fail, but its outputs are there and recorded under the fingerprint of
  the inventory, that is of the old content (`keyframes.py:56-65`, `:162-167`).  When
  the old file is put back, `_state_is_current` (`:68`) finds these outputs current
  and the next run passes with the frames of the other video.  If the old file
  returns before the second snapshot is taken, even the first run passes.
- Phase 4: the checkpoint of a build that the second snapshot makes fail keeps media
  of the new source under the hash of the old (`phase4.py:1078-1112`); put back, they
  are reused.  And the three FFmpeg commands of an asset read the source one after
  the other (`:551-560`): a replacement in between gives the video of one content and
  the images of another, which `validate` accepts and the publishing script copies.
- A slow clip is documented to be tried again after five seconds
  (`docs/PHASE_5_1_FIX_REPORT.md:15`); if its tick comes while the app is paused it
  is dropped, and nothing schedules another (`character_engine.dart:398`).
- `TtsFinished` shows the reaction of a reply although `_replyReady` showed it
  before the speech (`character_engine.dart:175`, `:328`);
  `docs/CHARACTER_SYSTEM.md:729` excludes two overlays for a reply.
- A `JobFinished` that arrives during a private session is lost and the job stays
  active (`:260`): later speech is followed by `working` again.
- `CueReceived` in sleep drops the effects of waking up (`:272`): after a neutral
  cue, which `docs/CHARACTER_SYSTEM.md:604` provides for reminders, the character
  idles without the timer that puts it to sleep: with such a cue `ActivitiesEnd`
  fails.  No screen sends one yet, and `engine_patient` has none.
- The Phase 4 report speaks of the last *complete* build: a build or a `validate`
  that fails leaves the old report with its status in place.  The first checkpoint
  of a build replaces `build_state.json` by what was collected so far; a build that
  is then interrupted has lost the entries of the others and encodes them again.
- `verify` counts the entries of `pipeline_state.json` and checks the hashes of
  those it finds for a listed video (`verification.py:82`): a listed video without an
  entry and an entry of a video that is gone make up for each other, and the check
  that reports "assets with validated output hashes" passes.  After a failed
  rendering, the removal of another source and a `scan`, TLC gets there with two
  faults.  `all` and `extract` rewrite the entries first and are not affected.
- `keyframes.py:205` keeps the entry of a video whose rendering failed if its old
  outputs are intact, so `verify` passes for it after an `all` that failed.

## 9. What is not modelled

- In the modelled parts: texts, prompts and the choice of a cue, latency records,
  message rows of the user, rate limits, the trimming of Redis streams, byte
  ranges, perceptual hashes, media profiles.
- Planned: rows 7 to 10 of section 2.
  - *Character vault*: the downloads and the index with its two renames are the
    largest part of the app left.
  - *TTS queues and recorder*: the engine model lets their callbacks come in any
    order, which includes every order the queues produce.
  - *Video stage*, *private mode*, *asset resolver*: the engine model leaves ends of
    clips, locking and the choice of an asset open in the same way.
- Left out for good: AI gateway and voice providers (external calls with no shared
  state; their outcomes are in `TurnService` and `MediaLife`), backend shell,
  widgets and layout, native shells (seen from their callers).
- Not provable here: liveness under fairness (`TurnsClose`, `StreamsClose`,
  `OutcomeArrives`, `BacklogClears`, `ReplyEnds`, `ReactionEnds`, `ThinkingEnds`);
  these are checked by TLC on the instances above.  Every invariant and every
  action property that a passing run checks is a theorem.

## 10. Running the checks

```
tlc -workers 2 -config turn_races.cfg MCTurnService     # turn_*: MCTurnService
tlc -workers 2 -config engine_live.cfg MCCharacterEngine # engine_*: MCCharacterEngine
tlc -workers 2 -config stream.cfg TurnStream
tlc -workers 2 -config media.cfg MediaLife              # media_*: MediaLife
tlc -workers 2 -config pipeline.cfg MCVisualPrep
tlc -workers 2 -config library.cfg LibraryRelease
tlapm TurnServiceProofs.tla         # and TurnLimitsProofs, TurnStreamProofs,
                                    # CharacterEngineProofs, MediaLifeProofs,
                                    # LibraryBuildProofs, LibraryReleaseProofs,
                                    # VisualPrepProofs
```

Three runs, `turn_lost`, `engine_stuck` and `media_kept`, are expected to end with
a violation.  `PROJECT.json` lists, for each passing property, a mutation of the
model (an operator marked "Mistake" before the definition it replaces) under which
TLC finds the property violated.
