-------------------------- MODULE CharacterEngine --------------------------
(***************************************************************************)
(* The character on screen: CharacterEngine.reduce, its timers, and the    *)
(* events the app dispatches to it through CharacterRuntimeController.     *)
(*                                                                         *)
(* The reducer maps a state and an event to a state and effects; the       *)
(* runtime executes the effects before the next event, so a state of the   *)
(* engine and its pending timers are one record here, eng, and the helpers *)
(* of the reducer are functions from records to records.                   *)
(*                                                                         *)
(* A timer is the turn it was scheduled for: SystemTimerDriver keeps one   *)
(* per tag, and a token is only ever raised together with the effect that  *)
(* cancels or replaces the timer (or, in LockPrivate and in waking by a    *)
(* cue, when the timer is replaced at once or not pending), so a timer     *)
(* that fires carries the current token.  Time is left out: a timer may    *)
(* fire at any moment and a minimal duration may or may not be over.  Of   *)
(* the choice of assets only its effect on the stage context is kept.      *)
(***************************************************************************)
EXTENDS Integers, FiniteSets

CONSTANTS
  MaxTurns,    \* bound: turns the app submits
  MaxReplies,  \* bound: reply.ready events of one turn
  Jobs,        \* ids of background jobs
  Cues,        \* emotions of CueReceived
  Contexts,    \* contexts a cue may name, after the policy turned what it forbids to daily
  Coverage,    \* sets of states that may have assets for another context
  Overlap      \* TRUE: a turn may be submitted while the engine has one

Turns == 1..MaxTurns
NoTurn == 0
Off == -1            \* no timer is pending

Reactions == {"happy", "shy", "surprised", "concerned"}
Emotions == Reactions \cup {"neutral"}
NoCue == "none"
CoreStates == Reactions \cup {"idle", "listening", "thinking", "talking", "working", "sleep"}
StageContexts == {"daily", "other"}     \* other: assistant or relationship

ASSUME ConstantsAssumption ==
  /\ MaxTurns \in Nat /\ MaxReplies \in Nat
  /\ Cues \subseteq Emotions
  /\ Contexts \subseteq StageContexts \cup {"keep"}
  /\ Coverage \subseteq SUBSET CoreStates /\ {} \in Coverage
  /\ Overlap \in BOOLEAN

TurnTags == {"tts_wait_timeout", "tts_playback_max", "pre_speech_max", "thinking_min_dwell",
             "thinking_variant_rotate", "overlay_max", "overlay_min"}
Tags == TurnTags \cup {"idle_to_sleep", "working_max", "retry_asset", "context_hold"}
\* Mistake: the wait for speech is suspended with the stage.
BackgroundTagsFewer == {"tts_playback_max", "pre_speech_max", "thinking_min_dwell"}
BackgroundTags == {"tts_wait_timeout", "tts_playback_max", "pre_speech_max",
                   "thinking_min_dwell"}

Replies == [turn : Turns \cup {NoTurn}, emotion : Emotions,
            context : StageContexts \cup {"keep"}, speak : BOOLEAN]
NoReply == [turn |-> NoTurn, emotion |-> "neutral", context |-> "keep", speak |-> FALSE]

EngineStates ==
  [activity : CoreStates,
   turn : Turns \cup {NoTurn},        \* currentTurnId
   cue : Emotions \cup {NoCue},       \* emotion of pendingCue
   deferred : Replies,                \* deferredReply
   context : StageContexts,           \* stageContext
   covered : SUBSET CoreStates,       \* states the ready assets cover in another context
   quarantined : BOOLEAN,             \* transientAssetIds is not empty
   ended : BOOLEAN,                   \* overlayCompletionPending
   paused : BOOLEAN,
   jobs : SUBSET Jobs,                \* activeJobIds
   timers : [Tags -> Turns \cup {NoTurn, Off}]]

VARIABLES
  eng,        \* the engine of the normal session with its timers
  private,    \* a private session is open
  submitted,  \* turns the app has submitted
  followed,   \* ChatController.activeTurnId
  listening,  \* the stream of the followed turn is subscribed to
  replies,    \* reply.ready events received of the followed turn
  recording,  \* ChatController.recording
  uploads     \* recordings being uploaded

vars == <<eng, private, submitted, followed, listening, replies, recording, uploads>>

-----------------------------------------------------------------------------
(* Helpers of the reducer.                                                 *)

Arm(e, tag) == [e EXCEPT !.timers[tag] = e.turn]
Disarm(e, tags) ==
  [e EXCEPT !.timers = [g \in Tags |-> IF g \in tags THEN Off ELSE e.timers[g]]]
Clear(e) == [e EXCEPT !.turn = NoTurn, !.cue = NoCue]
CancelTurnTimers(e) == Disarm(e, TurnTags)

\* The resolver falls back to daily when the wanted context has no asset.
Wanted(e, a) == CASE a = "working" -> "other" [] a = "sleep" -> "daily" [] OTHER -> e.context
Show(e, a) ==
  [e EXCEPT !.activity = a,
            !.context = IF a \in e.covered THEN Wanted(e, a) ELSE "daily"]

\* Mistake: a reply held back for an earlier turn is kept.
ThinkingKeeps(e) == Arm(Show(e, "thinking"), "thinking_variant_rotate")
Thinking(e) ==
  Arm(Show([e EXCEPT !.deferred = NoReply], "thinking"), "thinking_variant_rotate")
Working(e) == Arm(Show(e, "working"), "working_max")
\* Mistake: a reaction lasts as long as its clip.
OverlayEndless(e, reaction) == Show([e EXCEPT !.ended = FALSE], reaction)
Overlay(e, reaction) == Arm(Show([e EXCEPT !.ended = FALSE], reaction), "overlay_max")
Idle(e) ==
  LET s == Arm(Show(e, "idle"), "idle_to_sleep")
  IN IF e.context = "daily" THEN s ELSE Arm(s, "context_hold")
Settle(e) == IF e.jobs # {} THEN Working(e) ELSE Idle(e)
ExitOverlay(e) ==
  IF e.turn # NoTurn /\ e.cue # NoCue
    THEN Disarm(Show([e EXCEPT !.ended = FALSE], "thinking"), {"pre_speech_max"})
    ELSE Settle(e)

ThinkingOrReaction(e) == e.activity \in Reactions \cup {"thinking"}
Current(e, t) == e.turn # NoTurn /\ e.turn = t
\* Mistake: a cue that names no context erases it.
CueContextRaw(e, x) == x
CueContext(e, x) == IF x = "keep" THEN e.context ELSE x

-----------------------------------------------------------------------------
(* The events of the reducer: each is what reduce returns for it.          *)

AppPaused(e) ==
  LET p == [e EXCEPT !.paused = TRUE]
      q == IF e.activity = "listening" THEN Clear([p EXCEPT !.activity = "idle"]) ELSE p
  IN IF e.paused THEN e
     ELSE Disarm(q, {"overlay_max", "working_max", "overlay_min", "context_hold",
                     "thinking_variant_rotate"})

\* Mistake: a reaction is shown again without its timer.
AppResumedShow(e, long) ==
  LET next == [e EXCEPT !.paused = FALSE, !.context = IF long THEN "daily" ELSE @]
      a == e.activity
  IN CASE a \in {"idle", "sleep"} -> Idle(next)
       [] a = "working" -> Working(next)
       [] OTHER -> Show(next, a)

AppResumed(e, long) ==
  LET next == [e EXCEPT !.paused = FALSE, !.context = IF long THEN "daily" ELSE @]
      a == e.activity
  IN CASE a \in {"idle", "sleep"} -> Idle(next)
       [] a = "working" -> Working(next)
       [] a = "thinking" -> Arm(Show(next, a), "thinking_variant_rotate")
       [] a \in Reactions -> Overlay(next, a)
       [] OTHER -> Show(next, a)

UserActivity(e) == IF ~e.paused /\ e.activity \in {"idle", "sleep"} THEN Idle(e) ELSE e

\* PolicyUpdated and AssetsAvailabilityChanged
Reselect(e) == IF e.paused THEN e ELSE Show(e, e.activity)

PttPressed(e) ==
  IF e.paused THEN e
  ELSE Disarm(Show(Clear(e), "listening"), TurnTags \cup {"working_max"})

PttReleased(e, valid) ==
  IF e.paused \/ e.activity # "listening" THEN e
  ELSE IF valid THEN Thinking(e) ELSE Idle(e)

\* Mistake: the failure is matched with a turn, and there is none yet.
PttUploadFailedMatched(e) ==
  IF e.activity = "thinking" /\ e.turn # NoTurn
    THEN Overlay(CancelTurnTimers(e), "concerned") ELSE e

PttUploadFailed(e) ==
  IF e.activity = "thinking" /\ e.turn = NoTurn
    THEN Overlay(CancelTurnTimers(e), "concerned") ELSE e

\* Not accepted while listening, nor while thinking about another turn.
Submittable(e) ==
  \/ e.activity \in Reactions \cup {"idle", "sleep", "working", "talking"}
  \/ e.activity = "thinking" /\ e.turn = NoTurn

TurnSubmitted(e, t) ==
  IF Submittable(e)
    THEN Thinking([CancelTurnTimers(e) EXCEPT !.turn = t, !.cue = NoCue])
    ELSE e

\* _replyReady once the minimal dwell is over
Answer(e, r) ==
  LET next == [e EXCEPT !.deferred = NoReply, !.cue = r.emotion,
                        !.context = CueContext(e, r.context)]
      done == Clear(CancelTurnTimers(next))
  IN CASE ~r.speak /\ r.emotion \in Reactions -> Overlay(done, r.emotion)
       [] ~r.speak /\ r.emotion \notin Reactions -> Idle(done)
       [] r.speak /\ r.emotion = "surprised" ->
            Arm(Arm(Overlay(next, "surprised"), "pre_speech_max"), "tts_wait_timeout")
       [] OTHER -> Arm(next, "tts_wait_timeout")

Answerable(e, t) == Current(e, t) /\ e.activity = "thinking"

ReplyReady(e, r, dwelt) ==
  IF ~Answerable(e, r.turn) THEN e
  ELSE IF dwelt THEN Answer(e, r)
  ELSE Arm([e EXCEPT !.deferred = r], "thinking_min_dwell")

\* Mistake: the watchdog of the playback is armed before the timers are cancelled.
TtsStartedSwapped(e, t) ==
  IF Current(e, t) /\ ThinkingOrReaction(e) /\ e.cue # NoCue /\ e.deferred = NoReply
    THEN CancelTurnTimers(Arm(Show(e, "talking"), "tts_playback_max")) ELSE e

TtsStarted(e, t) ==
  IF Current(e, t) /\ ThinkingOrReaction(e) /\ e.cue # NoCue /\ e.deferred = NoReply
    THEN Arm(CancelTurnTimers(Show(e, "talking")), "tts_playback_max") ELSE e

\* After the speech comes the reaction of the reply, whether or not it was shown before.
TtsFinished(e, t) ==
  IF ~(Current(e, t) /\ e.activity = "talking") THEN e
  ELSE IF e.cue \in Reactions THEN Overlay(Clear(CancelTurnTimers(e)), e.cue)
  ELSE Settle(Clear(CancelTurnTimers(e)))

\* Mistake: the turn is not forgotten.
TtsFailedKeeps(e, t) ==
  IF Current(e, t) /\ (e.activity = "talking" \/ ThinkingOrReaction(e))
    THEN Settle(CancelTurnTimers(e)) ELSE e

TtsFailed(e, t) ==
  IF Current(e, t) /\ (e.activity = "talking" \/ ThinkingOrReaction(e))
    THEN Settle(Clear(CancelTurnTimers(e))) ELSE e

TtsStoppedByUser(e) ==
  IF ~e.paused /\ e.activity = "talking" THEN Settle(Clear(CancelTurnTimers(e))) ELSE e

TurnFailed(e, t) ==
  IF Current(e, t) /\ e.activity = "thinking"
    THEN Overlay(Clear(CancelTurnTimers(e)), "concerned") ELSE e

TurnCancelled(e, t) ==
  IF Current(e, t) /\ (ThinkingOrReaction(e) \/ e.activity = "talking")
    THEN Idle(Clear(CancelTurnTimers(e))) ELSE e

JobStarted(e, j) ==
  LET next == [e EXCEPT !.jobs = @ \cup {j}]
  IN IF e.activity = "idle" THEN Working(next) ELSE next

JobFinished(e, j) ==
  LET next == [e EXCEPT !.jobs = @ \ {j}]
  IN IF j \in e.jobs /\ e.activity = "working" /\ next.jobs = {} THEN Idle(next) ELSE next

\* Waking up first: the state of _idle is kept and its effects are not.
CueReceived(e, emotion, x) ==
  LET awake == IF e.activity = "sleep" THEN [Idle(e) EXCEPT !.timers = e.timers] ELSE e
  IN IF e.paused \/ e.activity \notin {"idle", "sleep"} THEN e
     ELSE IF emotion \notin Reactions THEN awake
     ELSE Overlay([awake EXCEPT !.context = CueContext(awake, x)], emotion)

\* early: the overlay has not been on screen for its minimal duration.
ClipEnded(e, early) ==
  IF e.paused THEN e
  ELSE IF e.activity \notin Reactions THEN Show(e, e.activity)
  ELSE IF early THEN Arm([e EXCEPT !.ended = TRUE], "overlay_min")
  ELSE ExitOverlay(e)

ClipError(e, permanent, c) ==
  IF e.paused THEN e
  ELSE LET next == Show([e EXCEPT !.covered = c], e.activity)
       IN IF permanent THEN next ELSE Arm([next EXCEPT !.quarantined = TRUE], "retry_asset")

RetryAsset(e, c) ==
  IF e.quarantined THEN Show([e EXCEPT !.quarantined = FALSE, !.covered = c], e.activity) ELSE e

-----------------------------------------------------------------------------
(* The app: CharacterRuntimeController.dispatch and who calls it.          *)

Start == [activity |-> "idle", turn |-> NoTurn, cue |-> NoCue, deferred |-> NoReply,
          context |-> "daily", covered |-> {}, quarantined |-> FALSE, ended |-> FALSE,
          paused |-> FALSE, jobs |-> {}, timers |-> [g \in Tags |-> Off]]

Init ==
  /\ eng = Idle(Start)
  /\ private = FALSE
  /\ submitted = 0 /\ followed = NoTurn /\ listening = FALSE /\ replies = 0
  /\ recording = FALSE /\ uploads = 0

Dispatch(e) == eng' = IF private THEN eng ELSE e
Chat == <<submitted, followed, listening, replies, recording, uploads>>

\* The engine is not at work for the user, and the user does not speak.
Free == Overlap \/ (eng.turn = NoTurn /\ ~recording /\ uploads = 0)

\* _follow: a text or a voice turn was accepted.
Follow(voice) ==
  /\ IF voice THEN uploads > 0 ELSE Free /\ submitted + uploads < MaxTurns
  /\ submitted' = submitted + 1
  /\ followed' = submitted + 1 /\ listening' = TRUE
  /\ replies' = 0
  /\ uploads' = IF voice THEN uploads - 1 ELSE uploads
  /\ Dispatch(TurnSubmitted(eng, submitted + 1))
  /\ UNCHANGED <<private, recording>>

\* _handle: only events of the followed turn are taken.
StreamReply(emotion, x, speak, dwelt) ==
  /\ listening /\ replies < MaxReplies
  /\ replies' = replies + 1
  /\ Dispatch(ReplyReady(eng, [turn |-> followed, emotion |-> emotion, context |-> x,
                               speak |-> speak], dwelt))
  /\ UNCHANGED <<private, submitted, followed, listening, recording, uploads>>

TurnEnd(e) ==
  /\ followed' = NoTurn /\ listening' = FALSE
  /\ Dispatch(e)
  /\ UNCHANGED <<private, submitted, replies, recording, uploads>>
StreamEnd(e) == listening /\ TurnEnd(e)

StreamCompleted == replies > 0 /\ StreamEnd(eng)
StreamFailed == StreamEnd(TurnFailed(eng, followed))
StreamCancelled == StreamEnd(TurnCancelled(eng, followed))

\* cancelTurn when the request has returned, whatever is followed by then; that
\* it first stops the speech is StopAudio.
CancelTurn(t) == TurnEnd(TurnCancelled(eng, t))

\* _recoverTerminal: the stream broke and the snapshot says how the turn ended; a
\* turn that was answered is settled without speech.
Settled(e, t, r, dwelt) ==
  LET next == ReplyReady(e, r, dwelt)
  IN IF Current(next, t) /\ next.activity # "talking" THEN TtsFailed(next, t) ELSE next
StreamRecovered(emotion, x, dwelt) ==
  StreamEnd(Settled(eng, followed, [turn |-> followed, emotion |-> emotion, context |-> x,
                                    speak |-> FALSE], dwelt))

\* The snapshot is of an open turn, or is not to be had: the turn stays the
\* followed one and nobody listens.
StreamLost ==
  /\ listening /\ listening' = FALSE
  /\ UNCHANGED <<eng, private, submitted, followed, replies, recording, uploads>>

Recovered == \E m \in Emotions, x \in Contexts, d \in BOOLEAN : StreamRecovered(m, x, d)
Reply == \E m \in Emotions, x \in Contexts, s, d \in BOOLEAN : StreamReply(m, x, s, d)
Stream == Reply \/ Recovered \/ StreamCompleted \/ StreamFailed \/ StreamCancelled \/ StreamLost

\* playMessage stops what is played and speaks a message of an earlier turn again.
PlayMessage(t, emotion, x) ==
  /\ followed = NoTurn /\ Free
  /\ Dispatch(ReplyReady(TurnSubmitted(TtsStoppedByUser(eng), t),
                [turn |-> t, emotion |-> emotion, context |-> x, speak |-> TRUE], FALSE))
  /\ UNCHANGED <<private, Chat>>

\* Callbacks of the speech queue.
TtsStart(t) == Dispatch(TtsStarted(eng, t)) /\ UNCHANGED <<private, Chat>>
TtsFinish(t) ==
  Dispatch(TtsFailed(TtsFinished(eng, t), t)) /\ UNCHANGED <<private, Chat>>
TtsFail(t) == Dispatch(TtsFailed(eng, t)) /\ UNCHANGED <<private, Chat>>
StopAudio == Dispatch(TtsStoppedByUser(eng)) /\ UNCHANGED <<private, Chat>>

PttPress ==
  /\ ~recording /\ ~eng.paused /\ ~private /\ (Overlap \/ uploads = 0)
  /\ Dispatch(PttPressed(eng))
  /\ followed' = NoTurn /\ listening' = FALSE
  /\ recording' = TRUE
  /\ UNCHANGED <<private, submitted, replies, uploads>>
\* The engine may have left listening meanwhile: the recording is sent all the same.
PttRelease(valid) ==
  /\ recording /\ recording' = FALSE
  /\ valid => submitted + uploads < MaxTurns
  /\ Dispatch(PttReleased(eng, valid))
  /\ uploads' = IF valid THEN uploads + 1 ELSE uploads
  /\ UNCHANGED <<private, submitted, followed, listening, replies>>
\* By the user, by an interruption of the recorder, or after the app was paused.
PttCancel ==
  /\ recording /\ recording' = FALSE
  /\ Dispatch(PttReleased(eng, FALSE))
  /\ UNCHANGED <<private, submitted, followed, listening, replies, uploads>>
UploadFail ==
  /\ uploads > 0 /\ uploads' = uploads - 1
  /\ Dispatch(PttUploadFailed(eng))
  /\ UNCHANGED <<private, submitted, followed, listening, replies, recording>>
Upload == Follow(TRUE) \/ UploadFail

JobStart(j) == Dispatch(JobStarted(eng, j)) /\ UNCHANGED <<private, Chat>>
JobFinish(j) == Dispatch(JobFinished(eng, j)) /\ UNCHANGED <<private, Chat>>
Cue(emotion, x) == Dispatch(CueReceived(eng, emotion, x)) /\ UNCHANGED <<private, Chat>>

\* No screen dispatches UserActivity yet.
Touch == Dispatch(UserActivity(eng)) /\ UNCHANGED <<private, Chat>>

\* The stage reports the end or the failure of the clip it plays.
ClipEnd(early) == Dispatch(ClipEnded(eng, early)) /\ UNCHANGED <<private, Chat>>
ClipFail(permanent, c) ==
  /\ c \subseteq eng.covered
  /\ Dispatch(ClipError(eng, permanent, c)) /\ UNCHANGED <<private, Chat>>
\* The vault changes the state directly, then dispatches.
AssetsChange(c) ==
  /\ eng' = LET e == [eng EXCEPT !.covered = c] IN IF private THEN e ELSE Reselect(e)
  /\ UNCHANGED <<private, Chat>>

Pause == Dispatch(AppPaused(eng)) /\ UNCHANGED <<private, Chat>>
\* long: the app was paused for a minute at least.
Resume(long) ==
  /\ long => eng.paused
  /\ Dispatch(AppResumed(eng, long)) /\ UNCHANGED <<private, Chat>>

OpenPrivate ==
  /\ ~private /\ private' = TRUE
  /\ eng' = AppPaused(eng)
  /\ UNCHANGED Chat
\* The effects of AppResumed are not executed; those of AppStarted are.
LockPrivate ==
  /\ private /\ private' = FALSE
  /\ eng' = Idle([Clear(eng) EXCEPT !.activity = "idle", !.context = "daily", !.paused = FALSE])
  /\ UNCHANGED Chat

-----------------------------------------------------------------------------
(* Timers: a tick is dropped in a private session, while paused unless it  *)
(* belongs to the speech, and when it was scheduled for another turn.      *)

Heard(tag) ==
  /\ ~private
  /\ eng.paused => tag \in BackgroundTags
  /\ tag \in TurnTags => eng.timers[tag] = eng.turn
Fired(tag) == [eng EXCEPT !.timers[tag] = Off]
Tick(tag, cond, e) ==
  /\ eng.timers[tag] # Off
  /\ eng' = IF Heard(tag) /\ cond THEN e ELSE Fired(tag)
  /\ UNCHANGED <<private, Chat>>

IdleToSleep ==
  LET e == Fired("idle_to_sleep")
  IN Tick("idle_to_sleep", e.activity = "idle", Show(e, "sleep"))
WorkingMax ==
  LET e == Fired("working_max") IN Tick("working_max", e.activity = "working", Idle(e))
OverlayMax ==
  LET e == Fired("overlay_max") IN Tick("overlay_max", e.activity \in Reactions, ExitOverlay(e))
OverlayMin ==
  LET e == Fired("overlay_min")
  IN Tick("overlay_min", e.activity \in Reactions /\ e.ended, ExitOverlay(e))
ThinkingMinDwell ==
  LET e == Fired("thinking_min_dwell")
  IN Tick("thinking_min_dwell", e.deferred # NoReply, ReplyReady(e, e.deferred, TRUE))
RetryAssetTick ==
  LET e == Fired("retry_asset")
  IN \E c \in Coverage : e.covered \subseteq c /\ Tick("retry_asset", TRUE, RetryAsset(e, c))
PreSpeechMax == Tick("pre_speech_max", FALSE, eng)   \* opens a gate nobody waits at
TtsWaitTimeout ==
  LET e == Fired("tts_wait_timeout")
  IN Tick("tts_wait_timeout", e.turn # NoTurn /\ e.cue # NoCue /\ e.activity # "talking",
          Idle(Clear(CancelTurnTimers(e))))
TtsPlaybackMax ==
  LET e == Fired("tts_playback_max")
  IN Tick("tts_playback_max", e.turn # NoTurn /\ e.activity = "talking", TtsFailed(e, e.turn))
ThinkingVariantRotate ==
  LET e == Fired("thinking_variant_rotate")
  IN Tick("thinking_variant_rotate", e.activity = "thinking",
          Arm(Show(e, "thinking"), "thinking_variant_rotate"))
ContextHold ==
  LET e == Fired("context_hold")
  IN Tick("context_hold", e.activity = "idle" /\ e.context # "daily",
          Idle([e EXCEPT !.context = "daily"]))

-----------------------------------------------------------------------------
Speech(t) == TtsStart(t) \/ TtsFinish(t) \/ TtsFail(t)
             \/ \E m \in Emotions, x \in Contexts : PlayMessage(t, m, x)

Timers == IdleToSleep \/ WorkingMax \/ OverlayMax \/ OverlayMin \/ ThinkingMinDwell
          \/ RetryAssetTick \/ PreSpeechMax \/ TtsWaitTimeout \/ TtsPlaybackMax
          \/ ThinkingVariantRotate \/ ContextHold

Input ==
  \/ Follow(FALSE) \/ Upload \/ StopAudio \/ PttPress \/ PttCancel
  \/ \E v \in BOOLEAN : PttRelease(v)
  \/ \E t \in 1..submitted : Speech(t) \/ CancelTurn(t)
  \/ \E j \in Jobs : JobStart(j) \/ JobFinish(j)
  \/ \E m \in Cues, x \in Contexts : Cue(m, x)

Stage ==
  \/ Touch \/ \E early \in BOOLEAN : ClipEnd(early)
  \/ \E permanent \in BOOLEAN, c \in Coverage : ClipFail(permanent, c)
  \/ \E c \in Coverage : AssetsChange(c)

Lifecycle ==
  \/ Pause \/ OpenPrivate \/ LockPrivate
  \/ \E long \in BOOLEAN : Resume(long)

Next == Input \/ Stream \/ Stage \/ Lifecycle \/ Timers

\* Timers fire; the private session locks itself after a while without input; an
\* upload ends, by an answer, an error or a timeout.  The stream of a turn need not
\* end: an open turn is kept alive for ever, and a lost one may be given up.
Fairness ==
  /\ WF_vars(OverlayMax) /\ WF_vars(OverlayMin) /\ WF_vars(WorkingMax)
  /\ WF_vars(ThinkingMinDwell) /\ WF_vars(TtsWaitTimeout) /\ WF_vars(TtsPlaybackMax)
  /\ WF_vars(LockPrivate)
  /\ WF_vars(Upload)

Spec == Init /\ [][Next]_vars
FairSpec == Spec /\ Fairness

-----------------------------------------------------------------------------
(* Properties                                                              *)

TypeOK ==
  /\ eng \in EngineStates
  /\ private \in BOOLEAN
  /\ submitted \in 0..MaxTurns
  /\ followed \in Turns \cup {NoTurn} /\ listening \in BOOLEAN /\ (listening => followed # NoTurn)
  /\ replies \in 0..MaxReplies
  /\ recording \in BOOLEAN
  /\ uploads \in 0..MaxTurns /\ submitted + uploads <= MaxTurns

Pending(tag) == eng.timers[tag] = eng.turn

\* The engine never holds a turn it does not show: whatever the order of
\* replies, speech callbacks, jobs and pauses, the current turn is being thought
\* about, reacted to or spoken, only a held turn has a cue, and speech has both.
TurnOnStage ==
  ~private =>
    /\ eng.turn # NoTurn => eng.activity \in {"thinking", "surprised", "talking"}
    /\ eng.cue # NoCue => eng.turn # NoTurn
    /\ eng.activity = "talking" => eng.turn # NoTurn /\ eng.cue # NoCue

\* A turn that waits for its speech, or speaks, has a watchdog for that very turn,
\* which is not dropped while paused: lost callbacks cannot hold the character.
WaitsAreTimed ==
  ~private /\ eng.turn # NoTurn /\ eng.cue # NoCue =>
    Pending(IF eng.activity = "talking" THEN "tts_playback_max" ELSE "tts_wait_timeout")

\* A reply held back for the minimal dwell belongs to the turn on screen and is
\* going to be taken up.
DeferralsAreTimed ==
  ~private /\ eng.activity = "thinking" /\ eng.deferred # NoReply =>
    eng.deferred.turn = eng.turn /\ Pending("thinking_min_dwell")

\* In the foreground no activity that should pass is without the timer that ends
\* it: reactions, work, idling before sleep, and a context other than daily.
ActivitiesEnd ==
  ~private /\ ~eng.paused =>
    /\ eng.activity \in Reactions => Pending("overlay_max")
    /\ eng.activity = "working" => eng.timers["working_max"] # Off
    /\ eng.activity = "idle" => eng.timers["idle_to_sleep"] # Off
    /\ eng.activity = "idle" /\ eng.context # "daily" => eng.timers["context_hold"] # Off

\* A reply that was taken up is over some time later.
ReplyEnds == \A t \in Turns :
  (eng.turn = t /\ eng.cue # NoCue) ~> ~(eng.turn = t /\ eng.cue # NoCue)

\* A reaction passes, or the app goes to the background.
ReactionEnds == (eng.activity \in Reactions) ~> (eng.activity \notin Reactions \/ eng.paused)

\* The character does not think for ever, unless it is about a turn the app still
\* follows: one the backend does not close, or whose stream was given up.
ThinkingEnds == (eng.activity = "thinking") ~> (eng.activity # "thinking" \/ followed # NoTurn)

=============================================================================
