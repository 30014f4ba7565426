----------------------- MODULE CharacterEngineProofs -----------------------
(***************************************************************************)
(* Proofs about CharacterEngine for any number of turns, replies and jobs, *)
(* any cues, contexts and assets, overlapping turns or not.                *)
(***************************************************************************)
EXTENDS CharacterEngine, TLAPS

-----------------------------------------------------------------------------
(* What holds of the engine of the normal session between two events.      *)

\* The turn is on stage; a reaction before the speech has its cue and nothing is
\* held back any more.
Held(e) ==
  /\ e.turn # NoTurn => e.activity \in {"thinking", "surprised", "talking"}
  /\ e.cue # NoCue => e.turn # NoTurn
  /\ e.activity = "talking" => e.cue # NoCue
  /\ e.turn # NoTurn /\ e.activity = "surprised" => e.cue # NoCue /\ e.deferred = NoReply

Waiting(e) ==
  e.turn # NoTurn /\ e.cue # NoCue =>
    e.timers[IF e.activity = "talking" THEN "tts_playback_max" ELSE "tts_wait_timeout"] = e.turn

\* No turn defers a reply: a deferred reply of NoTurn would not be taken up.
Deferring(e) ==
  e.activity = "thinking" /\ e.deferred # NoReply =>
    /\ e.turn # NoTurn
    /\ e.deferred.turn = e.turn
    /\ e.timers["thinking_min_dwell"] = e.turn

Passing(e) ==
  "neutral" \notin Cues /\ ~e.paused =>
    /\ e.activity \in Reactions => e.timers["overlay_max"] = e.turn
    /\ e.activity = "working" => e.timers["working_max"] # Off
    /\ e.activity = "idle" => e.timers["idle_to_sleep"] # Off
    /\ e.activity = "idle" /\ e.context # "daily" => e.timers["context_hold"] # Off

Good(e) == e \in EngineStates /\ Held(e) /\ Waiting(e) /\ Deferring(e) /\ Passing(e)

-----------------------------------------------------------------------------
(* The helpers of the reducer.                                             *)

LEMMA ShowFields ==
  ASSUME NEW e \in EngineStates, NEW a \in CoreStates
  PROVE  LET f == Show(e, a) IN
         /\ f \in EngineStates
         /\ f.activity = a /\ f.turn = e.turn /\ f.cue = e.cue /\ f.deferred = e.deferred
         /\ f.paused = e.paused /\ f.timers = e.timers
         /\ f.context \in {"daily", Wanted(e, a)}
BY DEF Show, Wanted, EngineStates, StageContexts

LEMMA ArmFields ==
  ASSUME NEW e \in EngineStates, NEW g \in Tags
  PROVE  LET f == Arm(e, g) IN
         /\ f \in EngineStates
         /\ f.activity = e.activity /\ f.turn = e.turn /\ f.cue = e.cue
         /\ f.deferred = e.deferred /\ f.paused = e.paused /\ f.context = e.context
         /\ f.timers[g] = e.turn /\ \A h \in Tags \ {g} : f.timers[h] = e.timers[h]
BY DEF Arm, EngineStates

LEMMA DisarmFields ==
  ASSUME NEW e \in EngineStates, NEW S
  PROVE  LET f == Disarm(e, S) IN
         /\ f \in EngineStates
         /\ f.activity = e.activity /\ f.turn = e.turn /\ f.cue = e.cue
         /\ f.deferred = e.deferred /\ f.paused = e.paused /\ f.context = e.context
         /\ \A h \in Tags : f.timers[h] = IF h \in S THEN Off ELSE e.timers[h]
BY DEF Disarm, EngineStates

LEMMA ClearFields ==
  ASSUME NEW e \in EngineStates
  PROVE  LET f == Clear(e) IN
         /\ f \in EngineStates
         /\ f.activity = e.activity /\ f.turn = NoTurn /\ f.cue = NoCue
         /\ f.deferred = e.deferred /\ f.paused = e.paused /\ f.context = e.context
         /\ f.timers = e.timers
BY DEF Clear, EngineStates

\* What is left of the engine when its turn is over.
LEMMA Cleared ==
  ASSUME NEW e \in EngineStates
  PROVE  LET f == Clear(CancelTurnTimers(e)) IN
         f \in EngineStates /\ f.turn = NoTurn /\ f.cue = NoCue
BY ClearFields, DisarmFields DEF CancelTurnTimers

LEMMA IdleGood ==
  ASSUME NEW e \in EngineStates, e.turn = NoTurn, e.cue = NoCue
  PROVE  /\ Good(Idle(e))
         /\ Idle(e).activity = "idle" /\ Idle(e).turn = NoTurn /\ Idle(e).cue = NoCue
<1> DEFINE s == Show(e, "idle")
           t == Arm(s, "idle_to_sleep")
<1>1. /\ s \in EngineStates /\ s.activity = "idle" /\ s.turn = NoTurn /\ s.cue = NoCue
      /\ s.context \in {"daily", e.context}
  BY ShowFields DEF CoreStates, Wanted
<1>2. /\ t \in EngineStates /\ t.activity = "idle" /\ t.turn = NoTurn /\ t.cue = NoCue
      /\ t.context = s.context /\ t.timers["idle_to_sleep"] = NoTurn
  <2> HIDE DEF s
  <2> QED BY <1>1, ArmFields DEF Tags
<1>3. CASE e.context = "daily"
  <2>1. Idle(e) = t
    BY <1>3 DEF Idle
  <2> HIDE DEF t
  <2> QED BY <2>1, <1>1, <1>2, <1>3
          DEF Good, Held, Waiting, Deferring, Passing, Reactions, NoTurn, Off
<1>4. CASE e.context # "daily"
  <2> DEFINE u == Arm(t, "context_hold")
  <2>1. Idle(e) = u
    BY <1>4 DEF Idle
  <2>2. /\ u \in EngineStates /\ u.activity = "idle" /\ u.turn = NoTurn /\ u.cue = NoCue
        /\ u.timers["idle_to_sleep"] = NoTurn /\ u.timers["context_hold"] = NoTurn
    <3> HIDE DEF t
    <3> QED BY <1>2, ArmFields DEF Tags
  <2> HIDE DEF u
  <2> QED BY <2>1, <2>2 DEF Good, Held, Waiting, Deferring, Passing, Reactions, NoTurn, Off
<1> QED BY <1>3, <1>4

LEMMA WorkingGood ==
  ASSUME NEW e \in EngineStates, e.turn = NoTurn, e.cue = NoCue
  PROVE  Good(Working(e))
<1> DEFINE s == Show(e, "working")
           t == Arm(s, "working_max")
<1>1. /\ s \in EngineStates /\ s.activity = "working" /\ s.turn = NoTurn /\ s.cue = NoCue
  BY ShowFields DEF CoreStates
<1>2. /\ t \in EngineStates /\ t.activity = "working" /\ t.turn = NoTurn /\ t.cue = NoCue
      /\ t.timers["working_max"] = NoTurn
  <2> HIDE DEF s
  <2> QED BY <1>1, ArmFields DEF Tags
<1>3. Working(e) = t
  BY DEF Working
<1> HIDE DEF t
<1> QED BY <1>2, <1>3 DEF Good, Held, Waiting, Deferring, Passing, Reactions, NoTurn, Off

LEMMA SettleGood ==
  ASSUME NEW e \in EngineStates, e.turn = NoTurn, e.cue = NoCue
  PROVE  Good(Settle(e))
BY IdleGood, WorkingGood DEF Settle

LEMMA OverlayFields ==
  ASSUME NEW e \in EngineStates, NEW r \in Reactions
  PROVE  LET f == Overlay(e, r) IN
         /\ f \in EngineStates
         /\ f.activity = r /\ f.turn = e.turn /\ f.cue = e.cue /\ f.deferred = e.deferred
         /\ f.paused = e.paused /\ f.timers["overlay_max"] = e.turn
         /\ \A h \in Tags \ {"overlay_max"} : f.timers[h] = e.timers[h]
<1> DEFINE x == [e EXCEPT !.ended = FALSE]
           s == Show(x, r)
<1>1. /\ x \in EngineStates /\ x.turn = e.turn /\ x.cue = e.cue /\ x.deferred = e.deferred
      /\ x.paused = e.paused /\ x.timers = e.timers
  BY DEF EngineStates
<1>2. /\ s \in EngineStates /\ s.activity = r /\ s.turn = e.turn /\ s.cue = e.cue
      /\ s.deferred = e.deferred /\ s.paused = e.paused /\ s.timers = e.timers
  <2> HIDE DEF x
  <2> QED BY <1>1, ShowFields DEF CoreStates
<1>3. Overlay(e, r) = Arm(s, "overlay_max")
  BY DEF Overlay
<1> HIDE DEF s
<1> QED BY <1>2, <1>3, ArmFields DEF Tags, TurnTags

LEMMA OverlayGood ==
  ASSUME NEW e \in EngineStates, NEW r \in Reactions, e.turn = NoTurn, e.cue = NoCue
  PROVE  Good(Overlay(e, r))
BY OverlayFields DEF Good, Held, Waiting, Deferring, Passing, Reactions, NoTurn, Off

LEMMA ThinkingGood ==
  ASSUME NEW e \in EngineStates, e.cue = NoCue
  PROVE  Good(Thinking(e))
<1> DEFINE x == [e EXCEPT !.deferred = NoReply]
           s == Show(x, "thinking")
           t == Arm(s, "thinking_variant_rotate")
<1>1. x \in EngineStates /\ x.cue = NoCue /\ x.deferred = NoReply
  BY DEF EngineStates, NoReply, Replies, Emotions
<1>2. s \in EngineStates /\ s.activity = "thinking" /\ s.cue = NoCue /\ s.deferred = NoReply
  <2> HIDE DEF x
  <2> QED BY <1>1, ShowFields DEF CoreStates
<1>3. t \in EngineStates /\ t.activity = "thinking" /\ t.cue = NoCue /\ t.deferred = NoReply
  <2> HIDE DEF s
  <2> QED BY <1>2, ArmFields DEF Tags, TurnTags
<1>4. Thinking(e) = t
  BY DEF Thinking
<1> HIDE DEF t
<1> QED BY <1>3, <1>4 DEF Good, Held, Waiting, Deferring, Passing, Reactions

\* Choosing an asset again for what is shown.
LEMMA ShowGood ==
  ASSUME NEW e, Good(e)
  PROVE  Good(Show(e, e.activity))
<1>1. e \in EngineStates /\ e.activity \in CoreStates
  BY DEF Good, EngineStates
<1> DEFINE s == Show(e, e.activity)
<1>2. /\ s \in EngineStates
      /\ s.activity = e.activity /\ s.turn = e.turn /\ s.cue = e.cue /\ s.deferred = e.deferred
      /\ s.paused = e.paused /\ s.timers = e.timers
      /\ s.activity = "idle" => s.context \in {"daily", e.context}
  BY <1>1, ShowFields DEF Wanted
<1> HIDE DEF s
<1>3. Good(s)
  BY <1>2 DEF Good, Held, Waiting, Deferring, Passing
<1> QED BY <1>3 DEF s

\* The end of a reaction: also when its timer has just fired.
LEMMA ExitOverlayGood ==
  ASSUME NEW e \in EngineStates, Held(e), Waiting(e), e.activity \in Reactions
  PROVE  Good(ExitOverlay(e))
<1>1. CASE e.turn # NoTurn /\ e.cue # NoCue
  <2> DEFINE x == [e EXCEPT !.ended = FALSE]
             s == Show(x, "thinking")
             t == Disarm(s, {"pre_speech_max"})
  <2>1. /\ x \in EngineStates /\ x.turn = e.turn /\ x.cue = e.cue /\ x.deferred = NoReply
        /\ x.timers["tts_wait_timeout"] = e.turn
    BY <1>1 DEF EngineStates, Held, Waiting, Reactions
  <2>2. /\ s \in EngineStates /\ s.activity = "thinking" /\ s.turn = e.turn /\ s.cue = e.cue
        /\ s.deferred = NoReply /\ s.timers["tts_wait_timeout"] = e.turn
    <3> HIDE DEF x
    <3> QED BY <2>1, ShowFields DEF CoreStates
  <2>3. /\ t \in EngineStates /\ t.activity = "thinking" /\ t.turn = e.turn /\ t.cue = e.cue
        /\ t.deferred = NoReply /\ t.timers["tts_wait_timeout"] = e.turn
    <3> HIDE DEF s
    <3> QED BY <2>2, DisarmFields DEF Tags, TurnTags
  <2>4. ExitOverlay(e) = t
    BY <1>1 DEF ExitOverlay
  <2> HIDE DEF t
  <2> QED BY <1>1, <2>3, <2>4 DEF Good, Held, Waiting, Deferring, Passing, Reactions
<1>2. CASE ~(e.turn # NoTurn /\ e.cue # NoCue)
  <2>1. e.turn = NoTurn /\ e.cue = NoCue
    BY <1>2 DEF Held, Reactions
  <2> QED BY <1>2, <2>1, SettleGood DEF ExitOverlay
<1> QED BY <1>1, <1>2

-----------------------------------------------------------------------------
(* The events of the reducer.                                              *)

\* Without a turn there is no cue either, and some activities exclude a turn.
LEMMA NoTurnHeld ==
  ASSUME NEW e \in EngineStates, Held(e)
  PROVE  /\ e.turn = NoTurn => e.cue = NoCue
         /\ e.activity \in CoreStates \ {"thinking", "surprised", "talking"} =>
              e.turn = NoTurn /\ e.cue = NoCue
BY DEF Held

LEMMA AppPausedGood ==
  ASSUME NEW e, Good(e)
  PROVE  Good(AppPaused(e))
<1> DEFINE p == [e EXCEPT !.paused = TRUE]
           q == IF e.activity = "listening" THEN Clear([p EXCEPT !.activity = "idle"]) ELSE p
           S == {"overlay_max", "working_max", "overlay_min", "context_hold",
                 "thinking_variant_rotate"}
           f == Disarm(q, S)
<1>1. /\ q \in EngineStates /\ q.paused
      /\ q.timers = e.timers /\ q.deferred = e.deferred
      /\ e.activity = "listening" => q.activity = "idle" /\ q.turn = NoTurn /\ q.cue = NoCue
      /\ e.activity # "listening" =>
           q.activity = e.activity /\ q.turn = e.turn /\ q.cue = e.cue
  <2>1. e.activity = "listening" =>
          [p EXCEPT !.activity = "idle"] \in EngineStates
    BY DEF Good, EngineStates, CoreStates
  <2> QED BY <2>1, ClearFields DEF Good, EngineStates
<1>2. /\ f \in EngineStates /\ f.paused /\ f.deferred = q.deferred /\ f.activity = q.activity
      /\ f.turn = q.turn /\ f.cue = q.cue
      /\ \A h \in Tags \ S : f.timers[h] = q.timers[h]
  <2> HIDE DEF q
  <2> QED BY <1>1, DisarmFields
<1>3. ~e.paused => AppPaused(e) = f
  BY DEF AppPaused
<1>4. \A h \in {"tts_playback_max", "tts_wait_timeout", "thinking_min_dwell"} :
        f.timers[h] = e.timers[h]
  <2> HIDE DEF f, q
  <2> QED BY <1>1, <1>2 DEF Tags, TurnTags
<1>5. Good(f)
  <2> HIDE DEF f, q
  <2> QED BY <1>1, <1>2, <1>4 DEF Good, Held, Waiting, Deferring, Passing
<1>6. e.paused => AppPaused(e) = e
  BY DEF AppPaused
<1>7. e.paused \in BOOLEAN
  BY DEF Good, EngineStates
<1> QED BY <1>3, <1>5, <1>6, <1>7

LEMMA AppResumedGood ==
  ASSUME NEW e, Good(e), NEW long \in BOOLEAN
  PROVE  Good(AppResumed(e, long))
<1> DEFINE n == [e EXCEPT !.paused = FALSE, !.context = IF long THEN "daily" ELSE @]
           a == e.activity
<1>1. /\ n \in EngineStates /\ n.turn = e.turn /\ n.cue = e.cue /\ n.deferred = e.deferred
      /\ n.timers = e.timers /\ n.activity = a /\ a \in CoreStates /\ e \in EngineStates
  BY DEF Good, EngineStates, StageContexts
<1> HIDE DEF n, a
<1>2. CASE a \in {"idle", "sleep", "working"}
  <2>1. n.turn = NoTurn /\ n.cue = NoCue
    BY <1>1, <1>2, NoTurnHeld DEF Good, a
  <2> QED BY <1>1, <1>2, <2>1, IdleGood, WorkingGood DEF AppResumed, n, a, Reactions
<1>3. CASE a = "thinking"
  <2> DEFINE s == Show(n, a)
             t == Arm(s, "thinking_variant_rotate")
  <2>1. /\ s \in EngineStates /\ s.activity = a /\ s.turn = e.turn /\ s.cue = e.cue
        /\ s.deferred = e.deferred /\ s.timers = e.timers
    BY <1>1, ShowFields
  <2>2. /\ t \in EngineStates /\ t.activity = a /\ t.turn = e.turn /\ t.cue = e.cue
        /\ t.deferred = e.deferred
        /\ \A h \in Tags \ {"thinking_variant_rotate"} : t.timers[h] = e.timers[h]
    <3> HIDE DEF s
    <3> QED BY <2>1, ArmFields DEF Tags, TurnTags
  <2>3. AppResumed(e, long) = t
    BY <1>3 DEF AppResumed, n, a, Reactions
  <2> HIDE DEF t
  <2>4. Good(t)
    BY <1>3, <2>2 DEF Good, Held, Waiting, Deferring, Passing, Reactions, Tags, TurnTags, a
  <2> QED BY <2>3, <2>4
<1>4. CASE a \in Reactions
  <2> DEFINE t == Overlay(n, a)
  <2>1. /\ t \in EngineStates /\ t.activity = a /\ t.turn = e.turn /\ t.cue = e.cue
        /\ t.deferred = e.deferred /\ t.timers["overlay_max"] = e.turn
        /\ \A h \in Tags \ {"overlay_max"} : t.timers[h] = e.timers[h]
    BY <1>1, <1>4, OverlayFields
  <2>2. AppResumed(e, long) = t
    BY <1>4 DEF AppResumed, n, a, Reactions
  <2> HIDE DEF t
  <2>3. Good(t)
    BY <1>4, <2>1 DEF Good, Held, Waiting, Deferring, Passing, Reactions, Tags, TurnTags, a
  <2> QED BY <2>2, <2>3
<1>5. CASE a \in {"listening", "talking"}
  <2> DEFINE s == Show(n, a)
  <2>1. /\ s \in EngineStates /\ s.activity = a /\ s.turn = e.turn /\ s.cue = e.cue
        /\ s.deferred = e.deferred /\ s.timers = e.timers
    BY <1>1, ShowFields
  <2>2. AppResumed(e, long) = s
    BY <1>5 DEF AppResumed, n, a, Reactions
  <2> HIDE DEF s
  <2>3. Good(s)
    BY <1>5, <2>1 DEF Good, Held, Waiting, Deferring, Passing, Reactions, a
  <2> QED BY <2>2, <2>3
<1> QED BY <1>1, <1>2, <1>3, <1>4, <1>5 DEF CoreStates, Reactions

LEMMA UserActivityGood ==
  ASSUME NEW e, Good(e)
  PROVE  Good(UserActivity(e))
BY IdleGood, NoTurnHeld DEF UserActivity, Good, CoreStates

LEMMA ReselectGood ==
  ASSUME NEW e, Good(e)
  PROVE  Good(Reselect(e))
BY ShowGood DEF Reselect

LEMMA PttPressedGood ==
  ASSUME NEW e, Good(e)
  PROVE  Good(PttPressed(e))
<1> DEFINE x == Clear(e)
           s == Show(x, "listening")
           t == Disarm(s, TurnTags \cup {"working_max"})
<1>1. x \in EngineStates /\ x.turn = NoTurn /\ x.cue = NoCue
  BY ClearFields DEF Good
<1>2. s \in EngineStates /\ s.activity = "listening" /\ s.turn = NoTurn /\ s.cue = NoCue
  <2> HIDE DEF x
  <2> QED BY <1>1, ShowFields DEF CoreStates
<1>3. t \in EngineStates /\ t.activity = "listening" /\ t.turn = NoTurn /\ t.cue = NoCue
  <2> HIDE DEF s
  <2> QED BY <1>2, DisarmFields
<1>4. PttPressed(e) = IF e.paused THEN e ELSE t
  BY DEF PttPressed
<1> HIDE DEF t
<1>5. Good(t)
  BY <1>3 DEF Good, Held, Waiting, Deferring, Passing, Reactions
<1> QED BY <1>4, <1>5

LEMMA PttReleasedGood ==
  ASSUME NEW e, Good(e), NEW valid \in BOOLEAN
  PROVE  Good(PttReleased(e, valid))
BY IdleGood, ThinkingGood, NoTurnHeld DEF PttReleased, Good, CoreStates

LEMMA PttUploadFailedGood ==
  ASSUME NEW e, Good(e)
  PROVE  Good(PttUploadFailed(e))
<1> DEFINE x == CancelTurnTimers(e)
<1>1. x \in EngineStates /\ x.turn = e.turn /\ x.cue = e.cue
  BY DisarmFields DEF CancelTurnTimers, Good
<1> HIDE DEF x
<1>2. e.turn = NoTurn => Good(Overlay(x, "concerned"))
  BY <1>1, NoTurnHeld, OverlayGood DEF Good, Reactions
<1> QED BY <1>2 DEF PttUploadFailed, x

LEMMA TurnSubmittedGood ==
  ASSUME NEW e, Good(e), NEW t \in Turns
  PROVE  Good(TurnSubmitted(e, t))
<1> DEFINE x == CancelTurnTimers(e)
           y == [x EXCEPT !.turn = t, !.cue = NoCue]
<1>1. x \in EngineStates
  BY DisarmFields DEF CancelTurnTimers, Good
<1>2. y \in EngineStates /\ y.cue = NoCue
  BY <1>1 DEF EngineStates
<1>3. Good(Thinking(y))
  <2> HIDE DEF y
  <2> QED BY <1>2, ThinkingGood
<1> QED BY <1>3 DEF TurnSubmitted

\* A step that changes none of the fields and timers the invariant is about.
Watched == {"tts_wait_timeout", "tts_playback_max", "thinking_min_dwell", "overlay_max",
            "idle_to_sleep", "working_max", "context_hold"}
Alike(e, f) ==
  /\ f \in EngineStates
  /\ f.activity = e.activity /\ f.turn = e.turn /\ f.cue = e.cue /\ f.deferred = e.deferred
  /\ f.context = e.context /\ f.paused = e.paused

LEMMA AlikeGood ==
  ASSUME NEW e, Good(e), NEW f, Alike(e, f),
         \A h \in Watched : f.timers[h] = e.timers[h]
  PROVE  Good(f)
BY DEF Alike, Good, Held, Waiting, Deferring, Passing, Watched

LEMMA AnswerGood ==
  ASSUME NEW e \in EngineStates, e.activity = "thinking", e.turn # NoTurn, NEW r \in Replies
  PROVE  Good(Answer(e, r))
<1> DEFINE n == [e EXCEPT !.deferred = NoReply, !.cue = r.emotion,
                          !.context = CueContext(e, r.context)]
           d == Clear(CancelTurnTimers(n))
<1>1. NoReply \in Replies
  BY DEF NoReply, Replies, Emotions
<1>2. CueContext(e, r.context) \in StageContexts
  BY DEF CueContext, Replies, EngineStates
<1>3. /\ n \in EngineStates /\ n.activity = "thinking" /\ n.turn = e.turn /\ n.cue = r.emotion
      /\ n.deferred = NoReply
  BY <1>1, <1>2 DEF EngineStates, Replies
<1>4. d \in EngineStates /\ d.turn = NoTurn /\ d.cue = NoCue
  <2> HIDE DEF n
  <2> QED BY <1>3, Cleared
<1>5. r.speak \in BOOLEAN /\ r.emotion \in Emotions
  BY DEF Replies
<1> HIDE DEF n, d
<1>6. CASE ~r.speak
  <2>1. r.emotion \in Reactions => Answer(e, r) = Overlay(d, r.emotion)
    BY <1>6 DEF Answer, n, d
  <2>2. r.emotion \notin Reactions => Answer(e, r) = Idle(d)
    BY <1>6 DEF Answer, n, d
  <2> QED BY <1>4, <2>1, <2>2, OverlayGood, IdleGood
<1>7. CASE r.speak /\ r.emotion = "surprised"
  <2> DEFINE o == Overlay(n, "surprised")
             p == Arm(o, "pre_speech_max")
             q == Arm(p, "tts_wait_timeout")
  <2>1. /\ o \in EngineStates /\ o.activity = "surprised" /\ o.turn = e.turn
        /\ o.cue = "surprised" /\ o.deferred = NoReply /\ o.timers["overlay_max"] = e.turn
    BY <1>3, <1>7, OverlayFields DEF Reactions
  <2>2. /\ p \in EngineStates /\ p.activity = "surprised" /\ p.turn = e.turn
        /\ p.cue = "surprised" /\ p.deferred = NoReply /\ p.timers["overlay_max"] = e.turn
    <3> HIDE DEF o
    <3> QED BY <2>1, ArmFields DEF Tags, TurnTags
  <2>3. /\ q \in EngineStates /\ q.activity = "surprised" /\ q.turn = e.turn
        /\ q.cue = "surprised" /\ q.deferred = NoReply /\ q.timers["overlay_max"] = e.turn
        /\ q.timers["tts_wait_timeout"] = e.turn
    <3> HIDE DEF p
    <3> QED BY <2>2, ArmFields DEF Tags, TurnTags
  <2>4. Answer(e, r) = q
    BY <1>7 DEF Answer, n
  <2> HIDE DEF q
  <2>5. Good(q)
    BY <2>3 DEF Good, Held, Waiting, Deferring, Passing, NoCue
  <2> QED BY <2>4, <2>5
<1>8. CASE r.speak /\ r.emotion # "surprised"
  <2> DEFINE q == Arm(n, "tts_wait_timeout")
  <2>1. /\ q \in EngineStates /\ q.activity = "thinking" /\ q.turn = e.turn
        /\ q.deferred = NoReply /\ q.timers["tts_wait_timeout"] = e.turn
    BY <1>3, ArmFields DEF Tags, TurnTags
  <2>2. Answer(e, r) = q
    BY <1>8 DEF Answer, n
  <2>3. q.cue # NoCue
    BY <1>3, <1>5, ArmFields DEF Tags, TurnTags, Emotions, Reactions, NoCue
  <2> HIDE DEF q
  <2>4. Good(q)
    BY <2>1, <2>3 DEF Good, Held, Waiting, Deferring, Passing, Reactions
  <2> QED BY <2>2, <2>4
<1> QED BY <1>5, <1>6, <1>7, <1>8

LEMMA ReplyReadyGood ==
  ASSUME NEW e, Good(e), NEW r \in Replies, NEW dwelt \in BOOLEAN
  PROVE  Good(ReplyReady(e, r, dwelt))
<1>1. CASE ~Answerable(e, r.turn)
  BY <1>1 DEF ReplyReady
<1>2. CASE Answerable(e, r.turn) /\ dwelt
  BY <1>2, AnswerGood DEF ReplyReady, Answerable, Current, Good
<1>3. CASE Answerable(e, r.turn) /\ ~dwelt
  <2> DEFINE x == [e EXCEPT !.deferred = r]
             t == Arm(x, "thinking_min_dwell")
  <2>1. /\ x \in EngineStates /\ x.activity = "thinking" /\ x.turn = e.turn /\ x.cue = e.cue
        /\ x.deferred = r /\ x.timers = e.timers /\ e.turn # NoTurn /\ r.turn = e.turn
    BY <1>3 DEF Good, EngineStates, Answerable, Current
  <2>2. /\ t \in EngineStates /\ t.activity = "thinking" /\ t.turn = e.turn /\ t.cue = e.cue
        /\ t.deferred = r /\ t.timers["thinking_min_dwell"] = e.turn
        /\ t.timers["tts_wait_timeout"] = e.timers["tts_wait_timeout"]
    <3> HIDE DEF x
    <3> QED BY <2>1, ArmFields DEF Tags, TurnTags
  <2>3. ReplyReady(e, r, dwelt) = t
    BY <1>3 DEF ReplyReady
  <2>4. e.activity = "thinking"
    BY <1>3 DEF Answerable
  <2> HIDE DEF t
  <2>5. Good(t)
    BY <2>1, <2>2, <2>4 DEF Good, Held, Waiting, Deferring, Passing, Reactions
  <2> QED BY <2>3, <2>5
<1> QED BY <1>1, <1>2, <1>3

LEMMA TtsStartedGood ==
  ASSUME NEW e, Good(e), NEW t \in Turns
  PROVE  Good(TtsStarted(e, t))
<1>1. CASE Current(e, t) /\ ThinkingOrReaction(e) /\ e.cue # NoCue /\ e.deferred = NoReply
  <2> DEFINE s == Show(e, "talking")
             x == CancelTurnTimers(s)
             y == Arm(x, "tts_playback_max")
  <2>1. /\ s \in EngineStates /\ s.activity = "talking" /\ s.turn = e.turn /\ s.cue = e.cue
    BY ShowFields DEF CoreStates, Good
  <2>2. /\ x \in EngineStates /\ x.activity = "talking" /\ x.turn = e.turn /\ x.cue = e.cue
    <3> HIDE DEF s
    <3> QED BY <2>1, DisarmFields DEF CancelTurnTimers
  <2>3. /\ y \in EngineStates /\ y.activity = "talking" /\ y.turn = e.turn /\ y.cue = e.cue
        /\ y.timers["tts_playback_max"] = e.turn
    <3> HIDE DEF x
    <3> QED BY <2>2, ArmFields DEF Tags, TurnTags
  <2>4. TtsStarted(e, t) = y
    BY <1>1 DEF TtsStarted
  <2> HIDE DEF y
  <2>5. Good(y)
    BY <1>1, <2>3 DEF Good, Held, Waiting, Deferring, Passing, Reactions
  <2> QED BY <2>4, <2>5
<1> QED BY <1>1 DEF TtsStarted

LEMMA TtsFinishedGood ==
  ASSUME NEW e, Good(e), NEW t \in Turns
  PROVE  Good(TtsFinished(e, t))
BY Cleared, OverlayGood, SettleGood DEF TtsFinished, Good

LEMMA TtsFailedGood ==
  ASSUME NEW e, Good(e), NEW t \in Turns
  PROVE  Good(TtsFailed(e, t))
BY Cleared, SettleGood DEF TtsFailed, Good

LEMMA TtsStoppedByUserGood ==
  ASSUME NEW e, Good(e)
  PROVE  Good(TtsStoppedByUser(e))
BY Cleared, SettleGood DEF TtsStoppedByUser, Good

LEMMA TurnFailedGood ==
  ASSUME NEW e, Good(e), NEW t
  PROVE  Good(TurnFailed(e, t))
BY Cleared, OverlayGood DEF TurnFailed, Good, Reactions

LEMMA TurnCancelledGood ==
  ASSUME NEW e, Good(e), NEW t
  PROVE  Good(TurnCancelled(e, t))
BY Cleared, IdleGood DEF TurnCancelled, Good

LEMMA SettledGood ==
  ASSUME NEW e, Good(e), NEW t \in Turns, NEW r \in Replies, NEW dwelt \in BOOLEAN
  PROVE  Good(Settled(e, t, r, dwelt))
BY ReplyReadyGood, TtsFailedGood DEF Settled

LEMMA JobStartedGood ==
  ASSUME NEW e, Good(e), NEW j \in Jobs
  PROVE  Good(JobStarted(e, j))
<1> DEFINE n == [e EXCEPT !.jobs = @ \cup {j}]
<1>1. Alike(e, n) /\ n.timers = e.timers
  BY DEF Good, EngineStates, Alike
<1>2. Good(n)
  <2> HIDE DEF n
  <2> QED BY <1>1, AlikeGood
<1>3. e.activity = "idle" => Good(Working(n))
  <2> HIDE DEF n
  <2> QED BY <1>1, <1>2, WorkingGood, NoTurnHeld DEF Good, CoreStates, Alike
<1> QED BY <1>2, <1>3 DEF JobStarted

LEMMA JobFinishedGood ==
  ASSUME NEW e, Good(e), NEW j
  PROVE  Good(JobFinished(e, j))
<1> DEFINE n == [e EXCEPT !.jobs = @ \ {j}]
<1>1. Alike(e, n) /\ n.timers = e.timers
  BY DEF Good, EngineStates, Alike
<1>2. Good(n)
  <2> HIDE DEF n
  <2> QED BY <1>1, AlikeGood
<1>3. e.activity = "working" => Good(Idle(n))
  <2> HIDE DEF n
  <2> QED BY <1>1, <1>2, IdleGood, NoTurnHeld DEF Good, CoreStates, Alike
<1> QED BY <1>2, <1>3 DEF JobFinished

LEMMA CueReceivedGood ==
  ASSUME NEW e, Good(e), NEW m \in Cues, NEW x \in Contexts
  PROVE  Good(CueReceived(e, m, x))
<1> DEFINE w == IF e.activity = "sleep" THEN [Idle(e) EXCEPT !.timers = e.timers] ELSE e
           y == [w EXCEPT !.context = CueContext(w, x)]
<1> SUFFICES ASSUME e.activity \in {"idle", "sleep"}
             PROVE  Good(CueReceived(e, m, x))
  BY DEF CueReceived
<1>1. e \in EngineStates /\ e.turn = NoTurn /\ e.cue = NoCue
  BY NoTurnHeld DEF Good, CoreStates
<1>2. Idle(e) \in EngineStates /\ Idle(e).activity = "idle" /\ Idle(e).turn = NoTurn
      /\ Idle(e).cue = NoCue
  BY <1>1, IdleGood DEF Good
<1>3. w \in EngineStates /\ w.turn = NoTurn /\ w.cue = NoCue /\ w.activity = "idle"
  BY <1>1, <1>2 DEF EngineStates
<1>4. "neutral" \in Cues \/ e.activity = "idle" => Good(w)
  <2> HIDE DEF w
  <2>1. "neutral" \in Cues => Good(w)
    BY <1>3 DEF Good, Held, Waiting, Deferring, Passing
  <2>2. e.activity = "idle" => Good(w)
    BY DEF w
  <2> QED BY <2>1, <2>2
<1>5. x \in StageContexts \cup {"keep"} /\ m \in Emotions
  BY ConstantsAssumption
<1>6. y \in EngineStates /\ y.turn = NoTurn /\ y.cue = NoCue
  <2> HIDE DEF w
  <2> QED BY <1>3, <1>5 DEF EngineStates, CueContext
<1>7. m \in Reactions => Good(Overlay(y, m))
  <2> HIDE DEF y
  <2> QED BY <1>6, OverlayGood
<1>8. m \notin Reactions => "neutral" \in Cues
  BY <1>5 DEF Emotions
<1>9. CueReceived(e, m, x) = IF e.paused THEN e ELSE IF m \notin Reactions THEN w ELSE Overlay(y, m)
  BY DEF CueReceived
<1> HIDE DEF w, y
<1> QED BY <1>4, <1>7, <1>8, <1>9

LEMMA ClipEndedGood ==
  ASSUME NEW e, Good(e), NEW early \in BOOLEAN
  PROVE  Good(ClipEnded(e, early))
<1> DEFINE x == [e EXCEPT !.ended = TRUE]
           f == Arm(x, "overlay_min")
<1>1. Alike(e, x) /\ x.timers = e.timers
  BY DEF Good, EngineStates, Alike
<1>2. Alike(e, f) /\ \A h \in Watched : f.timers[h] = e.timers[h]
  <2> HIDE DEF x
  <2> QED BY <1>1, ArmFields DEF Alike, Tags, TurnTags, Watched
<1>3. Good(f)
  <2> HIDE DEF f
  <2> QED BY <1>2, AlikeGood
<1> QED BY <1>3, ShowGood, ExitOverlayGood DEF ClipEnded, Good

\* Assets come and go.
LEMMA CoveredGood ==
  ASSUME NEW e, Good(e), NEW c \in SUBSET CoreStates, NEW b \in BOOLEAN
  PROVE  /\ Good([e EXCEPT !.covered = c])
         /\ Good(Show([e EXCEPT !.covered = c], e.activity))
         /\ Good(Show([e EXCEPT !.quarantined = b, !.covered = c], e.activity))
<1> DEFINE x == [e EXCEPT !.covered = c]
           y == [e EXCEPT !.quarantined = b, !.covered = c]
<1>1. Alike(e, x) /\ x.timers = e.timers /\ Alike(e, y) /\ y.timers = e.timers
  BY DEF Good, EngineStates, Alike
<1> HIDE DEF x, y
<1>2. Good(x) /\ Good(y)
  BY <1>1, AlikeGood
<1>3. x.activity = e.activity /\ y.activity = e.activity
  BY <1>1 DEF Alike
<1>4. Good(Show(x, e.activity)) /\ Good(Show(y, e.activity))
  BY <1>2, <1>3, ShowGood
<1> QED BY <1>2, <1>4 DEF x, y

LEMMA ClipErrorGood ==
  ASSUME NEW e, Good(e), NEW permanent \in BOOLEAN, NEW c \in SUBSET CoreStates
  PROVE  Good(ClipError(e, permanent, c))
<1> DEFINE n == Show([e EXCEPT !.covered = c], e.activity)
           x == [n EXCEPT !.quarantined = TRUE]
           f == Arm(x, "retry_asset")
<1>1. Good(n)
  BY CoveredGood
<1> HIDE DEF n
<1>2. Alike(n, x) /\ x.timers = n.timers
  BY <1>1 DEF Good, EngineStates, Alike
<1>3. Alike(n, f) /\ \A h \in Watched : f.timers[h] = n.timers[h]
  <2> HIDE DEF x
  <2> QED BY <1>2, ArmFields DEF Alike, Tags, TurnTags, Watched
<1>4. Good(f)
  <2> HIDE DEF f
  <2> QED BY <1>1, <1>3, AlikeGood
<1> QED BY <1>1, <1>4 DEF ClipError, n

-----------------------------------------------------------------------------
(* Timers.  While a private session is open a tick only removes its timer. *)

LEMMA FiredFields ==
  ASSUME eng \in EngineStates, NEW g \in Tags
  PROVE  LET f == Fired(g) IN
         /\ f \in EngineStates /\ Alike(eng, f)
         /\ \A h \in Tags \ {g} : f.timers[h] = eng.timers[h]
BY DEF Fired, EngineStates, Alike

\* A timer nobody waits for.
LEMMA FiredGood ==
  ASSUME Good(eng), NEW g \in Tags \ Watched
  PROVE  Good(Fired(g))
<1>1. Alike(eng, Fired(g)) /\ \A h \in Watched : Fired(g).timers[h] = eng.timers[h]
  BY FiredFields DEF Good, Watched, Tags, TurnTags
<1> QED BY <1>1, AlikeGood

LEMMA IdleToSleepGood ==
  ASSUME Good(eng), ~private, IdleToSleep
  PROVE  Good(eng')
<1> DEFINE e == Fired("idle_to_sleep")
           s == Show(e, "sleep")
<1>1. /\ e \in EngineStates /\ Alike(eng, e)
      /\ \A h \in Tags \ {"idle_to_sleep"} : e.timers[h] = eng.timers[h]
  BY FiredFields DEF Good, Tags
<1> HIDE DEF e
<1>2. CASE Heard("idle_to_sleep") /\ e.activity = "idle"
  <2>0. e.turn = NoTurn /\ e.cue = NoCue
    BY <1>1, <1>2, NoTurnHeld DEF CoreStates, Good, Alike
  <2>1. s \in EngineStates /\ s.activity = "sleep" /\ s.turn = NoTurn /\ s.cue = NoCue
    BY <1>1, <2>0, ShowFields DEF CoreStates
  <2>2. eng' = s
    BY <1>2 DEF IdleToSleep, Tick, e
  <2> HIDE DEF s
  <2> QED BY <2>1, <2>2 DEF Good, Held, Waiting, Deferring, Passing, Reactions
<1>3. CASE ~(Heard("idle_to_sleep") /\ e.activity = "idle")
  <2>1. eng' = e
    BY <1>3 DEF IdleToSleep, Tick, e
  <2>2. e.paused \/ e.activity # "idle"
    BY <1>1, <1>3 DEF Heard, TurnTags, Alike
  <2>3. Good(e)
    BY <1>1, <2>2
       DEF Good, Held, Waiting, Deferring, Passing, Alike, Reactions, Tags, TurnTags
  <2> QED BY <2>1, <2>3
<1> QED BY <1>2, <1>3

LEMMA WorkingMaxGood ==
  ASSUME Good(eng), ~private, WorkingMax
  PROVE  Good(eng')
<1> DEFINE e == Fired("working_max")
<1>1. /\ e \in EngineStates /\ Alike(eng, e)
      /\ \A h \in Tags \ {"working_max"} : e.timers[h] = eng.timers[h]
  BY FiredFields DEF Good, Tags
<1> HIDE DEF e
<1>2. CASE Heard("working_max") /\ e.activity = "working"
  <2>1. e.turn = NoTurn /\ e.cue = NoCue
    BY <1>1, <1>2, NoTurnHeld DEF CoreStates, Good, Alike
  <2>2. eng' = Idle(e)
    BY <1>2 DEF WorkingMax, Tick, e
  <2> QED BY <1>1, <2>1, <2>2, IdleGood
<1>3. CASE ~(Heard("working_max") /\ e.activity = "working")
  <2>1. eng' = e
    BY <1>3 DEF WorkingMax, Tick, e
  <2>2. e.paused \/ e.activity # "working"
    BY <1>1, <1>3 DEF Heard, TurnTags, Alike
  <2>3. Good(e)
    BY <1>1, <2>2
       DEF Good, Held, Waiting, Deferring, Passing, Alike, Reactions, Tags, TurnTags
  <2> QED BY <2>1, <2>3
<1> QED BY <1>2, <1>3

LEMMA OverlayMaxGood ==
  ASSUME Good(eng), ~private, OverlayMax
  PROVE  Good(eng')
<1> DEFINE e == Fired("overlay_max")
<1>1. /\ e \in EngineStates /\ Alike(eng, e)
      /\ \A h \in Tags \ {"overlay_max"} : e.timers[h] = eng.timers[h]
  BY FiredFields DEF Good, Tags, TurnTags
<1> HIDE DEF e
<1>2. Held(e) /\ Waiting(e) /\ Deferring(e)
  BY <1>1 DEF Good, Held, Waiting, Deferring, Alike, Tags, TurnTags
<1>3. CASE Heard("overlay_max") /\ e.activity \in Reactions
  <2>1. eng' = ExitOverlay(e)
    BY <1>3 DEF OverlayMax, Tick, e
  <2> QED BY <1>1, <1>2, <1>3, <2>1, ExitOverlayGood
<1>4. CASE ~(Heard("overlay_max") /\ e.activity \in Reactions)
  <2>1. eng' = e
    BY <1>4 DEF OverlayMax, Tick, e
  <2>2. e.paused \/ e.activity \notin Reactions \/ eng.timers["overlay_max"] # eng.turn
    BY <1>1, <1>4 DEF Heard, TurnTags, Alike
  <2>3. Passing(e)
    BY <1>1, <2>2 DEF Good, Passing, Alike, Reactions, Tags, TurnTags
  <2> QED BY <1>1, <1>2, <2>1, <2>3 DEF Good
<1> QED BY <1>3, <1>4

LEMMA OverlayMinGood ==
  ASSUME Good(eng), ~private, OverlayMin
  PROVE  Good(eng')
<1> DEFINE e == Fired("overlay_min")
<1>1. Good(e)
  BY FiredGood DEF Tags, TurnTags, Watched
<1> HIDE DEF e
<1>2. eng' = e \/ (eng' = ExitOverlay(e) /\ e.activity \in Reactions)
  <2>1. CASE Heard("overlay_min") /\ e.activity \in Reactions /\ e.ended
    BY <2>1 DEF OverlayMin, Tick, e
  <2>2. CASE ~(Heard("overlay_min") /\ e.activity \in Reactions /\ e.ended)
    BY <2>2 DEF OverlayMin, Tick, e
  <2> QED BY <2>1, <2>2
<1> QED BY <1>1, <1>2, ExitOverlayGood DEF Good

LEMMA ThinkingMinDwellGood ==
  ASSUME Good(eng), ~private, ThinkingMinDwell
  PROVE  Good(eng')
<1> DEFINE e == Fired("thinking_min_dwell")
<1>1. /\ e \in EngineStates /\ Alike(eng, e)
      /\ \A h \in Tags \ {"thinking_min_dwell"} : e.timers[h] = eng.timers[h]
  BY FiredFields DEF Good, Tags, TurnTags
<1> HIDE DEF e
<1>2. e.deferred \in Replies
  BY <1>1 DEF EngineStates
<1>3. Held(e) /\ Waiting(e) /\ Passing(e)
  BY <1>1 DEF Good, Held, Waiting, Passing, Alike, Reactions, Tags, TurnTags
<1>4. CASE e.activity = "thinking" /\ e.deferred # NoReply
  <2>1. e.turn # NoTurn /\ e.deferred.turn = e.turn /\ eng.timers["thinking_min_dwell"] = eng.turn
    BY <1>1, <1>4 DEF Good, Deferring, Alike
  <2>2. Heard("thinking_min_dwell")
    BY <2>1 DEF Heard, BackgroundTags
  <2>3. eng' = ReplyReady(e, e.deferred, TRUE)
    BY <1>4, <2>2 DEF ThinkingMinDwell, Tick, e
  <2>4. Answerable(e, e.deferred.turn)
    BY <1>4, <2>1 DEF Answerable, Current
  <2>5. eng' = Answer(e, e.deferred)
    BY <2>3, <2>4 DEF ReplyReady
  <2> QED BY <1>1, <1>2, <1>4, <2>1, <2>5, AnswerGood
<1>5. CASE ~(e.activity = "thinking" /\ e.deferred # NoReply)
  <2>1. eng' = e
    BY <1>5 DEF ThinkingMinDwell, Tick, e, ReplyReady, Answerable
  <2>2. Deferring(e)
    BY <1>5 DEF Deferring
  <2> QED BY <1>1, <1>3, <2>1, <2>2 DEF Good
<1> QED BY <1>4, <1>5

LEMMA RetryAssetTickGood ==
  ASSUME Good(eng), ~private, RetryAssetTick
  PROVE  Good(eng')
<1> DEFINE e == Fired("retry_asset")
<1>1. Good(e)
  BY FiredGood DEF Tags, TurnTags, Watched
<1>2. PICK c \in Coverage : eng' = e \/ eng' = RetryAsset(e, c)
  BY DEF RetryAssetTick, Tick
<1>3. c \in SUBSET CoreStates
  BY ConstantsAssumption
<1> HIDE DEF e
<1> QED BY <1>1, <1>2, <1>3, CoveredGood DEF RetryAsset

LEMMA PreSpeechMaxGood ==
  ASSUME Good(eng), ~private, PreSpeechMax
  PROVE  Good(eng')
<1>1. eng' = Fired("pre_speech_max")
  BY DEF PreSpeechMax, Tick
<1> QED BY <1>1, FiredGood DEF Tags, TurnTags, Watched

LEMMA TtsWaitTimeoutGood ==
  ASSUME Good(eng), ~private, TtsWaitTimeout
  PROVE  Good(eng')
<1> DEFINE e == Fired("tts_wait_timeout")
<1>1. /\ e \in EngineStates /\ Alike(eng, e)
      /\ \A h \in Tags \ {"tts_wait_timeout"} : e.timers[h] = eng.timers[h]
  BY FiredFields DEF Good, Tags, TurnTags
<1> HIDE DEF e
<1>2. CASE e.turn # NoTurn /\ e.cue # NoCue /\ e.activity # "talking"
  <2>1. Heard("tts_wait_timeout")
    BY <1>1, <1>2 DEF Good, Waiting, Alike, Heard, BackgroundTags
  <2>2. eng' = Idle(Clear(CancelTurnTimers(e)))
    BY <1>2, <2>1 DEF TtsWaitTimeout, Tick, e
  <2> QED BY <1>1, <2>2, Cleared, IdleGood
<1>3. CASE ~(e.turn # NoTurn /\ e.cue # NoCue /\ e.activity # "talking")
  <2>1. eng' = e
    BY <1>3 DEF TtsWaitTimeout, Tick, e
  <2>2. Good(e)
    BY <1>1, <1>3
       DEF Good, Held, Waiting, Deferring, Passing, Alike, Reactions, Tags, TurnTags
  <2> QED BY <2>1, <2>2
<1> QED BY <1>2, <1>3

LEMMA TtsPlaybackMaxGood ==
  ASSUME Good(eng), ~private, TtsPlaybackMax
  PROVE  Good(eng')
<1> DEFINE e == Fired("tts_playback_max")
<1>1. /\ e \in EngineStates /\ Alike(eng, e)
      /\ \A h \in Tags \ {"tts_playback_max"} : e.timers[h] = eng.timers[h]
  BY FiredFields DEF Good, Tags, TurnTags
<1> HIDE DEF e
<1>2. CASE e.activity = "talking"
  <2>1. e.turn # NoTurn /\ eng.timers["tts_playback_max"] = eng.turn
    BY <1>1, <1>2 DEF Good, Held, Waiting, Alike
  <2>2. Heard("tts_playback_max")
    BY <2>1 DEF Heard, BackgroundTags
  <2>3. eng' = TtsFailed(e, e.turn)
    BY <1>2, <2>1, <2>2 DEF TtsPlaybackMax, Tick, e
  <2>4. eng' = Settle(Clear(CancelTurnTimers(e)))
    BY <1>2, <2>1, <2>3 DEF TtsFailed, Current
  <2> QED BY <1>1, <2>4, Cleared, SettleGood
<1>3. CASE e.activity # "talking"
  <2>1. eng' = e
    BY <1>3 DEF TtsPlaybackMax, Tick, e
  <2>2. Good(e)
    BY <1>1, <1>3
       DEF Good, Held, Waiting, Deferring, Passing, Alike, Reactions, Tags, TurnTags
  <2> QED BY <2>1, <2>2
<1> QED BY <1>2, <1>3

LEMMA ThinkingVariantRotateGood ==
  ASSUME Good(eng), ~private, ThinkingVariantRotate
  PROVE  Good(eng')
<1> DEFINE e == Fired("thinking_variant_rotate")
           s == Show(e, "thinking")
           f == Arm(s, "thinking_variant_rotate")
<1>1. Good(e)
  BY FiredGood DEF Tags, TurnTags, Watched
<1>2. eng' = e \/ (eng' = f /\ e.activity = "thinking")
  <2>1. CASE Heard("thinking_variant_rotate") /\ e.activity = "thinking"
    BY <2>1 DEF ThinkingVariantRotate, Tick
  <2>2. CASE ~(Heard("thinking_variant_rotate") /\ e.activity = "thinking")
    BY <2>2 DEF ThinkingVariantRotate, Tick
  <2> QED BY <2>1, <2>2
<1>3. e.activity = "thinking" => Good(s)
  <2> HIDE DEF e
  <2> QED BY <1>1, ShowGood
<1>4. Good(s) => Good(f)
  <2> HIDE DEF s
  <2> SUFFICES ASSUME Good(s)
               PROVE  Good(f)
    OBVIOUS
  <2>1. Alike(s, f) /\ \A h \in Watched : f.timers[h] = s.timers[h]
    BY ArmFields DEF Good, Alike, Tags, TurnTags, Watched
  <2> HIDE DEF f
  <2> QED BY <2>1, AlikeGood
<1> QED BY <1>1, <1>2, <1>3, <1>4

LEMMA ContextHoldGood ==
  ASSUME Good(eng), ~private, ContextHold
  PROVE  Good(eng')
<1> DEFINE e == Fired("context_hold")
           x == [e EXCEPT !.context = "daily"]
<1>1. /\ e \in EngineStates /\ Alike(eng, e)
      /\ \A h \in Tags \ {"context_hold"} : e.timers[h] = eng.timers[h]
  BY FiredFields DEF Good, Tags
<1> HIDE DEF e
<1>2. CASE Heard("context_hold") /\ e.activity = "idle" /\ e.context # "daily"
  <2>1. e.turn = NoTurn /\ e.cue = NoCue
    BY <1>1, <1>2, NoTurnHeld DEF CoreStates, Good, Alike
  <2>2. x \in EngineStates /\ x.turn = NoTurn /\ x.cue = NoCue
    BY <1>1, <2>1 DEF EngineStates, StageContexts
  <2>3. eng' = Idle(x)
    BY <1>2 DEF ContextHold, Tick, e
  <2> HIDE DEF x
  <2> QED BY <2>2, <2>3, IdleGood
<1>3. CASE ~(Heard("context_hold") /\ e.activity = "idle" /\ e.context # "daily")
  <2>1. eng' = e
    BY <1>3 DEF ContextHold, Tick, e
  <2>2. e.paused \/ e.activity # "idle" \/ e.context = "daily"
    BY <1>1, <1>3 DEF Heard, TurnTags, Alike
  <2>3. Good(e)
    BY <1>1, <2>2
       DEF Good, Held, Waiting, Deferring, Passing, Alike, Reactions, Tags, TurnTags
  <2> QED BY <2>1, <2>3
<1> QED BY <1>2, <1>3

\* A tick in the private session.
LEMMA PrivateTick ==
  ASSUME eng \in EngineStates, private, Timers
  PROVE  eng' \in EngineStates
<1>1. \E g \in Tags : eng' = Fired(g)
  BY DEF Timers, IdleToSleep, WorkingMax, OverlayMax, OverlayMin, ThinkingMinDwell,
         RetryAssetTick, PreSpeechMax, TtsWaitTimeout, TtsPlaybackMax,
         ThinkingVariantRotate, ContextHold, Tick, Heard, Tags, TurnTags
<1> QED BY <1>1, FiredFields

LEMMA TimersGood ==
  ASSUME Good(eng), ~private, Timers
  PROVE  Good(eng')
BY IdleToSleepGood, WorkingMaxGood, OverlayMaxGood, OverlayMinGood, ThinkingMinDwellGood,
   RetryAssetTickGood, PreSpeechMaxGood, TtsWaitTimeoutGood, TtsPlaybackMaxGood,
   ThinkingVariantRotateGood, ContextHoldGood DEF Timers

-----------------------------------------------------------------------------
(* The invariant of the specification.                                     *)

ChatType ==
  /\ private \in BOOLEAN
  /\ submitted \in 0..MaxTurns
  /\ followed \in Turns \cup {NoTurn} /\ listening \in BOOLEAN /\ (listening => followed # NoTurn)
  /\ replies \in 0..MaxReplies
  /\ recording \in BOOLEAN
  /\ uploads \in 0..MaxTurns /\ submitted + uploads <= MaxTurns

EngInv == eng \in EngineStates /\ (~private => Good(eng))

IInv == ChatType /\ EngInv

LEMMA Dispatched ==
  ASSUME IInv, NEW e, ~private => Good(e), Dispatch(e), private' = private
  PROVE  EngInv'
BY DEF IInv, EngInv, Dispatch, Good

LEMMA ChatSame ==
  ASSUME ChatType, UNCHANGED <<private, Chat>>
  PROVE  ChatType'
BY DEF ChatType, Chat

\* The turns and replies the app may speak of.
LEMMA SubmittedTurns ==
  ASSUME ChatType
  PROVE  1..submitted \subseteq Turns /\ (followed # NoTurn => followed \in Turns)
BY ConstantsAssumption DEF ChatType, Turns

LEMMA ReplyType ==
  ASSUME NEW t \in Turns, NEW m \in Emotions, NEW x \in Contexts, NEW s \in BOOLEAN
  PROVE  [turn |-> t, emotion |-> m, context |-> x, speak |-> s] \in Replies
BY ConstantsAssumption DEF Replies

LEMMA InitInv ==
  ASSUME Init
  PROVE  IInv
<1>1. Start \in EngineStates
  BY ConstantsAssumption
     DEF Start, EngineStates, Replies, NoReply, CoreStates, StageContexts, Emotions
<1>2. Start.turn = NoTurn /\ Start.cue = NoCue
  BY DEF Start
<1>3. Good(Idle(Start))
  BY <1>1, <1>2, IdleGood
<1>4. ChatType
  <2>1. submitted = 0 /\ followed = NoTurn /\ ~listening /\ replies = 0 /\ uploads = 0
    BY DEF Init
  <2>2. /\ submitted \in 0..MaxTurns /\ followed \in Turns \cup {NoTurn}
        /\ replies \in 0..MaxReplies
        /\ uploads \in 0..MaxTurns /\ submitted + uploads <= MaxTurns
    BY <2>1, ConstantsAssumption
  <2>3. private \in BOOLEAN /\ recording \in BOOLEAN /\ listening \in BOOLEAN
    BY DEF Init
  <2> QED BY <2>1, <2>2, <2>3 DEF ChatType
<1>5. Good(eng)
  BY <1>3 DEF Init
<1> QED BY <1>4, <1>5 DEF IInv, EngInv, Good

LEMMA FollowInv ==
  ASSUME IInv, NEW voice \in BOOLEAN, Follow(voice)
  PROVE  IInv'
<1>1. submitted + 1 \in Turns /\ ChatType'
  BY ConstantsAssumption DEF Follow, IInv, ChatType, Turns, NoTurn
<1>2. EngInv'
  BY <1>1, TurnSubmittedGood, Dispatched DEF Follow, IInv, EngInv
<1> QED BY <1>1, <1>2 DEF IInv

LEMMA TurnEndInv ==
  ASSUME IInv, NEW e, ~private => Good(e), TurnEnd(e)
  PROVE  IInv'
<1>1. ChatType'
  BY DEF TurnEnd, IInv, ChatType
<1> QED BY <1>1, Dispatched DEF TurnEnd, IInv

LEMMA StreamEndInv ==
  ASSUME IInv, NEW e, ~private => Good(e), StreamEnd(e)
  PROVE  IInv'
BY TurnEndInv DEF StreamEnd

LEMMA StreamInv ==
  ASSUME IInv, Stream
  PROVE  IInv'
<1> USE SubmittedTurns DEF IInv, EngInv
<1>1. ASSUME NEW m \in Emotions, NEW x \in Contexts, NEW s \in BOOLEAN, NEW d \in BOOLEAN,
             StreamReply(m, x, s, d)
      PROVE  IInv'
  <2> DEFINE r == [turn |-> followed, emotion |-> m, context |-> x, speak |-> s]
  <2>1. r \in Replies
    BY <1>1, ReplyType DEF StreamReply, ChatType
  <2>2. ChatType'
    BY <1>1, ConstantsAssumption DEF StreamReply, ChatType
  <2>3. Dispatch(ReplyReady(eng, r, d)) /\ private' = private
    BY <1>1 DEF StreamReply
  <2> HIDE DEF r
  <2>4. ~private => Good(ReplyReady(eng, r, d))
    BY <2>1, ReplyReadyGood
  <2> QED BY <2>2, <2>3, <2>4, Dispatched
<1>2. ASSUME NEW m \in Emotions, NEW x \in Contexts, NEW d \in BOOLEAN, StreamRecovered(m, x, d)
      PROVE  IInv'
  <2> DEFINE r == [turn |-> followed, emotion |-> m, context |-> x, speak |-> FALSE]
             e == Settled(eng, followed, r, d)
  <2>1. StreamEnd(e) /\ followed \in Turns
    BY <1>2 DEF StreamRecovered, StreamEnd, ChatType
  <2>2. r \in Replies
    BY <2>1, ReplyType
  <2> HIDE DEF r
  <2>3. ~private => Good(e)
    BY <2>1, <2>2, SettledGood
  <2> HIDE DEF e
  <2> QED BY <2>1, <2>3, StreamEndInv
<1>3. CASE StreamCompleted
  BY <1>3, StreamEndInv DEF StreamCompleted
<1>4. CASE StreamFailed
  BY <1>4, TurnFailedGood, StreamEndInv DEF StreamFailed
<1>5. CASE StreamCancelled
  BY <1>5, TurnCancelledGood, StreamEndInv DEF StreamCancelled
<1>6. CASE StreamLost
  BY <1>6 DEF StreamLost, ChatType
<1> QED BY <1>1, <1>2, <1>3, <1>4, <1>5, <1>6 DEF Stream, Reply, Recovered

LEMMA SpeechInv ==
  ASSUME IInv, NEW t \in 1..submitted, Speech(t)
  PROVE  IInv'
<1> USE DEF IInv, EngInv
<1>1. t \in Turns
  BY SubmittedTurns
<1>2. CASE TtsStart(t)
  BY <1>1, <1>2, TtsStartedGood, Dispatched, ChatSame DEF TtsStart
<1>3. CASE TtsFinish(t)
  BY <1>1, <1>3, TtsFinishedGood, TtsFailedGood, Dispatched, ChatSame DEF TtsFinish
<1>4. CASE TtsFail(t)
  BY <1>1, <1>4, TtsFailedGood, Dispatched, ChatSame DEF TtsFail
<1>5. ASSUME NEW m \in Emotions, NEW x \in Contexts, PlayMessage(t, m, x)
      PROVE  IInv'
  <2> DEFINE r == [turn |-> t, emotion |-> m, context |-> x, speak |-> TRUE]
             e == TurnSubmitted(TtsStoppedByUser(eng), t)
  <2>1. r \in Replies
    BY <1>1, ReplyType
  <2>2. Dispatch(ReplyReady(e, r, FALSE)) /\ UNCHANGED <<private, Chat>>
    BY <1>5 DEF PlayMessage
  <2>3. ~private => Good(e)
    BY <1>1, TtsStoppedByUserGood, TurnSubmittedGood
  <2> HIDE DEF r, e
  <2>4. ~private => Good(ReplyReady(e, r, FALSE))
    BY <2>1, <2>3, ReplyReadyGood
  <2> QED BY <2>2, <2>4, Dispatched, ChatSame
<1> QED BY <1>2, <1>3, <1>4, <1>5 DEF Speech

LEMMA PttInv ==
  ASSUME IInv,
         PttPress \/ (\E v \in BOOLEAN : PttRelease(v)) \/ PttCancel \/ UploadFail
  PROVE  IInv'
<1> USE DEF IInv, EngInv
<1>1. CASE PttPress
  <2>1. ChatType'
    BY <1>1 DEF PttPress, ChatType
  <2> QED BY <1>1, <2>1, PttPressedGood, Dispatched DEF PttPress
<1>2. ASSUME NEW v \in BOOLEAN, PttRelease(v)
      PROVE  IInv'
  <2>1. recording' = FALSE /\ UNCHANGED <<private, submitted, followed, listening, replies>>
    BY <1>2 DEF PttRelease
  <2>2. uploads' \in 0..MaxTurns /\ submitted + uploads' <= MaxTurns
    <3>1. CASE v
      BY <1>2, <3>1, ConstantsAssumption DEF PttRelease, ChatType
    <3>2. CASE ~v
      BY <1>2, <3>2, ConstantsAssumption DEF PttRelease, ChatType
    <3> QED BY <3>1, <3>2
  <2>3. ChatType'
    BY <2>1, <2>2 DEF ChatType
  <2> QED BY <1>2, <2>1, <2>3, PttReleasedGood, Dispatched DEF PttRelease
<1>3. CASE PttCancel
  <2>1. ChatType'
    BY <1>3 DEF PttCancel, ChatType
  <2> QED BY <1>3, <2>1, PttReleasedGood, Dispatched DEF PttCancel
<1>4. CASE UploadFail
  <2>1. ChatType'
    BY <1>4, ConstantsAssumption DEF UploadFail, ChatType
  <2> QED BY <1>4, <2>1, PttUploadFailedGood, Dispatched DEF UploadFail
<1> QED BY <1>1, <1>2, <1>3, <1>4

LEMMA InputInv ==
  ASSUME IInv, Input
  PROVE  IInv'
<1>1. CASE Follow(FALSE) \/ Upload
  BY <1>1, FollowInv, PttInv DEF Upload
<1>2. CASE StopAudio
  BY <1>2, TtsStoppedByUserGood, Dispatched, ChatSame DEF StopAudio, IInv, EngInv
<1>3. CASE PttPress \/ PttCancel \/ \E v \in BOOLEAN : PttRelease(v)
  BY <1>3, PttInv
<1>4. CASE \E t \in 1..submitted : Speech(t)
  BY <1>4, SpeechInv
<1>5. CASE \E j \in Jobs : JobStart(j) \/ JobFinish(j)
  BY <1>5, JobStartedGood, JobFinishedGood, Dispatched, ChatSame
     DEF JobStart, JobFinish, IInv, EngInv
<1>6. CASE \E m \in Cues, x \in Contexts : Cue(m, x)
  BY <1>6, CueReceivedGood, Dispatched, ChatSame DEF Cue, IInv, EngInv
<1>7. ASSUME NEW t \in 1..submitted, CancelTurn(t)
      PROVE  IInv'
  <2>1. t \in Turns
    BY SubmittedTurns DEF IInv
  <2>2. ~private => Good(TurnCancelled(eng, t))
    BY <2>1, TurnCancelledGood DEF IInv, EngInv
  <2> QED BY <1>7, <2>2, TurnEndInv DEF CancelTurn
<1> QED BY <1>1, <1>2, <1>3, <1>4, <1>5, <1>6, <1>7 DEF Input

LEMMA StageInv ==
  ASSUME IInv, Stage
  PROVE  IInv'
<1> USE DEF IInv, EngInv
<1>1. CASE Touch
  BY <1>1, UserActivityGood, Dispatched, ChatSame DEF Touch
<1>2. CASE \E early \in BOOLEAN : ClipEnd(early)
  BY <1>2, ClipEndedGood, Dispatched, ChatSame DEF ClipEnd
<1>3. ASSUME NEW permanent \in BOOLEAN, NEW c \in Coverage, ClipFail(permanent, c)
      PROVE  IInv'
  <2>1. c \in SUBSET CoreStates
    BY ConstantsAssumption
  <2> QED BY <1>3, <2>1, ClipErrorGood, Dispatched, ChatSame DEF ClipFail
<1>4. ASSUME NEW c \in Coverage, AssetsChange(c)
      PROVE  IInv'
  <2> DEFINE x == [eng EXCEPT !.covered = c]
  <2>1. c \in SUBSET CoreStates
    BY ConstantsAssumption
  <2>2. x \in EngineStates
    BY <2>1 DEF EngineStates
  <2>3. ~private => Good(x)
    BY <2>1, CoveredGood
  <2>4. eng' = (IF private THEN x ELSE Reselect(x)) /\ UNCHANGED <<private, Chat>>
    BY <1>4 DEF AssetsChange
  <2> HIDE DEF x
  <2>5. ~private => Good(Reselect(x))
    BY <2>3, ReselectGood
  <2>6. Good(Reselect(x)) => Reselect(x) \in EngineStates
    BY DEF Good
  <2>7. ChatType'
    BY <2>4, ChatSame
  <2>8. private' = private
    BY <2>4
  <2> QED BY <2>2, <2>4, <2>5, <2>6, <2>7, <2>8
<1> QED BY <1>1, <1>2, <1>3, <1>4 DEF Stage

LEMMA LifecycleInv ==
  ASSUME IInv, Lifecycle
  PROVE  IInv'
<1> USE DEF IInv, EngInv
<1>1. CASE Pause
  BY <1>1, AppPausedGood, Dispatched, ChatSame DEF Pause
<1>2. CASE \E long \in BOOLEAN : Resume(long)
  BY <1>2, AppResumedGood, Dispatched, ChatSame DEF Resume
<1>3. CASE OpenPrivate
  <2>1. Good(eng')
    BY <1>3, AppPausedGood DEF OpenPrivate
  <2>2. ChatType'
    BY <1>3 DEF OpenPrivate, ChatType, Chat
  <2> QED BY <2>1, <2>2 DEF Good
<1>4. CASE LockPrivate
  <2> DEFINE x == [Clear(eng) EXCEPT !.activity = "idle", !.context = "daily", !.paused = FALSE]
  <2>1. x \in EngineStates /\ x.turn = NoTurn /\ x.cue = NoCue
    BY ClearFields DEF EngineStates, CoreStates, StageContexts
  <2>2. eng' = Idle(x)
    BY <1>4 DEF LockPrivate
  <2> HIDE DEF x
  <2>3. Good(eng')
    BY <2>1, <2>2, IdleGood
  <2>4. ChatType'
    BY <1>4 DEF LockPrivate, ChatType, Chat
  <2> QED BY <2>3, <2>4 DEF Good
<1> QED BY <1>1, <1>2, <1>3, <1>4 DEF Lifecycle

LEMMA TimersInv ==
  ASSUME IInv, Timers
  PROVE  IInv'
<1>1. UNCHANGED <<private, Chat>>
  BY DEF Timers, IdleToSleep, WorkingMax, OverlayMax, OverlayMin, ThinkingMinDwell,
         RetryAssetTick, PreSpeechMax, TtsWaitTimeout, TtsPlaybackMax,
         ThinkingVariantRotate, ContextHold, Tick
<1>2. ChatType' /\ private' = private
  BY <1>1, ChatSame DEF IInv
<1>3. private \in BOOLEAN
  BY DEF IInv, ChatType
<1>4. CASE private
  BY <1>2, <1>4, PrivateTick DEF IInv, EngInv
<1>5. CASE ~private
  BY <1>2, <1>5, TimersGood DEF IInv, EngInv, Good
<1> QED BY <1>3, <1>4, <1>5

\* Between two events the engine is in good order, whatever happened before.
THEOREM EngineInGoodOrder == Spec => []IInv
<1>1. IInv /\ UNCHANGED vars => IInv'
  BY DEF IInv, EngInv, ChatType, Good, Held, Waiting, Deferring, Passing, vars
<1>2. IInv /\ Next => IInv'
  BY InputInv, StreamInv, StageInv, LifecycleInv, TimersInv DEF Next
<1> QED BY InitInv, <1>1, <1>2, PTL DEF Spec

-----------------------------------------------------------------------------
\* Every reachable state is well typed.
THEOREM TypeCorrect == Spec => []TypeOK
<1>1. IInv => TypeOK
  BY DEF IInv, EngInv, ChatType, TypeOK
<1> QED BY <1>1, EngineInGoodOrder, PTL

\* The engine never holds a turn it does not show.
THEOREM TurnsAreOnStage == Spec => []TurnOnStage
<1>1. IInv => TurnOnStage
  BY DEF IInv, EngInv, Good, Held, TurnOnStage
<1> QED BY <1>1, EngineInGoodOrder, PTL

\* Every wait for speech, and every speech, has its watchdog.
THEOREM NoEndlessWait == Spec => []WaitsAreTimed
<1>1. IInv => WaitsAreTimed
  BY DEF IInv, EngInv, Good, Waiting, WaitsAreTimed, Pending
<1> QED BY <1>1, EngineInGoodOrder, PTL

\* A reply held back for the minimal dwell is of the turn on screen and comes.
THEOREM NoStaleDeferral == Spec => []DeferralsAreTimed
<1>1. IInv => DeferralsAreTimed
  BY DEF IInv, EngInv, Good, Deferring, DeferralsAreTimed, Pending
<1> QED BY <1>1, EngineInGoodOrder, PTL

\* Without neutral cues, every activity that should pass has its timer.
THEOREM NothingLastsForEver ==
  ASSUME "neutral" \notin Cues
  PROVE  Spec => []ActivitiesEnd
<1>1. IInv => ActivitiesEnd
  BY DEF IInv, EngInv, Good, Passing, ActivitiesEnd, Pending
<1> QED BY <1>1, EngineInGoodOrder, PTL
=============================================================================
