---------------------------- MODULE TurnService ----------------------------
(***************************************************************************)
(* One user's conversation turns on the backend: the HTTP handlers that    *)
(* create and cancel turns, the Redis event bus and cancel flags, and the  *)
(* arq worker that runs TurnOrchestrator.process.                          *)
(*                                                                         *)
(* A handler or a job is a process.  It shares with the others             *)
(*   - Postgres rows (state, answers, kind), changed in one step because   *)
(*     every transaction of the code locks the row or is one statement;    *)
(*   - Redis: the sequence counter, the stream and the cancel flag of each *)
(*     turn, each changed by one command.                                  *)
(* Every await between two of those steps is a point of interleaving.      *)
(* Publishing an event is two commands (INCR, then XADD), so a process     *)
(* queues what it publishes in out and runs on when out is empty again.    *)
(***************************************************************************)
EXTENDS Integers, FiniteSets, Sequences

CONSTANTS
  MaxTurns,         \* bound: turn ids the model may issue
  Reqs,             \* HTTP handlers that may run at the same time
  Clients,          \* client_id values the app may send
  VoiceInputs,      \* input kinds a new turn may have (TRUE: voice)
  SpeakInputs,      \* values of the resolved speak column
  SupersedeInputs,  \* values of the request's supersede field
  MaxSegs,          \* bound: speech segments of a reply
  MaxTries,         \* WorkerSettings.max_tries
  MaxFaults         \* bound: crashes and infrastructure errors

Turns == 1..MaxTurns
NoTurn == 0
NoClient == "no client"

ASSUME ConstantsAssumption ==
  /\ MaxTurns \in Nat /\ MaxSegs \in Nat /\ MaxTries \in Nat /\ MaxFaults \in Nat
  /\ VoiceInputs \subseteq BOOLEAN
  /\ SpeakInputs \subseteq BOOLEAN
  /\ SupersedeInputs \subseteq BOOLEAN
  /\ NoClient \notin Clients
  /\ Reqs \cap Turns = {}

Procs == Reqs \cup Turns   \* the job of turn t is process t

Terminal == {"completed", "failed", "cancelled"}
Working == {"queued", "transcribing", "context_building", "llm_pending",
            "reply_ready", "speaking"}
States == {"none"} \cup Working \cup Terminal   \* "none": no row yet

EventTypes == {"turn.accepted", "transcript.final", "turn.progress", "reply.ready",
               "character.cue", "tts.segment", "tts.failed", "turn.completed",
               "turn.failed", "turn.cancelled"}
TerminalTypes == {"turn.completed", "turn.failed", "turn.cancelled"}
PendingEvent == [turn : Turns, type : EventTypes]
StreamEntry == [type : EventTypes, seq : Nat]
Kinds == [client : Clients \cup {NoClient}, voice : BOOLEAN, speak : BOOLEAN]

VARIABLES
  state,    \* turns.state
  answers,  \* assistant messages stored with the turn's id
  kind,     \* the immutable columns of the row
  audio,    \* turns whose uploaded voice file is still on disk
  uploads,  \* turns whose uploaded voice has a row in media_objects
  seqNo,    \* seq:turn:{id}
  stream,   \* ev:turn:{id}
  flag,     \* turns with cancel:turn:{id} set
  queue,    \* turns whose job arq still holds
  tries,    \* arq's job_try
  wpc,      \* where the job of a turn is
  left,     \* speech segments the job has not emitted
  got,      \* synthesized segments of the batch in hand
  req,      \* the HTTP handlers
  issued,   \* turn ids handed out, numbered in the order of created_at
  out,      \* events a process has still to publish
  held,     \* the sequence number a process drew and has not published
  faults

rowVars == <<state, answers, kind, audio, uploads>>
busVars == <<seqNo, stream, flag>>
jobVars == <<queue, tries, wpc, left, got>>
apiVars == <<req, issued>>
vars == <<rowVars, busVars, jobVars, apiVars, out, held, faults>>

WorkerPcs == {"off", "read", "stt_enter", "stt_media", "stt", "stt_provider", "stt_fail",
              "stt_drop", "stt_commit", "context", "llm_enter", "llm", "check", "reply",
              "speak", "synth", "tts_provider", "segment", "finish", "fail", "return"}
ReqPcs == {"idle", "select", "flag", "commit", "enqueue", "cancelled"}
IdleReq == [pc |-> "idle", turn |-> NoTurn, active |-> NoTurn, supersede |-> FALSE,
            kind |-> [client |-> NoClient, voice |-> FALSE, speak |-> FALSE]]

Open(t) == state[t] \in Working
IsActive(t) == t \notin flag /\ Open(t)
Ready(p) == out[p] = <<>>
Publish(p, t, types) ==
  out' = [out EXCEPT ![p] = [i \in DOMAIN types |-> [turn |-> t, type |-> types[i]]]]

Init ==
  /\ state = [t \in Turns |-> "none"]
  /\ answers = [t \in Turns |-> 0]
  /\ kind = [t \in Turns |-> IdleReq.kind]
  /\ audio = {} /\ uploads = {}
  /\ seqNo = [t \in Turns |-> 0]
  /\ stream = [t \in Turns |-> <<>>]
  /\ flag = {}
  /\ queue = {}
  /\ tries = [t \in Turns |-> 0]
  /\ wpc = [t \in Turns |-> "off"]
  /\ left = [t \in Turns |-> 0]
  /\ got = [t \in Turns |-> 0]
  /\ req = [r \in Reqs |-> IdleReq]
  /\ issued = 0
  /\ out = [p \in Procs |-> <<>>]
  /\ held = [p \in Procs |-> 0]
  /\ faults = 0

-----------------------------------------------------------------------------
(* TurnEventBus.emit: INCR draws the number, XADD appends the event.       *)

\* Mistake: the number is the length of the stream, not a counter.
IncrFromLength(p) ==
  /\ out[p] # <<>> /\ held[p] = 0
  /\ LET t == Head(out[p]).turn IN
       /\ seqNo' = [seqNo EXCEPT ![t] = Len(stream[t]) + 1]
       /\ held' = [held EXCEPT ![p] = Len(stream[t]) + 1]
  /\ UNCHANGED <<rowVars, stream, flag, jobVars, apiVars, out, faults>>

Incr(p) ==
  /\ out[p] # <<>> /\ held[p] = 0
  /\ LET t == Head(out[p]).turn IN
       /\ seqNo' = [seqNo EXCEPT ![t] = @ + 1]
       /\ held' = [held EXCEPT ![p] = seqNo[t] + 1]
  /\ UNCHANGED <<rowVars, stream, flag, jobVars, apiVars, out, faults>>

Xadd(p) ==
  /\ out[p] # <<>> /\ held[p] # 0
  /\ LET e == Head(out[p]) IN
       stream' = [stream EXCEPT ![e.turn] = Append(@, [type |-> e.type, seq |-> held[p]])]
  /\ out' = [out EXCEPT ![p] = Tail(@)]
  /\ held' = [held EXCEPT ![p] = 0]
  /\ UNCHANGED <<rowVars, seqNo, flag, jobVars, apiVars, faults>>

-----------------------------------------------------------------------------
(* POST /v1/turns and /v1/turns/voice.                                     *)

Taken(c) == \E t \in Turns : state[t] # "none" /\ kind[t].client = c

Lookup(r, c, voice, speak, supersede) ==
  /\ req[r].pc = "idle" /\ Ready(r)
  /\ issued < MaxTurns
  /\ ~Taken(c)      \* a duplicate is answered with the turn it made
  /\ req' = [req EXCEPT ![r] =
       [pc |-> "select", turn |-> issued + 1, active |-> NoTurn, supersede |-> supersede,
        kind |-> [client |-> c, voice |-> voice, speak |-> speak]]]
  /\ issued' = issued + 1
  /\ UNCHANGED <<rowVars, busVars, jobVars, out, held, faults>>

\* ORDER BY created_at DESC LIMIT 1 over the rows that are not terminal; the
\* default of created_at is the start of the transaction, which is Lookup.
ActiveTurn(a) ==
  IF \E t \in Turns : Open(t)
    THEN a \in Turns /\ Open(a) /\ \A t \in Turns : Open(t) => t <= a
    ELSE a = NoTurn

\* Mistake: _supersede is called without a turn to supersede.
SelectNone(r) ==
  /\ req[r].pc = "select"
  /\ \E a \in Turns \cup {NoTurn} :
       /\ ActiveTurn(a)
       /\ req' = [req EXCEPT ![r] = IF a # NoTurn /\ ~@.supersede THEN IdleReq
                                    ELSE [@ EXCEPT !.active = a, !.pc = "flag"]]
  /\ UNCHANGED <<rowVars, busVars, jobVars, issued, out, held, faults>>

Select(r) ==
  /\ req[r].pc = "select"
  /\ \E a \in Turns \cup {NoTurn} :
       /\ ActiveTurn(a)
       /\ \/ /\ a # NoTurn /\ ~req[r].supersede          \* 409 TURN_IN_PROGRESS
             /\ req' = [req EXCEPT ![r] = IdleReq]
          \/ /\ a = NoTurn \/ req[r].supersede
             /\ req' = [req EXCEPT ![r] =
                  [@ EXCEPT !.active = a, !.pc = IF a = NoTurn THEN "commit" ELSE "flag"]]
  /\ UNCHANGED <<rowVars, busVars, jobVars, issued, out, held, faults>>

\* _supersede up to its first await: the ORM object is changed in memory only.
SupersedeFlag(r) ==
  /\ req[r].pc = "flag"
  /\ flag' = flag \cup {req[r].active}
  /\ Publish(r, req[r].active, <<"turn.cancelled">>)
  /\ req' = [req EXCEPT ![r] = [@ EXCEPT !.pc = "commit"]]
  /\ UNCHANGED <<rowVars, seqNo, stream, jobVars, issued, held, faults>>

\* Mistake: the superseded row is not updated.
CommitNewOnly(r) ==
  /\ req[r].pc = "commit" /\ Ready(r)
  /\ ~Taken(req[r].kind.client)
  /\ state' = [state EXCEPT ![req[r].turn] = "queued"]
  /\ kind' = [kind EXCEPT ![req[r].turn] = req[r].kind]
  /\ LET voiced == IF req[r].kind.voice THEN {req[r].turn} ELSE {}
     IN audio' = audio \cup voiced /\ uploads' = uploads \cup voiced
  /\ Publish(r, req[r].turn, <<"turn.accepted">>)
  /\ req' = [req EXCEPT ![r] = [@ EXCEPT !.pc = "enqueue"]]
  /\ UNCHANGED <<answers, busVars, jobVars, issued, held, faults>>

Commit(r) ==
  /\ req[r].pc = "commit" /\ Ready(r)
  /\ ~Taken(req[r].kind.client)
  /\ state' = [t \in Turns |-> IF t = req[r].turn THEN "queued"
                               ELSE IF t = req[r].active THEN "cancelled" ELSE state[t]]
  /\ kind' = [kind EXCEPT ![req[r].turn] = req[r].kind]
  /\ LET voiced == IF req[r].kind.voice THEN {req[r].turn} ELSE {}
     IN audio' = audio \cup voiced /\ uploads' = uploads \cup voiced
  /\ Publish(r, req[r].turn, <<"turn.accepted">>)
  /\ req' = [req EXCEPT ![r] = [@ EXCEPT !.pc = "enqueue"]]
  /\ UNCHANGED <<answers, busVars, jobVars, issued, held, faults>>

\* The unique constraint (user_id, client_id) fails the commit: rollback, 500.
CommitConflict(r) ==
  /\ req[r].pc = "commit" /\ Ready(r)
  /\ Taken(req[r].kind.client)
  /\ req' = [req EXCEPT ![r] = IdleReq]
  /\ UNCHANGED <<rowVars, busVars, jobVars, issued, out, held, faults>>

Enqueue(r) ==
  /\ req[r].pc = "enqueue" /\ Ready(r)
  /\ queue' = queue \cup {req[r].turn}
  /\ req' = [req EXCEPT ![r] = IdleReq]
  /\ UNCHANGED <<rowVars, busVars, tries, wpc, left, got, issued, out, held, faults>>

-----------------------------------------------------------------------------
(* POST /v1/turns/{id}/cancel: SELECT ... FOR UPDATE, commit, then Redis.  *)

CancelTurn(r, t) ==
  /\ req[r].pc = "idle" /\ Ready(r)
  /\ Open(t)
  /\ state' = [state EXCEPT ![t] = "cancelled"]
  /\ req' = [req EXCEPT ![r] = [IdleReq EXCEPT !.pc = "cancelled", !.turn = t]]
  /\ UNCHANGED <<answers, kind, audio, uploads, busVars, jobVars, issued, out, held, faults>>

\* Mistake: a cancellation is not announced.
CancelFlagSilent(r) ==
  /\ req[r].pc = "cancelled"
  /\ flag' = flag \cup {req[r].turn}
  /\ req' = [req EXCEPT ![r] = IdleReq]
  /\ UNCHANGED <<rowVars, seqNo, stream, jobVars, issued, out, held, faults>>

CancelFlag(r) ==
  /\ req[r].pc = "cancelled"
  /\ flag' = flag \cup {req[r].turn}
  /\ Publish(r, req[r].turn, <<"turn.cancelled">>)
  /\ req' = [req EXCEPT ![r] = IdleReq]
  /\ UNCHANGED <<rowVars, seqNo, stream, jobVars, issued, held, faults>>

-----------------------------------------------------------------------------
(* arq: a job is started at most MaxTries times and kept until it returns. *)

JobStart(t) ==
  /\ t \in queue /\ wpc[t] = "off" /\ tries[t] < MaxTries
  /\ tries' = [tries EXCEPT ![t] = @ + 1]
  /\ wpc' = [wpc EXCEPT ![t] = "read"]
  /\ UNCHANGED <<rowVars, busVars, queue, left, got, apiVars, out, held, faults>>

JobReturn(t) ==
  /\ wpc[t] = "return" /\ Ready(t)
  /\ wpc' = [wpc EXCEPT ![t] = "off"]
  /\ queue' = queue \ {t}
  /\ UNCHANGED <<rowVars, busVars, tries, left, got, apiVars, out, held, faults>>

JobGiveUp(t) ==
  /\ t \in queue /\ wpc[t] = "off" /\ tries[t] = MaxTries
  /\ queue' = queue \ {t}
  /\ UNCHANGED <<rowVars, busVars, tries, wpc, left, got, apiVars, out, held, faults>>

-----------------------------------------------------------------------------
(* TurnOrchestrator.process, one step per await that reads or writes       *)
(* something shared.                                                       *)

Step(t, from, to) ==
  /\ wpc[t] = from /\ Ready(t)
  /\ wpc' = [wpc EXCEPT ![t] = to]
  /\ UNCHANGED <<kind, uploads, busVars, queue, tries, apiVars, held, faults>>

\* Mistake: the row is written as it was read earlier, whatever it is by now.
LockedStale(t, from, next, to, types) ==
  /\ Step(t, from, to)
  /\ state' = [state EXCEPT ![t] = next]
  /\ Publish(t, t, types)

\* A transaction that locks the row and refuses a terminal turn.
Locked(t, from, next, to, types) ==
  \/ /\ Open(t)
     /\ Step(t, from, to)
     /\ state' = [state EXCEPT ![t] = next]
     /\ Publish(t, t, types)
  \/ /\ ~Open(t)
     /\ Step(t, from, "return")
     /\ UNCHANGED <<state, out>>

ReadTurn(t) ==
  /\ Step(t, "read", IF ~Open(t) THEN "return"
                     ELSE IF kind[t].voice THEN "stt_enter" ELSE "context")
  /\ UNCHANGED <<state, answers, audio, left, got, out>>

EnterTranscribing(t) ==
  /\ Locked(t, "stt_enter", "transcribing", "stt_media", <<"turn.progress">>)
  /\ UNCHANGED <<answers, audio, left, got>>

\* Without the media row the job ends here, and leaves the turn as it is.
ReadMedia(t) ==
  /\ Step(t, "stt_media", IF t \in uploads THEN "stt" ELSE "return")
  /\ UNCHANGED <<state, answers, audio, left, got, out>>

\* _await_provider looks at the turn before it waits for the first time.  Without the
\* file (an earlier try, or the clean-up, deleted it) the provider can only raise.
StartTranscription(t) ==
  /\ \/ /\ IsActive(t)
        /\ Step(t, "stt", IF t \in audio THEN "stt_provider" ELSE "stt_fail")
        /\ UNCHANGED audio
     \/ ~IsActive(t) /\ Step(t, "stt", "return") /\ audio' = audio \ {t}
  /\ UNCHANGED <<state, answers, left, got, out>>

\* Mistake: a transcription error ends the job and not the turn.
TranscribedSwallow(t) ==
  /\ Step(t, "stt_provider", "stt_commit") \/ Step(t, "stt_provider", "return")
  /\ audio' = audio \ {t}
  /\ UNCHANGED <<state, answers, left, got, out>>

\* The answer is a text, nothing ("fail"), or an error, which is told before the
\* recording is deleted.  It may arrive up to one poll after the turn stopped
\* being active.
Transcribed(t) ==
  /\ \/ /\ \/ Step(t, "stt_provider", "stt_commit")
           \/ Step(t, "stt_provider", "fail")
           \/ ~IsActive(t) /\ Step(t, "stt_provider", "return")
        /\ audio' = audio \ {t}
     \/ Step(t, "stt_provider", "stt_fail") /\ UNCHANGED audio
  /\ UNCHANGED <<state, answers, left, got, out>>

\* Mistake: the recording is deleted on the way of success only.
DeleteVoiceNever(t) ==
  /\ Step(t, "stt_drop", "return")
  /\ UNCHANGED <<state, answers, audio, left, got, out>>

\* The finally clause, once the except clause is done.
DeleteVoice(t) ==
  /\ Step(t, "stt_drop", "return")
  /\ audio' = audio \ {t}
  /\ UNCHANGED <<state, answers, left, got, out>>

StoreTranscript(t) ==
  /\ Locked(t, "stt_commit", state[t], "context", <<"transcript.final">>)
  /\ UNCHANGED <<answers, audio, left, got>>

EnterContext(t) ==
  /\ Locked(t, "context", "context_building", "llm_enter", <<"turn.progress">>)
  /\ UNCHANGED <<answers, audio, left, got>>

EnterLlm(t) ==
  /\ Locked(t, "llm_enter", "llm_pending", "llm", <<>>)
  /\ UNCHANGED <<answers, audio, left, got>>

\* Mistake: a model error ends the job and not the turn.
LlmAnsweredSwallow(t) ==
  /\ Step(t, "llm", "check") \/ Step(t, "llm", "return")
  /\ UNCHANGED <<state, answers, audio, left, got, out>>

\* _call_llm does not poll for cancellation.
LlmAnswered(t) ==
  /\ Step(t, "llm", "check") \/ Step(t, "llm", "fail")
  /\ UNCHANGED <<state, answers, audio, left, got, out>>

CheckActive(t) ==
  /\ Step(t, "check", IF IsActive(t) THEN "reply" ELSE "return")
  /\ UNCHANGED <<state, answers, audio, left, got, out>>

\* Mistake: the reply is published whether it was stored or not.
StoreReplyAnyway(t) ==
  /\ Step(t, "reply", "speak")
  /\ state' = IF Open(t) THEN [state EXCEPT ![t] = "reply_ready"] ELSE state
  /\ answers' = IF Open(t) THEN [answers EXCEPT ![t] = @ + 1] ELSE answers
  /\ Publish(t, t, <<"reply.ready", "character.cue">>)
  /\ UNCHANGED <<audio, left, got>>

StoreReply(t) ==
  /\ Locked(t, "reply", "reply_ready", "speak", <<"reply.ready", "character.cue">>)
  /\ answers' = IF Open(t) THEN [answers EXCEPT ![t] = @ + 1] ELSE answers
  /\ UNCHANGED <<audio, left, got>>

EnterSpeaking(t) ==
  /\ \/ /\ kind[t].speak
        /\ Locked(t, "speak", "speaking", "synth", <<"turn.progress">>)
        /\ \E n \in 0..MaxSegs : left' = IF Open(t) THEN [left EXCEPT ![t] = n] ELSE left
     \/ /\ ~kind[t].speak
        /\ Step(t, "speak", "finish")
        /\ UNCHANGED <<state, left, out>>
  /\ UNCHANGED <<answers, audio, got>>

StartBatch(t) ==
  /\ Step(t, "synth", IF left[t] > 0 /\ IsActive(t) THEN "tts_provider" ELSE "finish")
  /\ UNCHANGED <<state, answers, audio, left, got, out>>

\* Mistake: a synthesis error fails the turn that has its reply.
SynthesizedFatal(t) ==
  /\ \/ /\ Step(t, "tts_provider", "segment")
        /\ got' = [got EXCEPT ![t] = IF left[t] > 1 THEN 2 ELSE 1]
     \/ Step(t, "tts_provider", "fail") /\ UNCHANGED got
  /\ UNCHANGED <<state, answers, audio, left, out>>

\* segments are synthesized two at a time
Synthesized(t) ==
  /\ \/ /\ Step(t, "tts_provider", "segment")
        /\ got' = [got EXCEPT ![t] = IF left[t] > 1 THEN 2 ELSE 1]
        /\ UNCHANGED out
     \/ Step(t, "tts_provider", "finish") /\ Publish(t, t, <<"tts.failed">>) /\ UNCHANGED got
     \/ ~IsActive(t) /\ Step(t, "tts_provider", "finish") /\ UNCHANGED <<got, out>>
  /\ UNCHANGED <<state, answers, audio, left>>

\* Mistake: the turn is looked at once per batch.
EmitSegmentUnchecked(t) ==
  /\ Step(t, "segment", IF got[t] > 1 THEN "segment" ELSE "synth")
  /\ left' = [left EXCEPT ![t] = @ - 1]
  /\ got' = [got EXCEPT ![t] = @ - 1]
  /\ Publish(t, t, <<"tts.segment">>)
  /\ UNCHANGED <<state, answers, audio>>

EmitSegment(t) ==
  /\ \/ /\ IsActive(t)
        /\ Step(t, "segment", IF got[t] > 1 THEN "segment" ELSE "synth")
        /\ left' = [left EXCEPT ![t] = @ - 1]
        /\ got' = [got EXCEPT ![t] = @ - 1]
        /\ Publish(t, t, <<"tts.segment">>)
     \/ /\ ~IsActive(t)
        /\ Step(t, "segment", "finish")
        /\ UNCHANGED <<left, got, out>>
  /\ UNCHANGED <<state, answers, audio>>

Finish(t) ==
  /\ Locked(t, "finish", "completed", "return", <<"turn.completed">>)
  /\ UNCHANGED <<answers, audio, left, got>>

\* Mistake: a failed turn gets no fallback message.
FailMute(t) ==
  /\ Locked(t, "fail", "failed", "return", <<"turn.failed">>)
  /\ UNCHANGED <<answers, audio, left, got>>

\* _terminal_failure: the fallback message is an assistant message too.
TerminalFailure(t, from, to) ==
  /\ Step(t, from, to)
  /\ \/ /\ Open(t)
        /\ state' = [state EXCEPT ![t] = "failed"]
        /\ answers' = [answers EXCEPT ![t] = @ + 1]
        /\ Publish(t, t, <<"reply.ready", "character.cue", "turn.failed">>)
     \/ ~Open(t) /\ UNCHANGED <<state, answers, out>>
  /\ UNCHANGED <<audio, left, got>>

Fail(t) == TerminalFailure(t, "fail", "return")
TranscriptionFails(t) == TerminalFailure(t, "stt_fail", "stt_drop")

-----------------------------------------------------------------------------
(* The scheduler, once voice_upload_ttl_s is over: cleanup_expired_media.  *)

\* The file goes first, then the row; a job that finds the row without the file is as
\* well off as if both went when it had found the row.  That is an error of the
\* provider (Transcribed); from then on nothing of the job depends on them.
UploadExpires(t) ==
  /\ t \in uploads /\ wpc[t] \in {"off", "read", "stt_enter", "stt_media"}
  /\ uploads' = uploads \ {t} /\ audio' = audio \ {t}
  /\ UNCHANGED <<state, answers, kind, busVars, jobVars, apiVars, out, held, faults>>

-----------------------------------------------------------------------------
(* Faults: a process dies between two of its steps.                        *)

Fault == faults < MaxFaults /\ faults' = faults + 1
Drop(p) == out' = [out EXCEPT ![p] = <<>>] /\ held' = [held EXCEPT ![p] = 0]

ApiCrash(r) ==
  /\ Fault
  /\ req[r].pc # "idle" \/ ~Ready(r)
  /\ req' = [req EXCEPT ![r] = IdleReq]
  /\ Drop(r)
  /\ UNCHANGED <<rowVars, busVars, jobVars, issued>>

\* The finally clause of _transcribe deletes the recording of a job that ends there.
Transcribing == {"stt", "stt_provider", "stt_fail", "stt_drop"}
Cleaned(t) == IF wpc[t] \in Transcribing THEN audio \ {t} ELSE audio

\* Worker shutdown or kill: arq keeps the job and starts it again; a kill leaves no
\* time for the finally clause.  A job that raises (lost database, 90 s timeout) is
\* not retried.
WorkerFault(t) ==
  /\ Fault
  /\ wpc[t] # "off"
  /\ wpc' = [wpc EXCEPT ![t] = "off"]
  /\ \/ queue' = queue /\ audio' \in {audio, Cleaned(t)}
     \/ queue' = queue \ {t} /\ audio' = Cleaned(t)
  /\ left' = [left EXCEPT ![t] = 0]
  /\ got' = [got EXCEPT ![t] = 0]
  /\ Drop(t)
  /\ UNCHANGED <<state, answers, kind, uploads, busVars, tries, apiVars>>

-----------------------------------------------------------------------------
Create(r) == \E c \in Clients, v \in VoiceInputs, s \in SpeakInputs, x \in SupersedeInputs :
               Lookup(r, c, v, s, x)

Handler(r) ==   \* what a handler does once a request has come in
  Select(r) \/ SupersedeFlag(r) \/ Commit(r) \/ CommitConflict(r) \/ Enqueue(r) \/ CancelFlag(r)

Process(t) ==
  \/ ReadTurn(t) \/ EnterTranscribing(t) \/ ReadMedia(t) \/ StartTranscription(t)
  \/ Transcribed(t) \/ TranscriptionFails(t) \/ DeleteVoice(t)
  \/ StoreTranscript(t) \/ EnterContext(t) \/ EnterLlm(t) \/ LlmAnswered(t) \/ CheckActive(t)
  \/ StoreReply(t) \/ EnterSpeaking(t) \/ StartBatch(t) \/ Synthesized(t) \/ EmitSegment(t)
  \/ Finish(t) \/ Fail(t)

Job(t) == JobStart(t) \/ JobReturn(t) \/ JobGiveUp(t) \/ Process(t)

Next ==
  \/ \E r \in Reqs : Create(r) \/ Handler(r) \/ ApiCrash(r)
  \/ \E r \in Reqs, t \in Turns : CancelTurn(r, t)
  \/ \E t \in Turns : Job(t) \/ UploadExpires(t) \/ WorkerFault(t)
  \/ \E p \in Procs : Incr(p) \/ Xadd(p)

\* A running handler, a job and a Redis command are never stalled for ever:
\* each runs on an event loop that awaits calls with timeouts.
Fairness ==
  /\ \A r \in Reqs : WF_vars(Handler(r))
  /\ \A t \in Turns : WF_vars(Job(t))
  /\ \A p \in Procs : WF_vars(Incr(p)) /\ WF_vars(Xadd(p))

Spec == Init /\ [][Next]_vars
FairSpec == Spec /\ Fairness

-----------------------------------------------------------------------------
(* Properties                                                              *)

Events(t, types) == {i \in DOMAIN stream[t] : stream[t][i].type \in types}
Busy(r, t) ==    \* a handler that has still something to do for t
  \/ req[r].pc # "idle" /\ t \in {req[r].turn, req[r].active}
  \/ \E i \in DOMAIN out[r] : out[r][i].turn = t

\* The type invariant, by the owner of the state.
RowType ==
  /\ state \in [Turns -> States]
  /\ answers \in [Turns -> Nat]
  /\ kind \in [Turns -> Kinds]
  /\ audio \subseteq Turns /\ uploads \subseteq Turns
BusType ==
  /\ seqNo \in [Turns -> Nat]
  /\ stream \in [Turns -> Seq(StreamEntry)]
  /\ flag \subseteq Turns
JobType ==
  /\ queue \subseteq Turns
  /\ tries \in [Turns -> 0..MaxTries]
  /\ wpc \in [Turns -> WorkerPcs]
  /\ left \in [Turns -> 0..MaxSegs]
  /\ got \in [Turns -> 0..2]
ReqTypes == [pc : ReqPcs, turn : Turns \cup {NoTurn}, active : Turns \cup {NoTurn},
             supersede : BOOLEAN, kind : Kinds]
ApiType ==
  /\ req \in [Reqs -> ReqTypes]
  /\ issued \in 0..MaxTurns
  /\ \A r \in Reqs : /\ req[r].pc # "idle" => req[r].turn # NoTurn
                     /\ req[r].pc = "flag" => req[r].active # NoTurn
OutType ==
  /\ out \in [Procs -> Seq(PendingEvent)]
  /\ held \in [Procs -> Nat]
  /\ faults \in 0..MaxFaults
TypeOK == RowType /\ BusType /\ JobType /\ ApiType /\ OutType

\* A closed turn is never opened again: a worker that was slow, was restarted
\* or lost a race with a cancellation does not move a terminal row.
TerminalStays == [][\A t \in Turns : state[t] \in Terminal => state'[t] \in Terminal]_vars

\* The rows implement the promise of module TurnPromise: no assistant message
\* is stored for a closed turn, completed and failed turns have one.
Outcome(s) == IF s = "none" THEN "absent" ELSE IF s \in Working THEN "open" ELSE s
outcome == [t \in Turns |-> Outcome(state[t])]
replied == [t \in Turns |-> answers[t] > 0]
Promise == INSTANCE TurnPromise WITH Turns <- Turns, outcome <- outcome, replied <- replied
ImplementsPromise == Promise!Spec

\* Events are published after the commit they announce: a reader of the stream
\* that has seen reply.ready finds the message, and one that has seen
\* turn.completed or turn.failed finds a terminal row.
EventsFollowCommit == \A t \in Turns :
  /\ Events(t, {"reply.ready"}) # {} => answers[t] > 0
  /\ Events(t, {"turn.completed", "turn.failed"}) # {} => state[t] \in Terminal

\* No two events of a stream carry the same sequence number, whoever published
\* them: the app drops an event whose number it has seen.
SeqsUnique == \A t \in Turns : \A i, j \in DOMAIN stream[t] :
  stream[t][i].seq = stream[t][j].seq => i = j

\* Each attempt at a job publishes at most one reply, whether the reply is
\* Hana's or the fallback of a failure.
ReplyPerTry == \A t \in Turns : Cardinality(Events(t, {"reply.ready"})) <= tries[t]

\* Cancelling stops the synthesis: after turn.cancelled at most the segment
\* whose check had already passed is published.
OneLateSegment == \A t \in Turns : \A i \in Events(t, {"turn.cancelled"}) :
  Cardinality({j \in Events(t, {"tts.segment"}) : j > i}) <= 1

\* The uploaded voice of a turn is gone once its transcript or its reply is stored.
\* Once its failure is stored it is about to be deleted, unless the job was cut off in
\* between; then only the clean-up removes it.
VoiceIsTransient == \A t \in audio :
  /\ state[t] \notin {"context_building", "llm_pending", "reply_ready", "speaking", "completed"}
  /\ state[t] = "failed" =>
       wpc[t] = "stt_drop" \/ (faults > 0 /\ wpc[t] \in {"off", "read", "return"})

\* At most one turn of the user is not terminal.
OneOpenTurn == \A t, u \in Turns : Open(t) /\ Open(u) => t = u

\* A voice turn whose media row was cleaned up before its job looked for it: the job
\* has returned, or is going to, and nobody will close the turn.
Stranded(t) == state[t] = "transcribing" /\ t \notin uploads

\* No other open turn is forgotten: its job is in arq, or a handler is about to
\* enqueue it or to commit its cancellation.
OpenTurnOwned == \A t \in Turns : Open(t) =>
  \/ t \in queue
  \/ \E r \in Reqs : \/ req[r].pc = "enqueue" /\ req[r].turn = t
                     \/ req[r].pc = "commit" /\ req[r].active = t
  \/ Stranded(t)

Forgotten(t) == Stranded(t) /\ t \notin queue

\* Every accepted turn closes, if its recording does not expire before its job runs.
TurnsClose == \A t \in Turns : state[t] = "queued" ~> (state[t] \in Terminal \/ Forgotten(t))

\* Likewise its stream gets a terminal event, the one the app waits for.
StreamsClose == \A t \in Turns :
  state[t] = "queued" ~> (Events(t, TerminalTypes) # {} \/ Forgotten(t))

=============================================================================
