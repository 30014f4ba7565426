------------------------- MODULE TurnServiceProofs -------------------------
(***************************************************************************)
(* Proofs about TurnService for every number of turns, handlers, clients,  *)
(* segments, tries and faults.                                             *)
(***************************************************************************)
EXTENDS TurnService, SequenceTheorems, TLAPS

-----------------------------------------------------------------------------
(* Next, one disjunct per action, so that each proof has one case each.    *)

LEMMA NextCases ==
  ASSUME Next
  PROVE  \/ \E r \in Reqs : \/ Create(r) \/ Select(r) \/ SupersedeFlag(r) \/ Commit(r)
                            \/ CommitConflict(r) \/ Enqueue(r) \/ CancelFlag(r) \/ ApiCrash(r)
         \/ \E r \in Reqs, t \in Turns : CancelTurn(r, t)
         \/ \E t \in Turns : JobStart(t) \/ JobReturn(t) \/ JobGiveUp(t)
                            \/ UploadExpires(t) \/ WorkerFault(t)
         \/ \E t \in Turns : Process(t)
         \/ \E p \in Procs : Incr(p) \/ Xadd(p)
  BY DEF Next, Handler, Job

-----------------------------------------------------------------------------
(* Types.                                                                  *)

LEMMA IdleReqType == IdleReq \in ReqTypes /\ IdleReq.pc = "idle"
  BY DEF IdleReq, ReqPcs, Kinds, ReqTypes

\* A group of variables that a step leaves alone keeps its type.
LEMMA UnchangedTypes ==
  ASSUME TypeOK
  PROVE  /\ UNCHANGED rowVars => RowType'
         /\ UNCHANGED busVars => BusType'
         /\ UNCHANGED jobVars => JobType'
         /\ UNCHANGED apiVars => ApiType'
         /\ UNCHANGED <<out, held, faults>> => OutType'
  BY DEF TypeOK, RowType, BusType, JobType, ApiType, OutType, rowVars, busVars, jobVars, apiVars

\* What a step of a job leaves alone, and where it may go.
LEMMA StepType ==
  ASSUME TypeOK, NEW t \in Turns, NEW from, NEW to \in WorkerPcs, Step(t, from, to)
  PROVE  /\ wpc' \in [Turns -> WorkerPcs]
         /\ UNCHANGED <<kind, uploads, seqNo, stream, flag, queue, tries, req, issued, held, faults>>
  BY DEF TypeOK, RowType, BusType, JobType, ApiType, OutType, Step, busVars, apiVars

LEMMA PublishType ==
  ASSUME TypeOK, NEW p \in Procs, NEW t \in Turns, NEW types \in Seq(EventTypes),
         Publish(p, t, types)
  PROVE  out' \in [Procs -> Seq(PendingEvent)]
  <1> DEFINE s == [i \in DOMAIN types |-> [turn |-> t, type |-> types[i]]]
  <1>1. s \in Seq(PendingEvent)
    <2>1. \A i \in DOMAIN types : types[i] \in EventTypes
      OBVIOUS
    <2>2. PICK n \in Nat : DOMAIN types = 1..n
      OBVIOUS
    <2>3. s \in [1..n -> PendingEvent]
      BY <2>1, <2>2 DEF PendingEvent
    <2> QED BY <2>3
  <1> QED BY <1>1 DEF TypeOK, RowType, BusType, JobType, ApiType, OutType, Publish

LEMMA LockedType ==
  ASSUME TypeOK, NEW t \in Turns, NEW from, NEW next \in States, NEW to \in WorkerPcs,
         NEW types \in Seq(EventTypes), Locked(t, from, next, to, types)
  PROVE  /\ wpc' \in [Turns -> WorkerPcs]
         /\ state' \in [Turns -> States]
         /\ out' \in [Procs -> Seq(PendingEvent)]
         /\ UNCHANGED <<kind, uploads, seqNo, stream, flag, queue, tries, req, issued, held, faults>>
  <1>1. t \in Procs BY DEF Procs
  <1>2. CASE Open(t)
    <2>1. Step(t, from, to) /\ state' = [state EXCEPT ![t] = next] /\ Publish(t, t, types)
      BY <1>2 DEF Locked
    <2> QED BY <1>1, <2>1, StepType, PublishType DEF TypeOK, RowType, BusType, JobType, ApiType, OutType
  <1>3. CASE ~Open(t)
    <2>1. Step(t, from, "return") /\ UNCHANGED <<state, out>>
      BY <1>3 DEF Locked
    <2>2. "return" \in WorkerPcs BY DEF WorkerPcs
    <2> QED BY <2>1, <2>2, StepType DEF TypeOK, RowType, BusType, JobType, ApiType, OutType
  <1> QED BY <1>2, <1>3

LEMMA FailureType ==
  ASSUME TypeOK, NEW t \in Turns, NEW from, NEW to \in WorkerPcs, TerminalFailure(t, from, to)
  PROVE  TypeOK'
  <1> DEFINE types == <<"reply.ready", "character.cue", "turn.failed">>
  <1>1. types \in Seq(EventTypes) /\ "failed" \in States /\ t \in Procs
    BY DEF EventTypes, States, Terminal, Procs
  <1>2. out' \in [Procs -> Seq(PendingEvent)]
    <2>1. CASE Publish(t, t, types)
      <3> HIDE DEF types
      <3> QED BY <1>1, <2>1, PublishType
    <2>2. CASE UNCHANGED out
      BY <2>2 DEF TypeOK, OutType
    <2> QED BY <2>1, <2>2 DEF TerminalFailure
  <1>3. state' \in [Turns -> States] /\ answers' \in [Turns -> Nat]
    BY <1>1 DEF TerminalFailure, TypeOK, RowType
  <1> QED BY <1>2, <1>3, StepType DEF TerminalFailure, TypeOK, RowType, BusType, JobType, ApiType, OutType

\* TypeOK alone is not inductive: left and got are decremented.
SegmentsInv == \A t \in Turns :
  /\ wpc[t] = "tts_provider" => left[t] > 0
  /\ wpc[t] = "segment" => got[t] > 0 /\ got[t] <= left[t]

\* Every step of TurnOrchestrator.process keeps the types.
LEMMA ProcessType ==
  ASSUME TypeOK, SegmentsInv, ConstantsAssumption, NEW t \in Turns, Process(t)
  PROVE  TypeOK'
<1> USE DEF WorkerPcs, EventTypes, States
<1>0. t \in Procs
  BY DEF Procs
<1>1. CASE ReadTurn(t)
  BY <1>1, StepType DEF ReadTurn, TypeOK, RowType, BusType, JobType, ApiType, OutType
<1>2. CASE EnterTranscribing(t)
  <2>1. Locked(t, "stt_enter", "transcribing", "stt_media", <<"turn.progress">>)
    BY <1>2 DEF EnterTranscribing
  <2> HIDE DEF EventTypes, States
  <2>2. <<"turn.progress">> \in Seq(EventTypes) /\ "transcribing" \in States
    BY DEF EventTypes, States, Working
  <2> QED BY <1>2, <2>1, <2>2, LockedType DEF EnterTranscribing, TypeOK, RowType, BusType, JobType, ApiType, OutType
<1>3. CASE StartTranscription(t)
  <2>1. PICK to \in WorkerPcs : Step(t, "stt", to)
    BY <1>3 DEF StartTranscription
  <2> QED BY <1>3, <2>1, StepType DEF StartTranscription, TypeOK, RowType, BusType, JobType, ApiType, OutType
<1>4. CASE Transcribed(t)
  <2>1. PICK to \in WorkerPcs : Step(t, "stt_provider", to)
    BY <1>4 DEF Transcribed
  <2> QED BY <1>4, <2>1, StepType DEF Transcribed, TypeOK, RowType, BusType, JobType, ApiType, OutType
<1>5. CASE StoreTranscript(t)
  <2>1. Locked(t, "stt_commit", state[t], "context", <<"transcript.final">>)
    BY <1>5 DEF StoreTranscript
  <2> HIDE DEF EventTypes, States
  <2>2. <<"transcript.final">> \in Seq(EventTypes) /\ state[t] \in States
    BY DEF EventTypes, TypeOK, RowType, BusType, JobType, ApiType, OutType
  <2> QED BY <1>5, <2>1, <2>2, LockedType DEF StoreTranscript, TypeOK, RowType, BusType, JobType, ApiType, OutType
<1>6. CASE EnterContext(t)
  <2>1. Locked(t, "context", "context_building", "llm_enter", <<"turn.progress">>)
    BY <1>6 DEF EnterContext
  <2> HIDE DEF EventTypes, States
  <2>2. <<"turn.progress">> \in Seq(EventTypes) /\ "context_building" \in States
    BY DEF EventTypes, States, Working
  <2> QED BY <1>6, <2>1, <2>2, LockedType DEF EnterContext, TypeOK, RowType, BusType, JobType, ApiType, OutType
<1>7. CASE EnterLlm(t)
  <2>1. Locked(t, "llm_enter", "llm_pending", "llm", <<>>)
    BY <1>7 DEF EnterLlm
  <2> HIDE DEF EventTypes, States
  <2>2. <<>> \in Seq(EventTypes) /\ "llm_pending" \in States
    BY DEF States, Working
  <2> QED BY <1>7, <2>1, <2>2, LockedType DEF EnterLlm, TypeOK, RowType, BusType, JobType, ApiType, OutType
<1>8. CASE LlmAnswered(t)
  <2>1. PICK to \in WorkerPcs : Step(t, "llm", to)
    BY <1>8 DEF LlmAnswered
  <2> QED BY <1>8, <2>1, StepType DEF LlmAnswered, TypeOK, RowType, BusType, JobType, ApiType, OutType
<1>9. CASE CheckActive(t)
  BY <1>9, StepType DEF CheckActive, TypeOK, RowType, BusType, JobType, ApiType, OutType
<1>10. CASE StoreReply(t)
  <2>1. Locked(t, "reply", "reply_ready", "speak", <<"reply.ready", "character.cue">>)
    BY <1>10 DEF StoreReply
  <2> HIDE DEF EventTypes, States
  <2>2. <<"reply.ready", "character.cue">> \in Seq(EventTypes) /\ "reply_ready" \in States
    BY DEF EventTypes, States, Working
  <2>3. answers' \in [Turns -> Nat]
    BY <1>10 DEF StoreReply, TypeOK, RowType, BusType, JobType, ApiType, OutType
  <2> QED BY <1>10, <2>1, <2>2, <2>3, LockedType DEF StoreReply, TypeOK, RowType, BusType, JobType, ApiType, OutType
<1>11. CASE EnterSpeaking(t)
  <2>1. left' \in [Turns -> 0..MaxSegs]
    BY <1>11 DEF EnterSpeaking, TypeOK, RowType, BusType, JobType, ApiType, OutType
  <2>2. CASE kind[t].speak
    <3>1. Locked(t, "speak", "speaking", "synth", <<"turn.progress">>)
      BY <1>11, <2>2 DEF EnterSpeaking
    <3> HIDE DEF EventTypes, States
    <3>2. <<"turn.progress">> \in Seq(EventTypes) /\ "speaking" \in States
      BY DEF EventTypes, States, Working
    <3> QED BY <1>11, <2>1, <3>1, <3>2, LockedType DEF EnterSpeaking, TypeOK, RowType, BusType, JobType, ApiType, OutType
  <2>3. CASE ~kind[t].speak
    <3>1. Step(t, "speak", "finish") /\ UNCHANGED <<state, left, out>>
      BY <1>11, <2>3 DEF EnterSpeaking
    <3> QED BY <1>11, <3>1, StepType DEF EnterSpeaking, TypeOK, RowType, BusType, JobType, ApiType, OutType
  <2> QED BY <2>2, <2>3
<1>12. CASE StartBatch(t)
  BY <1>12, StepType DEF StartBatch, TypeOK, RowType, BusType, JobType, ApiType, OutType
<1>13. CASE Synthesized(t)
  <2>1. PICK to \in WorkerPcs : Step(t, "tts_provider", to)
    BY <1>13 DEF Synthesized
  <2>2. <<"tts.failed">> \in Seq(EventTypes)
    OBVIOUS
  <2>3. UNCHANGED out \/ Publish(t, t, <<"tts.failed">>)
    BY <1>13 DEF Synthesized
  <2>4. out' \in [Procs -> Seq(PendingEvent)]
    BY <1>0, <2>2, <2>3, PublishType DEF TypeOK, RowType, BusType, JobType, ApiType, OutType
  <2>5. got' \in [Turns -> 0..2]
    BY <1>13 DEF Synthesized, TypeOK, RowType, BusType, JobType, ApiType, OutType
  <2> QED BY <1>13, <2>1, <2>4, <2>5, StepType DEF Synthesized, TypeOK, RowType, BusType, JobType, ApiType, OutType
<1>14. CASE EmitSegment(t)
  <2>1. CASE IsActive(t)
    <3>1. /\ Step(t, "segment", IF got[t] > 1 THEN "segment" ELSE "synth")
          /\ left' = [left EXCEPT ![t] = @ - 1]
          /\ got' = [got EXCEPT ![t] = @ - 1]
          /\ Publish(t, t, <<"tts.segment">>)
      BY <1>14, <2>1 DEF EmitSegment
    <3>2. wpc[t] = "segment"
      BY <3>1 DEF Step
    <3>3. left' \in [Turns -> 0..MaxSegs] /\ got' \in [Turns -> 0..2]
      BY <3>1, <3>2 DEF SegmentsInv, TypeOK, RowType, BusType, JobType, ApiType, OutType, ConstantsAssumption
    <3>4. out' \in [Procs -> Seq(PendingEvent)]
      <4>1. <<"tts.segment">> \in Seq(EventTypes)
        OBVIOUS
      <4> QED BY <1>0, <3>1, <4>1, PublishType
    <3> QED BY <1>14, <3>1, <3>3, <3>4, StepType DEF EmitSegment, TypeOK, RowType, BusType, JobType, ApiType, OutType
  <2>2. CASE ~IsActive(t)
    BY <1>14, <2>2, StepType DEF EmitSegment, TypeOK, RowType, BusType, JobType, ApiType, OutType
  <2> QED BY <2>1, <2>2
<1>15. CASE Finish(t)
  <2>1. Locked(t, "finish", "completed", "return", <<"turn.completed">>)
    BY <1>15 DEF Finish
  <2> HIDE DEF EventTypes, States
  <2>2. <<"turn.completed">> \in Seq(EventTypes) /\ "completed" \in States
    BY DEF EventTypes, States, Terminal
  <2> QED BY <1>15, <2>1, <2>2, LockedType DEF Finish, TypeOK, RowType, BusType, JobType, ApiType, OutType
<1>16. CASE Fail(t) \/ TranscriptionFails(t)
  BY <1>16, FailureType DEF Fail, TranscriptionFails
<1>17. CASE ReadMedia(t)
  BY <1>17, StepType DEF ReadMedia, TypeOK, RowType, BusType, JobType, ApiType, OutType
<1>18. CASE DeleteVoice(t)
  BY <1>18, StepType DEF DeleteVoice, TypeOK, RowType, BusType, JobType, ApiType, OutType
<1> QED
  BY <1>1, <1>2, <1>3, <1>4, <1>5, <1>6, <1>7, <1>8, <1>9, <1>10, <1>11, <1>12, <1>13,
     <1>14, <1>15, <1>16, <1>17, <1>18 DEF Process

\* Where the job of t stands is changed by t's own steps only.
LEMMA ProcessSegments ==
  ASSUME TypeOK, SegmentsInv, ConstantsAssumption, NEW t \in Turns, Process(t)
  PROVE  SegmentsInv'
<1> SUFFICES ASSUME NEW u \in Turns
             PROVE  /\ wpc'[u] = "tts_provider" => left'[u] > 0
                    /\ wpc'[u] = "segment" => got'[u] > 0 /\ got'[u] <= left'[u]
  BY DEF SegmentsInv
<1> USE DEF TypeOK, RowType, BusType, JobType, ApiType, OutType, SegmentsInv, Step, WorkerPcs
<1>1. CASE StartBatch(t)
  BY <1>1 DEF StartBatch
<1>2. CASE Synthesized(t)
  BY <1>2 DEF Synthesized
<1>3. CASE EmitSegment(t)
  <2>1. wpc[t] = "segment" /\ got[t] \in 0..2 /\ left[t] \in Nat
    BY <1>3 DEF EmitSegment, ConstantsAssumption
  <2>2. CASE IsActive(t)
    <3>1. /\ wpc' = [wpc EXCEPT ![t] = IF got[t] > 1 THEN "segment" ELSE "synth"]
          /\ left' = [left EXCEPT ![t] = @ - 1]
          /\ got' = [got EXCEPT ![t] = @ - 1]
      BY <1>3, <2>2 DEF EmitSegment
    <3> QED BY <2>1, <3>1
  <2>3. CASE ~IsActive(t)
    BY <1>3, <2>3 DEF EmitSegment
  <2> QED BY <2>2, <2>3
<1>4. CASE EnterSpeaking(t)
  BY <1>4 DEF EnterSpeaking, Locked
<1>5. CASE ReadTurn(t) \/ EnterTranscribing(t) \/ ReadMedia(t) \/ StartTranscription(t) \/ Transcribed(t) \/ DeleteVoice(t)
  BY <1>5 DEF ReadTurn, EnterTranscribing, ReadMedia, StartTranscription, Transcribed, DeleteVoice, Locked
<1>6. CASE StoreTranscript(t) \/ EnterContext(t) \/ EnterLlm(t) \/ LlmAnswered(t)
  BY <1>6 DEF StoreTranscript, EnterContext, EnterLlm, LlmAnswered, Locked
<1>7. CASE CheckActive(t) \/ StoreReply(t) \/ Finish(t) \/ Fail(t) \/ TranscriptionFails(t)
  BY <1>7 DEF CheckActive, StoreReply, Finish, Fail, TranscriptionFails, TerminalFailure, Locked
<1> QED
  BY <1>1, <1>2, <1>3, <1>4, <1>5, <1>6, <1>7 DEF Process

LEMMA TypeInit == ASSUME ConstantsAssumption PROVE Init => TypeOK /\ SegmentsInv
<1> SUFFICES ASSUME Init PROVE TypeOK /\ SegmentsInv
  OBVIOUS
<1>1. RowType
  BY IdleReqType DEF Init, RowType, States, ReqTypes
<1>2. BusType /\ OutType
  BY DEF Init, BusType, OutType, ConstantsAssumption
<1>3. JobType /\ SegmentsInv
  BY DEF Init, JobType, SegmentsInv, WorkerPcs, ConstantsAssumption
<1>4. ApiType
  BY IdleReqType DEF Init, ApiType, ConstantsAssumption
<1> QED BY <1>1, <1>2, <1>3, <1>4 DEF TypeOK

\* A step of a handler keeps the types.
LEMMA HandlerType ==
  ASSUME TypeOK, ConstantsAssumption, NEW r \in Reqs
  PROVE  /\ Create(r) => TypeOK'
         /\ Select(r) => TypeOK'
         /\ SupersedeFlag(r) => TypeOK'
         /\ Commit(r) => TypeOK'
         /\ CommitConflict(r) => TypeOK'
         /\ Enqueue(r) => TypeOK'
         /\ CancelFlag(r) => TypeOK'
         /\ ApiCrash(r) => TypeOK'
         /\ \A t \in Turns : CancelTurn(r, t) => TypeOK'
<1>0. /\ r \in Procs
      /\ req[r] \in ReqTypes
      /\ req[r].pc # "idle" => req[r].turn \in Turns
      /\ req[r].pc = "flag" => req[r].active \in Turns
  BY DEF Procs, TypeOK, ApiType, ReqTypes
<1>1. ASSUME Create(r) PROVE TypeOK'
  <2>1. PICK c \in Clients, v \in BOOLEAN, s \in BOOLEAN, x \in BOOLEAN : Lookup(r, c, v, s, x)
    BY <1>1 DEF Create, ConstantsAssumption
  <2>2. issued + 1 \in Turns /\ issued + 1 # NoTurn /\ issued' \in 0..MaxTurns
    BY <2>1 DEF Lookup, TypeOK, ApiType, Turns, NoTurn, ConstantsAssumption
  <2>3. ApiType'
    BY <2>1, <2>2 DEF Lookup, TypeOK, ApiType, ReqTypes, ReqPcs, Kinds
  <2> QED BY <2>1, <2>3, UnchangedTypes DEF Lookup, TypeOK
<1>2. ASSUME Select(r) PROVE TypeOK'
  <2>1. PICK a \in Turns \cup {NoTurn} :
          \/ req' = [req EXCEPT ![r] = IdleReq]
          \/ req' = [req EXCEPT ![r] =
               [@ EXCEPT !.active = a, !.pc = IF a = NoTurn THEN "commit" ELSE "flag"]]
    BY <1>2 DEF Select
  <2>2. CASE req' = [req EXCEPT ![r] = IdleReq]
    BY <1>2, <2>2, IdleReqType, UnchangedTypes DEF Select, TypeOK, ApiType
  <2>3. CASE req' = [req EXCEPT ![r] =
               [@ EXCEPT !.active = a, !.pc = IF a = NoTurn THEN "commit" ELSE "flag"]]
    <3>1. req[r].pc = "select" /\ UNCHANGED issued
      BY <1>2 DEF Select
    <3>2. ApiType'
      BY <1>0, <2>3, <3>1 DEF TypeOK, ApiType, ReqTypes, ReqPcs
    <3> QED BY <1>2, <3>2, UnchangedTypes DEF Select, TypeOK
  <2> QED BY <2>1, <2>2, <2>3
<1>3. ASSUME SupersedeFlag(r) PROVE TypeOK'
  <2>1. <<"turn.cancelled">> \in Seq(EventTypes) /\ req[r].active \in Turns
    BY <1>0, <1>3 DEF EventTypes, SupersedeFlag
  <2>2. OutType'
    BY <1>0, <1>3, <2>1, PublishType DEF SupersedeFlag, TypeOK, OutType
  <2>3. ApiType'
    BY <1>0, <1>3 DEF SupersedeFlag, TypeOK, ApiType, ReqTypes, ReqPcs
  <2>4. BusType'
    BY <1>3, <2>1 DEF SupersedeFlag, TypeOK, BusType
  <2> QED BY <1>3, <2>2, <2>3, <2>4, UnchangedTypes DEF SupersedeFlag, TypeOK
<1>4. ASSUME Commit(r) PROVE TypeOK'
  <2>1. <<"turn.accepted">> \in Seq(EventTypes) /\ req[r].turn \in Turns
    BY <1>0, <1>4 DEF EventTypes, Commit
  <2>2. OutType'
    BY <1>0, <1>4, <2>1, PublishType DEF Commit, TypeOK, OutType
  <2>3. ApiType'
    BY <1>0, <1>4 DEF Commit, TypeOK, ApiType, ReqTypes, ReqPcs
  <2>4. state' \in [Turns -> States]
    BY <1>4 DEF Commit, TypeOK, RowType, States, Working, Terminal
  <2>5. RowType'
    BY <1>0, <1>4, <2>1, <2>4 DEF Commit, TypeOK, RowType, ReqTypes
  <2> QED BY <1>4, <2>2, <2>3, <2>5, UnchangedTypes DEF Commit, TypeOK
<1>5. ASSUME CommitConflict(r) PROVE TypeOK'
  BY <1>5, IdleReqType, UnchangedTypes DEF CommitConflict, TypeOK, ApiType
<1>6. ASSUME Enqueue(r) PROVE TypeOK'
  <2>1. JobType' /\ ApiType'
    BY <1>0, <1>6, IdleReqType DEF Enqueue, TypeOK, JobType, ApiType
  <2> QED BY <1>6, <2>1, UnchangedTypes DEF Enqueue, TypeOK
<1>7. ASSUME CancelFlag(r) PROVE TypeOK'
  <2>1. <<"turn.cancelled">> \in Seq(EventTypes) /\ req[r].turn \in Turns
    BY <1>0, <1>7 DEF EventTypes, CancelFlag
  <2>2. OutType'
    BY <1>0, <1>7, <2>1, PublishType DEF CancelFlag, TypeOK, OutType
  <2>3. ApiType' /\ BusType'
    BY <1>7, <2>1, IdleReqType DEF CancelFlag, TypeOK, ApiType, BusType
  <2> QED BY <1>7, <2>2, <2>3, UnchangedTypes DEF CancelFlag, TypeOK
<1>8. ASSUME ApiCrash(r) PROVE TypeOK'
  <2>1. ApiType'
    BY <1>8, IdleReqType DEF ApiCrash, TypeOK, ApiType
  <2>2. OutType'
    BY <1>0, <1>8 DEF ApiCrash, Fault, Drop, TypeOK, OutType, ConstantsAssumption
  <2> QED BY <1>8, <2>1, <2>2, UnchangedTypes DEF ApiCrash, TypeOK
<1>9. ASSUME NEW t \in Turns, CancelTurn(r, t) PROVE TypeOK'
  <2>1. RowType'
    BY <1>9 DEF CancelTurn, TypeOK, RowType, States, Terminal
  <2>2. [IdleReq EXCEPT !.pc = "cancelled", !.turn = t] \in ReqTypes
    BY IdleReqType DEF ReqTypes, ReqPcs
  <2>3. ApiType'
    BY <1>9, <2>2, IdleReqType DEF CancelTurn, TypeOK, ApiType, NoTurn, Turns, ReqTypes
  <2> QED BY <1>9, <2>1, <2>3, UnchangedTypes DEF CancelTurn, TypeOK
<1> QED BY <1>1, <1>2, <1>3, <1>4, <1>5, <1>6, <1>7, <1>8, <1>9

\* So does a step of arq, of Redis, and the loss of a worker.
LEMMA EnvironmentType ==
  ASSUME TypeOK, ConstantsAssumption
  PROVE  /\ \A t \in Turns : JobStart(t) \/ JobReturn(t) \/ JobGiveUp(t) => TypeOK'
         /\ \A t \in Turns : WorkerFault(t) \/ UploadExpires(t) => TypeOK'
         /\ \A p \in Procs : Incr(p) \/ Xadd(p) => TypeOK'
<1>1. ASSUME NEW t \in Turns, JobStart(t) \/ JobReturn(t) \/ JobGiveUp(t) PROVE TypeOK'
  <2>1. JobType'
    BY <1>1 DEF JobStart, JobReturn, JobGiveUp, TypeOK, JobType, WorkerPcs, ConstantsAssumption
  <2> QED BY <1>1, <2>1, UnchangedTypes DEF JobStart, JobReturn, JobGiveUp, TypeOK
<1>2. ASSUME NEW t \in Turns, WorkerFault(t) PROVE TypeOK'
  <2>1. JobType'
    BY <1>2 DEF WorkerFault, TypeOK, JobType, WorkerPcs, ConstantsAssumption
  <2>2. RowType'
    BY <1>2 DEF WorkerFault, Cleaned, TypeOK, RowType
  <2>3. OutType'
    BY <1>2 DEF WorkerFault, Fault, Drop, Procs, TypeOK, OutType, ConstantsAssumption
  <2> QED BY <1>2, <2>1, <2>2, <2>3, UnchangedTypes DEF WorkerFault, TypeOK
<1>3. ASSUME NEW p \in Procs, Incr(p) PROVE TypeOK'
  <2>1. Head(out[p]).turn \in Turns
    <3>1. out[p] \in Seq(PendingEvent) /\ out[p] # <<>>
      BY <1>3 DEF Incr, TypeOK, OutType
    <3>2. Head(out[p]) \in PendingEvent
      BY <3>1, HeadTailProperties
    <3> QED BY <3>2 DEF PendingEvent
  <2>2. BusType' /\ OutType'
    BY <1>3, <2>1 DEF Incr, TypeOK, BusType, OutType
  <2> QED BY <1>3, <2>2, UnchangedTypes DEF Incr, TypeOK
<1>4. ASSUME NEW p \in Procs, Xadd(p) PROVE TypeOK'
  <2>1. Head(out[p]) \in PendingEvent /\ Tail(out[p]) \in Seq(PendingEvent)
    BY <1>4, HeadTailProperties DEF Xadd, TypeOK, OutType
  <2>2. [type |-> Head(out[p]).type, seq |-> held[p]] \in StreamEntry
    BY <2>1 DEF TypeOK, OutType, PendingEvent, StreamEntry
  <2>3. BusType'
    BY <1>4, <2>1, <2>2 DEF Xadd, TypeOK, BusType, PendingEvent
  <2>4. OutType'
    BY <1>4, <2>1 DEF Xadd, TypeOK, OutType
  <2> QED BY <1>4, <2>3, <2>4, UnchangedTypes DEF Xadd, TypeOK
<1>5. ASSUME NEW t \in Turns, UploadExpires(t) PROVE TypeOK'
  <2>1. RowType'
    BY <1>5 DEF UploadExpires, TypeOK, RowType
  <2> QED BY <1>5, <2>1, UnchangedTypes DEF UploadExpires, TypeOK
<1> QED BY <1>1, <1>2, <1>3, <1>4, <1>5

\* Only the job itself moves its program counter and its segments.
LEMMA OtherSegments ==
  ASSUME TypeOK, SegmentsInv, ConstantsAssumption
  PROVE  /\ UNCHANGED jobVars => SegmentsInv'
         /\ UNCHANGED <<wpc, left, got>> => SegmentsInv'
         /\ \A t \in Turns : JobStart(t) \/ JobReturn(t) \/ UploadExpires(t) \/ WorkerFault(t) => SegmentsInv'
<1>1. UNCHANGED jobVars \/ UNCHANGED <<wpc, left, got>> => SegmentsInv'
  BY DEF jobVars, SegmentsInv
<1>2. ASSUME NEW t \in Turns, JobStart(t) \/ JobReturn(t) \/ UploadExpires(t) \/ WorkerFault(t)
      PROVE  SegmentsInv'
  BY <1>2 DEF JobStart, JobReturn, UploadExpires, WorkerFault, jobVars, SegmentsInv, TypeOK, JobType
<1> QED BY <1>1, <1>2

LEMMA TypeNext ==
  ASSUME TypeOK, SegmentsInv, ConstantsAssumption, [Next]_vars
  PROVE  TypeOK' /\ SegmentsInv'
<1>1. ASSUME NEW r \in Reqs,
             \/ Create(r) \/ Select(r) \/ SupersedeFlag(r) \/ Commit(r) \/ CommitConflict(r)
             \/ Enqueue(r) \/ CancelFlag(r) \/ ApiCrash(r) \/ \E t \in Turns : CancelTurn(r, t)
      PROVE  TypeOK' /\ SegmentsInv'
  <2>1. TypeOK'
    BY <1>1, HandlerType
  <2>2. UNCHANGED <<wpc, left, got>>
    BY <1>1 DEF Create, Lookup, Select, SupersedeFlag, Commit, CommitConflict, Enqueue,
                CancelFlag, ApiCrash, CancelTurn, jobVars
  <2> QED BY <2>1, <2>2, OtherSegments
<1>2. ASSUME NEW t \in Turns,
             JobStart(t) \/ JobReturn(t) \/ JobGiveUp(t) \/ UploadExpires(t) \/ WorkerFault(t)
      PROVE  TypeOK' /\ SegmentsInv'
  <2>1. TypeOK'
    BY <1>2, EnvironmentType
  <2>2. SegmentsInv'
    BY <1>2, OtherSegments DEF JobGiveUp, UploadExpires
  <2> QED BY <2>1, <2>2
<1>3. ASSUME NEW t \in Turns, Process(t) PROVE TypeOK' /\ SegmentsInv'
  BY <1>3, ProcessType, ProcessSegments
<1>4. ASSUME NEW p \in Procs, Incr(p) \/ Xadd(p) PROVE TypeOK' /\ SegmentsInv'
  <2>1. UNCHANGED jobVars
    BY <1>4 DEF Incr, Xadd
  <2> QED BY <1>4, <2>1, EnvironmentType, OtherSegments
<1>5. CASE UNCHANGED vars
  <2>1. /\ UNCHANGED rowVars /\ UNCHANGED busVars /\ UNCHANGED jobVars /\ UNCHANGED apiVars
        /\ UNCHANGED <<out, held, faults>>
    BY <1>5 DEF vars
  <2> QED BY <2>1, UnchangedTypes, OtherSegments DEF TypeOK
<1> QED BY <1>1, <1>2, <1>3, <1>4, <1>5, NextCases

\* Type correctness of the backend model.
THEOREM TypeCorrect == Spec => [](TypeOK /\ SegmentsInv)
<1>1. Init => TypeOK /\ SegmentsInv
  BY TypeInit, ConstantsAssumption
<1>2. TypeOK /\ SegmentsInv /\ [Next]_vars => TypeOK' /\ SegmentsInv'
  BY TypeNext, ConstantsAssumption
<1> QED BY <1>1, <1>2, PTL DEF Spec

-----------------------------------------------------------------------------
(* Rows.                                                                   *)

\* Where a handler has the id of a turn it has not inserted.
Inserting == {"select", "flag", "commit"}

\* A handler's new turn has no row before its commit, and nobody else has the
\* id; everything else refers to rows that exist; a job that has stored a
\* reply stays in the part of process that follows it.
LinkInv ==
  /\ \A r \in Reqs :
       /\ req[r].pc \in Inserting => req[r].turn <= issued /\ state[req[r].turn] = "none"
       /\ req[r].pc \in {"enqueue", "cancelled"} => state[req[r].turn] # "none"
       /\ req[r].active # NoTurn => state[req[r].active] # "none"
  /\ \A r, q \in Reqs :
       req[r].pc \in Inserting /\ req[q].pc \in Inserting /\ r # q
         => req[r].turn # req[q].turn
  /\ \A t \in Turns :
       /\ t > issued => state[t] = "none"
       /\ t \in queue \/ wpc[t] # "off" => state[t] # "none"
       /\ wpc[t] \in {"speak", "synth", "tts_provider", "segment", "finish"} => answers[t] > 0


\* What one step may do to the row of t.
RowMove(t) ==
  \/ state'[t] = state[t] /\ answers'[t] = answers[t]
  \/ state[t] = "none" /\ state'[t] = "queued" /\ answers'[t] = answers[t]
  \/ state[t] \in Working /\ state'[t] \in Working \cup {"failed"} /\ answers'[t] = answers[t] + 1
  \/ state[t] \in Working /\ state'[t] \in Working \cup {"cancelled"} /\ answers'[t] = answers[t]
  \/ state[t] \in Working /\ state'[t] = "completed" /\ answers[t] > 0 /\ answers'[t] = answers[t]
  \/ state[t] \in Terminal /\ state'[t] = "cancelled" /\ answers'[t] = answers[t]

\* A job touches the row of its own turn only.
LEMMA ProcessRows ==
  ASSUME TypeOK, LinkInv, NEW t \in Turns, Process(t), NEW u \in Turns
  PROVE  RowMove(u)
<1> USE DEF Locked, Open, TypeOK, RowType, RowMove
<1>1. CASE \/ ReadTurn(t) \/ ReadMedia(t) \/ StartTranscription(t) \/ Transcribed(t) \/ DeleteVoice(t) \/ LlmAnswered(t)
           \/ CheckActive(t) \/ StartBatch(t) \/ Synthesized(t) \/ EmitSegment(t)
  BY <1>1 DEF ReadTurn, ReadMedia, StartTranscription, Transcribed, DeleteVoice, LlmAnswered, CheckActive, StartBatch,
              Synthesized, EmitSegment
<1>2. CASE \/ EnterTranscribing(t) \/ StoreTranscript(t) \/ EnterContext(t) \/ EnterLlm(t)
           \/ EnterSpeaking(t)
  BY <1>2 DEF EnterTranscribing, StoreTranscript, EnterContext, EnterLlm, EnterSpeaking, Working
<1>3. CASE StoreReply(t)
  BY <1>3 DEF StoreReply, Working
<1>4. CASE Finish(t)
  BY <1>4 DEF Finish, Step, LinkInv
<1>5. CASE Fail(t) \/ TranscriptionFails(t)
  BY <1>5 DEF Fail, TranscriptionFails, TerminalFailure, Working
<1> QED BY <1>1, <1>2, <1>3, <1>4, <1>5 DEF Process

LEMMA Rows ==
  ASSUME TypeOK, LinkInv, [Next]_vars, NEW u \in Turns
  PROVE  RowMove(u)
<1>1. ASSUME NEW r \in Reqs, Commit(r) PROVE RowMove(u)
  <2>1. /\ state'[u] = IF u = req[r].turn THEN "queued"
                      ELSE IF u = req[r].active THEN "cancelled" ELSE state[u]
        /\ answers'[u] = answers[u]
    BY <1>1 DEF Commit
  <2>2. state[u] \in {"none"} \cup Working \cup Terminal
    BY DEF TypeOK, RowType, States
  <2>3. u = req[r].turn => state[u] = "none"
    BY <1>1 DEF Commit, LinkInv, Inserting
  <2>4. u = req[r].active => state[u] # "none"
    BY DEF LinkInv, NoTurn, Turns
  <2> QED BY <2>1, <2>2, <2>3, <2>4 DEF RowMove
<1>2. ASSUME NEW r \in Reqs, NEW t \in Turns, CancelTurn(r, t) PROVE RowMove(u)
  BY <1>2 DEF CancelTurn, Open, TypeOK, RowType, RowMove
<1>3. ASSUME NEW t \in Turns, Process(t) PROVE RowMove(u)
  BY <1>3, ProcessRows
<1>4. ASSUME UNCHANGED <<state, answers>> PROVE RowMove(u)
  BY <1>4 DEF RowMove
<1>5. ASSUME NEW r \in Reqs, \/ Create(r) \/ Select(r) \/ SupersedeFlag(r) \/ CommitConflict(r)
                             \/ Enqueue(r) \/ CancelFlag(r) \/ ApiCrash(r)
      PROVE  UNCHANGED <<state, answers>>
  BY <1>5 DEF Create, Lookup, Select, SupersedeFlag, CommitConflict, Enqueue, CancelFlag, ApiCrash,
              rowVars
<1>6. ASSUME NEW t \in Turns,
             JobStart(t) \/ JobReturn(t) \/ JobGiveUp(t) \/ UploadExpires(t) \/ WorkerFault(t)
      PROVE  UNCHANGED <<state, answers>>
  BY <1>6 DEF JobStart, JobReturn, JobGiveUp, UploadExpires, WorkerFault, rowVars
<1>7. ASSUME NEW p \in Procs, Incr(p) \/ Xadd(p) PROVE UNCHANGED <<state, answers>>
  BY <1>7 DEF Incr, Xadd, rowVars
<1>8. ASSUME UNCHANGED vars PROVE UNCHANGED <<state, answers>>
  BY <1>8 DEF vars, rowVars
<1> QED BY <1>1, <1>2, <1>3, <1>4, <1>5, <1>6, <1>7, <1>8, NextCases

\* Rows come into being, and stay.
LEMMA RowsExist ==
  ASSUME TypeOK, LinkInv, [Next]_vars, NEW u \in Turns
  PROVE  /\ state[u] # "none" => state'[u] # "none"
         /\ answers[u] > 0 => answers'[u] > 0
  BY Rows DEF RowMove, Working, Terminal, TypeOK, RowType

\* A step of process leaves the queue, the handlers and the other jobs alone.
LEMMA ProcessFrame ==
  ASSUME TypeOK, NEW t \in Turns, Process(t)
  PROVE  /\ UNCHANGED <<kind, uploads, seqNo, stream, flag, issued, req, queue, tries, held, faults>>
         /\ \A u \in Turns : u # t => wpc'[u] = wpc[u]
<1>1. PICK from, to : Step(t, from, to)
  BY DEF Process, ReadTurn, EnterTranscribing, ReadMedia, StartTranscription, Transcribed, DeleteVoice, StoreTranscript,
         EnterContext, EnterLlm, LlmAnswered, CheckActive, StoreReply, EnterSpeaking, StartBatch,
         Synthesized, EmitSegment, Finish, Fail, TranscriptionFails, TerminalFailure, Locked
<1> QED BY <1>1 DEF Step, busVars, apiVars, TypeOK, JobType

\* It runs only while the row exists, and reaches speech only with a reply.
LEMMA ProcessTouches ==
  ASSUME TypeOK, LinkInv, NEW t \in Turns, Process(t)
  PROVE  /\ \A u \in Turns : (state'[u] = "none") <=> (state[u] = "none")
         /\ wpc[t] # "off"
         /\ wpc'[t] \in {"speak", "synth", "tts_provider", "segment", "finish"} => answers'[t] > 0
<1>1. state[t] # "none" /\ wpc[t] # "off"
  <2>1. wpc[t] # "off"
    BY DEF Process, ReadTurn, EnterTranscribing, ReadMedia, StartTranscription, Transcribed, DeleteVoice, StoreTranscript,
           EnterContext, EnterLlm, LlmAnswered, CheckActive, StoreReply, EnterSpeaking, StartBatch,
           Synthesized, EmitSegment, Finish, Fail, TranscriptionFails, TerminalFailure, Locked, Step
  <2> QED BY <2>1 DEF LinkInv
<1>2. \A u \in Turns : u # t => state'[u] = state[u]
  BY DEF Process, ReadTurn, EnterTranscribing, ReadMedia, StartTranscription, Transcribed, DeleteVoice, StoreTranscript,
         EnterContext, EnterLlm, LlmAnswered, CheckActive, StoreReply, EnterSpeaking, StartBatch,
         Synthesized, EmitSegment, Finish, Fail, TranscriptionFails, TerminalFailure, Locked, TypeOK, RowType
<1>3. \A u \in Turns : (state'[u] = "none") <=> (state[u] = "none")
  BY <1>1, <1>2, ProcessRows DEF RowMove, Working, Terminal
<1>4. ASSUME wpc'[t] \in {"speak", "synth", "tts_provider", "segment", "finish"}
      PROVE  answers'[t] > 0
  <2> USE DEF LinkInv, Step, TypeOK, JobType, RowType
  <2>1. CASE StoreReply(t)
    BY <1>4, <2>1 DEF StoreReply, Locked
  <2>2. CASE EnterSpeaking(t) \/ StartBatch(t) \/ Synthesized(t) \/ EmitSegment(t)
    BY <2>2 DEF EnterSpeaking, StartBatch, Synthesized, EmitSegment, Locked
  <2>3. CASE ReadTurn(t) \/ EnterTranscribing(t) \/ ReadMedia(t) \/ StartTranscription(t) \/ Transcribed(t) \/ DeleteVoice(t)
    BY <1>4, <2>3 DEF ReadTurn, EnterTranscribing, ReadMedia, StartTranscription, Transcribed, DeleteVoice, Locked
  <2>4. CASE StoreTranscript(t) \/ EnterContext(t) \/ EnterLlm(t) \/ LlmAnswered(t)
    BY <1>4, <2>4 DEF StoreTranscript, EnterContext, EnterLlm, LlmAnswered, Locked
  <2>5. CASE CheckActive(t) \/ Finish(t) \/ Fail(t) \/ TranscriptionFails(t)
    BY <1>4, <2>5 DEF CheckActive, Finish, Fail, TranscriptionFails, TerminalFailure, Locked
  <2> QED BY <2>1, <2>2, <2>3, <2>4, <2>5 DEF Process
<1> QED BY <1>1, <1>3, <1>4

LEMMA LinkInit == ASSUME ConstantsAssumption PROVE Init => LinkInv
  BY DEF Init, LinkInv, IdleReq, Inserting

LEMMA LinkNext ==
  ASSUME TypeOK, SegmentsInv, LinkInv, ConstantsAssumption, [Next]_vars
  PROVE  LinkInv'
<1> DEFINE
  Of(r) ==
    /\ req[r].pc \in Inserting => req[r].turn <= issued /\ state[req[r].turn] = "none"
    /\ req[r].pc \in {"enqueue", "cancelled"} => state[req[r].turn] # "none"
    /\ req[r].active # NoTurn => state[req[r].active] # "none"
  Apart == \A r, q \in Reqs :
    req[r].pc \in Inserting /\ req[q].pc \in Inserting /\ r # q
      => req[r].turn # req[q].turn
  JobOf(t) ==
    /\ t > issued => state[t] = "none"
    /\ t \in queue \/ wpc[t] # "off" => state[t] # "none"
    /\ wpc[t] \in {"speak", "synth", "tts_provider", "segment", "finish"} => answers[t] > 0
<1>0. TypeOK'
  BY TypeNext
<1> USE DEF LinkInv, Inserting
<1>1. ASSUME NEW h \in Reqs, CommitConflict(h) \/ CancelFlag(h) \/ ApiCrash(h)
      PROVE  LinkInv'
  <2>1. /\ UNCHANGED <<state, answers, issued, queue, wpc>>
        /\ req' = [req EXCEPT ![h] = IdleReq]
    BY <1>1 DEF CommitConflict, CancelFlag, ApiCrash, rowVars, jobVars
  <2> QED BY <2>1 DEF TypeOK, ApiType, IdleReq
<1>2. ASSUME NEW h \in Reqs, Create(h) PROVE LinkInv'
  <2>1. /\ UNCHANGED <<state, answers, queue, wpc>>
        /\ issued < MaxTurns /\ issued' = issued + 1
        /\ req'[h].pc = "select" /\ req'[h].turn = issued + 1 /\ req'[h].active = NoTurn
        /\ \A r \in Reqs : r # h => req'[r] = req[r]
    BY <1>2 DEF Create, Lookup, TypeOK, ApiType, rowVars, jobVars
  <2>2. /\ issued + 1 \in Turns /\ issued \in Nat /\ \A t \in Turns : t \in Nat
        /\ state[issued + 1] = "none"
    BY <2>1 DEF TypeOK, ApiType, Turns, ConstantsAssumption
  <2>3. \A r \in Reqs : Of(r)'
    <3> TAKE r \in Reqs
    <3>1. CASE r = h
      BY <3>1, <2>1, <2>2
    <3>2. CASE r # h
      <4>1. req[r].pc \in Inserting => req[r].turn \in Turns
        BY DEF TypeOK, ApiType, ReqTypes
      <4> QED BY <3>2, <2>1, <2>2, <4>1
    <3> QED BY <3>1, <3>2
  <2>4. Apart'
    <3>1. \A r \in Reqs : req[r].pc \in Inserting => req[r].turn # issued + 1
      BY <2>2 DEF TypeOK, ApiType, ReqTypes
    <3> QED BY <2>1, <3>1
  <2>5. \A t \in Turns : JobOf(t)'
    BY <2>1, <2>2
  <2> QED BY <2>3, <2>4, <2>5
<1>11. ASSUME NEW h \in Reqs, Select(h) PROVE LinkInv'
  <2>1. PICK a \in Turns \cup {NoTurn} :
          /\ ActiveTurn(a)
          /\ \/ req' = [req EXCEPT ![h] = IdleReq]
             \/ req' = [req EXCEPT ![h] =
                  [@ EXCEPT !.active = a, !.pc = IF a = NoTurn THEN "commit" ELSE "flag"]]
    BY <1>11 DEF Select
  <2>2. UNCHANGED <<state, answers, issued, queue, wpc>> /\ req[h].pc = "select"
    BY <1>11 DEF Select, rowVars, jobVars
  <2>3. CASE req' = [req EXCEPT ![h] = IdleReq]
    BY <2>2, <2>3 DEF TypeOK, ApiType, IdleReq
  <2>4. CASE req' = [req EXCEPT ![h] =
               [@ EXCEPT !.active = a, !.pc = IF a = NoTurn THEN "commit" ELSE "flag"]]
    <3>1. a # NoTurn => state[a] # "none"
      BY <2>1 DEF ActiveTurn, Open, Working
    <3>2. /\ req'[h].turn = req[h].turn /\ req'[h].active = a /\ req'[h].pc \in {"commit", "flag"}
          /\ \A r \in Reqs : r # h => req'[r] = req[r]
      BY <2>4 DEF TypeOK, ApiType, ReqTypes
    <3> QED BY <2>2, <3>1, <3>2
  <2> QED BY <2>1, <2>3, <2>4
<1>3. ASSUME NEW h \in Reqs, SupersedeFlag(h) PROVE LinkInv'
  <2>1. /\ UNCHANGED <<state, answers, issued, queue, wpc>>
        /\ req[h].pc = "flag"
        /\ req' = [req EXCEPT ![h] = [@ EXCEPT !.pc = "commit"]]
    BY <1>3 DEF SupersedeFlag, rowVars, jobVars
  <2> QED BY <2>1 DEF TypeOK, ApiType, ReqTypes
<1>4. ASSUME NEW h \in Reqs, Commit(h) PROVE LinkInv'
  <2>1. /\ UNCHANGED <<answers, issued, queue, wpc>>
        /\ req[h].pc = "commit"
        /\ req' = [req EXCEPT ![h] = [@ EXCEPT !.pc = "enqueue"]]
        /\ state' = [t \in Turns |-> IF t = req[h].turn THEN "queued"
                                     ELSE IF t = req[h].active THEN "cancelled" ELSE state[t]]
    BY <1>4 DEF Commit, jobVars
  <2>2. req[h].turn \in Turns /\ req[h].turn <= issued /\ state[req[h].turn] = "none"
    BY <2>1 DEF TypeOK, ApiType, ReqTypes
  <2>3. \A t \in Turns : state[t] # "none" => state'[t] # "none"
    BY <2>1
  <2>4. \A r \in Reqs : req[r] \in ReqTypes
    BY DEF TypeOK, ApiType
  <2>5. \A r \in Reqs : Of(r)'
    <3> TAKE r \in Reqs
    <3>1. CASE r = h
      <4>1. /\ req'[h].pc = "enqueue" /\ req'[h].turn = req[h].turn /\ req'[h].active = req[h].active
        BY <2>1, <2>4 DEF TypeOK, ApiType, ReqTypes
      <4>2. req[h].active \in Turns \cup {NoTurn}
        BY <2>4 DEF ReqTypes
      <4> QED BY <3>1, <4>1, <4>2, <2>1, <2>2, <2>3
    <3>2. CASE r # h
      <4>1. req'[r] = req[r]
        BY <3>2, <2>1 DEF TypeOK, ApiType
      <4>2. /\ req[r].active \in Turns \cup {NoTurn}
            /\ req[r].pc # "idle" => req[r].turn \in Turns
        BY <2>4 DEF ReqTypes, TypeOK, ApiType
      <4>3. req[r].pc \in Inserting => req[r].turn # req[h].turn
        BY <3>2, <2>1
      <4>4. req[r].pc \in Inserting => req[r].turn # req[h].active
        BY <4>2 DEF NoTurn, Turns
      <4> QED BY <4>1, <4>2, <4>3, <4>4, <2>1, <2>3
    <3> QED BY <3>1, <3>2
  <2>6. Apart'
    BY <2>1, <2>4 DEF TypeOK, ApiType, ReqTypes
  <2>7. \A t \in Turns : JobOf(t)'
    <3> TAKE t \in Turns
    <3>1. t > issued => t # req[h].turn /\ t # req[h].active
      BY <2>2 DEF Turns, NoTurn, TypeOK, ApiType
    <3> QED BY <2>1, <2>3, <3>1
  <2> QED BY <2>5, <2>6, <2>7
<1>5. ASSUME NEW h \in Reqs, Enqueue(h) PROVE LinkInv'
  <2>1. /\ UNCHANGED <<state, answers, issued, wpc>>
        /\ req[h].pc = "enqueue"
        /\ req' = [req EXCEPT ![h] = IdleReq]
        /\ queue' = queue \cup {req[h].turn}
    BY <1>5 DEF Enqueue, rowVars
  <2> QED BY <2>1 DEF TypeOK, ApiType, IdleReq
<1>6. ASSUME NEW h \in Reqs, NEW t \in Turns, CancelTurn(h, t) PROVE LinkInv'
  <2>1. /\ UNCHANGED <<answers, issued, queue, wpc>>
        /\ req' = [req EXCEPT ![h] = [IdleReq EXCEPT !.pc = "cancelled", !.turn = t]]
        /\ state' = [state EXCEPT ![t] = "cancelled"]
        /\ state[t] # "none"
    BY <1>6 DEF CancelTurn, jobVars, Open, Working
  <2>2. \A u \in Turns : (state'[u] = "none") <=> (state[u] = "none")
    BY <2>1 DEF TypeOK, RowType
  <2>3. \A r \in Reqs : r # h => req'[r] = req[r]
    BY <2>1 DEF TypeOK, ApiType
  <2>4. req'[h].pc = "cancelled" /\ req'[h].turn = t /\ req'[h].active = NoTurn
    BY <2>1 DEF TypeOK, ApiType, IdleReq
  <2>5. \A r \in Reqs : /\ req[r].active \in Turns \cup {NoTurn}
                        /\ req[r].pc # "idle" => req[r].turn \in Turns
    BY DEF TypeOK, ApiType, ReqTypes
  <2>6. \A r \in Reqs : Of(r)'
    <3> TAKE r \in Reqs
    <3>1. CASE r = h
      BY <3>1, <2>1, <2>2, <2>4
    <3>2. CASE r # h
      <4>1. req'[r] = req[r] BY <3>2, <2>3
      <4> QED BY <4>1, <2>1, <2>2, <2>5
    <3> QED BY <3>1, <3>2
  <2>7. Apart'
    BY <2>3, <2>4
  <2>8. \A u \in Turns : JobOf(u)'
    BY <2>1, <2>2
  <2> QED BY <2>6, <2>7, <2>8
<1>7. ASSUME NEW t \in Turns,
             JobStart(t) \/ JobReturn(t) \/ JobGiveUp(t) \/ UploadExpires(t) \/ WorkerFault(t)
      PROVE  LinkInv'
  <2>1. /\ UNCHANGED <<state, answers, issued, req>>
        /\ \A u \in Turns : u # t => wpc'[u] = wpc[u]
        /\ wpc'[t] \in {"off", "read"} \/ wpc'[t] = wpc[t]
        /\ queue' \subseteq queue
        /\ wpc'[t] # "off" => t \in queue \/ wpc[t] # "off"
    BY <1>7 DEF JobStart, JobReturn, JobGiveUp, UploadExpires, WorkerFault, rowVars, jobVars, apiVars, TypeOK, JobType
  <2> QED BY <2>1
<1>8. ASSUME NEW t \in Turns, Process(t) PROVE LinkInv'
  <2>1. UNCHANGED <<issued, req, queue>>
    BY <1>8, ProcessFrame
  <2>2. \A u \in Turns : (state'[u] = "none") <=> (state[u] = "none")
    BY <1>8, ProcessTouches
  <2>3. \A u \in Turns : answers[u] > 0 => answers'[u] > 0
    BY RowsExist
  <2>4. \A u \in Turns : u # t => wpc'[u] = wpc[u]
    BY <1>8, ProcessFrame
  <2>5. /\ wpc[t] # "off"
        /\ wpc'[t] \in {"speak", "synth", "tts_provider", "segment", "finish"} => answers'[t] > 0
    BY <1>8, ProcessTouches
  <2>6. \A r \in Reqs : Of(r)'
    <3> TAKE r \in Reqs
    <3>1. /\ req[r].active \in Turns \cup {NoTurn}
          /\ req[r].pc # "idle" => req[r].turn \in Turns
      BY DEF TypeOK, ApiType, ReqTypes
    <3> QED BY <2>1, <2>2, <3>1
  <2>7. \A u \in Turns : JobOf(u)'
    BY <2>1, <2>2, <2>3, <2>4, <2>5
  <2> QED BY <2>1, <2>6, <2>7
<1>9. ASSUME NEW p \in Procs, Incr(p) \/ Xadd(p) PROVE LinkInv'
  BY <1>9 DEF Incr, Xadd, rowVars, jobVars, apiVars
<1>10. CASE UNCHANGED vars
  BY <1>10 DEF vars, rowVars, jobVars, apiVars
<1> QED BY <1>1, <1>2, <1>11, <1>3, <1>4, <1>5, <1>6, <1>7, <1>8, <1>9, <1>10, NextCases

RowInv == TypeOK /\ SegmentsInv /\ LinkInv

\* The inductive invariant behind every theorem below.
THEOREM RowsCorrect == Spec => []RowInv
<1>1. Init => RowInv
  BY TypeInit, LinkInit, ConstantsAssumption DEF RowInv
<1>2. RowInv /\ [Next]_vars => RowInv'
  BY TypeNext, LinkNext, ConstantsAssumption DEF RowInv
<1> QED BY <1>1, <1>2, PTL DEF Spec

\* A terminal row stays terminal, whoever is late: the worker, a retry of its
\* job, or a handler that read the row earlier.
THEOREM TerminalIsForever == Spec => TerminalStays
<1>1. RowInv /\ [Next]_vars => [\A t \in Turns : state[t] \in Terminal => state'[t] \in Terminal]_vars
  <2> SUFFICES ASSUME RowInv, [Next]_vars, NEW t \in Turns, state[t] \in Terminal
               PROVE  state'[t] \in Terminal
    OBVIOUS
  <2>1. RowMove(t)
    BY Rows DEF RowInv
  <2> QED BY <2>1 DEF RowMove, Working, Terminal
<1> QED BY <1>1, RowsCorrect, PTL DEF Spec, TerminalStays

\* A move of a row is a step of the promise.
LEMMA MoveIsPromised ==
  ASSUME TypeOK, NEW t \in Turns, RowMove(t), state'[t] \in States, answers'[t] \in Nat
  PROVE  \/ Promise!Accept(t) \/ Promise!Reply(t) \/ Promise!Complete(t) \/ Promise!Fail(t)
         \/ Promise!Cancel(t) \/ Promise!Overrule(t) \/ Promise!Rest(t)
<1> USE DEF outcome, replied, Outcome, Working, Terminal
<1>0. answers[t] \in Nat
  BY DEF TypeOK, RowType
<1>1. CASE state'[t] = state[t] /\ answers'[t] = answers[t]
  BY <1>1 DEF Promise!Rest
<1>2. CASE state[t] = "none" /\ state'[t] = "queued" /\ answers'[t] = answers[t]
  BY <1>2 DEF Promise!Accept
<1>3. CASE state[t] \in Working /\ state'[t] \in Working \cup {"failed"} /\ answers'[t] = answers[t] + 1
  <2>1. replied'[t]
    <3>1. answers'[t] > 0
      BY <1>0, <1>3
    <3> QED BY <3>1, Zenon DEF replied
  <2>2. CASE state'[t] \in Working
    BY <2>1, <2>2, <1>3 DEF Promise!Reply
  <2>3. CASE state'[t] = "failed"
    BY <2>1, <2>3, <1>3 DEF Promise!Fail
  <2> QED BY <2>2, <2>3, <1>3
<1>4. CASE state[t] \in Working /\ state'[t] \in Working \cup {"cancelled"} /\ answers'[t] = answers[t]
  BY <1>4 DEF Promise!Rest, Promise!Cancel
<1>5. CASE /\ state[t] \in Working /\ state'[t] = "completed" /\ answers[t] > 0
           /\ answers'[t] = answers[t]
  BY <1>5 DEF Promise!Complete
<1>6. CASE state[t] \in Terminal /\ state'[t] = "cancelled" /\ answers'[t] = answers[t]
  BY <1>6 DEF Promise!Overrule, Promise!Closed
<1> QED BY <1>1, <1>2, <1>3, <1>4, <1>5, <1>6 DEF RowMove

\* The rows refine TurnPromise, for every interleaving, retry and crash.
THEOREM PromiseKept == Spec => ImplementsPromise
<1>1. Init => Promise!Init
  <2> SUFFICES ASSUME Init PROVE Promise!Init
    OBVIOUS
  <2>1. \A t \in Turns : Outcome(state[t]) = "absent"
    BY DEF Init, Outcome
  <2>2. \A t \in Turns : (answers[t] > 0) = FALSE
    BY DEF Init
  <2>3. outcome = [t \in Turns |-> "absent"]
    BY <2>1 DEF outcome
  <2>4. replied = [t \in Turns |-> FALSE]
    BY ONLY <2>2, Zenon DEF replied
  <2> QED BY <2>3, <2>4, Zenon DEF Promise!Init
<1>2. RowInv /\ [Next]_vars => [Promise!Next]_<<outcome, replied>>
  <2> SUFFICES ASSUME RowInv, [Next]_vars, NEW t \in Turns
               PROVE  \/ Promise!Accept(t) \/ Promise!Reply(t) \/ Promise!Complete(t)
                      \/ Promise!Fail(t) \/ Promise!Cancel(t) \/ Promise!Overrule(t)
                      \/ Promise!Rest(t)
    BY DEF Promise!Next
  <2>1. TypeOK /\ TypeOK'
    BY TypeNext, ConstantsAssumption DEF RowInv
  <2>2. state'[t] \in States /\ answers'[t] \in Nat
    BY <2>1 DEF TypeOK, RowType
  <2> QED BY <2>1, <2>2, Rows, MoveIsPromised DEF RowInv
<1> QED BY <1>1, <1>2, RowsCorrect, PTL DEF Spec, Promise!Spec, ImplementsPromise

-----------------------------------------------------------------------------
(* Events.                                                                 *)

\* The event types that tell no lie about turn t.
Truths == [t \in Turns |->
  {type \in EventTypes : /\ type = "reply.ready" => answers[t] > 0
                         /\ type \in {"turn.completed", "turn.failed"} => state[t] \in Terminal}]

\* Only those are in the streams, and in what a process has still to publish.
EventsInv ==
  /\ \A p \in Procs : \A i \in DOMAIN out[p] : out[p][i].type \in Truths[out[p][i].turn]
  /\ \A t \in Turns : \A i \in DOMAIN stream[t] : stream[t][i].type \in Truths[t]

LEMMA PendingTurn ==
  ASSUME TypeOK, NEW q \in Procs, NEW i \in DOMAIN out[q]
  PROVE  out[q][i].turn \in Turns
<1>1. out[q] \in Seq(PendingEvent)
  BY DEF TypeOK, OutType
<1>2. out[q][i] \in PendingEvent
  BY <1>1
<1> QED BY <1>2 DEF PendingEvent

\* What is so stays so.
LEMMA TrueStays ==
  ASSUME TypeOK, LinkInv, [Next]_vars
  PROVE  \A t \in Turns : Truths[t] \subseteq Truths'[t]
<1>1. ASSUME NEW t \in Turns
      PROVE  (answers[t] > 0 => answers'[t] > 0) /\ (state[t] \in Terminal => state'[t] \in Terminal)
  BY Rows, RowsExist DEF RowMove, Working, Terminal
<1> QED BY <1>1 DEF Truths

\* A step that publishes: the new events must be true after it.
LEMMA TruePublish ==
  ASSUME TypeOK, EventsInv, LinkInv, [Next]_vars, UNCHANGED stream,
         NEW p \in Procs, NEW t \in Turns, NEW types \in Seq(EventTypes), Publish(p, t, types),
         \A i \in DOMAIN types : types[i] \in Truths'[t]
  PROVE  EventsInv'
<1>1. ASSUME NEW q \in Procs, NEW i \in DOMAIN out'[q]
      PROVE  out'[q][i].type \in Truths'[out'[q][i].turn]
  <2>1. CASE q = p
    BY <1>1, <2>1 DEF Publish, TypeOK, OutType
  <2>2. CASE q # p
    <3>1. out'[q] = out[q] /\ i \in DOMAIN out[q] /\ out[q][i].turn \in Turns
      BY <1>1, <2>2, PendingTurn DEF Publish, TypeOK, OutType
    <3> QED BY <3>1, TrueStays DEF EventsInv
  <2> QED BY <2>1, <2>2
<1>2. \A u \in Turns : \A i \in DOMAIN stream'[u] : stream'[u][i].type \in Truths'[u]
  BY TrueStays DEF EventsInv
<1> QED BY <1>1, <1>2 DEF EventsInv

\* A step that publishes nothing: it may drop pending events.
LEMMA TrueKept ==
  ASSUME TypeOK, EventsInv, LinkInv, [Next]_vars, UNCHANGED stream,
         \A q \in Procs : out'[q] = out[q] \/ out'[q] = <<>>
  PROVE  EventsInv'
<1>1. ASSUME NEW q \in Procs, NEW i \in DOMAIN out'[q]
      PROVE  out'[q][i].type \in Truths'[out'[q][i].turn]
  <2>1. out'[q] = out[q] /\ i \in DOMAIN out[q] /\ out[q][i].turn \in Turns
    BY <1>1, PendingTurn DEF TypeOK, OutType
  <2> QED BY <2>1, TrueStays DEF EventsInv
<1>2. \A u \in Turns : \A i \in DOMAIN stream'[u] : stream'[u][i].type \in Truths'[u]
  BY TrueStays DEF EventsInv
<1> QED BY <1>1, <1>2 DEF EventsInv

\* XADD moves the first pending event of p to its stream.
LEMMA TrueXadd ==
  ASSUME TypeOK, EventsInv, LinkInv, [Next]_vars, NEW p \in Procs, Xadd(p)
  PROVE  EventsInv'
<1> DEFINE e == Head(out[p])
<1>1. /\ out[p] \in Seq(PendingEvent) /\ out[p] # <<>>
      /\ e \in PendingEvent /\ e = out[p][1] /\ 1 \in DOMAIN out[p]
  BY DEF Xadd, TypeOK, OutType
<1>2. e.turn \in Turns /\ e.type \in Truths'[e.turn]
  BY <1>1, TrueStays DEF EventsInv, PendingEvent
<1>3. /\ out' = [out EXCEPT ![p] = Tail(@)]
      /\ stream' = [stream EXCEPT ![e.turn] = Append(@, [type |-> e.type, seq |-> held[p]])]
  BY DEF Xadd
<1> HIDE DEF e
<1>4. ASSUME NEW q \in Procs, NEW i \in DOMAIN out'[q]
      PROVE  out'[q][i].type \in Truths'[out'[q][i].turn]
  <2>1. PICK j \in DOMAIN out[q] : out'[q][i] = out[q][j]
    <3>1. CASE q = p
      <4>1. out'[q] = Tail(out[p])
        BY <1>3, <3>1 DEF TypeOK, OutType
      <4>2. i + 1 \in DOMAIN out[p] /\ Tail(out[p])[i] = out[p][i + 1]
        BY <1>1, <1>4, <4>1
      <4> QED BY <3>1, <4>1, <4>2
    <3>2. CASE q # p
      BY <1>3, <1>4, <3>2 DEF TypeOK, OutType
    <3> QED BY <3>1, <3>2
  <2>2. out[q][j].turn \in Turns
    BY <2>1, PendingTurn
  <2> QED BY <2>1, <2>2, TrueStays DEF EventsInv
<1>5. ASSUME NEW u \in Turns, NEW i \in DOMAIN stream'[u]
      PROVE  stream'[u][i].type \in Truths'[u]
  <2>1. stream[u] \in Seq(StreamEntry)
    BY DEF TypeOK, BusType
  <2>2. CASE i \in DOMAIN stream[u] /\ stream'[u][i] = stream[u][i]
    BY <2>2, TrueStays DEF EventsInv
  <2>3. CASE u = e.turn /\ stream'[u][i].type = e.type
    BY <2>3, <1>2
  <2>4. CASE u # e.turn
    <3>1. stream'[u] = stream[u]
      BY <1>3, <2>4 DEF TypeOK, BusType
    <3> QED BY <3>1, <1>5, <2>2
  <2>5. CASE u = e.turn
    <3>1. stream'[u] = Append(stream[u], [type |-> e.type, seq |-> held[p]])
      BY <1>3, <2>5 DEF TypeOK, BusType
    <3>2. \/ i \in DOMAIN stream[u] /\ stream'[u][i] = stream[u][i]
          \/ stream'[u][i] = [type |-> e.type, seq |-> held[p]]
      BY <3>1, <2>1, <1>5
    <3> QED BY <3>2, <2>2, <2>3, <2>5
  <2> QED BY <2>4, <2>5
<1> QED BY <1>4, <1>5 DEF EventsInv

\* A transaction of the job publishes when the turn was open.
LEMMA TrueLocked ==
  ASSUME TypeOK, EventsInv, LinkInv, [Next]_vars, UNCHANGED stream,
         NEW t \in Turns, NEW from, NEW next, NEW to, NEW types \in Seq(EventTypes),
         Locked(t, from, next, to, types),
         Open(t) => \A i \in DOMAIN types : types[i] \in Truths'[t]
  PROVE  EventsInv'
  BY TrueKept, TruePublish DEF Locked, Procs

LEMMA TruthsNext ==
  ASSUME TypeOK, EventsInv, LinkInv, [Next]_vars
  PROVE  EventsInv'
<1>1. ASSUME NEW r \in Reqs, Create(r) \/ Select(r) \/ CommitConflict(r) \/ Enqueue(r) \/ ApiCrash(r)
      PROVE  EventsInv'
  <2>1. UNCHANGED stream /\ \A q \in Procs : out'[q] = out[q] \/ out'[q] = <<>>
    BY <1>1 DEF Create, Lookup, Select, CommitConflict, Enqueue, ApiCrash, Drop, busVars, TypeOK, OutType
  <2> QED BY <2>1, TrueKept
<1>2. ASSUME NEW t \in Turns,
             JobStart(t) \/ JobReturn(t) \/ JobGiveUp(t) \/ UploadExpires(t) \/ WorkerFault(t)
      PROVE  EventsInv'
  <2>1. UNCHANGED stream /\ \A q \in Procs : out'[q] = out[q] \/ out'[q] = <<>>
    BY <1>2 DEF JobStart, JobReturn, JobGiveUp, UploadExpires, WorkerFault, Drop, busVars, TypeOK, OutType
  <2> QED BY <2>1, TrueKept
<1>3. ASSUME NEW r \in Reqs, NEW t \in Turns, CancelTurn(r, t) PROVE EventsInv'
  <2>1. UNCHANGED <<stream, out>>
    BY <1>3 DEF CancelTurn, busVars
  <2> QED BY <2>1, TrueKept
<1>4. ASSUME NEW r \in Reqs, SupersedeFlag(r) \/ Commit(r) \/ CancelFlag(r) PROVE EventsInv'
  <2>1. PICK t \in Turns, type \in {"turn.cancelled", "turn.accepted"} :
          UNCHANGED stream /\ Publish(r, t, <<type>>)
    BY <1>4 DEF SupersedeFlag, Commit, CancelFlag, TypeOK, ApiType, ReqTypes, busVars
  <2>2. <<type>> \in Seq(EventTypes) /\ \A i \in DOMAIN <<type>> : <<type>>[i] \in Truths'[t]
    BY DEF EventTypes, Truths
  <2> QED BY <2>1, <2>2, TruePublish DEF Procs
<1>5. ASSUME NEW t \in Turns, Process(t) PROVE EventsInv'
  <2>1. UNCHANGED stream
    BY <1>5, ProcessFrame
  <2>2. EventTypes \ {"reply.ready", "turn.completed", "turn.failed"} \subseteq Truths'[t]
    BY DEF Truths
  <2>3. CASE \/ ReadTurn(t) \/ ReadMedia(t) \/ StartTranscription(t) \/ Transcribed(t) \/ DeleteVoice(t) \/ LlmAnswered(t)
             \/ CheckActive(t) \/ StartBatch(t)
    BY <2>1, <2>3, TrueKept DEF ReadTurn, ReadMedia, StartTranscription, Transcribed, DeleteVoice, LlmAnswered, CheckActive,
                                StartBatch
  <2>4. CASE EnterTranscribing(t) \/ EnterContext(t) \/ (EnterSpeaking(t) /\ kind[t].speak)
    <3>1. PICK from, next, to : Locked(t, from, next, to, <<"turn.progress">>)
      BY <2>4 DEF EnterTranscribing, EnterContext, EnterSpeaking
    <3>2. "turn.progress" \in Truths'[t]
      BY <2>2 DEF EventTypes
    <3> QED BY <2>1, <3>1, <3>2, TrueLocked DEF EventTypes
  <2>5. CASE EnterSpeaking(t) /\ ~kind[t].speak
    BY <2>1, <2>5, TrueKept DEF EnterSpeaking
  <2>6. CASE EnterLlm(t)
    <3>1. Locked(t, "llm_enter", "llm_pending", "llm", <<>>)
      BY <2>6 DEF EnterLlm
    <3>2. <<>> \in Seq(EventTypes) /\ \A i \in DOMAIN <<>> : <<>>[i] \in Truths'[t]
      OBVIOUS
    <3> QED BY <2>1, <3>1, <3>2, TrueLocked
  <2>7. CASE StoreTranscript(t)
    <3>1. PICK next : Locked(t, "stt_commit", next, "context", <<"transcript.final">>)
      BY <2>7 DEF StoreTranscript
    <3> DEFINE types == <<"transcript.final">>
    <3>2. types \in Seq(EventTypes) /\ \A i \in DOMAIN types : types[i] \in Truths'[t]
      BY <2>2 DEF EventTypes
    <3> HIDE DEF types
    <3> QED BY <2>1, <3>1, <3>2, TrueLocked DEF types
  <2>8. CASE Synthesized(t) \/ EmitSegment(t)
    <3>1. UNCHANGED out \/ \E type \in {"tts.failed", "tts.segment"} : Publish(t, t, <<type>>)
      BY <2>8 DEF Synthesized, EmitSegment
    <3>2. CASE UNCHANGED out
      BY <2>1, <3>2, TrueKept
    <3>3. ASSUME NEW type \in {"tts.failed", "tts.segment"}, Publish(t, t, <<type>>)
          PROVE  EventsInv'
      <4>1. <<type>> \in Seq(EventTypes) /\ \A i \in DOMAIN <<type>> : <<type>>[i] \in Truths'[t]
        BY <2>2 DEF EventTypes
      <4> QED BY <2>1, <3>3, <4>1, TruePublish DEF Procs
    <3> QED BY <3>1, <3>2, <3>3
  <2>9. CASE StoreReply(t)
    <3>1. Locked(t, "reply", "reply_ready", "speak", <<"reply.ready", "character.cue">>)
      BY <2>9 DEF StoreReply
    <3>2. Open(t) => "reply.ready" \in Truths'[t]
      BY <2>9 DEF StoreReply, TypeOK, RowType, Truths, EventTypes
    <3> DEFINE types == <<"reply.ready", "character.cue">>
    <3>3. types \in Seq(EventTypes) /\ (Open(t) => \A i \in DOMAIN types : types[i] \in Truths'[t])
      BY <2>2, <3>2 DEF EventTypes
    <3> HIDE DEF types
    <3> QED BY <2>1, <3>1, <3>3, TrueLocked DEF types
  <2>10. CASE Finish(t)
    <3>1. Locked(t, "finish", "completed", "return", <<"turn.completed">>)
      BY <2>10 DEF Finish
    <3>2. Open(t) => "turn.completed" \in Truths'[t]
      BY <3>1 DEF Locked, TypeOK, RowType, Truths, EventTypes, Terminal
    <3> QED BY <2>1, <3>1, <3>2, TrueLocked DEF EventTypes
  <2>11. CASE Fail(t) \/ TranscriptionFails(t)
    <3> DEFINE types == <<"reply.ready", "character.cue", "turn.failed">>
    <3>1. \/ Open(t) /\ state' = [state EXCEPT ![t] = "failed"]
             /\ answers' = [answers EXCEPT ![t] = @ + 1] /\ Publish(t, t, types)
          \/ UNCHANGED out
      BY <2>11 DEF Fail, TranscriptionFails, TerminalFailure
    <3>2. CASE UNCHANGED out
      BY <2>1, <3>2, TrueKept
    <3>3. CASE /\ state' = [state EXCEPT ![t] = "failed"]
               /\ answers' = [answers EXCEPT ![t] = @ + 1] /\ Publish(t, t, types)
      <4>1. {"reply.ready", "turn.failed"} \subseteq Truths'[t]
        BY <3>3 DEF TypeOK, RowType, Truths, EventTypes, Terminal
      <4>2. types \in Seq(EventTypes) /\ \A i \in DOMAIN types : types[i] \in Truths'[t]
        BY <2>2, <4>1 DEF EventTypes
      <4> HIDE DEF types
      <4> QED BY <2>1, <3>3, <4>2, TruePublish DEF Procs
    <3> QED BY <3>1, <3>2, <3>3
  <2> QED BY <1>5, <2>3, <2>4, <2>5, <2>6, <2>7, <2>8, <2>9, <2>10, <2>11 DEF Process
<1>6. ASSUME NEW p \in Procs, Incr(p) \/ Xadd(p) PROVE EventsInv'
  <2>1. CASE Incr(p)
    BY <2>1, TrueKept DEF Incr
  <2>2. CASE Xadd(p)
    BY <2>2, TrueXadd
  <2> QED BY <1>6, <2>1, <2>2
<1>7. CASE UNCHANGED vars
  BY <1>7, TrueKept DEF vars, busVars
<1> QED BY <1>1, <1>2, <1>3, <1>4, <1>5, <1>6, <1>7, NextCases

\* Nobody is told of a reply or of an outcome that is not stored.
THEOREM EventsAreTrue == Spec => []EventsFollowCommit
<1>1. Init => EventsInv
  BY DEF Init, EventsInv
<1>2. RowInv /\ EventsInv /\ [Next]_vars => EventsInv'
  BY TruthsNext DEF RowInv
<1>3. EventsInv => EventsFollowCommit
  BY DEF EventsInv, EventsFollowCommit, Events, Truths
<1> QED BY <1>1, <1>2, <1>3, RowsCorrect, PTL DEF Spec

-----------------------------------------------------------------------------
(* One handler at a time.                                                  *)

SerialApi == \E r \in Reqs : Reqs = {r}

\* A handler that is about to insert a row knows every open turn.
SerialInv ==
  /\ OneOpenTurn
  /\ \A r \in Reqs : req[r].pc \in {"flag", "commit"} =>
       \A t \in Turns : Open(t) => t = req[r].active

LEMMA SerialNext ==
  ASSUME SerialApi, TypeOK, LinkInv, SerialInv, [Next]_vars
  PROVE  SerialInv'
<1> USE DEF OneOpenTurn
<1>1. ASSUME \A t \in Turns : Open(t)' => Open(t),
             \A r \in Reqs : req'[r].pc \in {"flag", "commit"} =>
               req[r].pc \in {"flag", "commit"} /\ req'[r].active = req[r].active
      PROVE  SerialInv'
  BY <1>1 DEF SerialInv
<1>2. ASSUME NEW h \in Reqs, Select(h) PROVE SerialInv'
  <2>1. UNCHANGED state /\ \A r \in Reqs : r = h
    BY <1>2 DEF Select, rowVars, SerialApi
  <2>2. PICK b \in Turns \cup {NoTurn} :
          ActiveTurn(b) /\ (req'[h].pc \in {"flag", "commit"} => req'[h].active = b)
    <3>1. PICK b \in Turns \cup {NoTurn} :
            /\ ActiveTurn(b)
            /\ \/ req' = [req EXCEPT ![h] = IdleReq]
               \/ req' = [req EXCEPT ![h] = [@ EXCEPT !.active = b, !.pc = IF b = NoTurn THEN "commit" ELSE "flag"]]
      BY <1>2 DEF Select
    <3>2. req \in [Reqs -> ReqTypes]
      BY DEF TypeOK, ApiType
    <3>3. CASE req' = [req EXCEPT ![h] = IdleReq]
      BY <3>1, <3>2, <3>3 DEF IdleReq
    <3>4. CASE req' = [req EXCEPT ![h] = [@ EXCEPT !.active = b, !.pc = IF b = NoTurn THEN "commit" ELSE "flag"]]
      BY <3>1, <3>2, <3>4 DEF ReqTypes
    <3> QED BY <3>1, <3>3, <3>4
  <2>3. \A t \in Turns : Open(t) => t = b
    BY <2>2 DEF ActiveTurn, SerialInv
  <2> QED BY <2>1, <2>2, <2>3 DEF SerialInv, Open
<1>3. ASSUME NEW h \in Reqs, Commit(h) PROVE SerialInv'
  <2>1. /\ \A r \in Reqs : r = h
        /\ req[h].pc = "commit" /\ req'[h].pc = "enqueue"
    BY <1>3 DEF SerialApi, Commit, TypeOK, ApiType, ReqTypes
  <2>2. \A t \in Turns : Open(t)' => t = req[h].turn
    BY <1>3, <2>1 DEF Commit, SerialInv, Open, Working
  <2> QED BY <2>1, <2>2 DEF SerialInv
<1>4. ASSUME NEW h \in Reqs, NEW t \in Turns, CancelTurn(h, t) PROVE SerialInv'
  BY <1>1, <1>4 DEF CancelTurn, Open, Working, TypeOK, RowType, ApiType, IdleReq
<1>5. ASSUME NEW h \in Reqs,
             Create(h) \/ CommitConflict(h) \/ Enqueue(h) \/ CancelFlag(h) \/ ApiCrash(h)
      PROVE  SerialInv'
  <2>1. UNCHANGED state
    BY <1>5 DEF Create, Lookup, CommitConflict, Enqueue, CancelFlag, ApiCrash, rowVars
  <2>2. req'[h].pc \in {"select", "idle"} /\ \A r \in Reqs : r # h => req'[r] = req[r]
    BY <1>5 DEF Create, Lookup, CommitConflict, Enqueue, CancelFlag, ApiCrash, TypeOK, ApiType,
                IdleReq
  <2> QED BY <1>1, <2>1, <2>2 DEF Open
<1>6. ASSUME NEW h \in Reqs, SupersedeFlag(h) PROVE SerialInv'
  BY <1>1, <1>6 DEF SupersedeFlag, rowVars, Open, TypeOK, ApiType, ReqTypes
<1>7. ASSUME NEW t \in Turns,
             JobStart(t) \/ JobReturn(t) \/ JobGiveUp(t) \/ UploadExpires(t) \/ WorkerFault(t)
      PROVE  SerialInv'
  BY <1>1, <1>7 DEF JobStart, JobReturn, JobGiveUp, UploadExpires, WorkerFault, rowVars, apiVars, Open
<1>8. ASSUME NEW t \in Turns, Process(t) PROVE SerialInv'
  <2>1. \A u \in Turns : Open(u)' => Open(u)
    BY <1>8, ProcessRows, ProcessTouches DEF RowMove, Open, Working, Terminal
  <2> QED BY <1>1, <1>8, <2>1, ProcessFrame
<1>9. ASSUME NEW p \in Procs, Incr(p) \/ Xadd(p) PROVE SerialInv'
  BY <1>1, <1>9 DEF Incr, Xadd, rowVars, apiVars, Open
<1>10. CASE UNCHANGED vars
  BY <1>1, <1>10 DEF vars, rowVars, apiVars, Open
<1> QED BY <1>2, <1>3, <1>4, <1>5, <1>6, <1>7, <1>8, <1>9, <1>10, NextCases

\* When the handlers run one after the other, as a client that waits for each
\* answer makes them, at most one turn is open.
THEOREM SerialOneOpenTurn == ASSUME SerialApi PROVE Spec => []OneOpenTurn
<1>1. Init => SerialInv
  BY DEF Init, SerialInv, OneOpenTurn, Open, Working, IdleReq
<1>2. RowInv /\ SerialInv /\ [Next]_vars => SerialInv'
  BY SerialNext DEF RowInv
<1>3. SerialInv => OneOpenTurn
  BY DEF SerialInv
<1> QED BY <1>1, <1>2, <1>3, RowsCorrect, PTL DEF Spec

=============================================================================
