-------------------------- MODULE TurnLimitsProofs --------------------------
(***************************************************************************)
(* Proofs about what TurnService publishes and how often: sequence numbers *)
(* are unique, a try replies once, a cancellation lets one segment pass.   *)
(* Then how long things last: a recording goes with its transcription, and *)
(* an open turn has an owner.  Last, that no turn closes in silence.  All  *)
(* for every number of turns, handlers, segments, tries and, unless it     *)
(* says otherwise, faults.                                                 *)
(***************************************************************************)
EXTENDS TurnServiceProofs, FiniteSetTheorems

-----------------------------------------------------------------------------
(* Who says what.                                                          *)

\* Where a job may still answer in this try.
Early == {"read", "stt_enter", "stt_media", "stt", "stt_provider", "stt_fail", "stt_commit",
          "context", "llm_enter", "llm", "check", "reply", "fail"}

\* Handlers tell of acceptance and cancellation; a job tells the rest, of its
\* own turn, and a reply or a segment first.
Manners(p) ==
  /\ p \in Reqs => \A i \in DOMAIN out[p] : out[p][i].type \in {"turn.accepted", "turn.cancelled"}
  /\ p \in Turns => \A i \in DOMAIN out[p] :
       /\ out[p][i].turn = p /\ out[p][i].type # "turn.cancelled"
       /\ out[p][i].type \in {"reply.ready", "tts.segment"} => i = 1
  /\ held[p] # 0 => out[p] # <<>>

TalkInv ==
  /\ \A p \in Procs : Manners(p)
  /\ \A r \in Reqs : req[r].pc \in {"select", "flag", "cancelled"} => out[r] = <<>>

\* What one step other than a Redis command does to the events p has to publish.
Keeps(p) == out'[p] = out[p] /\ held'[p] = held[p]
Drops(p) == out'[p] = <<>> /\ held'[p] = 0
Talks(p) ==
  /\ out[p] = <<>> /\ held'[p] = held[p] /\ Manners(p)'
  /\ \A i \in DOMAIN out'[p] :
       /\ out'[p][i].type = "turn.cancelled" => out'[p][i].turn \in flag'
       /\ out'[p][i].type = "tts.segment" => p \notin flag
       /\ out'[p][i].type = "reply.ready" => wpc[p] \in Early /\ wpc'[p] \notin Early

\* A job that publishes a list of events.
LEMMA JobPublishes ==
  ASSUME TypeOK, TalkInv, NEW t \in Turns, NEW types \in Seq(EventTypes), Publish(t, t, types),
         out[t] = <<>>, UNCHANGED held,
         \A i \in DOMAIN types :
           /\ types[i] # "turn.cancelled"
           /\ types[i] \in {"reply.ready", "tts.segment"} => i = 1
           /\ types[i] = "tts.segment" => t \notin flag
           /\ types[i] = "reply.ready" => wpc[t] \in Early /\ wpc'[t] \notin Early
  PROVE  Talks(t)
<1>1. t \in Procs /\ t \notin Reqs
  BY ConstantsAssumption DEF Procs
<1>2. out'[t] = [i \in DOMAIN types |-> [turn |-> t, type |-> types[i]]]
  BY <1>1 DEF Publish, TypeOK, OutType
<1>3. held[t] = 0
  BY <1>1 DEF TalkInv, Manners
<1> QED BY <1>1, <1>2, <1>3 DEF Talks, Manners

LEMMA JobTalks ==
  ASSUME TypeOK, TalkInv, NEW t \in Turns, Process(t)
  PROVE  /\ Keeps(t) \/ Talks(t)
         /\ \A p \in Procs : p # t => Keeps(p)
         /\ wpc'[t] \in Early => wpc[t] \in Early
<1>1. UNCHANGED held
  BY ProcessFrame
<1>2. out[t] = <<>>
  BY DEF Process, ReadTurn, EnterTranscribing, ReadMedia, StartTranscription, Transcribed, DeleteVoice, StoreTranscript,
         EnterContext, EnterLlm, LlmAnswered, CheckActive, StoreReply, EnterSpeaking, StartBatch,
         Synthesized, EmitSegment, Finish, Fail, TranscriptionFails, TerminalFailure, Locked, Step, Ready
<1>3. out \in [Procs -> Seq(PendingEvent)] /\ t \in Procs /\ wpc \in [Turns -> WorkerPcs]
  BY DEF TypeOK, OutType, JobType, Procs
<1>4. \A types : Publish(t, t, types) => \A p \in Procs : p # t => Keeps(p)
  BY <1>1, <1>3 DEF Publish, Keeps
<1>5. UNCHANGED out => Keeps(t) /\ \A p \in Procs : p # t => Keeps(p)
  BY <1>1 DEF Keeps
<1>6. ASSUME NEW type \in EventTypes \ {"turn.cancelled", "reply.ready", "tts.segment"},
             Publish(t, t, <<type>>)
      PROVE  Talks(t)
  <2> DEFINE types == <<type>>
  <2>1. types \in Seq(EventTypes) /\ DOMAIN types = {1} /\ types[1] = type
    OBVIOUS
  <2>2. Publish(t, t, types)
    BY <1>6
  <2> HIDE DEF types
  <2> QED BY <1>1, <1>2, <2>1, <2>2, JobPublishes
<1>7. CASE \/ ReadTurn(t) \/ ReadMedia(t) \/ StartTranscription(t) \/ Transcribed(t) \/ DeleteVoice(t) \/ LlmAnswered(t)
           \/ CheckActive(t) \/ StartBatch(t)
  <2>1. UNCHANGED out
    BY <1>7 DEF ReadTurn, ReadMedia, StartTranscription, Transcribed, DeleteVoice, LlmAnswered, CheckActive, StartBatch
  <2>2. wpc'[t] \in Early => wpc[t] \in Early
    BY <1>3, <1>7 DEF ReadTurn, ReadMedia, StartTranscription, Transcribed, DeleteVoice, LlmAnswered, CheckActive, StartBatch,
                      Step, Early
  <2> QED BY <1>5, <2>1, <2>2
<1>8. CASE EnterTranscribing(t) \/ EnterContext(t) \/ StoreTranscript(t) \/ Finish(t)
  <2>1. UNCHANGED out \/ \E type \in EventTypes \ {"turn.cancelled", "reply.ready", "tts.segment"} :
          Publish(t, t, <<type>>)
    BY <1>8 DEF EnterTranscribing, EnterContext, StoreTranscript, Finish, Locked, EventTypes
  <2>2. wpc'[t] \in Early => wpc[t] \in Early
    BY <1>3, <1>8 DEF EnterTranscribing, EnterContext, StoreTranscript, Finish, Locked, Step, Early
  <2> QED BY <1>4, <1>5, <1>6, <2>1, <2>2
<1>9. CASE EnterSpeaking(t) \/ Synthesized(t)
  <2>1. UNCHANGED out \/ \E type \in EventTypes \ {"turn.cancelled", "reply.ready", "tts.segment"} :
          Publish(t, t, <<type>>)
    BY <1>9 DEF EnterSpeaking, Synthesized, Locked, EventTypes
  <2>2. wpc'[t] \in Early => wpc[t] \in Early
    BY <1>3, <1>9 DEF EnterSpeaking, Synthesized, Locked, Step, Early
  <2> QED BY <1>4, <1>5, <1>6, <2>1, <2>2
<1>10. CASE EnterLlm(t)
  <2>1. UNCHANGED out \/ Publish(t, t, <<>>)
    BY <1>10 DEF EnterLlm, Locked
  <2>2. wpc'[t] \in Early => wpc[t] \in Early
    BY <1>3, <1>10 DEF EnterLlm, Locked, Step, Early
  <2>3. Publish(t, t, <<>>) => out'[t] = <<>>
    BY <1>3 DEF Publish
  <2> QED BY <1>1, <1>2, <1>4, <1>5, <2>1, <2>2, <2>3 DEF Keeps
<1>11. CASE EmitSegment(t)
  <2>1. wpc'[t] \in Early => wpc[t] \in Early
    BY <1>3, <1>11 DEF EmitSegment, Step, Early
  <2>2. CASE UNCHANGED out
    BY <1>5, <2>1, <2>2
  <2>3. CASE t \notin flag /\ Publish(t, t, <<"tts.segment">>)
    <3> DEFINE types == <<"tts.segment">>
    <3>1. types \in Seq(EventTypes) /\ DOMAIN types = {1} /\ types[1] = "tts.segment"
      BY DEF EventTypes
    <3>2. Publish(t, t, types)
      BY <2>3
    <3> HIDE DEF types
    <3>3. Talks(t)
      BY <1>1, <1>2, <2>3, <3>1, <3>2, JobPublishes
    <3> QED BY <1>4, <2>1, <2>3, <3>3
  <2> QED BY <1>11, <2>2, <2>3 DEF EmitSegment, IsActive
<1>12. CASE StoreReply(t)
  <2>1. wpc[t] = "reply" /\ wpc'[t] \in {"speak", "return"}
    BY <1>3, <1>12 DEF StoreReply, Locked, Step
  <2>2. CASE UNCHANGED out
    BY <1>5, <2>1, <2>2 DEF Early
  <2>3. CASE Publish(t, t, <<"reply.ready", "character.cue">>)
    <3> DEFINE types == <<"reply.ready", "character.cue">>
    <3>1. types \in Seq(EventTypes) /\ DOMAIN types = {1, 2}
          /\ types[1] = "reply.ready" /\ types[2] = "character.cue"
      BY DEF EventTypes
    <3>2. Publish(t, t, types)
      BY <2>3
    <3> HIDE DEF types
    <3>3. Talks(t)
      BY <1>1, <1>2, <2>1, <3>1, <3>2, JobPublishes DEF Early
    <3> QED BY <1>4, <2>1, <2>3, <3>3 DEF Early
  <2> QED BY <1>12, <2>2, <2>3 DEF StoreReply, Locked
<1>13. CASE Fail(t) \/ TranscriptionFails(t)
  <2>1. wpc[t] \in {"fail", "stt_fail"} /\ wpc'[t] \in {"return", "stt_drop"}
    BY <1>3, <1>13 DEF Fail, TranscriptionFails, TerminalFailure, Step
  <2>2. CASE UNCHANGED out
    BY <1>5, <2>1, <2>2 DEF Early
  <2>3. CASE Publish(t, t, <<"reply.ready", "character.cue", "turn.failed">>)
    <3> DEFINE types == <<"reply.ready", "character.cue", "turn.failed">>
    <3>1. types \in Seq(EventTypes) /\ DOMAIN types = {1, 2, 3}
          /\ types[1] = "reply.ready" /\ types[2] = "character.cue" /\ types[3] = "turn.failed"
      BY DEF EventTypes
    <3>2. Publish(t, t, types)
      BY <2>3
    <3> HIDE DEF types
    <3>3. Talks(t)
      BY <1>1, <1>2, <2>1, <3>1, <3>2, JobPublishes DEF Early
    <3> QED BY <1>4, <2>1, <2>3, <3>3 DEF Early
  <2> QED BY <1>13, <2>2, <2>3 DEF Fail, TranscriptionFails, TerminalFailure
<1> QED BY <1>7, <1>8, <1>9, <1>10, <1>11, <1>12, <1>13 DEF Process

\* Every step is a Redis command, or leaves streams and counters alone while each
\* process keeps, renews or, in a fault, drops what it has to publish.
LEMMA Talking ==
  ASSUME TypeOK, LinkInv, TalkInv, [Next]_vars
  PROVE  \/ \E p \in Procs : Incr(p) \/ Xadd(p)
         \/ /\ UNCHANGED <<seqNo, stream>>
            /\ \A p \in Procs : Keeps(p) \/ Drops(p) \/ Talks(p)
            /\ faults' # faults \/ \A p \in Procs : Keeps(p) \/ Talks(p)
<1> USE DEF TypeOK, OutType
<1>1. ASSUME NEW r \in Reqs, Create(r) \/ Select(r) \/ CommitConflict(r) \/ Enqueue(r)
      PROVE  UNCHANGED <<seqNo, stream>> /\ \A p \in Procs : Keeps(p)
  BY <1>1 DEF Create, Lookup, Select, CommitConflict, Enqueue, busVars, Keeps
<1>2. ASSUME NEW r \in Reqs, ApiCrash(r)
      PROVE  UNCHANGED <<seqNo, stream>> /\ faults' # faults /\ \A p \in Procs : Keeps(p) \/ Drops(p)
  BY <1>2 DEF ApiCrash, Drop, Fault, busVars, Keeps, Drops
<1>3. ASSUME NEW r \in Reqs, NEW t \in Turns, CancelTurn(r, t)
      PROVE  UNCHANGED <<seqNo, stream>> /\ \A p \in Procs : Keeps(p)
  BY <1>3 DEF CancelTurn, busVars, Keeps
<1>4. ASSUME NEW r \in Reqs, SupersedeFlag(r) \/ Commit(r) \/ CancelFlag(r)
      PROVE  UNCHANGED <<seqNo, stream>> /\ \A p \in Procs : Keeps(p) \/ Talks(p)
  <2>0. r \in Procs /\ r \notin Turns
    BY ConstantsAssumption DEF Procs
  <2>1. out[r] = <<>> /\ held[r] = 0
    BY <1>4, <2>0 DEF SupersedeFlag, Commit, CancelFlag, Ready, TalkInv, Manners
  <2>2. PICK t \in Turns, type \in {"turn.cancelled", "turn.accepted"} :
          /\ UNCHANGED <<seqNo, stream, held>> /\ Publish(r, t, <<type>>)
          /\ type = "turn.cancelled" => t \in flag'
    BY <1>4 DEF SupersedeFlag, Commit, CancelFlag, ApiType, ReqTypes, busVars
  <2>3. out'[r] = [i \in {1} |-> [turn |-> t, type |-> type]]
    BY <2>0, <2>2 DEF Publish
  <2>4. Talks(r)
    BY <2>0, <2>1, <2>2, <2>3 DEF Talks, Manners
  <2>5. \A p \in Procs : p # r => Keeps(p)
    BY <2>0, <2>2 DEF Publish, Keeps
  <2> QED BY <2>2, <2>4, <2>5
<1>5. ASSUME NEW t \in Turns, JobStart(t) \/ JobReturn(t) \/ JobGiveUp(t) \/ UploadExpires(t)
      PROVE  UNCHANGED <<seqNo, stream>> /\ \A p \in Procs : Keeps(p)
  BY <1>5 DEF JobStart, JobReturn, JobGiveUp, UploadExpires, busVars, Keeps
<1>6. ASSUME NEW t \in Turns, WorkerFault(t)
      PROVE  UNCHANGED <<seqNo, stream>> /\ faults' # faults /\ \A p \in Procs : Keeps(p) \/ Drops(p)
  BY <1>6 DEF WorkerFault, Drop, Fault, busVars, Keeps, Drops
<1>7. ASSUME NEW t \in Turns, Process(t)
      PROVE  UNCHANGED <<seqNo, stream>> /\ \A p \in Procs : Keeps(p) \/ Talks(p)
  BY <1>7, ProcessFrame, JobTalks
<1>8. CASE UNCHANGED vars
  BY <1>8 DEF vars, busVars, Keeps
<1> QED BY <1>1, <1>2, <1>3, <1>4, <1>5, <1>6, <1>7, <1>8, NextCases

\* What XADD does to what p has to publish.
LEMMA Published ==
  ASSUME TypeOK, TalkInv, NEW p \in Procs, Xadd(p)
  PROVE  /\ Head(out[p]) = out[p][1] /\ 1 \in DOMAIN out[p] /\ out[p][1] \in PendingEvent
         /\ out'[p] = Tail(out[p]) /\ held'[p] = 0
         /\ \A i \in DOMAIN out'[p] : i + 1 \in DOMAIN out[p] /\ out'[p][i] = out[p][i + 1]
                                      /\ i + 1 # 1
         /\ \A q \in Procs : q # p => Keeps(q)
         /\ Manners(p)'
<1>1. out[p] \in Seq(PendingEvent) /\ out[p] # <<>>
  BY DEF Xadd, TypeOK, OutType
<1>2. out'[p] = Tail(out[p]) /\ held'[p] = 0 /\ \A q \in Procs : q # p => Keeps(q)
  BY DEF Xadd, TypeOK, OutType, Keeps
<1>3. \A i \in DOMAIN Tail(out[p]) : /\ i \in Nat \ {0} /\ i + 1 \in DOMAIN out[p]
                                     /\ Tail(out[p])[i] = out[p][i + 1]
  BY <1>1
<1>4. Manners(p)'
  <2>1. \A i \in DOMAIN out'[p] : i + 1 \in DOMAIN out[p] /\ out'[p][i] = out[p][i + 1] /\ i + 1 # 1
    BY <1>2, <1>3
  <2>2. Manners(p)
    BY DEF TalkInv
  <2> QED BY <1>2, <2>1, <2>2 DEF Manners
<1>5. Head(out[p]) = out[p][1] /\ 1 \in DOMAIN out[p] /\ out[p][1] \in PendingEvent
  BY <1>1
<1> QED BY <1>2, <1>3, <1>4, <1>5

LEMMA MannersNext ==
  ASSUME TypeOK, LinkInv, TalkInv, [Next]_vars, NEW q \in Procs
  PROVE  Manners(q)'
<1>1. Manners(q)
  BY DEF TalkInv
<1>2. Keeps(q) \/ Drops(q) \/ Talks(q) => Manners(q)'
  BY <1>1 DEF Keeps, Drops, Talks, Manners
<1>3. ASSUME NEW p \in Procs, Incr(p) PROVE Manners(q)'
  <2>1. UNCHANGED out /\ (q # p => held'[q] = held[q]) /\ out[p] # <<>>
    BY <1>3 DEF Incr, TypeOK, OutType
  <2> QED BY <1>1, <2>1 DEF Manners
<1>4. ASSUME NEW p \in Procs, Xadd(p) PROVE Manners(q)'
  BY <1>2, <1>4, Published
<1> QED BY <1>2, <1>3, <1>4, Talking

LEMMA ReadyNext ==
  ASSUME TypeOK, LinkInv, TalkInv, [Next]_vars, NEW q \in Reqs,
         req'[q].pc \in {"select", "flag", "cancelled"}
  PROVE  out'[q] = <<>>
<1> USE DEF TypeOK, OutType, ApiType
<1>0. q \in Procs /\ q \notin Turns
  BY ConstantsAssumption DEF Procs
<1>1. ASSUME req'[q] = req[q], out'[q] \in {out[q], <<>>} PROVE out'[q] = <<>>
  BY <1>1 DEF TalkInv
<1>2. ASSUME NEW r \in Reqs, Create(r) PROVE out'[q] = <<>>
  BY <1>1, <1>2 DEF Create, Lookup, Ready
<1>3. ASSUME NEW r \in Reqs, Select(r) PROVE out'[q] = <<>>
  BY <1>1, <1>3 DEF Select, TalkInv
<1>4. ASSUME NEW r \in Reqs, NEW t \in Turns, CancelTurn(r, t) PROVE out'[q] = <<>>
  BY <1>1, <1>4 DEF CancelTurn, Ready
<1>5. ASSUME NEW r \in Reqs, SupersedeFlag(r) \/ Commit(r) \/ CancelFlag(r) \/ CommitConflict(r)
                             \/ Enqueue(r) \/ ApiCrash(r)
      PROVE  out'[q] = <<>>
  <2>1. CASE q = r
    BY <1>5, <2>1 DEF SupersedeFlag, Commit, CancelFlag, CommitConflict, Enqueue, ApiCrash, ReqTypes,
                      IdleReq
  <2>2. CASE q # r
    <3>1. req'[q] = req[q] /\ out'[q] = out[q]
      BY <1>0, <1>5, <2>2 DEF SupersedeFlag, Commit, CancelFlag, CommitConflict, Enqueue, ApiCrash,
                              Publish, Drop
    <3> QED BY <1>1, <3>1
  <2> QED BY <2>1, <2>2
<1>6. ASSUME NEW t \in Turns,
             JobStart(t) \/ JobReturn(t) \/ JobGiveUp(t) \/ UploadExpires(t) \/ WorkerFault(t)
      PROVE  out'[q] = <<>>
  BY <1>0, <1>1, <1>6 DEF JobStart, JobReturn, JobGiveUp, UploadExpires, WorkerFault, Drop, apiVars
<1>7. ASSUME NEW t \in Turns, Process(t) PROVE out'[q] = <<>>
  BY <1>0, <1>1, <1>7, ProcessFrame, JobTalks DEF Keeps
<1>8. ASSUME NEW p \in Procs, Incr(p) \/ Xadd(p) PROVE out'[q] = <<>>
  <2>1. req'[q] = req[q] /\ (p # q \/ Incr(p) => out'[q] = out[q])
    BY <1>0, <1>8 DEF Incr, Xadd, apiVars
  <2>2. req[q].pc \notin {"select", "flag", "cancelled"} \/ out[q] = <<>>
    BY DEF TalkInv
  <2> QED BY <1>8, <2>1, <2>2 DEF Xadd
<1>9. CASE UNCHANGED vars
  BY <1>1, <1>9 DEF vars, apiVars
<1> QED BY <1>2, <1>3, <1>4, <1>5, <1>6, <1>7, <1>8, <1>9, NextCases

LEMMA TalkNext ==
  ASSUME TypeOK, LinkInv, TalkInv, [Next]_vars
  PROVE  TalkInv'
  BY MannersNext, ReadyNext DEF TalkInv

-----------------------------------------------------------------------------
(* Numbers                                                                 *)

\* p has drawn a number for an event of t and has not published it.
Drawn(p, t) == held[p] # 0 /\ out[p] # <<>> /\ Head(out[p]).turn = t

\* Numbers of a stream and those drawn for it are different, and were counted.
SeqInv == \A t \in Turns :
  /\ \A i \in DOMAIN stream[t] : stream[t][i].seq <= seqNo[t]
  /\ \A i, j \in DOMAIN stream[t] : stream[t][i].seq = stream[t][j].seq => i = j
  /\ \A p \in Procs : Drawn(p, t) =>
       /\ held[p] <= seqNo[t]
       /\ \A i \in DOMAIN stream[t] : stream[t][i].seq # held[p]
       /\ \A q \in Procs : Drawn(q, t) /\ held[p] = held[q] => p = q

LEMMA SeqIncr ==
  ASSUME TypeOK, TalkInv, SeqInv, NEW p \in Procs, Incr(p)
  PROVE  SeqInv'
<1> DEFINE u == Head(out[p]).turn
<1>1. u \in Turns
  <2>1. out[p] \in Seq(PendingEvent) /\ out[p] # <<>>
    BY DEF Incr, TypeOK, OutType
  <2>2. Head(out[p]) \in PendingEvent
    BY <2>1
  <2> QED BY <2>2 DEF PendingEvent
<1>2. /\ seqNo' = [seqNo EXCEPT ![u] = @ + 1] /\ held' = [held EXCEPT ![p] = seqNo[u] + 1]
      /\ UNCHANGED <<stream, out>>
  BY DEF Incr
<1>3. seqNo \in [Turns -> Nat] /\ held \in [Procs -> Nat]
  BY DEF TypeOK, BusType, OutType
<1> SUFFICES ASSUME NEW t \in Turns
    PROVE /\ \A i \in DOMAIN stream[t] : stream[t][i].seq <= seqNo'[t]
          /\ \A q \in Procs : Drawn(q, t)' =>
               /\ held'[q] <= seqNo'[t]
               /\ \A i \in DOMAIN stream[t] : stream[t][i].seq # held'[q]
               /\ \A r \in Procs : Drawn(r, t)' /\ held'[q] = held'[r] => q = r
  BY <1>2 DEF SeqInv
<1>4. \A i \in DOMAIN stream[t] : stream[t][i].seq \in Nat
  <2>1. stream[t] \in Seq(StreamEntry)
    BY DEF TypeOK, BusType
  <2>2. \A i \in DOMAIN stream[t] : stream[t][i] \in StreamEntry
    BY <2>1
  <2> QED BY <2>2 DEF StreamEntry
<1>5. \A i \in DOMAIN stream[t] : stream[t][i].seq <= seqNo[t]
  BY DEF SeqInv
<1>6. seqNo[t] <= seqNo'[t]
  BY <1>1, <1>2, <1>3
<1>7. \A q \in Procs : q # p => held'[q] = held[q] /\ (Drawn(q, t)' <=> Drawn(q, t))
  BY <1>2, <1>3 DEF Drawn
<1>8. Drawn(p, t)' => t = u
  BY <1>2 DEF Drawn
<1>9. held'[p] = seqNo[u] + 1 /\ seqNo'[u] = seqNo[u] + 1
  BY <1>1, <1>2, <1>3
<1>10. \A q \in Procs : Drawn(q, t) => held[q] <= seqNo[t]
  BY DEF SeqInv
<1> HIDE DEF u
<1>11. \A i \in DOMAIN stream[t] : stream[t][i].seq <= seqNo'[t]
  <2>1. seqNo[t] \in Nat /\ seqNo'[t] \in Nat
    BY <1>1, <1>2, <1>3
  <2> QED BY <2>1, <1>4, <1>5, <1>6
<1>12. ASSUME NEW q \in Procs, Drawn(q, t)'
       PROVE  /\ held'[q] <= seqNo'[t]
              /\ \A i \in DOMAIN stream[t] : stream[t][i].seq # held'[q]
              /\ \A r \in Procs : Drawn(r, t)' /\ held'[q] = held'[r] => q = r
  <2>1. CASE q = p
    BY <1>1, <1>3, <1>4, <1>5, <1>7, <1>8, <1>9, <1>10, <1>12, <2>1
  <2>2. CASE q # p
    <3>1. /\ held'[q] = held[q] /\ Drawn(q, t) /\ held[q] <= seqNo[t]
          /\ \A i \in DOMAIN stream[t] : stream[t][i].seq # held[q]
          /\ \A r \in Procs : Drawn(r, t) /\ held[q] = held[r] => q = r
      BY <1>7, <1>12, <2>2 DEF SeqInv
    <3>2. held[q] \in Nat /\ seqNo[t] \in Nat /\ seqNo'[t] \in Nat /\ seqNo[u] \in Nat
      BY <1>1, <1>2, <1>3
    <3>3. Drawn(p, t)' => held'[p] # held[q]
      BY <1>8, <1>9, <3>1, <3>2
    <3>4. \A r \in Procs : Drawn(r, t)' /\ held'[q] = held'[r] => q = r
      BY <1>7, <2>2, <3>1, <3>3
    <3> QED BY <1>6, <3>1, <3>2, <3>4
  <2> QED BY <2>1, <2>2
<1> QED BY <1>11, <1>12

LEMMA SeqXadd ==
  ASSUME TypeOK, TalkInv, SeqInv, NEW p \in Procs, Xadd(p)
  PROVE  SeqInv'
<1> DEFINE u == Head(out[p]).turn
           new == [type |-> Head(out[p]).type, seq |-> held[p]]
<1>1. u \in Turns /\ Drawn(p, u)
  BY Published DEF PendingEvent, Drawn, Xadd
<1>2. stream' = [stream EXCEPT ![u] = Append(@, new)] /\ UNCHANGED seqNo
  BY DEF Xadd
<1>3. held'[p] = 0 /\ \A q \in Procs : q # p => Keeps(q)
  BY Published
<1> SUFFICES ASSUME NEW t \in Turns
    PROVE /\ \A i \in DOMAIN stream'[t] : stream'[t][i].seq <= seqNo[t]
          /\ \A i, j \in DOMAIN stream'[t] : stream'[t][i].seq = stream'[t][j].seq => i = j
          /\ \A q \in Procs : Drawn(q, t)' =>
               /\ held'[q] <= seqNo[t]
               /\ \A i \in DOMAIN stream'[t] : stream'[t][i].seq # held'[q]
               /\ \A r \in Procs : Drawn(r, t)' /\ held'[q] = held'[r] => q = r
  BY <1>2 DEF SeqInv
<1>4. \A q \in Procs : Drawn(q, t)' => q # p /\ held'[q] = held[q] /\ Drawn(q, t)
  BY <1>3 DEF Drawn, Keeps
<1>5. CASE t # u
  <2>1. stream'[t] = stream[t]
    BY <1>2, <1>5 DEF TypeOK, BusType
  <2> QED BY <1>4, <2>1 DEF SeqInv
<1>6. CASE t = u
  <2>1. stream'[t] = Append(stream[t], new) /\ stream[t] \in Seq(StreamEntry)
    BY <1>1, <1>2, <1>6 DEF TypeOK, BusType
  <2>2. PICK n \in Nat : n = Len(stream[t])
    BY <2>1
  <2> HIDE DEF new
  <2>3. /\ DOMAIN stream[t] = 1..n /\ DOMAIN stream'[t] = 1..(n + 1)
        /\ stream'[t][n + 1] = new /\ \A i \in 1..n : stream'[t][i] = stream[t][i]
    BY <2>1, <2>2
  <2>4. /\ new.seq = held[p] /\ held[p] <= seqNo[t]
        /\ \A i \in 1..n : stream[t][i].seq # held[p]
        /\ \A q \in Procs : Drawn(q, t) /\ held[p] = held[q] => p = q
    BY <1>1, <1>6, <2>3 DEF SeqInv, new
  <2>5. \A i \in 1..(n + 1) : i \in 1..n \/ i = n + 1
    BY <2>2
  <2>6. \A i \in DOMAIN stream'[t] : stream'[t][i].seq <= seqNo[t]
    BY <2>3, <2>4, <2>5 DEF SeqInv
  <2>7. \A i, j \in DOMAIN stream'[t] : stream'[t][i].seq = stream'[t][j].seq => i = j
    BY <2>3, <2>4, <2>5 DEF SeqInv
  <2>8. ASSUME NEW q \in Procs, Drawn(q, t)'
        PROVE  /\ held'[q] <= seqNo[t]
               /\ \A i \in DOMAIN stream'[t] : stream'[t][i].seq # held'[q]
               /\ \A r \in Procs : Drawn(r, t)' /\ held'[q] = held'[r] => q = r
    BY <1>4, <2>3, <2>4, <2>5, <2>8 DEF SeqInv
  <2> QED BY <2>6, <2>7, <2>8
<1> QED BY <1>5, <1>6

LEMMA SeqNext ==
  ASSUME TypeOK, LinkInv, TalkInv, SeqInv, [Next]_vars
  PROVE  SeqInv'
<1>1. ASSUME UNCHANGED <<seqNo, stream>>, \A p \in Procs : Keeps(p) \/ Drops(p) \/ Talks(p)
      PROVE  SeqInv'
  <2>1. \A p \in Procs, t \in Turns : Drawn(p, t)' => Drawn(p, t) /\ held'[p] = held[p]
    BY <1>1 DEF Keeps, Drops, Talks, Drawn, TalkInv, Manners
  <2> QED BY <1>1, <2>1 DEF SeqInv
<1> QED BY <1>1, SeqIncr, SeqXadd, Talking

TalkingInv == RowInv /\ TalkInv

LEMMA TalkingAlways == Spec => []TalkingInv
<1>1. Init => TalkInv
  BY DEF Init, TalkInv, Manners, IdleReq
<1>2. RowInv /\ TalkInv /\ [Next]_vars => TalkInv'
  BY TalkNext DEF RowInv
<1> QED BY <1>1, <1>2, RowsCorrect, PTL DEF Spec, TalkingInv

\* However many processes publish to one turn, and whoever dies between the two
\* commands, no number is used twice.
THEOREM NumbersAreUnique == Spec => []SeqsUnique
<1>1. Init => SeqInv
  BY DEF Init, SeqInv, Drawn
<1>2. TalkingInv /\ SeqInv /\ [Next]_vars => SeqInv'
  BY SeqNext DEF TalkingInv, RowInv
<1>3. SeqInv => SeqsUnique
  BY DEF SeqInv, SeqsUnique
<1> QED BY <1>1, <1>2, <1>3, TalkingAlways, PTL DEF Spec

-----------------------------------------------------------------------------
(* Replies and segments                                                    *)

Waiting(t, type) == out[t] # <<>> /\ out[t][1].type = type
One(b) == IF b THEN 1 ELSE 0

\* Replies that are out, or on their way, or may still come, are no more than tries.
ReplyInv == \A t \in Turns :
  Cardinality(Events(t, {"reply.ready"})) + One(Waiting(t, "reply.ready")) + One(wpc[t] \in Early)
    <= tries[t]

\* A cancellation is announced when the flag is set; then at most one segment follows.
LateInv ==
  /\ \A t \in Turns : Events(t, {"turn.cancelled"}) # {} => t \in flag
  /\ \A p \in Procs : \A i \in DOMAIN out[p] : out[p][i].type = "turn.cancelled" => out[p][i].turn \in flag
  /\ \A t \in Turns : \A i \in Events(t, {"turn.cancelled"}) :
       /\ \A j, k \in Events(t, {"tts.segment"}) : j > i /\ k > i => j = k
       /\ Waiting(t, "tts.segment") => \A j \in Events(t, {"tts.segment"}) : j <= i

LEMMA EventsAppended ==
  ASSUME TypeOK, TalkInv, NEW p \in Procs, Xadd(p), NEW t \in Turns, NEW types
  PROVE  LET e == Head(out[p])
         IN  /\ Len(stream[t]) \in Nat
             /\ \A i \in Events(t, types) : i \in Nat /\ i <= Len(stream[t])
             /\ Events(t, types)' = IF t = e.turn /\ e.type \in types
                                    THEN Events(t, types) \cup {Len(stream[t]) + 1} ELSE Events(t, types)
<1> DEFINE e == Head(out[p])
           new == [type |-> e.type, seq |-> held[p]]
<1>1. stream[t] \in Seq(StreamEntry) /\ stream \in [Turns -> Seq(StreamEntry)]
  BY DEF TypeOK, BusType
<1>2. stream' = [stream EXCEPT ![e.turn] = Append(@, new)]
  BY DEF Xadd
<1>3. PICK n \in Nat : n = Len(stream[t])
  BY <1>1
<1>4. DOMAIN stream[t] = 1..n
  BY <1>1, <1>3
<1>5. \A i \in Events(t, types) : i \in Nat /\ i <= Len(stream[t])
  BY <1>3, <1>4 DEF Events
<1>6. CASE t # e.turn
  <2>1. stream'[t] = stream[t]
    BY <1>1, <1>2, <1>6
  <2> QED BY <1>3, <1>5, <1>6, <2>1 DEF Events
<1>7. CASE t = e.turn
  <2>1. stream'[t] = Append(stream[t], new)
    BY <1>1, <1>2, <1>7
  <2>2. new.type = e.type
    OBVIOUS
  <2> HIDE DEF new, e
  <2>3. /\ DOMAIN stream'[t] = 1..(n + 1) /\ stream'[t][n + 1] = new
        /\ \A i \in 1..n : stream'[t][i] = stream[t][i]
    BY <1>1, <1>3, <2>1
  <2>4. \A i : i \in 1..(n + 1) <=> i \in 1..n \/ i = n + 1
    BY <1>3
  <2>5. \A i : i \in Events(t, types)' <=> i \in Events(t, types) \/ (i = n + 1 /\ e.type \in types)
    BY <1>3, <1>4, <2>2, <2>3, <2>4 DEF Events
  <2> QED BY <1>3, <1>5, <1>7, <2>5 DEF e
<1> QED BY <1>6, <1>7

LEMMA EventsFinite ==
  ASSUME TypeOK, NEW t \in Turns, NEW types
  PROVE  IsFiniteSet(Events(t, types)) /\ Cardinality(Events(t, types)) \in Nat
<1>1. PICK n \in Nat : DOMAIN stream[t] = 1..n
  <2>1. stream[t] \in Seq(StreamEntry)
    BY DEF TypeOK, BusType
  <2> QED BY <2>1
<1>2. IsFiniteSet(1..n)
  BY FS_Interval
<1>3. Events(t, types) \in SUBSET (1..n)
  BY <1>1 DEF Events
<1> QED BY <1>2, <1>3, FS_Subset, FS_CardinalityType

LEMMA TriesMove ==
  ASSUME TypeOK, TalkInv, [Next]_vars, NEW t \in Turns
  PROVE  \/ tries'[t] = tries[t] /\ (wpc'[t] \in Early => wpc[t] \in Early)
         \/ tries'[t] = tries[t] + 1 /\ wpc[t] = "off"
<1> USE DEF TypeOK, JobType, Early
<1>1. ASSUME NEW r \in Reqs, \/ Create(r) \/ Select(r) \/ SupersedeFlag(r) \/ Commit(r)
                             \/ CommitConflict(r) \/ Enqueue(r) \/ CancelFlag(r) \/ ApiCrash(r)
                             \/ \E u \in Turns : CancelTurn(r, u)
      PROVE  UNCHANGED <<tries, wpc>>
  BY <1>1 DEF Create, Lookup, Select, SupersedeFlag, Commit, CommitConflict, Enqueue, CancelFlag,
              ApiCrash, CancelTurn, jobVars
<1>2. ASSUME NEW u \in Turns,
             JobStart(u) \/ JobReturn(u) \/ JobGiveUp(u) \/ UploadExpires(u) \/ WorkerFault(u)
      PROVE  \/ tries'[t] = tries[t] /\ (wpc'[t] \in Early => wpc[t] \in Early)
             \/ tries'[t] = tries[t] + 1 /\ wpc[t] = "off"
  BY <1>2 DEF JobStart, JobReturn, JobGiveUp, UploadExpires, WorkerFault, jobVars
<1>3. ASSUME NEW u \in Turns, Process(u)
      PROVE  tries'[t] = tries[t] /\ (wpc'[t] \in Early => wpc[t] \in Early)
  BY <1>3, ProcessFrame, JobTalks
<1>4. ASSUME NEW p \in Procs, Incr(p) \/ Xadd(p) PROVE UNCHANGED <<tries, wpc>>
  BY <1>4 DEF Incr, Xadd, jobVars
<1>5. CASE UNCHANGED vars
  BY <1>5 DEF vars, jobVars
<1> QED BY <1>1, <1>2, <1>3, <1>4, <1>5, NextCases

\* After XADD a job has no reply and no segment to publish; what it published
\* of these was its own.
LEMMA FirstPublished ==
  ASSUME TypeOK, TalkInv, NEW p \in Procs, Xadd(p), NEW t \in Turns,
         NEW type \in {"reply.ready", "tts.segment"}
  PROVE  /\ Head(out[p]).turn \in Turns
         /\ Waiting(t, type)' => Waiting(t, type) /\ t # p
         /\ Head(out[p]).type = type /\ Head(out[p]).turn = t => p = t /\ Waiting(t, type)
<1>1. Reqs \cap Turns = {} /\ t \in Procs /\ (p \in Reqs \/ p \in Turns)
  BY ConstantsAssumption DEF Procs
<1>2. Manners(p)
  BY DEF TalkInv
<1>3. ASSUME p = t PROVE ~Waiting(t, type)'
  <2>1. SUFFICES ASSUME Waiting(t, type)' PROVE FALSE
    OBVIOUS
  <2>2. out'[p] \in Seq(PendingEvent) /\ out'[p] # <<>>
    <3>1. out[p] \in Seq(PendingEvent) /\ out[p] # <<>>
      BY DEF Xadd, TypeOK, OutType
    <3>2. Tail(out[p]) \in Seq(PendingEvent)
      BY <3>1
    <3> QED BY <1>3, <2>1, <3>2, Published DEF Waiting
  <2>3. 1 \in DOMAIN out'[p]
    BY <2>2
  <2>4. 2 \in DOMAIN out[p] /\ out'[p][1] = out[p][2]
    BY <2>3, Published
  <2> QED BY <1>2, <1>3, <2>1, <2>4 DEF Manners, Waiting
<1>4. t # p => (Waiting(t, type)' => Waiting(t, type))
  BY <1>1, Published DEF Keeps, Waiting
<1>5. ASSUME Head(out[p]).type = type, Head(out[p]).turn = t PROVE p = t /\ Waiting(t, type)
  <2>1. out[p][1].type = type /\ out[p][1].turn = t /\ 1 \in DOMAIN out[p] /\ out[p] # <<>>
    BY <1>5, Published DEF Xadd
  <2> QED BY <1>1, <1>2, <2>1 DEF Manners, Waiting
<1> QED BY <1>3, <1>4, <1>5, Published DEF PendingEvent

LEMMA ReplyNext ==
  ASSUME TypeOK, SegmentsInv, LinkInv, TalkInv, ReplyInv, [Next]_vars
  PROVE  ReplyInv'
<1> SUFFICES ASSUME NEW t \in Turns
    PROVE Cardinality(Events(t, {"reply.ready"})') + One(Waiting(t, "reply.ready"))'
            + One(wpc[t] \in Early)' <= tries'[t]
  BY DEF ReplyInv
<1> DEFINE n == Cardinality(Events(t, {"reply.ready"}))
<1>0. n \in Nat /\ tries[t] \in Nat /\ IsFiniteSet(Events(t, {"reply.ready"})) /\ t \in Procs
  BY EventsFinite, ConstantsAssumption DEF TypeOK, JobType, Procs
<1>9. TypeOK'
  BY TypeNext, ConstantsAssumption
<1>1. n + One(Waiting(t, "reply.ready")) + One(wpc[t] \in Early) <= tries[t]
  BY DEF ReplyInv
<1>2. \/ tries'[t] = tries[t] /\ (wpc'[t] \in Early => wpc[t] \in Early)
      \/ tries'[t] = tries[t] + 1 /\ wpc[t] \notin Early
  BY TriesMove DEF Early
<1>3. ASSUME UNCHANGED stream, Keeps(t) \/ Drops(t) \/ Talks(t)
      PROVE  Cardinality(Events(t, {"reply.ready"})') + One(Waiting(t, "reply.ready"))'
               + One(wpc[t] \in Early)' <= tries'[t]
  <2>1. Events(t, {"reply.ready"})' = Events(t, {"reply.ready"})
    BY <1>3 DEF Events
  <2>2. Waiting(t, "reply.ready")' =>
          Waiting(t, "reply.ready") \/ (wpc[t] \in Early /\ wpc'[t] \notin Early)
    <3>1. CASE Keeps(t) \/ Drops(t)
      BY <3>1 DEF Keeps, Drops, Waiting
    <3>2. CASE Talks(t)
      <4>1. ASSUME Waiting(t, "reply.ready")' PROVE 1 \in DOMAIN out'[t]
        <5>1. out'[t] \in Seq(PendingEvent)
          BY <1>0, <1>9 DEF TypeOK, OutType
        <5> QED BY <4>1, <5>1 DEF Waiting
      <4> QED BY <3>2, <4>1 DEF Talks, Waiting
    <3> QED BY <1>3, <3>1, <3>2
  <2> HIDE DEF n
  <2>3. Cardinality(Events(t, {"reply.ready"})') = n
    BY <2>1 DEF n
  <2> QED BY <1>0, <1>1, <1>2, <2>2, <2>3 DEF One
<1>4. ASSUME NEW p \in Procs, Incr(p)
      PROVE  Cardinality(Events(t, {"reply.ready"})') + One(Waiting(t, "reply.ready"))'
               + One(wpc[t] \in Early)' <= tries'[t]
  BY <1>1, <1>4 DEF Incr, Waiting, Events, One, jobVars
<1>5. ASSUME NEW p \in Procs, Xadd(p)
      PROVE  Cardinality(Events(t, {"reply.ready"})') + One(Waiting(t, "reply.ready"))'
               + One(wpc[t] \in Early)' <= tries'[t]
  <2> DEFINE hit == t = Head(out[p]).turn /\ Head(out[p]).type \in {"reply.ready"}
             place == Len(stream[t]) + 1
  <2>1. UNCHANGED <<wpc, tries>>
    BY <1>5 DEF Xadd, jobVars
  <2>2. Events(t, {"reply.ready"})' =
          IF hit THEN Events(t, {"reply.ready"}) \cup {place} ELSE Events(t, {"reply.ready"})
    BY <1>5, EventsAppended
  <2>3. /\ Waiting(t, "reply.ready")' => Waiting(t, "reply.ready") /\ t # p
        /\ hit => p = t /\ Waiting(t, "reply.ready")
    BY <1>5, FirstPublished
  <2> HIDE DEF hit, place
  <2>4. Cardinality(Events(t, {"reply.ready"}) \cup {place}) \in {n, n + 1}
    <3>1. Cardinality(Events(t, {"reply.ready"}) \cup {place}) =
            IF place \in Events(t, {"reply.ready"}) THEN Cardinality(Events(t, {"reply.ready"}))
            ELSE Cardinality(Events(t, {"reply.ready"})) + 1
      BY <1>0, FS_AddElement
    <3> QED BY <3>1
  <2>5. Cardinality(Events(t, {"reply.ready"}) \cup {place}) \in Nat
        /\ Cardinality(Events(t, {"reply.ready"}) \cup {place}) <= n + 1
    <3> HIDE DEF n
    <3> QED BY <1>0, <2>4
  <2>6. Cardinality(Events(t, {"reply.ready"})') \in Nat
        /\ Cardinality(Events(t, {"reply.ready"})') <= IF hit THEN n + 1 ELSE n
    BY <1>0, <2>2, <2>4, <2>5
  <2> HIDE DEF n
  <2> QED BY <1>0, <1>1, <2>1, <2>3, <2>6 DEF One
<1>6. CASE UNCHANGED stream /\ \A p \in Procs : Keeps(p) \/ Drops(p) \/ Talks(p)
  BY <1>0, <1>3, <1>6
<1> HIDE DEF n
<1> QED BY <1>4, <1>5, <1>6, Talking

\* A try of a job publishes one reply at most, also when it is cut short between
\* the commit and the publication and the job is started again.
THEOREM RepliesPerTry == Spec => []ReplyPerTry
<1>1. Init => ReplyInv
  <2> SUFFICES ASSUME Init, NEW t \in Turns
      PROVE Cardinality(Events(t, {"reply.ready"})) + One(Waiting(t, "reply.ready"))
              + One(wpc[t] \in Early) <= tries[t]
    BY DEF ReplyInv
  <2>1. Events(t, {"reply.ready"}) = {}
    BY DEF Init, Events
  <2>2. ~Waiting(t, "reply.ready") /\ wpc[t] \notin Early /\ tries[t] = 0
    BY DEF Init, Waiting, Early, Procs
  <2> QED BY <2>1, <2>2, FS_EmptySet DEF One
<1>2. TalkingInv /\ ReplyInv /\ [Next]_vars => ReplyInv'
  BY ReplyNext DEF TalkingInv, RowInv
<1>3. TalkingInv /\ ReplyInv => ReplyPerTry
  <2> SUFFICES ASSUME TalkingInv, ReplyInv, NEW t \in Turns
               PROVE  Cardinality(Events(t, {"reply.ready"})) <= tries[t]
    BY DEF ReplyPerTry
  <2>1. Cardinality(Events(t, {"reply.ready"})) \in Nat /\ tries[t] \in Nat
    BY EventsFinite, ConstantsAssumption DEF TalkingInv, RowInv, TypeOK, JobType
  <2> QED BY <2>1 DEF ReplyInv, One
<1> QED BY <1>1, <1>2, <1>3, TalkingAlways, PTL DEF Spec

-----------------------------------------------------------------------------
LEMMA FlagGrows == ASSUME TypeOK, [Next]_vars PROVE flag \subseteq flag'
<1>1. ASSUME NEW r \in Reqs, \/ Create(r) \/ Select(r) \/ SupersedeFlag(r) \/ Commit(r)
                             \/ CommitConflict(r) \/ Enqueue(r) \/ CancelFlag(r) \/ ApiCrash(r)
                             \/ \E u \in Turns : CancelTurn(r, u)
      PROVE  flag \subseteq flag'
  BY <1>1 DEF Create, Lookup, Select, SupersedeFlag, Commit, CommitConflict, Enqueue, CancelFlag,
              ApiCrash, CancelTurn, busVars
<1>2. ASSUME NEW u \in Turns,
             JobStart(u) \/ JobReturn(u) \/ JobGiveUp(u) \/ UploadExpires(u) \/ WorkerFault(u)
      PROVE  flag \subseteq flag'
  BY <1>2 DEF JobStart, JobReturn, JobGiveUp, UploadExpires, WorkerFault, busVars
<1>3. ASSUME NEW u \in Turns, Process(u) PROVE flag \subseteq flag'
  BY <1>3, ProcessFrame DEF busVars
<1>4. ASSUME NEW p \in Procs, Incr(p) \/ Xadd(p) PROVE flag \subseteq flag'
  BY <1>4 DEF Incr, Xadd
<1>5. CASE UNCHANGED vars
  BY <1>5 DEF vars, busVars
<1> QED BY <1>1, <1>2, <1>3, <1>4, <1>5, NextCases

\* What is said of one turn in LateInv.
Bounded(t) == \A i \in Events(t, {"turn.cancelled"}) :
  /\ \A j, k \in Events(t, {"tts.segment"}) : j > i /\ k > i => j = k
  /\ Waiting(t, "tts.segment") => \A j \in Events(t, {"tts.segment"}) : j <= i

LEMMA LateQuiet ==
  ASSUME TypeOK, SegmentsInv, LinkInv, TalkInv, LateInv, [Next]_vars, UNCHANGED stream,
         \A p \in Procs : Keeps(p) \/ Drops(p) \/ Talks(p)
  PROVE  LateInv'
<1>1. flag \subseteq flag'
  BY FlagGrows
<1>2. \A t \in Turns, type \in EventTypes : Events(t, {type})' = Events(t, {type})
  BY DEF Events
<1>3. \A t \in Turns : (Events(t, {"turn.cancelled"}) # {} => t \in flag)'
  BY <1>1, <1>2 DEF LateInv, EventTypes
<1>4. ASSUME NEW p \in Procs, NEW i \in DOMAIN out'[p], out'[p][i].type = "turn.cancelled"
      PROVE  out'[p][i].turn \in flag'
  <2>1. CASE Keeps(p)
    BY <1>1, <1>4, <2>1 DEF Keeps, LateInv
  <2>2. CASE Drops(p)
    BY <1>4, <2>2 DEF Drops
  <2>3. CASE Talks(p)
    BY <1>4, <2>3 DEF Talks
  <2> QED BY <2>1, <2>2, <2>3
<1>5. ASSUME NEW t \in Turns PROVE Bounded(t)'
  <2>0. t \in Procs
    BY DEF Procs
  <2>1. SUFFICES ASSUME Events(t, {"turn.cancelled"}) # {},
                        Waiting(t, "tts.segment")'
                 PROVE  Waiting(t, "tts.segment")
    BY <1>2 DEF Bounded, LateInv, EventTypes
  <2>2. t \in flag
    BY <2>1 DEF LateInv
  <2>3. CASE Keeps(t) \/ Drops(t)
    BY <2>1, <2>3 DEF Keeps, Drops, Waiting
  <2>4. CASE Talks(t)
    <3>1. 1 \in DOMAIN out'[t]
      <4>1. TypeOK'
        BY TypeNext, ConstantsAssumption
      <4>2. out'[t] \in Seq(PendingEvent)
        BY <2>0, <4>1 DEF TypeOK, OutType
      <4> QED BY <2>1, <4>2 DEF Waiting
    <3> QED BY <2>1, <2>2, <2>4, <3>1 DEF Talks, Waiting
  <2> QED BY <2>0, <2>3, <2>4
<1> QED BY <1>3, <1>4, <1>5 DEF LateInv, Bounded

LEMMA LateXadd ==
  ASSUME TypeOK, TalkInv, LateInv, NEW p \in Procs, Xadd(p)
  PROVE  LateInv'
<1> DEFINE e == Head(out[p])
<1>0. /\ e = out[p][1] /\ 1 \in DOMAIN out[p] /\ e.turn \in Turns /\ e.type \in EventTypes
      /\ UNCHANGED flag
  BY Published DEF Xadd, PendingEvent
<1>1. \A q \in Procs : \A i \in DOMAIN out'[q] : out'[q][i].type = "turn.cancelled" => out'[q][i].turn \in flag'
  BY <1>0, Published DEF LateInv, Keeps
<1>2. ASSUME NEW t \in Turns
      PROVE  (Events(t, {"turn.cancelled"}) # {} => t \in flag)' /\ Bounded(t)'
  <2> DEFINE n == Len(stream[t])
             cut == Events(t, {"turn.cancelled"})
             said == Events(t, {"tts.segment"})
             pending == Waiting(t, "tts.segment")
  <2>1. n \in Nat /\ \A i \in cut \cup said : i \in Nat /\ i <= n
    BY EventsAppended
  <2>2. cut' = IF t = e.turn /\ e.type = "turn.cancelled" THEN cut \cup {n + 1} ELSE cut
    BY EventsAppended
  <2>3. said' = IF t = e.turn /\ e.type = "tts.segment" THEN said \cup {n + 1} ELSE said
    BY EventsAppended
  <2>4. /\ pending' => pending /\ t # p
        /\ e.type = "tts.segment" /\ e.turn = t => p = t /\ pending
    BY FirstPublished
  <2>5. e.type = "turn.cancelled" /\ e.turn = t => t \in flag
    BY <1>0 DEF LateInv
  <2>6. cut # {} => t \in flag
    BY DEF LateInv
  <2>7. \A i \in cut : /\ \A j, k \in said : j > i /\ k > i => j = k
                       /\ pending => \A j \in said : j <= i
    BY DEF LateInv
  <2>8. (Events(t, {"turn.cancelled"}) # {} => t \in flag)' <=> (cut' # {} => t \in flag')
    OBVIOUS
  <2>9. Bounded(t)' <=> \A i \in cut' : /\ \A j, k \in said' : j > i /\ k > i => j = k
                                        /\ pending' => \A j \in said' : j <= i
    BY DEF Bounded
  <2> HIDE DEF cut, said, n, pending, e
  <2>10. CASE ~(t = e.turn /\ e.type \in {"turn.cancelled", "tts.segment"})
    BY <1>0, <2>2, <2>3, <2>4, <2>6, <2>7, <2>8, <2>9, <2>10
  <2>11. CASE t = e.turn /\ e.type = "turn.cancelled"
    <3>1. cut' = cut \cup {n + 1} /\ said' = said /\ t \in flag'
      BY <1>0, <2>2, <2>3, <2>5, <2>11
    <3>2. \A j \in said : j <= n + 1 /\ ~(j > n + 1)
      BY <2>1
    <3> QED BY <2>4, <2>7, <2>8, <2>9, <3>1, <3>2
  <2>12. CASE t = e.turn /\ e.type = "tts.segment"
    <3>1. cut' = cut /\ said' = said \cup {n + 1} /\ ~pending' /\ pending
      BY <2>2, <2>3, <2>4, <2>12
    <3>2. \A i \in cut : \A j \in said : ~(j > i)
      BY <2>1, <2>7, <3>1
    <3> QED BY <1>0, <2>6, <2>8, <2>9, <3>1, <3>2
  <2> QED BY <2>10, <2>11, <2>12
<1> QED BY <1>1, <1>2 DEF LateInv, Bounded

LEMMA LateNext ==
  ASSUME TypeOK, SegmentsInv, LinkInv, TalkInv, LateInv, [Next]_vars
  PROVE  LateInv'
<1>1. ASSUME NEW p \in Procs, Incr(p) PROVE LateInv'
  BY <1>1 DEF Incr, LateInv, Waiting, Events
<1> QED BY <1>1, LateQuiet, LateXadd, Talking

\* The check before each segment reads the flag that a cancellation sets before
\* it publishes: whoever cancels, one segment can have passed it.
THEOREM OneSegmentPasses == Spec => []OneLateSegment
<1>1. Init => LateInv
  BY DEF Init, LateInv, Events
<1>2. TalkingInv /\ LateInv /\ [Next]_vars => LateInv'
  BY LateNext DEF TalkingInv, RowInv
<1>3. TalkingInv /\ LateInv => OneLateSegment
  <2> SUFFICES ASSUME TalkingInv, LateInv, NEW t \in Turns, NEW i \in Events(t, {"turn.cancelled"})
               PROVE  Cardinality({j \in Events(t, {"tts.segment"}) : j > i}) <= 1
    BY DEF OneLateSegment
  <2> DEFINE late == {j \in Events(t, {"tts.segment"}) : j > i}
  <2>1. \A j, k \in late : j = k
    BY DEF LateInv
  <2> HIDE DEF late
  <2>2. CASE late = {}
    BY <2>2, FS_EmptySet DEF late
  <2>3. CASE late # {}
    <3>1. PICK j : late = {j}
      BY <2>1, <2>3
    <3>2. Cardinality({j}) = 1
      BY FS_Singleton
    <3> QED BY <3>1, <3>2 DEF late
  <2> QED BY <2>2, <2>3
<1> QED BY <1>1, <1>2, <1>3, TalkingAlways, PTL DEF Spec

-----------------------------------------------------------------------------
(* Recordings.                                                             *)

\* Where the job of a turn with a recording on disk is.
Recorded == {"off", "read", "stt_enter", "stt_media", "stt", "stt_provider", "stt_fail",
             "stt_drop", "return"}

\* A recording on disk belongs to a voice turn that has not got past its transcription;
\* a failed one has its job in the finally clause, unless a fault took the job away.
VoiceInv == \A t \in audio :
  /\ kind[t].voice
  /\ wpc[t] \in Recorded
  /\ state[t] \in {"queued", "transcribing", "cancelled", "failed"}
  /\ state[t] = "failed" =>
       wpc[t] = "stt_drop" \/ (faults > 0 /\ wpc[t] \in {"off", "read", "return"})

\* What a step of a job does to its row and to its recording.
LEMMA ProcessVoice ==
  ASSUME TypeOK, LinkInv, VoiceInv, NEW t \in Turns, Process(t)
  PROVE  VoiceInv'
<1> SUFFICES ASSUME NEW u \in audio'
    PROVE /\ kind'[u].voice
          /\ wpc'[u] \in Recorded
          /\ state'[u] \in {"queued", "transcribing", "cancelled", "failed"}
          /\ state'[u] = "failed" =>
               wpc'[u] = "stt_drop" \/ (faults' > 0 /\ wpc'[u] \in {"off", "read", "return"})
  BY DEF VoiceInv
<1>1. UNCHANGED <<kind, faults>> /\ (u # t => wpc'[u] = wpc[u])
  <2> audio' \subseteq Turns
    BY DEF Process, ReadTurn, EnterTranscribing, ReadMedia, StartTranscription, Transcribed, DeleteVoice, StoreTranscript,
           EnterContext, EnterLlm, LlmAnswered, CheckActive, StoreReply, EnterSpeaking, StartBatch,
           Synthesized, EmitSegment, Finish, Fail, TranscriptionFails, TerminalFailure, TypeOK, RowType
  <2> QED BY ProcessFrame
<1>2. audio' \subseteq audio
  BY DEF Process, ReadTurn, EnterTranscribing, ReadMedia, StartTranscription, Transcribed, DeleteVoice, StoreTranscript,
         EnterContext, EnterLlm, LlmAnswered, CheckActive, StoreReply, EnterSpeaking, StartBatch,
         Synthesized, EmitSegment, Finish, Fail, TranscriptionFails, TerminalFailure
<1>3. u \in audio /\ u \in Turns
  BY <1>2 DEF TypeOK, RowType
<1>4. CASE u # t
  <2>1. state'[u] = state[u]
    BY <1>4 DEF Process, ReadTurn, EnterTranscribing, ReadMedia, StartTranscription, Transcribed, DeleteVoice,
         StoreTranscript, EnterContext, EnterLlm, LlmAnswered, CheckActive, StoreReply,
         EnterSpeaking, StartBatch, Synthesized, EmitSegment, Finish, Fail, TranscriptionFails, TerminalFailure, Locked, TypeOK, RowType
  <2> QED BY <1>1, <1>3, <1>4, <2>1 DEF VoiceInv
<1>5. CASE u = t
  <2> USE DEF VoiceInv, Recorded, Step, TypeOK, JobType, RowType
  <2>0. /\ wpc[t] \in Recorded \ {"off", "return"} /\ kind[t].voice
        /\ state[t] \in {"queued", "transcribing", "cancelled", "failed"}
        /\ state[t] = "failed" => wpc[t] = "stt_drop" \/ (faults > 0 /\ wpc[t] = "read")
    <3>1. wpc[t] \notin {"off", "return"}
      BY DEF Process, ReadTurn, EnterTranscribing, ReadMedia, StartTranscription, Transcribed, DeleteVoice,
         StoreTranscript, EnterContext, EnterLlm, LlmAnswered, CheckActive, StoreReply,
         EnterSpeaking, StartBatch, Synthesized, EmitSegment, Finish, Fail, TranscriptionFails, TerminalFailure, Locked
    <3> QED BY <1>3, <1>5, <3>1
  <2>1. CASE ReadTurn(t)
    BY <1>1, <1>5, <2>0, <2>1 DEF ReadTurn, Open, Working
  <2>2. CASE EnterTranscribing(t)
    BY <1>1, <1>5, <2>0, <2>2 DEF EnterTranscribing, Locked, Open, Working
  <2>3. CASE ReadMedia(t) \/ StartTranscription(t) \/ Transcribed(t) \/ DeleteVoice(t)
    BY <1>1, <1>5, <2>0, <2>3 DEF ReadMedia, StartTranscription, Transcribed, DeleteVoice
  <2>4. CASE StoreTranscript(t) \/ EnterContext(t) \/ EnterLlm(t) \/ LlmAnswered(t)
    BY <2>0, <2>4 DEF StoreTranscript, EnterContext, EnterLlm, LlmAnswered, Locked
  <2>5. CASE CheckActive(t) \/ StoreReply(t) \/ EnterSpeaking(t) \/ StartBatch(t)
    BY <2>0, <2>5 DEF CheckActive, StoreReply, EnterSpeaking, StartBatch, Locked
  <2>6. CASE Synthesized(t) \/ EmitSegment(t) \/ Finish(t) \/ Fail(t)
    BY <2>0, <2>6 DEF Synthesized, EmitSegment, Finish, Fail, TerminalFailure, Locked
  <2>7. CASE TranscriptionFails(t)
    BY <1>1, <1>5, <2>0, <2>7 DEF TranscriptionFails, TerminalFailure
  <2> QED BY <2>1, <2>2, <2>3, <2>4, <2>5, <2>6, <2>7 DEF Process
<1> QED BY <1>4, <1>5

LEMMA VoiceNext ==
  ASSUME TypeOK, LinkInv, VoiceInv, [Next]_vars
  PROVE  VoiceInv'
<1>0. audio \subseteq Turns /\ faults \in Nat
  BY ConstantsAssumption DEF TypeOK, RowType, OutType
<1> DEFINE Moves(u) ==
      \/ wpc'[u] = wpc[u] /\ (faults > 0 => faults' > 0)
      \/ wpc'[u] = "off" /\ (faults' > 0 \/ (wpc[u] = "return" /\ faults' = faults))
      \/ wpc[u] = "off" /\ wpc'[u] = "read" /\ faults' = faults
<1>1. ASSUME NEW r \in Reqs, Commit(r) PROVE VoiceInv'
  <2>1. state[req[r].turn] = "none" /\ wpc[req[r].turn] = "off" /\ req[r].turn \in Turns
        /\ kind \in [Turns -> Kinds] /\ state \in [Turns -> States]
    BY <1>1 DEF Commit, LinkInv, Inserting, TypeOK, RowType, ApiType, ReqTypes
  <2>2. UNCHANGED <<wpc, faults>>
    BY <1>1 DEF Commit, jobVars
  <2>3. ASSUME NEW u \in audio
        PROVE  u # req[r].turn /\ kind'[u] = kind[u] /\ state'[u] \in {state[u], "cancelled"}
    BY <1>0, <1>1, <2>1, <2>3 DEF VoiceInv, Commit
  <2>4. audio' \subseteq audio \cup {req[r].turn} /\ (req[r].turn \in audio' => kind'[req[r].turn].voice)
    BY <1>1, <2>1, <2>3 DEF Commit
  <2>5. state'[req[r].turn] = "queued"
    BY <1>1, <2>1 DEF Commit
  <2> QED BY <2>1, <2>2, <2>3, <2>4, <2>5 DEF VoiceInv, Recorded
<1>2. ASSUME NEW r \in Reqs, NEW t \in Turns, CancelTurn(r, t) PROVE VoiceInv'
  BY <1>0, <1>2 DEF CancelTurn, VoiceInv, TypeOK, RowType, jobVars
<1>3. ASSUME NEW t \in Turns, Process(t) PROVE VoiceInv'
  BY <1>3, ProcessVoice
<1>4. ASSUME UNCHANGED <<state, kind>>, audio' \subseteq audio,
             \A u \in audio' : Moves(u)
      PROVE  VoiceInv'
  BY <1>0, <1>4 DEF VoiceInv, Recorded
<1>5. ASSUME NEW r \in Reqs, \/ Create(r) \/ Select(r) \/ SupersedeFlag(r) \/ CommitConflict(r)
                             \/ Enqueue(r) \/ CancelFlag(r) \/ ApiCrash(r)
      PROVE  UNCHANGED <<state, kind, audio>> /\ \A u \in Turns : Moves(u)
  <2>1. UNCHANGED <<state, kind, audio, wpc>>
    BY <1>5 DEF Create, Lookup, Select, SupersedeFlag, CommitConflict, Enqueue, CancelFlag, ApiCrash,
                rowVars, jobVars
  <2>2. faults' \in {faults, faults + 1}
    BY <1>5 DEF Create, Lookup, Select, SupersedeFlag, CommitConflict, Enqueue, CancelFlag, ApiCrash,
                Fault
  <2> QED BY <1>0, <2>1, <2>2
<1>6. ASSUME NEW t \in Turns,
             JobStart(t) \/ JobReturn(t) \/ JobGiveUp(t) \/ UploadExpires(t) \/ WorkerFault(t)
      PROVE  UNCHANGED <<state, kind>> /\ audio' \subseteq audio
             /\ \A u \in Turns : Moves(u)
  BY <1>0, <1>6 DEF JobStart, JobReturn, JobGiveUp, UploadExpires, WorkerFault, Cleaned, Fault,
                    rowVars, jobVars, TypeOK, RowType, JobType, OutType
<1>7. ASSUME NEW p \in Procs, Incr(p) \/ Xadd(p)
      PROVE  UNCHANGED <<state, kind, audio>> /\ \A u \in Turns : Moves(u)
  BY <1>7 DEF Incr, Xadd, rowVars, jobVars
<1>8. CASE UNCHANGED vars
  BY <1>4, <1>8 DEF vars, rowVars, jobVars
<1> HIDE DEF Moves
<1>9. audio' \subseteq audio /\ (\A u \in Turns : Moves(u)) => \A u \in audio' : Moves(u)
  BY <1>0
<1> QED BY <1>1, <1>2, <1>3, <1>4, <1>5, <1>6, <1>7, <1>8, <1>9, NextCases

\* Every way out of the transcription deletes the recording, the failure's after it is
\* stored; a turn that was cut short before that starts with it again.
THEOREM RecordingsAreTransient == Spec => []VoiceIsTransient
<1>1. Init => VoiceInv
  BY DEF Init, VoiceInv
<1>2. RowInv /\ VoiceInv /\ [Next]_vars => VoiceInv'
  BY VoiceNext DEF RowInv
<1>3. VoiceInv => VoiceIsTransient
  BY DEF VoiceInv, VoiceIsTransient
<1> QED BY <1>1, <1>2, <1>3, RowsCorrect, PTL DEF Spec

-----------------------------------------------------------------------------
(* The owner of an open turn, with one handler at a time and no faults.    *)

Reliable == MaxFaults = 0 /\ MaxTries > 0
CancelOwed(t) == \E r \in Reqs : req[r].pc = "commit" /\ req[r].active = t

\* A job ends early only when somebody is about to cancel its turn, or without its
\* recording, and is started once.
OwnedInv ==
  /\ OpenTurnOwned
  /\ \A t \in Turns :
       /\ Open(t) /\ t \in flag => CancelOwed(t)
       /\ Open(t) /\ wpc[t] = "return" => t \in flag \/ Stranded(t)
       /\ Open(t) /\ wpc[t] = "stt_media" => state[t] = "transcribing"
       /\ wpc[t] = "stt_drop" => ~Open(t)
       /\ wpc[t] # "off" => t \in queue
       /\ t \in flag => state[t] # "none"
       /\ t \in queue /\ wpc[t] = "off" => tries[t] = 0
       /\ state[t] = "none" => tries[t] = 0
  /\ \A r \in Reqs :
       /\ req[r].pc \in Inserting => ~Taken(req[r].kind.client)
       /\ req[r].pc = "enqueue" => /\ req[r].turn \notin queue
                                   /\ wpc[req[r].turn] = "off" /\ tries[req[r].turn] = 0
       /\ req[r].pc = "cancelled" => state[req[r].turn] \in Terminal

\* A job changes the row of its own turn only.
LEMMA ProcessTouchesOnly ==
  ASSUME TypeOK, NEW u \in Turns, Process(u), NEW t \in Turns, t # u
  PROVE  state'[t] = state[t]
BY DEF Process, ReadTurn, EnterTranscribing, ReadMedia, StartTranscription, Transcribed, DeleteVoice, StoreTranscript,
       EnterContext, EnterLlm, LlmAnswered, CheckActive, StoreReply, EnterSpeaking, StartBatch,
       Synthesized, EmitSegment, Finish, Fail, TranscriptionFails, TerminalFailure, Locked, TypeOK, RowType

\* A job gets to its end with an open turn only when the cancel flag is set or the
\* recording has expired.
LEMMA ProcessReturns ==
  ASSUME TypeOK, NEW t \in Turns, Process(t),
         Open(t) /\ wpc[t] = "stt_media" => state[t] = "transcribing",
         wpc[t] = "stt_drop" => ~Open(t)
  PROVE  /\ wpc[t] \notin {"off", "return"} /\ wpc'[t] # "off"
         /\ wpc[t] = "stt_media" => wpc'[t] # "stt_media"
         /\ wpc'[t] = "return" => t \in flag \/ ~Open(t)' \/ Stranded(t)'
         /\ Open(t)' /\ wpc'[t] = "stt_media" => state'[t] = "transcribing"
         /\ wpc'[t] = "stt_drop" => ~Open(t)'
<1> USE DEF Step, TypeOK, JobType, RowType, Locked, Open, IsActive, Working, Stranded
<1>1. CASE ReadTurn(t) \/ StartTranscription(t) \/ Transcribed(t) \/ DeleteVoice(t)
  BY <1>1 DEF ReadTurn, StartTranscription, Transcribed, DeleteVoice
<1>2. CASE StoreTranscript(t) \/ EnterContext(t) \/ EnterLlm(t) \/ LlmAnswered(t)
  BY <1>2 DEF StoreTranscript, EnterContext, EnterLlm, LlmAnswered
<1>3. CASE CheckActive(t) \/ StoreReply(t) \/ EnterSpeaking(t) \/ StartBatch(t)
  BY <1>3 DEF CheckActive, StoreReply, EnterSpeaking, StartBatch
<1>4. CASE Synthesized(t) \/ EmitSegment(t) \/ Finish(t)
  BY <1>4 DEF Synthesized, EmitSegment, Finish
<1>5. CASE Fail(t) \/ TranscriptionFails(t)
  BY <1>5 DEF Fail, TranscriptionFails, TerminalFailure
<1>6. CASE EnterTranscribing(t) \/ ReadMedia(t)
  BY <1>6 DEF EnterTranscribing, ReadMedia
<1> QED BY <1>1, <1>2, <1>3, <1>4, <1>5, <1>6 DEF Process

\* No step opens a turn but the commit of its handler.
LEMMA Opens ==
  ASSUME TypeOK, LinkInv, [Next]_vars, \A r \in Reqs : ~Commit(r), NEW t \in Turns
  PROVE  /\ state[t] = "none" <=> state'[t] = "none"
         /\ Open(t)' => Open(t)
         /\ state[t] \in Terminal => state'[t] \in Terminal
         /\ UNCHANGED kind
<1> USE DEF RowMove, Open, Working, Terminal
<1>1. CASE UNCHANGED <<state, kind>>
  BY <1>1
<1>2. ASSUME NEW u \in Turns, Process(u)
      PROVE  /\ state[t] = "none" <=> state'[t] = "none"
             /\ Open(t)' => Open(t)
             /\ state[t] \in Terminal => state'[t] \in Terminal
             /\ UNCHANGED kind
  BY <1>2, ProcessRows, ProcessTouches, ProcessFrame
<1>3. ASSUME NEW r \in Reqs, NEW u \in Turns, CancelTurn(r, u)
      PROVE  /\ state[t] = "none" <=> state'[t] = "none"
             /\ Open(t)' => Open(t)
             /\ state[t] \in Terminal => state'[t] \in Terminal
             /\ UNCHANGED kind
  BY <1>3 DEF CancelTurn, TypeOK, RowType
<1>4. ASSUME NEW r \in Reqs, \/ Create(r) \/ Select(r) \/ SupersedeFlag(r) \/ CommitConflict(r)
                             \/ Enqueue(r) \/ CancelFlag(r) \/ ApiCrash(r)
      PROVE  UNCHANGED <<state, kind>>
  BY <1>4 DEF Create, Lookup, Select, SupersedeFlag, CommitConflict, Enqueue, CancelFlag, ApiCrash,
              rowVars
<1>5. ASSUME NEW u \in Turns,
             JobStart(u) \/ JobReturn(u) \/ JobGiveUp(u) \/ UploadExpires(u) \/ WorkerFault(u)
      PROVE  UNCHANGED <<state, kind>>
  BY <1>5 DEF JobStart, JobReturn, JobGiveUp, UploadExpires, WorkerFault, rowVars
<1>6. ASSUME NEW p \in Procs, Incr(p) \/ Xadd(p) PROVE UNCHANGED <<state, kind>>
  BY <1>6 DEF Incr, Xadd, rowVars
<1>7. ASSUME UNCHANGED vars PROVE UNCHANGED <<state, kind>>
  BY <1>7 DEF vars, rowVars
<1> QED BY <1>1, <1>2, <1>3, <1>4, <1>5, <1>6, <1>7, NextCases

\* Once no job works on it, a turn that is being transcribed stays so until it is cancelled,
\* and a recording that has expired does not come back.
LEMMA RowStays ==
  ASSUME TypeOK, LinkInv, [Next]_vars, NEW t \in Turns, state[t] = "transcribing",
         wpc[t] \in {"off", "return"} \/ (wpc[t] = "stt_media" /\ wpc'[t] = "stt_media")
  PROVE  /\ state'[t] \in {"transcribing", "cancelled"}
         /\ t \notin uploads => t \notin uploads'
<1> USE DEF TypeOK, RowType
<1>1. ASSUME NEW r \in Reqs, Commit(r)
      PROVE  state'[t] \in {"transcribing", "cancelled"} /\ (t \notin uploads => t \notin uploads')
  <2>1. t # req[r].turn
    BY <1>1 DEF Commit, LinkInv, Inserting
  <2> QED BY <1>1, <2>1 DEF Commit
<1>2. ASSUME NEW u \in Turns, Process(u)
      PROVE  state'[t] \in {"transcribing", "cancelled"} /\ (t \notin uploads => t \notin uploads')
  <2>1. u # t
    BY <1>2 DEF Process, ReadTurn, EnterTranscribing, ReadMedia, StartTranscription, Transcribed,
         DeleteVoice, StoreTranscript, EnterContext, EnterLlm, LlmAnswered, CheckActive, StoreReply,
         EnterSpeaking, StartBatch, Synthesized, EmitSegment, Finish, Fail, TranscriptionFails,
         TerminalFailure, Locked, Step, JobType
  <2>2. state'[t] = state[t]
    BY <1>2, <2>1, ProcessTouchesOnly
  <2>3. UNCHANGED uploads
    BY <1>2, ProcessFrame
  <2> QED BY <2>2, <2>3
<1>3. ASSUME NEW r \in Reqs, NEW u \in Turns, CancelTurn(r, u)
      PROVE  state'[t] \in {"transcribing", "cancelled"} /\ UNCHANGED uploads
  BY <1>3 DEF CancelTurn
<1>4. ASSUME NEW r \in Reqs, \/ Create(r) \/ Select(r) \/ SupersedeFlag(r) \/ CommitConflict(r)
                             \/ Enqueue(r) \/ CancelFlag(r) \/ ApiCrash(r)
      PROVE  UNCHANGED <<state, uploads>>
  BY <1>4 DEF Create, Lookup, Select, SupersedeFlag, CommitConflict, Enqueue, CancelFlag, ApiCrash,
              rowVars
<1>5. ASSUME NEW u \in Turns,
             JobStart(u) \/ JobReturn(u) \/ JobGiveUp(u) \/ UploadExpires(u) \/ WorkerFault(u)
      PROVE  UNCHANGED state /\ uploads' \subseteq uploads
  BY <1>5 DEF JobStart, JobReturn, JobGiveUp, UploadExpires, WorkerFault, rowVars
<1>6. ASSUME NEW p \in Procs, Incr(p) \/ Xadd(p) PROVE UNCHANGED <<state, uploads>>
  BY <1>6 DEF Incr, Xadd, rowVars
<1>7. CASE UNCHANGED vars
  BY <1>7 DEF vars, rowVars
<1> QED BY <1>1, <1>2, <1>3, <1>4, <1>5, <1>6, <1>7, NextCases

\* A handler moves on, with its own record only.
LEMMA HandlerMoves ==
  ASSUME TypeOK, NEW h \in Reqs
  PROVE  /\ Create(h) => req[h].pc = "idle" /\ req'[h].pc = "select" /\ ~Taken(req'[h].kind.client)
         /\ Select(h) => /\ req[h].pc = "select" /\ req'[h].pc \in {"idle", "flag", "commit"}
                         /\ req'[h].pc # "idle" => req'[h].kind = req[h].kind
         /\ SupersedeFlag(h) => /\ req[h].pc = "flag" /\ req'[h].pc = "commit"
                                /\ req'[h].kind = req[h].kind /\ req'[h].active = req[h].active
         /\ Commit(h) => /\ req[h].pc = "commit" /\ req'[h].pc = "enqueue"
                         /\ req'[h].turn = req[h].turn
         /\ Enqueue(h) => req[h].pc = "enqueue" /\ req'[h].pc = "idle"
         /\ CancelFlag(h) => req[h].pc = "cancelled" /\ req'[h].pc = "idle"
<1> USE DEF TypeOK, ApiType, ReqTypes, IdleReq
<1>1. CASE Create(h)
  BY <1>1 DEF Create, Lookup, Select, SupersedeFlag, Commit, Enqueue, CancelFlag
<1>2. Select(h) => /\ req[h].pc = "select" /\ req'[h].pc \in {"idle", "flag", "commit"}
                   /\ req'[h].pc # "idle" => req'[h].kind = req[h].kind
  <2> SUFFICES ASSUME Select(h)
               PROVE  /\ req[h].pc = "select" /\ req'[h].pc \in {"idle", "flag", "commit"}
                      /\ req'[h].pc # "idle" => req'[h].kind = req[h].kind
    OBVIOUS
  <2>1. PICK b \in Turns \cup {NoTurn} :
          \/ req' = [req EXCEPT ![h] = IdleReq]
          \/ req' = [req EXCEPT ![h] = [@ EXCEPT !.active = b, !.pc = IF b = NoTurn THEN "commit" ELSE "flag"]]
    BY DEF Select
  <2>2. req[h].pc = "select"
    BY DEF Select
  <2>3. req \in [Reqs -> ReqTypes]
    OBVIOUS
  <2>4. CASE req' = [req EXCEPT ![h] = IdleReq]
    BY <2>2, <2>3, <2>4
  <2>5. CASE req' = [req EXCEPT ![h] = [@ EXCEPT !.active = b, !.pc = IF b = NoTurn THEN "commit" ELSE "flag"]]
    BY <2>2, <2>3, <2>5
  <2> QED BY <2>1, <2>4, <2>5
<1>3. SupersedeFlag(h) => /\ req[h].pc = "flag" /\ req'[h].pc = "commit"
                          /\ req'[h].kind = req[h].kind /\ req'[h].active = req[h].active
  BY DEF SupersedeFlag
<1>4. Commit(h) => req[h].pc = "commit" /\ req'[h].pc = "enqueue" /\ req'[h].turn = req[h].turn
  BY DEF Commit
<1>5. Enqueue(h) => req[h].pc = "enqueue" /\ req'[h].pc = "idle"
  BY DEF Enqueue
<1>6. CancelFlag(h) => req[h].pc = "cancelled" /\ req'[h].pc = "idle"
  BY DEF CancelFlag
<1> QED BY <1>1, <1>2, <1>3, <1>4, <1>5, <1>6

\* The part of OwnedInv about rows and jobs, and that about handlers.
JobOwned(t) ==
  /\ Open(t) /\ t \in flag => CancelOwed(t)
  /\ Open(t) /\ wpc[t] = "return" => t \in flag \/ Stranded(t)
  /\ Open(t) /\ wpc[t] = "stt_media" => state[t] = "transcribing"
  /\ wpc[t] = "stt_drop" => ~Open(t)
  /\ wpc[t] # "off" => t \in queue
  /\ t \in flag => state[t] # "none"
  /\ t \in queue /\ wpc[t] = "off" => tries[t] = 0
  /\ state[t] = "none" => tries[t] = 0
HandlerOwned(r) ==
  /\ req[r].pc \in Inserting => ~Taken(req[r].kind.client)
  /\ req[r].pc = "enqueue" => /\ req[r].turn \notin queue
                              /\ wpc[req[r].turn] = "off" /\ tries[req[r].turn] = 0
  /\ req[r].pc = "cancelled" => state[req[r].turn] \in Terminal

LEMMA OwnedNext ==
  ASSUME SerialApi, Reliable, TypeOK, SegmentsInv, LinkInv, OwnedInv, [Next]_vars
  PROVE  OwnedInv'
<1>0. PICK h : Reqs = {h}
  BY DEF SerialApi
<1>1. /\ \A t \in Turns : JobOwned(t)
      /\ HandlerOwned(h)
      /\ \A t \in Turns : Open(t) => \/ t \in queue
                                     \/ req[h].pc = "enqueue" /\ req[h].turn = t
                                     \/ req[h].pc = "commit" /\ req[h].active = t
                                     \/ Stranded(t)
      /\ \A t \in Turns : CancelOwed(t) <=> req[h].pc = "commit" /\ req[h].active = t
  BY <1>0 DEF OwnedInv, OpenTurnOwned, JobOwned, HandlerOwned, CancelOwed
<1> DEFINE Owned(t) == Open(t) => \/ t \in queue
                                  \/ req[h].pc = "enqueue" /\ req[h].turn = t
                                  \/ req[h].pc = "commit" /\ req[h].active = t
                                  \/ Stranded(t)
<1>01. ASSUME NEW t \in Turns, Open(t)',
              wpc[t] \in {"off", "return"} \/ (wpc[t] = "stt_media" /\ wpc'[t] = "stt_media")
       PROVE  /\ state[t] = "transcribing" => state'[t] = "transcribing"
              /\ Stranded(t) => Stranded(t)'
  BY <1>01, RowStays DEF Open, Working, Stranded
<1>2. SUFFICES /\ \A t \in Turns : JobOwned(t)' /\ Owned(t)'
               /\ HandlerOwned(h)'
  BY <1>0 DEF OwnedInv, OpenTurnOwned, JobOwned, HandlerOwned, CancelOwed
<1>3. \A t \in Turns : CancelOwed(t)' <=> req'[h].pc = "commit" /\ req'[h].active = t
  BY <1>0 DEF CancelOwed
<1>4. (\A r \in Reqs : ~ApiCrash(r)) /\ (\A t \in Turns : ~WorkerFault(t))
  BY DEF Reliable, TypeOK, OutType, ApiCrash, WorkerFault, Fault
<1>5. ~CommitConflict(h)
  BY <1>1 DEF HandlerOwned, CommitConflict, Inserting
<1>6. \A t \in Turns : ~JobGiveUp(t)
  BY <1>1 DEF JobOwned, JobGiveUp, Reliable, ConstantsAssumption
<1>7. CASE Commit(h)
  <2> DEFINE new == req[h].turn
             old == req[h].active
  <2>1. /\ new \in Turns /\ state[new] = "none" /\ new \notin queue /\ wpc[new] = "off"
        /\ tries[new] = 0 /\ new \notin flag
    BY <1>0, <1>1, <1>7 DEF Commit, LinkInv, Inserting, TypeOK, ApiType, ReqTypes, JobOwned
  <2>2. /\ req'[h].pc = "enqueue" /\ req'[h].turn = new
        /\ UNCHANGED <<flag, queue, wpc, tries>>
    BY <1>0, <1>7, HandlerMoves DEF Commit, busVars, jobVars
  <2>3. req[h].pc = "commit"
    BY <1>7 DEF Commit
  <2>4. \A t \in Turns : state'[t] = IF t = new THEN "queued" ELSE IF t = old THEN "cancelled" ELSE state[t]
    BY <1>7 DEF Commit
  <2>5. old # new
    BY <1>0, <2>1 DEF LinkInv, NoTurn, Turns
  <2> HIDE DEF new, old
  <2>6. ASSUME NEW t \in Turns PROVE JobOwned(t)' /\ Owned(t)'
    <3>1. CASE t = new
      BY <2>1, <2>2, <2>4, <3>1 DEF JobOwned, Open
    <3>2. CASE t = old
      BY <1>1, <2>2, <2>4, <2>5, <3>2 DEF JobOwned, Open, Working
    <3>3. CASE t # new /\ t # old
      <4>1. state'[t] = state[t] /\ ~CancelOwed(t)
        BY <1>1, <2>4, <3>3 DEF old
      <4> QED BY <1>01, <1>1, <2>2, <2>3, <3>3, <4>1 DEF JobOwned, Open, old
    <3> QED BY <3>1, <3>2, <3>3
  <2>7. HandlerOwned(h)'
    BY <2>1, <2>2 DEF HandlerOwned, Inserting
  <2> QED BY <2>6, <2>7
<1>8. CASE \A r \in Reqs : ~Commit(r)
  <2>0. \A t \in Turns : /\ state[t] = "none" <=> state'[t] = "none"
                         /\ Open(t)' => Open(t)
                         /\ state[t] \in Terminal => state'[t] \in Terminal
    BY <1>8, Opens
  <2>01. \A c : Taken(c)' <=> Taken(c)
    BY <1>8, Opens DEF Taken
  <2>1. ASSUME UNCHANGED <<flag, queue, wpc, tries, req>>
        PROVE  (\A t \in Turns : JobOwned(t)' /\ Owned(t)') /\ HandlerOwned(h)'
    <3>1. HandlerOwned(h)'
      <4>1. req[h].pc = "cancelled" => req[h].turn \in Turns
        BY <1>0 DEF TypeOK, ApiType, ReqTypes
      <4> QED BY <1>1, <2>0, <2>01, <2>1, <4>1 DEF HandlerOwned
    <3> QED BY <1>01, <1>1, <1>3, <2>0, <2>1, <3>1 DEF JobOwned
  <2>2. ASSUME NEW t \in Turns, Process(t)
        PROVE  (\A u \in Turns : JobOwned(u)' /\ Owned(u)') /\ HandlerOwned(h)'
    <3>1. /\ UNCHANGED <<kind, flag, req, queue, tries>>
          /\ \A u \in Turns : u # t => wpc'[u] = wpc[u]
      BY <2>2, ProcessFrame
    <3>2. /\ wpc[t] # "off" /\ wpc'[t] # "off"
          /\ wpc'[t] = "return" => t \in flag \/ ~Open(t)' \/ Stranded(t)'
          /\ Open(t)' /\ wpc'[t] = "stt_media" => state'[t] = "transcribing"
          /\ wpc'[t] = "stt_drop" => ~Open(t)'
      BY <1>1, <2>2, ProcessReturns DEF JobOwned
    <3>3. ASSUME NEW u \in Turns PROVE JobOwned(u)' /\ Owned(u)'
      <4>1. CASE u = t
        BY <1>1, <1>3, <2>0, <3>1, <3>2, <4>1 DEF JobOwned
      <4>2. CASE u # t
        BY <1>01, <1>1, <1>3, <2>0, <3>1, <4>2 DEF JobOwned
      <4> QED BY <4>1, <4>2
    <3>4. HandlerOwned(h)'
      <4>1. req[h].pc \in {"cancelled", "enqueue"} => req[h].turn \in Turns
        BY <1>0 DEF TypeOK, ApiType, ReqTypes
      <4> QED BY <1>1, <2>0, <2>01, <3>1, <3>2, <4>1 DEF HandlerOwned
    <3> QED BY <3>3, <3>4
  <2>3. ASSUME NEW p \in Procs, Incr(p) \/ Xadd(p) PROVE UNCHANGED <<flag, queue, wpc, tries, req>>
    BY <2>3 DEF Incr, Xadd, jobVars, apiVars
  <2>4. ASSUME UNCHANGED vars PROVE UNCHANGED <<flag, queue, wpc, tries, req>>
    BY <2>4 DEF vars, busVars, jobVars, apiVars
  <2>41. ASSUME NEW t \in Turns, UploadExpires(t) PROVE UNCHANGED <<flag, queue, wpc, tries, req>>
    BY <2>41 DEF UploadExpires, busVars, jobVars, apiVars
  <2>5. CASE Create(h) \/ Select(h)
    <3>1. /\ UNCHANGED <<flag, queue, wpc, tries>>
          /\ req[h].pc \in {"idle", "select"} /\ req'[h].pc \in {"idle"} \cup Inserting
          /\ req'[h].pc # "idle" => ~Taken(req'[h].kind.client)
      <4>1. CASE Create(h)
        BY <1>0, <4>1, HandlerMoves DEF Create, Lookup, busVars, jobVars, Inserting
      <4>2. CASE Select(h)
        BY <1>0, <1>1, <4>2, HandlerMoves DEF Select, busVars, jobVars, HandlerOwned, Inserting
      <4> QED BY <2>5, <4>1, <4>2
    <3> QED BY <1>01, <1>1, <1>3, <2>0, <2>01, <3>1 DEF JobOwned, HandlerOwned, Inserting
  <2>6. CASE SupersedeFlag(h)
    <3>1. /\ UNCHANGED <<queue, wpc, tries>> /\ flag' = flag \cup {req[h].active}
          /\ req[h].pc = "flag" /\ req'[h].pc = "commit"
          /\ req'[h].kind = req[h].kind /\ req'[h].active = req[h].active
      BY <1>0, <2>6, HandlerMoves DEF SupersedeFlag, jobVars
    <3>2. state[req[h].active] # "none"
      BY <1>0, <3>1 DEF LinkInv, TypeOK, ApiType
    <3> QED BY <1>01, <1>1, <1>3, <2>0, <2>01, <3>1, <3>2 DEF JobOwned, HandlerOwned, Inserting
  <2>7. CASE Enqueue(h)
    <3>1. /\ UNCHANGED <<flag, wpc, tries>> /\ queue' = queue \cup {req[h].turn}
          /\ req[h].pc = "enqueue" /\ req'[h].pc = "idle"
      BY <1>0, <2>7, HandlerMoves DEF Enqueue, busVars
    <3> QED BY <1>01, <1>1, <1>3, <2>0, <3>1 DEF JobOwned, HandlerOwned, Inserting
  <2>8. CASE CancelFlag(h)
    <3>1. /\ UNCHANGED <<queue, wpc, tries>> /\ flag' = flag \cup {req[h].turn}
          /\ req[h].pc = "cancelled" /\ req'[h].pc = "idle"
      BY <1>0, <2>8, HandlerMoves DEF CancelFlag, jobVars
    <3>2. state[req[h].turn] \in Terminal
      BY <1>1, <3>1 DEF HandlerOwned
    <3> QED BY <1>01, <1>1, <1>3, <2>0, <3>1, <3>2 DEF JobOwned, HandlerOwned, Inserting, Open, Working, Terminal
  <2>9. ASSUME NEW t \in Turns, CancelTurn(h, t)
        PROVE  (\A u \in Turns : JobOwned(u)' /\ Owned(u)') /\ HandlerOwned(h)'
    <3>1. /\ UNCHANGED <<flag, queue, wpc, tries>>
          /\ req[h].pc = "idle" /\ req'[h].pc = "cancelled" /\ req'[h].turn = t
          /\ state'[t] = "cancelled"
      BY <1>0, <2>9 DEF CancelTurn, busVars, jobVars, TypeOK, ApiType, RowType, IdleReq
    <3> QED BY <1>01, <1>1, <1>3, <2>0, <3>1 DEF JobOwned, HandlerOwned, Inserting, Terminal
  <2>10. ASSUME NEW t \in Turns, JobStart(t) \/ JobReturn(t)
         PROVE  (\A u \in Turns : JobOwned(u)' /\ Owned(u)') /\ HandlerOwned(h)'
    <3>1. UNCHANGED <<flag, req>> /\ \A u \in Turns : u # t => wpc'[u] = wpc[u] /\ tries'[u] = tries[u]
      BY <2>10 DEF JobStart, JobReturn, busVars, apiVars, TypeOK, JobType
    <3>2. CASE JobStart(t)
      <4>1. /\ UNCHANGED queue /\ t \in queue /\ wpc'[t] = "read" /\ state[t] # "none"
        BY <3>2 DEF JobStart, TypeOK, JobType, LinkInv
      <4>2. HandlerOwned(h)'
        <5>1. req[h].pc \in {"cancelled", "enqueue"} => req[h].turn \in Turns
          BY <1>0 DEF TypeOK, ApiType, ReqTypes
        <5> QED BY <1>1, <2>0, <2>01, <3>1, <4>1, <5>1 DEF HandlerOwned
      <4> QED BY <1>01, <1>1, <1>3, <2>0, <3>1, <4>1, <4>2 DEF JobOwned
    <3>3. CASE JobReturn(t)
      <4>1. /\ UNCHANGED tries /\ queue' = queue \ {t} /\ wpc[t] = "return" /\ wpc'[t] = "off"
        BY <3>3 DEF JobReturn, TypeOK, JobType
      <4>2. HandlerOwned(h)'
        <5>1. req[h].pc \in {"cancelled", "enqueue"} => req[h].turn \in Turns
          BY <1>0 DEF TypeOK, ApiType, ReqTypes
        <5> QED BY <1>1, <2>0, <2>01, <3>1, <4>1, <5>1 DEF HandlerOwned
      <4> QED BY <1>01, <1>1, <1>3, <2>0, <3>1, <4>1, <4>2 DEF JobOwned
    <3> QED BY <2>10, <3>2, <3>3
  <2> DEFINE Goal == (\A u \in Turns : JobOwned(u)' /\ Owned(u)') /\ HandlerOwned(h)'
  <2> HIDE DEF Owned
  <2>11. /\ Create(h) \/ Select(h) \/ SupersedeFlag(h) \/ Enqueue(h) \/ CancelFlag(h) => Goal
         /\ \A t \in Turns : CancelTurn(h, t) => Goal
    BY <2>5, <2>6, <2>7, <2>8, <2>9
  <2>12. \A t \in Turns : JobStart(t) \/ JobReturn(t) \/ Process(t) => Goal
    BY <2>2, <2>10
  <2>13. \/ \E p \in Procs : Incr(p) \/ Xadd(p)
         \/ \E t \in Turns : UploadExpires(t)
         \/ UNCHANGED vars
         => Goal
    BY <2>1, <2>3, <2>4, <2>41
  <2> HIDE DEF Goal
  <2>14. Goal
    BY <1>0, <1>4, <1>5, <1>6, <1>8, <2>11, <2>12, <2>13, NextCases
  <2> QED BY <2>14 DEF Goal
<1> QED BY <1>0, <1>7, <1>8

\* When requests come one after the other and nothing fails, no turn is left open
\* without somebody who will close it, but a voice turn whose recording expired.
THEOREM OpenTurnsHaveOwners == ASSUME SerialApi, Reliable PROVE Spec => []OpenTurnOwned
<1>1. Init => OwnedInv
  BY DEF Init, OwnedInv, OpenTurnOwned, Open, Working, Inserting, IdleReq
<1>2. RowInv /\ OwnedInv /\ [Next]_vars => OwnedInv'
  BY OwnedNext DEF RowInv
<1>3. OwnedInv => OpenTurnOwned
  BY DEF OwnedInv
<1> QED BY <1>1, <1>2, <1>3, RowsCorrect, PTL DEF Spec

-----------------------------------------------------------------------------
(* Outcomes reach the stream.                                              *)

Telling(p, t) == \E i \in DOMAIN out[p] : out[p][i].turn = t /\ out[p][i].type \in TerminalTypes

\* A terminal event of t is in the stream or on its way.
Announced(t) == Events(t, TerminalTypes) # {} \/ \E p \in Procs : Telling(p, t)

\* No turn is closed in silence: its stream has a terminal event, or a process
\* has one to publish, or the handler that cancelled it is about to.
OutcomesTold == \A t \in Turns : state[t] \in Terminal =>
  Announced(t) \/ \E r \in Reqs : req[r].pc = "cancelled" /\ req[r].turn = t

\* What a commit will close has been announced.
TellInv == faults = 0 =>
  /\ OutcomesTold
  /\ \A r \in Reqs, t \in Turns : req[r].pc = "commit" /\ req[r].active = t => Announced(t)

LEMMA FaultsCount ==
  ASSUME TypeOK, [Next]_vars, faults' = 0
  PROVE  faults = 0 /\ (\A r \in Reqs : ~ApiCrash(r)) /\ (\A t \in Turns : ~WorkerFault(t))
<1>1. faults \in Nat
  BY ConstantsAssumption DEF TypeOK, OutType
<1>2. ASSUME ~(\E r \in Reqs : ApiCrash(r)), ~(\E t \in Turns : WorkerFault(t)) PROVE faults' = faults
  <2>1. ASSUME NEW r \in Reqs, Create(r) \/ Select(r) \/ SupersedeFlag(r) \/ Commit(r) \/ CommitConflict(r)
                               \/ Enqueue(r) \/ CancelFlag(r)
        PROVE  faults' = faults
    BY <2>1 DEF Create, Lookup, Select, SupersedeFlag, Commit, CommitConflict, Enqueue, CancelFlag
  <2>2. ASSUME NEW r \in Reqs, NEW t \in Turns, CancelTurn(r, t) PROVE faults' = faults
    BY <2>2 DEF CancelTurn
  <2>3. ASSUME NEW t \in Turns, JobStart(t) \/ JobReturn(t) \/ JobGiveUp(t) \/ UploadExpires(t)
        PROVE  faults' = faults
    BY <2>3 DEF JobStart, JobReturn, JobGiveUp, UploadExpires
  <2>4. ASSUME NEW t \in Turns, Process(t) PROVE faults' = faults
    BY <2>4, ProcessFrame
  <2>5. ASSUME NEW p \in Procs, Incr(p) \/ Xadd(p) PROVE faults' = faults
    BY <2>5 DEF Incr, Xadd
  <2> QED BY <1>2, <2>1, <2>2, <2>3, <2>4, <2>5, NextCases DEF vars
<1>3. \A r \in Reqs : ApiCrash(r) => faults' = faults + 1
  BY DEF ApiCrash, Fault
<1>4. \A t \in Turns : WorkerFault(t) => faults' = faults + 1
  BY DEF WorkerFault, Fault
<1>5. faults' # faults + 1
  BY <1>1
<1> QED BY <1>2, <1>3, <1>4, <1>5

\* An event that is in the stream or on its way stays so, unless a process dies.
LEMMA AnnouncedStays ==
  ASSUME TypeOK, LinkInv, TalkInv, [Next]_vars, faults' = faults, NEW t \in Turns, Announced(t)
  PROVE  Announced(t)'
<1>1. ASSUME NEW p \in Procs, Incr(p) PROVE Announced(t)'
  BY <1>1 DEF Incr, Announced, Events, Telling
<1>2. ASSUME NEW p \in Procs, Xadd(p) PROVE Announced(t)'
  <2> DEFINE u == out[p][1].turn
             new == [type |-> out[p][1].type, seq |-> held[p]]
  <2>1. u \in Turns /\ stream' = [stream EXCEPT ![u] = Append(@, new)]
    BY <1>2, Published DEF Xadd, PendingEvent
  <2>2. stream[t] \in Seq(StreamEntry) /\ stream \in [Turns -> Seq(StreamEntry)]
    BY DEF TypeOK, BusType
  <2>3. \A i \in DOMAIN stream[t] : i \in DOMAIN stream'[t] /\ stream'[t][i] = stream[t][i]
    BY <2>1, <2>2
  <2>4. u = t => Len(stream[t]) + 1 \in DOMAIN stream'[t] /\ stream'[t][Len(stream[t]) + 1] = new
    BY <2>1, <2>2
  <2>5. CASE Events(t, TerminalTypes) # {}
    BY <2>3, <2>5 DEF Announced, Events
  <2>6. ASSUME NEW q \in Procs, Telling(q, t) PROVE Announced(t)'
    <3>1. CASE q # p
      BY <1>2, <2>6, <3>1, Published DEF Announced, Telling, Keeps
    <3>2. CASE q = p
      <4>1. PICK i \in DOMAIN out[p] : out[p][i].turn = t /\ out[p][i].type \in TerminalTypes
        BY <2>6, <3>2 DEF Telling
      <4>2. CASE i = 1
        BY <2>4, <4>1, <4>2 DEF Announced, Events
      <4>3. CASE i # 1
        <5>1. out'[p] = Tail(out[p]) /\ out[p] \in Seq(PendingEvent) /\ out[p] # <<>>
          BY <1>2, Published DEF TypeOK, OutType, Xadd
        <5>2. i - 1 \in DOMAIN Tail(out[p]) /\ Tail(out[p])[i - 1] = out[p][i]
          BY <4>1, <4>3, <5>1
        <5> QED BY <4>1, <5>1, <5>2 DEF Announced, Telling
      <4> QED BY <4>2, <4>3
    <3> QED BY <3>1, <3>2
  <2> QED BY <2>5, <2>6 DEF Announced
<1>3. ASSUME UNCHANGED <<seqNo, stream>>, \A p \in Procs : Keeps(p) \/ Talks(p) PROVE Announced(t)'
  BY <1>3 DEF Announced, Events, Telling, Keeps, Talks
<1> QED BY <1>1, <1>2, <1>3, Talking

LEMMA OnlyEndsClose ==
  ASSUME TypeOK, NEW t \in Turns, Process(t), state[t] \notin Terminal, state'[t] \in Terminal
  PROVE  (Finish(t) \/ Fail(t) \/ TranscriptionFails(t)) /\ Open(t)
<1>1. state \in [Turns -> States]
  BY DEF TypeOK, RowType
<1>2. ASSUME state' = state PROVE FALSE
  BY <1>2
<1>3. ~(ReadTurn(t) \/ ReadMedia(t) \/ StartTranscription(t) \/ Transcribed(t) \/ DeleteVoice(t) \/ LlmAnswered(t) \/ CheckActive(t)
        \/ StartBatch(t) \/ Synthesized(t) \/ EmitSegment(t))
  BY <1>2 DEF ReadTurn, ReadMedia, StartTranscription, Transcribed, DeleteVoice, LlmAnswered, CheckActive, StartBatch,
             Synthesized, EmitSegment
<1>4. ~(EnterTranscribing(t) \/ StoreTranscript(t) \/ EnterContext(t) \/ EnterLlm(t) \/ StoreReply(t)
        \/ EnterSpeaking(t))
  BY <1>1, <1>2 DEF EnterTranscribing, StoreTranscript, EnterContext, EnterLlm, StoreReply, EnterSpeaking,
                   Locked, Terminal
<1>5. Finish(t) \/ Fail(t) \/ TranscriptionFails(t) => Open(t)
  BY <1>2 DEF Finish, Fail, TranscriptionFails, TerminalFailure, Locked
<1> QED BY <1>3, <1>4, <1>5 DEF Process

\* Whatever closes a turn announces it: before, in the same step, or as the next
\* thing the handler does.
LEMMA ClosesAloud ==
  ASSUME RowInv, TalkInv, TellInv, [Next]_vars, faults' = 0, NEW t \in Turns, state'[t] \in Terminal
  PROVE  Announced(t)' \/ \E r \in Reqs : req'[r].pc = "cancelled" /\ req'[r].turn = t
<1> USE DEF RowInv
<1>0. /\ faults = 0 /\ faults' = faults
      /\ (\A r \in Reqs : ~ApiCrash(r)) /\ (\A u \in Turns : ~WorkerFault(u))
  BY FaultsCount
<1>1. Announced(t) => Announced(t)'
  BY <1>0, AnnouncedStays
<1>2. state[t] \in Terminal => Announced(t) \/ \E r \in Reqs : req[r].pc = "cancelled" /\ req[r].turn = t
  BY <1>0 DEF TellInv, OutcomesTold
<1>3. req \in [Reqs -> ReqTypes] /\ out \in [Procs -> Seq(PendingEvent)] /\ state \in [Turns -> States]
  BY DEF TypeOK, ApiType, OutType, RowType
<1>4. CASE state[t] \in Terminal
  <2>1. CASE Announced(t)
    BY <1>1, <2>1
  <2>2. ASSUME NEW r \in Reqs, req[r].pc = "cancelled", req[r].turn = t
        PROVE  Announced(t)' \/ (req'[r].pc = "cancelled" /\ req'[r].turn = t)
    <3>1. CASE CancelFlag(r)
      <4>1. out'[r] = [i \in {1} |-> [turn |-> t, type |-> "turn.cancelled"]] /\ r \in Procs
        BY <1>3, <2>2, <3>1 DEF CancelFlag, Publish, Procs
      <4> QED BY <4>1 DEF Announced, Telling, TerminalTypes
    <3>2. CASE ~CancelFlag(r)
      <4>1. ASSUME NEW h \in Reqs, Create(h) \/ Select(h) \/ SupersedeFlag(h) \/ Commit(h) \/ CommitConflict(h)
                                   \/ Enqueue(h) \/ CancelFlag(h)
            PROVE  req'[r] = req[r]
        BY <1>3, <2>2, <3>2, <4>1 DEF Create, Lookup, Select, SupersedeFlag, Commit, CommitConflict, Enqueue,
                                      CancelFlag
      <4>2. ASSUME NEW h \in Reqs, NEW u \in Turns, CancelTurn(h, u) PROVE req'[r] = req[r]
        BY <1>3, <2>2, <4>2 DEF CancelTurn
      <4>3. ASSUME NEW u \in Turns, JobStart(u) \/ JobReturn(u) \/ JobGiveUp(u) \/ UploadExpires(u)
            PROVE  req' = req
        BY <4>3 DEF JobStart, JobReturn, JobGiveUp, UploadExpires, apiVars
      <4>4. ASSUME NEW u \in Turns, Process(u) PROVE req' = req
        BY <4>4, ProcessFrame
      <4>5. ASSUME NEW p \in Procs, Incr(p) \/ Xadd(p) PROVE req' = req
        BY <4>5 DEF Incr, Xadd, apiVars
      <4>6. UNCHANGED vars => req' = req
        BY DEF vars, apiVars
      <4>7. req'[r] = req[r]
        BY <1>0, <4>1, <4>2, <4>3, <4>4, <4>5, <4>6, NextCases
      <4> QED BY <2>2, <4>7
    <3> QED BY <3>1, <3>2
  <2> QED BY <1>2, <1>4, <2>1, <2>2
<1>5. CASE state[t] \notin Terminal
  <2>1. ASSUME NEW r \in Reqs, Commit(r) PROVE Announced(t)'
    <3>1. t = req[r].active /\ req[r].pc = "commit" /\ req[r].active # NoTurn
      BY <1>3, <1>5, <2>1 DEF Commit, Terminal, NoTurn, Turns
    <3> QED BY <1>0, <1>1, <3>1 DEF TellInv
  <2>2. ASSUME NEW r \in Reqs, NEW u \in Turns, CancelTurn(r, u)
        PROVE  req'[r].pc = "cancelled" /\ req'[r].turn = t
    BY <1>3, <1>5, <2>2 DEF CancelTurn, IdleReq
  <2>3. ASSUME NEW u \in Turns, Process(u) PROVE Announced(t)'
    <3>1. u = t
      BY <1>5, <2>3, ProcessTouchesOnly
    <3>2. Finish(t) \/ Fail(t) \/ TranscriptionFails(t)
      BY <1>5, <2>3, <3>1, OnlyEndsClose
    <3>3. t \in Procs
      BY DEF Procs
    <3>4. CASE Finish(t)
      <4>1. Publish(t, t, <<"turn.completed">>)
        BY <1>5, <3>4 DEF Finish, Locked
      <4>2. out'[t] = [i \in DOMAIN <<"turn.completed">> |-> [turn |-> t, type |-> <<"turn.completed">>[i]]]
        BY <1>3, <3>3, <4>1 DEF Publish
      <4>3. 1 \in DOMAIN out'[t] /\ out'[t][1] = [turn |-> t, type |-> "turn.completed"]
        BY <4>2
      <4> QED BY <3>3, <4>3 DEF Announced, Telling, TerminalTypes
    <3>5. CASE Fail(t) \/ TranscriptionFails(t)
      <4> DEFINE types == <<"reply.ready", "character.cue", "turn.failed">>
      <4>1. Publish(t, t, types)
        BY <1>5, <3>5 DEF Fail, TranscriptionFails, TerminalFailure
      <4>2. out'[t] = [i \in DOMAIN types |-> [turn |-> t, type |-> types[i]]]
        BY <1>3, <3>3, <4>1 DEF Publish
      <4>3. DOMAIN types = 1..3 /\ types[3] = "turn.failed"
        OBVIOUS
      <4> HIDE DEF types
      <4>4. 3 \in DOMAIN out'[t] /\ out'[t][3] = [turn |-> t, type |-> "turn.failed"]
        BY <4>2, <4>3
      <4> QED BY <3>3, <4>4 DEF Announced, Telling, TerminalTypes
    <3> QED BY <3>2, <3>4, <3>5
  <2>4. ASSUME (\A r \in Reqs : ~Commit(r)), (\A r \in Reqs, u \in Turns : ~CancelTurn(r, u)),
               (\A u \in Turns : ~Process(u))
        PROVE  state' = state
    <3>1. ASSUME NEW r \in Reqs, Create(r) \/ Select(r) \/ SupersedeFlag(r) \/ CommitConflict(r) \/ Enqueue(r)
                                 \/ CancelFlag(r)
          PROVE  state' = state
      BY <3>1 DEF Create, Lookup, Select, SupersedeFlag, CommitConflict, Enqueue, CancelFlag, rowVars
    <3>2. ASSUME NEW u \in Turns, JobStart(u) \/ JobReturn(u) \/ JobGiveUp(u) \/ UploadExpires(u)
            PROVE  state' = state
      BY <3>2 DEF JobStart, JobReturn, JobGiveUp, UploadExpires, rowVars
    <3>3. ASSUME NEW p \in Procs, Incr(p) \/ Xadd(p) PROVE state' = state
      BY <3>3 DEF Incr, Xadd, rowVars
    <3> QED BY <1>0, <2>4, <3>1, <3>2, <3>3, NextCases DEF vars, rowVars
  <2> QED BY <1>5, <2>1, <2>2, <2>3, <2>4
<1> QED BY <1>4, <1>5

LEMMA TellNext ==
  ASSUME RowInv, TalkInv, TellInv, [Next]_vars
  PROVE  TellInv'
<1> USE DEF RowInv
<1> SUFFICES ASSUME faults' = 0 PROVE TellInv'
  BY DEF TellInv
<1>0. /\ faults = 0 /\ faults' = faults
      /\ (\A r \in Reqs : ~ApiCrash(r)) /\ (\A u \in Turns : ~WorkerFault(u))
  BY FaultsCount
<1>1. OutcomesTold'
  BY ClosesAloud DEF OutcomesTold
<1>2. ASSUME NEW r \in Reqs, NEW t \in Turns, req'[r].pc = "commit", req'[r].active = t
      PROVE  Announced(t)'
  <2>0. req \in [Reqs -> ReqTypes] /\ out \in [Procs -> Seq(PendingEvent)] /\ r \in Procs
    BY DEF TypeOK, ApiType, OutType, Procs
  <2>1. CASE SupersedeFlag(r)
    <3>1. req[r].active = t
      BY <1>2, <2>0, <2>1 DEF SupersedeFlag
    <3>2. out'[r] = [i \in {1} |-> [turn |-> t, type |-> "turn.cancelled"]]
      BY <2>0, <2>1, <3>1 DEF SupersedeFlag, Publish
    <3>3. 1 \in DOMAIN out'[r] /\ out'[r][1] = [turn |-> t, type |-> "turn.cancelled"]
      BY <3>2
    <3> QED BY <2>0, <3>3 DEF Announced, Telling, TerminalTypes
  <2>2. CASE ~SupersedeFlag(r)
    <3>1. req'[r] = req[r]
      <4>1. ASSUME NEW h \in Reqs, Create(h) \/ Commit(h) \/ CommitConflict(h) \/ Enqueue(h) \/ CancelFlag(h)
            PROVE  req'[r] = req[r]
        <5>1. PICK q : q.pc # "commit" /\ req' = [req EXCEPT ![h] = q]
          <6>1. CASE Create(h)
            BY <6>1 DEF Create, Lookup
          <6>2. CASE Commit(h)
            BY <2>0, <6>2 DEF Commit, ReqTypes
          <6>3. CASE CommitConflict(h) \/ Enqueue(h) \/ CancelFlag(h)
            BY <6>3 DEF CommitConflict, Enqueue, CancelFlag, IdleReq
          <6> QED BY <4>1, <6>1, <6>2, <6>3
        <5> QED BY <1>2, <2>0, <5>1
      <4>2. ASSUME NEW h \in Reqs, SupersedeFlag(h) PROVE req'[r] = req[r]
        BY <2>0, <2>2, <4>2 DEF SupersedeFlag
      <4>3. ASSUME NEW h \in Reqs, Select(h) PROVE req'[r] = req[r]
        <5>1. PICK a \in Turns \cup {NoTurn} :
                \/ req' = [req EXCEPT ![h] = IdleReq]
                \/ req' = [req EXCEPT ![h] = [@ EXCEPT !.active = a, !.pc = IF a = NoTurn THEN "commit" ELSE "flag"]]
          BY <4>3 DEF Select
        <5>2. CASE req' = [req EXCEPT ![h] = IdleReq]
          BY <1>2, <2>0, <5>2 DEF IdleReq
        <5>3. CASE req' = [req EXCEPT ![h] = [@ EXCEPT !.active = a, !.pc = IF a = NoTurn THEN "commit" ELSE "flag"]]
          <6>1. CASE r # h
            BY <2>0, <5>3, <6>1
          <6>2. CASE r = h
            BY <1>2, <2>0, <5>3, <6>2 DEF ReqTypes, Turns, NoTurn
          <6> QED BY <6>1, <6>2
        <5> QED BY <5>1, <5>2, <5>3
      <4>4. ASSUME NEW h \in Reqs, NEW u \in Turns, CancelTurn(h, u) PROVE req'[r] = req[r]
        BY <1>2, <2>0, <4>4 DEF CancelTurn, IdleReq
      <4>5. ASSUME NEW u \in Turns, JobStart(u) \/ JobReturn(u) \/ JobGiveUp(u) \/ UploadExpires(u)
            PROVE  req' = req
        BY <4>5 DEF JobStart, JobReturn, JobGiveUp, UploadExpires, apiVars
      <4>6. ASSUME NEW u \in Turns, Process(u) PROVE req' = req
        BY <4>6, ProcessFrame
      <4>7. ASSUME NEW p \in Procs, Incr(p) \/ Xadd(p) PROVE req' = req
        BY <4>7 DEF Incr, Xadd, apiVars
      <4>8. UNCHANGED vars => req' = req
        BY DEF vars, apiVars
      <4> QED BY <1>0, <4>1, <4>2, <4>3, <4>4, <4>5, <4>6, <4>7, <4>8, NextCases
    <3>2. Announced(t)
      BY <1>0, <1>2, <3>1 DEF TellInv
    <3> QED BY <1>0, <3>2, AnnouncedStays
  <2> QED BY <2>1, <2>2
<1> QED BY <1>1, <1>2 DEF TellInv

\* As long as no process has died, a turn that is closed has its terminal event in
\* the stream or on its way, whichever handlers and jobs raced to close it.
THEOREM NobodyClosesInSilence == Spec => [](faults = 0 => OutcomesTold)
<1>1. Init => TellInv
  BY DEF Init, TellInv, OutcomesTold, Terminal, IdleReq
<1>2. TalkingInv /\ TellInv /\ [Next]_vars => TellInv'
  BY TellNext DEF TalkingInv
<1>3. TellInv => (faults = 0 => OutcomesTold)
  BY DEF TellInv
<1> QED BY <1>1, <1>2, <1>3, TalkingAlways, PTL DEF Spec

=============================================================================
