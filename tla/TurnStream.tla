----------------------------- MODULE TurnStream -----------------------------
(***************************************************************************)
(* How a client follows one turn: the Redis stream of its events           *)
(* (services/events.py), the relay that GET /turns/{id}/events runs for    *)
(* each connection (api/turns.py), the client that reconnects              *)
(* (backend/sse_client.dart) and, when it gives up, the chat controller    *)
(* that fetches the turn (chat/chat_controller.dart).                      *)
(*                                                                         *)
(* The worker, the request that cancels and the one whose new turn         *)
(* supersedes this one (the rival) are kept as far as they write the row   *)
(* and publish: what they do in full is TurnService.  At most one request  *)
(* supersedes the turn.  Following begins when the POST has returned, with *)
(* turn.accepted in the stream.                                            *)
(***************************************************************************)
EXTENDS Naturals, Sequences, FiniteSets

CONSTANTS
  MaxWork,    \* bound: events a worker publishes before the end of the turn
  MaxDrops,   \* bound: connections that break, requests that fail
  MaxDeaths   \* bound: workers and requests that die

ASSUME BoundsAssumption == MaxWork \in Nat /\ MaxDrops \in Nat /\ MaxDeaths \in Nat

VARIABLES
  row, message,  \* Turn.state, and TRUE once it has an assistant message
  worker,        \* "working", "replied" once this try has stored its reply, "gone"
  work,          \* events of the worker so far
  rival,         \* the superseding request: "none", "announced" or "done"
  claims,        \* history: outcomes the row had, or a rival was about to write
  out, held,     \* per emitter: events to publish, and the number INCR gave it
  seqNo,         \* seq:turn:<id>
  stream,        \* ev:turn:<id>: entries in the order of their ids
  nextId,        \* the next entry id
  expiring,      \* TRUE once a terminal event has set the expiry
  relay,         \* the generator of the open connection
  wire,          \* what it has sent and the client has not read
  client,        \* turnEvents: its place, lastEventId, lastSeq and attempt
  given,         \* ids of the entries it has yielded
  heard, told,   \* TRUE once it yielded a reply; the outcome it yielded
  drops, deaths

turnVars == <<row, message, worker, work, rival, claims>>
busVars == <<out, held, seqNo, stream, nextId, expiring>>
newsVars == <<given, heard, told>>
vars == <<turnVars, busVars, relay, wire, client, newsVars, drops, deaths>>

-----------------------------------------------------------------------------
Terminal == {"completed", "failed", "cancelled"}
TerminalTypes == {"turn.completed", "turn.failed", "turn.cancelled"}
Types == {"turn.accepted", "progress", "reply.ready"} \cup TerminalTypes
Outcome(type) == CASE type = "turn.completed" -> "completed"
                   [] type = "turn.failed" -> "failed"
                   [] type = "turn.cancelled" -> "cancelled"
EventOf(state) == CASE state = "completed" -> "turn.completed"
                    [] state = "failed" -> "turn.failed"
                    [] state = "cancelled" -> "turn.cancelled"

Emitters == {"worker", "api", "rival"}
\* Each event has an id and a number of its own: turn.accepted, the worker's, at
\* most two that close the turn, and the rival's.
MaxEvents == MaxWork + 4
NoId == 0
Snapshot == MaxEvents + 1     \* ids snapshot-1 and snapshot-2
Event(id, type, seq) == [id |-> id, type |-> type, seq |-> seq]
Events == [id : 1..Snapshot, type : Types, seq : 1..MaxEvents]
Off == [at |-> "off", state |-> "open", cursor |-> NoId]
Retries == 3  \* length of delays in turnEvents

TypeOK ==
  /\ row \in {"open"} \cup Terminal /\ message \in BOOLEAN
  /\ worker \in {"working", "replied", "gone"} /\ work \in 0..MaxWork
  /\ rival \in {"none", "announced", "done"} /\ claims \subseteq Terminal
  /\ out \in [Emitters -> Seq(Types)] /\ held \in [Emitters -> 0..MaxEvents]
  /\ seqNo \in 0..MaxEvents
  /\ stream \in Seq(Events) /\ nextId \in 1..Snapshot /\ expiring \in BOOLEAN
  /\ relay \in [at : {"off", "judge", "read"}, state : {"open"} \cup Terminal, cursor : NoId..Snapshot]
  /\ wire \in Seq(Events)
  /\ client \in [pc : {"connecting", "reading", "recovering", "done", "gaveup"},
                 lastId : NoId..Snapshot, lastSeq : Nat, attempt : 0..Retries]
  /\ given \subseteq 1..MaxEvents
  /\ heard \in BOOLEAN /\ told \in {"none"} \cup Terminal
  /\ drops \in 0..MaxDrops /\ deaths \in 0..MaxDeaths

Init ==
  /\ row = "open" /\ message = FALSE /\ worker = "working" /\ work = 0
  /\ rival = "none" /\ claims = {}
  /\ out = [e \in Emitters |-> <<>>] /\ held = [e \in Emitters |-> 0]
  /\ seqNo = 1 /\ stream = <<Event(1, "turn.accepted", 1)>> /\ nextId = 2
  /\ expiring = FALSE
  /\ relay = Off /\ wire = <<>>
  /\ client = [pc |-> "connecting", lastId |-> NoId, lastSeq |-> 0, attempt |-> 0]
  /\ given = {} /\ heard = FALSE /\ told = "none"
  /\ drops = 0 /\ deaths = 0

-----------------------------------------------------------------------------
(* The worker and the request that cancels: they commit, then publish. *)

Publish(e, types) == out[e] = <<>> /\ out' = [out EXCEPT ![e] = types]
RestUnchanged == UNCHANGED <<held, seqNo, stream, nextId, expiring, relay, wire, client, newsVars, drops>>

\* Progress of the worker; with a reply it stores the message first.
Work(type) ==
  /\ row = "open" /\ worker # "gone" /\ work < MaxWork
  /\ Publish("worker", <<type>>)
  /\ work' = work + 1
  /\ IF type = "reply.ready" THEN message' = TRUE /\ worker' = "replied"
                             ELSE UNCHANGED <<message, worker>>
  /\ RestUnchanged /\ UNCHANGED <<row, rival, claims, deaths>>

Close(e, outcome, types) ==
  /\ row = "open"
  /\ Publish(e, types)
  /\ row' = outcome /\ claims' = claims \cup {outcome}
  /\ RestUnchanged /\ UNCHANGED <<worker, work, rival, deaths>>

Complete == worker = "replied" /\ Close("worker", "completed", <<"turn.completed">>) /\ UNCHANGED message

Fail == worker # "gone" /\ Close("worker", "failed", <<"reply.ready", "turn.failed">>) /\ message' = TRUE

Cancel == Close("api", "cancelled", <<"turn.cancelled">>) /\ UNCHANGED message

-----------------------------------------------------------------------------
(* The rival: it publishes, then it commits. *)

\* It found the turn open, in a read without a lock that the row may have left
\* behind.  What the flag does to the worker is left to chance.
SupersedeAnnounces ==
  /\ rival = "none" /\ stream # <<>>
  /\ Publish("rival", <<"turn.cancelled">>)
  /\ rival' = "announced" /\ claims' = claims \cup {"cancelled"}
  /\ RestUnchanged /\ UNCHANGED <<row, message, worker, work, deaths>>

\* The row is overwritten, whatever has become of it.
SupersedeCommits ==
  /\ rival = "announced" /\ out["rival"] = <<>>
  /\ rival' = "done" /\ row' = "cancelled"
  /\ RestUnchanged /\ UNCHANGED <<message, worker, work, claims, out, deaths>>

\* The commit fails, as with the client_id of a request that was faster, or the
\* process dies.
SupersedeFails ==
  /\ rival = "announced" /\ out["rival"] = <<>>
  /\ rival' = "done"
  /\ RestUnchanged /\ UNCHANGED <<row, message, worker, work, claims, out, deaths>>

\* An emitter dies with what it had to publish; the job of an open turn is tried
\* again from the start.
Die(e) ==
  /\ out[e] # <<>> /\ deaths < MaxDeaths
  /\ deaths' = deaths + 1
  /\ out' = [out EXCEPT ![e] = <<>>] /\ held' = [held EXCEPT ![e] = 0]
  /\ worker' = IF e = "worker" THEN "working" ELSE worker
  /\ rival' = IF e = "rival" THEN "done" ELSE rival
  /\ UNCHANGED <<row, message, work, claims, seqNo, stream, nextId, expiring, relay, wire, client, newsVars, drops>>

-----------------------------------------------------------------------------
(* TurnEventBus.emit and the expiry of its keys *)

Incr(e) ==
  /\ out[e] # <<>> /\ held[e] = 0
  /\ seqNo' = seqNo + 1
  /\ held' = [held EXCEPT ![e] = seqNo + 1]
  /\ UNCHANGED <<turnVars, out, stream, nextId, expiring, relay, wire, client, newsVars, drops, deaths>>

Xadd(e) ==
  /\ held[e] # 0
  /\ stream' = Append(stream, Event(nextId, Head(out[e]), held[e]))
  /\ nextId' = nextId + 1
  /\ expiring' = (expiring \/ Head(out[e]) \in TerminalTypes)
  /\ out' = [out EXCEPT ![e] = Tail(@)] /\ held' = [held EXCEPT ![e] = 0]
  /\ UNCHANGED <<turnVars, seqNo, relay, wire, client, newsVars, drops, deaths>>

\* 900 seconds after the terminal event: no request and no try of the job still
\* runs, and an open connection has got what there was.  The row is open still if
\* a rival announced what it did not commit.
Expire ==
  /\ expiring /\ rival # "announced" /\ \A e \in Emitters : out[e] = <<>>
  /\ relay.at # "judge"
  /\ relay.at = "read" => relay.cursor # Snapshot /\ \A k \in DOMAIN stream : stream[k].id <= relay.cursor
  /\ stream' = <<>> /\ seqNo' = 0 /\ expiring' = FALSE /\ worker' = "gone"
  /\ UNCHANGED <<row, message, work, rival, claims, out, held, nextId, relay, wire, client, newsVars, drops, deaths>>

-----------------------------------------------------------------------------
(* The relay *)

\* The request is authorised against the row, which is not read again.
Connect ==
  /\ client.pc = "connecting" /\ relay.at = "off"
  /\ relay' = [at |-> "judge", state |-> row, cursor |-> client.lastId]
  /\ client' = [client EXCEPT !.pc = "reading"]
  /\ wire' = <<>>
  /\ UNCHANGED <<turnVars, busVars, newsVars, drops, deaths>>

\* Mistake: the snapshot leaves the reply out.
JudgeMute ==
  /\ relay.at = "judge"
  /\ IF stream = <<>> /\ relay.state \in Terminal
     THEN wire' = <<Event(Snapshot, EventOf(relay.state), 1)>> /\ relay' = Off
     ELSE relay' = [relay EXCEPT !.at = "read"] /\ UNCHANGED wire
  /\ UNCHANGED <<turnVars, busVars, client, newsVars, drops, deaths>>

\* Mistake: only who comes without a Last-Event-ID gets the snapshot.
JudgeOnce ==
  /\ relay.at = "judge"
  /\ IF stream = <<>> /\ relay.state \in Terminal /\ relay.cursor = NoId
     THEN /\ wire' = IF message
                     THEN <<Event(Snapshot, "reply.ready", 1), Event(Snapshot, EventOf(relay.state), 2)>>
                     ELSE <<Event(Snapshot, EventOf(relay.state), 1)>>
          /\ relay' = Off
     ELSE relay' = [relay EXCEPT !.at = "read"] /\ UNCHANGED wire
  /\ UNCHANGED <<turnVars, busVars, client, newsVars, drops, deaths>>

\* A closed turn whose stream has expired is told from the database; otherwise
\* the relay reads on from the cursor.
Judge ==
  /\ relay.at = "judge"
  /\ IF stream = <<>> /\ relay.state \in Terminal
     THEN /\ wire' = IF message
                     THEN <<Event(Snapshot, "reply.ready", 1), Event(Snapshot, EventOf(relay.state), 2)>>
                     ELSE <<Event(Snapshot, EventOf(relay.state), 1)>>
          /\ relay' = Off
     ELSE relay' = [relay EXCEPT !.at = "read"] /\ UNCHANGED wire
  /\ UNCHANGED <<turnVars, busVars, client, newsVars, drops, deaths>>

\* Mistake: the relay sends the newest entry only.
RelayNewest ==
  /\ relay.at = "read" /\ stream # <<>>
  /\ LET last == stream[Len(stream)]
     IN /\ last.id > relay.cursor
        /\ wire' = Append(wire, last)
        /\ relay' = IF last.type \in TerminalTypes THEN Off ELSE [relay EXCEPT !.cursor = last.id]
  /\ UNCHANGED <<turnVars, busVars, client, newsVars, drops, deaths>>

\* XREAD returns the entries after the cursor, which are sent one by one; the
\* relay ends after a terminal event.
Relay ==
  /\ relay.at = "read"
  /\ \E k \in DOMAIN stream :
       /\ stream[k].id > relay.cursor
       /\ \A j \in 1..(k - 1) : stream[j].id <= relay.cursor
       /\ wire' = Append(wire, stream[k])
       /\ relay' = IF stream[k].type \in TerminalTypes THEN Off
                   ELSE [relay EXCEPT !.cursor = stream[k].id]
  /\ UNCHANGED <<turnVars, busVars, client, newsVars, drops, deaths>>

\* Redis refuses the id of a snapshot: the response breaks off.
Refuse ==
  /\ relay.at = "read" /\ relay.cursor = Snapshot
  /\ relay' = Off
  /\ UNCHANGED <<turnVars, busVars, wire, client, newsVars, drops, deaths>>

-----------------------------------------------------------------------------
(* The client *)

\* The connection breaks, or the request fails: what the client has not read by
\* then is lost.
Drop ==
  /\ client.pc = "reading" /\ drops < MaxDrops
  /\ wire' = <<>> /\ relay' = Off
  /\ drops' = drops + 1
  /\ UNCHANGED <<turnVars, busVars, client, newsVars, deaths>>

\* A snapshot counts from 1 again but is always new.
LogicalSeq(event) == IF event.id = Snapshot /\ event.seq <= client.lastSeq
                     THEN client.lastSeq + 1 ELSE event.seq

\* An event is yielded if its number is new; a terminal one ends the iteration.
Read ==
  /\ client.pc = "reading" /\ wire # <<>>
  /\ LET event == Head(wire)
         fresh == LogicalSeq(event) > client.lastSeq
         ends == fresh /\ event.type \in TerminalTypes
     IN /\ client' = [client EXCEPT !.lastId = event.id,
                                    !.lastSeq = IF fresh THEN LogicalSeq(event) ELSE @,
                                    !.pc = IF ends THEN "done" ELSE @]
        /\ given' = IF fresh /\ event.id # Snapshot THEN given \cup {event.id} ELSE given
        /\ heard' = (heard \/ (fresh /\ event.type = "reply.ready"))
        /\ told' = IF ends THEN Outcome(event.type) ELSE told
  /\ wire' = Tail(wire)
  /\ UNCHANGED <<turnVars, busVars, relay, drops, deaths>>

\* Mistake: the attempts are not limited.
DisconnectedForever ==
  /\ client.pc = "reading" /\ wire = <<>> /\ relay.at = "off"
  /\ client' = [client EXCEPT !.pc = "connecting", !.attempt = @ + 1]
  /\ UNCHANGED <<turnVars, busVars, relay, wire, newsVars, drops, deaths>>

\* Mistake: the error reaches the chat controller at once.
DisconnectedAtOnce ==
  /\ client.pc = "reading" /\ wire = <<>> /\ relay.at = "off"
  /\ client' = [client EXCEPT !.pc = "recovering"]
  /\ UNCHANGED <<turnVars, busVars, relay, wire, newsVars, drops, deaths>>

\* The response has ended without a terminal event: three more attempts in all,
\* each after a delay, then the error reaches the chat controller.
Disconnected ==
  /\ client.pc = "reading" /\ wire = <<>> /\ relay.at = "off"
  /\ client' = IF client.attempt < Retries
               THEN [client EXCEPT !.pc = "connecting", !.attempt = @ + 1]
               ELSE [client EXCEPT !.pc = "recovering"]
  /\ UNCHANGED <<turnVars, busVars, relay, wire, newsVars, drops, deaths>>

\* _recoverTerminal: GET /turns/{id}; of a turn still open, or if the request
\* fails, nothing is done.
Recover ==
  /\ client.pc = "recovering"
  /\ IF row \in Terminal
     THEN /\ heard' = (heard \/ message) /\ told' = row
          /\ client' = [client EXCEPT !.pc = "done"]
     ELSE client' = [client EXCEPT !.pc = "gaveup"] /\ UNCHANGED <<heard, told>>
  /\ UNCHANGED <<turnVars, busVars, relay, wire, given, drops, deaths>>

RecoverFails ==
  /\ client.pc = "recovering" /\ drops < MaxDrops
  /\ drops' = drops + 1
  /\ client' = [client EXCEPT !.pc = "gaveup"]
  /\ UNCHANGED <<turnVars, busVars, relay, wire, newsVars, deaths>>

-----------------------------------------------------------------------------
Emit == \E e \in Emitters : Incr(e) \/ Xadd(e)
Serve == Connect \/ Judge \/ Relay \/ Refuse
Follow == Read \/ Disconnected \/ Recover
Turn == (\E type \in {"progress", "reply.ready"} : Work(type)) \/ Complete \/ Fail \/ Cancel
Supersede == SupersedeAnnounces \/ SupersedeCommits \/ SupersedeFails
Trouble == (\E e \in Emitters : Die(e)) \/ Expire \/ Drop \/ RecoverFails

Next == Emit \/ Serve \/ Follow \/ Turn \/ Supersede \/ Trouble
Spec == Init /\ [][Next]_vars

\* Redis, the API and the app keep running; the turn need not go on, connections
\* need not break.
FairSpec == Spec /\ WF_vars(Emit) /\ WF_vars(Serve) /\ WF_vars(Follow)

-----------------------------------------------------------------------------
\* An entry is overtaken if one with a larger number stands before it: two
\* emitters drew their numbers in one order and appended in the other.
Overtaken(k) == \E j \in 1..(k - 1) : stream[j].seq > stream[k].seq

\* A rival announced the end of the turn and did not commit, the stream expired,
\* and the turn was cancelled later: the numbers begin again.
Renumbered == stream # <<>> /\ stream[1].id # 1

\* Reconnecting loses nothing: what lies before the client's Last-Event-ID was
\* yielded, unless it was overtaken.
NoneSkipped ==
  client.lastId # Snapshot /\ ~Renumbered => \A k \in DOMAIN stream :
    stream[k].id <= client.lastId => stream[k].id \in given \/ Overtaken(k)

\* A client that was given a snapshot and comes back with its id gets another
\* snapshot: the id, which Redis would refuse, never becomes the cursor of XREAD.
CursorIsReal == relay.at = "read" /\ ~Renumbered => relay.cursor # Snapshot

\* Through lost connections, expiry and the last resort of fetching the turn, the
\* follower is told one outcome, one that the row had or that a rival announced
\* and, unless the turn is cancelled, after the reply.
News == INSTANCE TurnNews WITH outcome <- row, replied <- message, heard <- heard, told <- told, claims <- claims
ImplementsNews == News!Spec

\* Who follows a closed turn with its terminal events in the stream, none of them
\* overtaken, learns an outcome, if no more than three connections break in all.
Ends == {k \in DOMAIN stream : stream[k].type \in TerminalTypes}
Announced == row \in Terminal /\ ~Renumbered /\ Ends # {} /\ \A k \in Ends : ~Overtaken(k)
OutcomeArrives == Announced ~> (told # "none" \/ drops > Retries)
=============================================================================
