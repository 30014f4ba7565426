--------------------------- MODULE TurnStreamProofs ---------------------------
(***************************************************************************)
(* Proofs about TurnStream, for any number of events, lost connections and *)
(* deaths: the whole of relay, client and last resort implements TurnNews  *)
(* (ImplementsNews), reconnecting skips nothing that was not overtaken     *)
(* (NoneSkipped), and no snapshot id becomes the cursor of XREAD           *)
(* (CursorIsReal).  The heart of the argument is ChainInv, what is under   *)
(* way is the stretch of the stream behind the client's place, together    *)
(* with ReplyInv, which puts the reply before the end that the worker      *)
(* gives the turn; once the stream has expired, WireInv stands for both.   *)
(* Cancellations are published by others, in any order with the rest.      *)
(***************************************************************************)
EXTENDS TurnStream, SequenceTheorems, TLAPS

-----------------------------------------------------------------------------
Gone == stream = <<>>
\* The first stream of the turn, which has not expired.
Original == ~Gone /\ ~Renumbered
\* The worker publishes everything but cancellations.
Endings == {"turn.completed", "turn.failed"}
Own(type) == type # "turn.cancelled"

Queued(queue) == Len(queue)
\* Of the events queued, those whose number has not been drawn.
Undrawn(queue, number) == IF number = 0 THEN Len(queue) ELSE Len(queue) - 1

\* What an event says of the turn is so.
Truthful(type, outcomes, replied) ==
  /\ type \in TerminalTypes => Outcome(type) \in outcomes
  /\ type = "reply.ready" => replied

OutTruth == \A e \in Emitters : \A i \in DOMAIN out[e] : Truthful(out[e][i], claims, message)
StreamTruth == \A k \in DOMAIN stream : Truthful(stream[k].type, claims, message)
WireTruth == \A i \in DOMAIN wire : Truthful(wire[i].type, claims, message)
TruthInv == OutTruth /\ StreamTruth /\ WireTruth

\* The turn and what is known of it.
TurnInv ==
  /\ worker = "replied" => message
  /\ "completed" \in claims \/ "failed" \in claims => message
  /\ row \in Terminal => row \in claims
  /\ relay.state \in Terminal => relay.state \in claims /\ row \in Terminal
  /\ row = "open" /\ claims # {} => rival # "none"
  /\ rival = "announced" => "cancelled" \in claims
  /\ expiring => claims # {}
  /\ heard => message
  /\ told # "none" => client.pc = "done"

\* Entries have the ids 1, 2, 3 and so on until the stream expires; there is room
\* for what is queued.
Total(a, b, c, n) == a + b + c + n
Room == (IF row = "open" THEN 2 ELSE 4) + (IF rival = "none" THEN 0 ELSE 1)
IdInv ==
  /\ Original => nextId = Len(stream) + 1 /\ \A k \in DOMAIN stream : stream[k].id = k
  /\ nextId > 1 /\ \A k \in DOMAIN stream : stream[k].id < nextId
  /\ \A e \in Emitters : held[e] # 0 => out[e] # <<>>
  /\ Total(Queued(out["worker"]), Queued(out["api"]), Queued(out["rival"]), nextId) <= work + Room
  /\ Total(Undrawn(out["worker"], held["worker"]), Undrawn(out["api"], held["api"]),
           Undrawn(out["rival"], held["rival"]), seqNo + 1) <= work + Room

\* Who publishes what; once the first stream has expired only a cancellation is
\* left to be published.
OutInv ==
  /\ \A i \in DOMAIN out["worker"] : Own(out["worker"][i])
  /\ \A e \in {"api", "rival"} : \A i \in DOMAIN out[e] : ~Own(out[e][i])
  /\ ~Original =>
       /\ worker = "gone" /\ out["worker"] = <<>> /\ out["rival"] = <<>>
       /\ \A k \in DOMAIN stream : ~Own(stream[k].type)
       /\ rival = "done" \/ (Gone /\ rival = "none" /\ row \in Terminal /\ out["api"] = <<>>)

\* Numbers are unique, and those of the worker ascend.
SeqInv ==
  /\ \A k \in DOMAIN stream : stream[k].seq <= seqNo
  /\ \A j, k \in DOMAIN stream : stream[j].seq = stream[k].seq => j = k
  /\ \A e \in Emitters : held[e] <= seqNo
  /\ \A e \in Emitters, k \in DOMAIN stream : stream[k].seq # held[e]
  /\ \A d, e \in Emitters : held[d] = held[e] => held[e] = 0 \/ d = e
  /\ \A j, k \in DOMAIN stream :
       j < k /\ Own(stream[j].type) /\ Own(stream[k].type) => stream[j].seq < stream[k].seq
  /\ held["worker"] # 0 => \A k \in DOMAIN stream : Own(stream[k].type) => stream[k].seq < held["worker"]

\* A reply stands before the end that the worker gives the turn.
InStream == \E k \in DOMAIN stream : stream[k].type = "reply.ready"
ReplyInv ==
  /\ worker = "replied" => InStream \/ \E i \in DOMAIN out["worker"] : out["worker"][i] = "reply.ready"
  /\ \A i \in DOMAIN out["worker"] : out["worker"][i] \in Endings =>
       InStream \/ \E j \in 1..(i - 1) : out["worker"][j] = "reply.ready"
  /\ \A k \in DOMAIN stream : stream[k].type \in Endings =>
       \E j \in 1..(k - 1) : stream[j].type = "reply.ready"

\* A connection carries on where the client stands.
ChainInv ==
  Original =>
    /\ client.lastId <= Len(stream)
    /\ client.lastId + Len(wire) <= Len(stream)
    /\ \A i \in DOMAIN wire : wire[i] = stream[client.lastId + i]
    /\ relay.at = "judge" => wire = <<>> /\ relay.cursor = client.lastId
    /\ relay.at = "read" => relay.cursor = client.lastId + Len(wire)
    /\ client.lastSeq = 0 \/ \E j \in DOMAIN stream :
         /\ j <= client.lastId /\ stream[j].seq = client.lastSeq
         /\ client.pc = "done" \/ Own(stream[j].type)
    /\ \A k \in DOMAIN stream : k <= client.lastId /\ stream[k].type = "reply.ready" => heard

\* What the worker has under way is new to the client, and the reply comes first.
WireInv ==
  /\ (\A i \in DOMAIN wire : wire[i].id = Snapshot) \/ (\A i \in DOMAIN wire : wire[i].id # Snapshot)
  /\ relay.at = "judge" => wire = <<>>
  /\ relay.at = "read" => \A i \in DOMAIN wire : wire[i].id # Snapshot
  /\ client.pc # "done" =>
       /\ \A i \in DOMAIN wire : Own(wire[i].type) => wire[i].id = Snapshot \/ wire[i].seq > client.lastSeq
       /\ \A i, j \in DOMAIN wire :
            i < j /\ Own(wire[i].type) /\ Own(wire[j].type) => wire[i].id = Snapshot \/ wire[i].seq < wire[j].seq
       /\ \A i \in DOMAIN wire : wire[i].type \in Endings =>
            heard \/ \E j \in 1..(i - 1) : wire[j].type = "reply.ready"

\* Snapshots are of closed turns, and who has got one gets another.
PlaceInv ==
  /\ client.lastId = Snapshot => row \in Terminal
  /\ \A i \in DOMAIN wire : wire[i].id = Snapshot => row \in Terminal
  /\ relay.at = "judge" /\ relay.cursor = Snapshot => relay.state \in Terminal
  /\ CursorIsReal

IInv ==
  /\ TypeOK /\ TurnInv /\ TruthInv /\ IdInv /\ OutInv /\ SeqInv /\ ReplyInv /\ ChainInv /\ WireInv
  /\ PlaceInv /\ NoneSkipped

-----------------------------------------------------------------------------
(* Sequences *)

LEMMA Indices ==
  ASSUME TypeOK
  PROVE  /\ DOMAIN stream = 1..Len(stream) /\ Len(stream) \in Nat
         /\ DOMAIN wire = 1..Len(wire) /\ Len(wire) \in Nat
         /\ \A e \in Emitters : DOMAIN out[e] = 1..Len(out[e]) /\ Len(out[e]) \in Nat
         /\ \A k \in DOMAIN stream : stream[k] \in Events
         /\ \A i \in DOMAIN wire : wire[i] \in Events
         /\ \A e \in Emitters : \A i \in DOMAIN out[e] : out[e][i] \in Types
BY DEF TypeOK

LEMMA Numbers ==
  ASSUME TypeOK
  PROVE  /\ MaxEvents \in Nat /\ MaxEvents > 3 /\ MaxEvents >= work + 4 /\ Snapshot = MaxEvents + 1
         /\ work \in Nat /\ work <= MaxWork /\ seqNo \in Nat /\ nextId \in Nat
         /\ Room \in Nat /\ Room >= 2 /\ Room <= 5
         /\ \A e \in Emitters : held[e] \in Nat
         /\ \A k \in DOMAIN stream : stream[k].seq \in Nat /\ stream[k].seq > 0 /\ stream[k].id \in Nat
         /\ \A i \in DOMAIN wire : wire[i].seq \in Nat /\ wire[i].seq > 0 /\ wire[i].id \in Nat
         /\ client.lastId \in Nat /\ client.lastSeq \in Nat /\ client.attempt \in Nat
         /\ relay.cursor \in Nat
<1>1. /\ MaxEvents \in Nat /\ MaxEvents > 3 /\ MaxEvents >= work + 4 /\ Snapshot = MaxEvents + 1
      /\ work \in Nat /\ work <= MaxWork /\ seqNo \in Nat /\ nextId \in Nat
  BY BoundsAssumption DEF TypeOK, MaxEvents, Snapshot
<1>2. \A e \in Emitters : held[e] \in Nat
  BY <1>1 DEF TypeOK
<1>3. \A x \in Events : x.seq \in Nat /\ x.seq > 0 /\ x.id \in Nat
  BY <1>1 DEF Events
<1>4. /\ client.lastId \in Nat /\ client.lastSeq \in Nat /\ client.attempt \in Nat
      /\ relay.cursor \in Nat
  BY <1>1 DEF TypeOK, NoId, Retries
<1>5. Room \in Nat /\ Room >= 2 /\ Room <= 5
  BY DEF Room
<1> QED BY <1>1, <1>2, <1>3, <1>4, <1>5, Indices

\* There is room for what each emitter has queued.
LEMMA Counts ==
  ASSUME TypeOK, IdInv
  PROVE  \A e \in Emitters :
           /\ Queued(out[e]) \in Nat /\ Undrawn(out[e], held[e]) \in Nat
           /\ out[e] # <<>> => Queued(out[e]) > 0
           /\ nextId + Queued(out[e]) <= work + Room
           /\ seqNo + Undrawn(out[e], held[e]) <= work + Room - 1
<1>1. \A e \in Emitters : Queued(out[e]) \in Nat /\ (out[e] # <<>> => Queued(out[e]) > 0)
  BY DEF TypeOK, Queued
<1>2. \A e \in Emitters : Undrawn(out[e], held[e]) \in Nat
  BY <1>1 DEF Undrawn, Queued, IdInv
<1>3. /\ Queued(out["worker"]) + Queued(out["api"]) + Queued(out["rival"]) + nextId <= work + Room
      /\ Undrawn(out["worker"], held["worker"]) + Undrawn(out["api"], held["api"])
           + Undrawn(out["rival"], held["rival"]) + (seqNo + 1) <= work + Room
  BY DEF IdInv, Total
<1>4. "worker" \in Emitters /\ "api" \in Emitters /\ "rival" \in Emitters
  BY DEF Emitters
<1>5. \A e \in Emitters : e = "worker" \/ e = "api" \/ e = "rival"
  BY DEF Emitters
<1>6. nextId \in Nat /\ seqNo \in Nat /\ work \in Nat /\ Room \in Nat
  BY Numbers
<1>7. /\ nextId + Queued(out["worker"]) <= work + Room /\ nextId + Queued(out["api"]) <= work + Room
      /\ nextId + Queued(out["rival"]) <= work + Room
  BY <1>1, <1>3, <1>4, <1>6
<1>8. /\ seqNo + Undrawn(out["worker"], held["worker"]) <= work + Room - 1
      /\ seqNo + Undrawn(out["api"], held["api"]) <= work + Room - 1
      /\ seqNo + Undrawn(out["rival"], held["rival"]) <= work + Room - 1
  BY <1>2, <1>3, <1>4, <1>6
<1> QED BY <1>1, <1>2, <1>5, <1>7, <1>8

\* No entry has the id of a snapshot.
LEMMA RealEntries ==
  ASSUME TypeOK, IdInv
  PROVE  /\ \A k \in DOMAIN stream : stream[k].id # Snapshot
         /\ Original => Len(stream) < Snapshot
<1>1. nextId <= Snapshot
  <2>1. "api" \in Emitters
    BY DEF Emitters
  <2>2. Queued(out["api"]) \in Nat /\ nextId + Queued(out["api"]) <= work + Room
    BY <2>1, Counts
  <2> QED BY <2>2, Numbers
<1>2. \A k \in DOMAIN stream : stream[k].id < nextId /\ stream[k].id \in Nat
  BY Numbers DEF IdInv
<1>3. \A k \in DOMAIN stream : stream[k].id # Snapshot
  BY <1>1, <1>2, Numbers
<1>4. Original => nextId = Len(stream) + 1
  BY DEF IdInv
<1> QED BY <1>1, <1>3, <1>4, Numbers, Indices

\* What Xadd does to the stream and to its emitter.
LEMMA Appended ==
  ASSUME TypeOK, IdInv, NEW e \in Emitters, Xadd(e)
  PROVE  /\ out[e] # <<>> /\ Head(out[e]) = out[e][1] /\ Head(out[e]) \in Types
         /\ nextId <= MaxEvents /\ held[e] \in 1..MaxEvents
         /\ stream' \in Seq(Events) /\ Len(stream') = Len(stream) + 1 /\ stream' # <<>>
         /\ DOMAIN stream' = 1..(Len(stream) + 1)
         /\ \A k \in DOMAIN stream : stream'[k] = stream[k]
         /\ stream'[Len(stream) + 1] = Event(nextId, out[e][1], held[e])
         /\ stream'[Len(stream) + 1].id = nextId /\ stream'[Len(stream) + 1].type = out[e][1]
         /\ stream'[Len(stream) + 1].seq = held[e]
         /\ out' \in [Emitters -> Seq(Types)] /\ held' \in [Emitters -> 0..MaxEvents]
         /\ Len(out'[e]) = Len(out[e]) - 1
         /\ \A i \in DOMAIN out'[e] : i + 1 \in DOMAIN out[e] /\ out'[e][i] = out[e][i + 1]
         /\ held'[e] = 0
         /\ \A o \in Emitters : o # e => out'[o] = out[o] /\ held'[o] = held[o]
<1>1. held[e] \in 1..MaxEvents /\ out[e] # <<>> /\ out[e] \in Seq(Types) /\ stream \in Seq(Events)
  BY Numbers DEF TypeOK, Xadd, IdInv
<1>2. Head(out[e]) = out[e][1] /\ Head(out[e]) \in Types /\ Queued(out[e]) > 0
  BY <1>1 DEF Queued
<1>4. nextId <= MaxEvents
  <2>1. Queued(out[e]) \in Nat /\ nextId + Queued(out[e]) <= work + Room
    BY Counts
  <2> QED BY <1>2, <2>1, Numbers
<1>5. Event(nextId, Head(out[e]), held[e]) \in Events
  <2>1. nextId \in 1..Snapshot
    BY DEF TypeOK
  <2> QED BY <1>1, <1>2, <2>1 DEF Event, Events
<1>6. /\ stream' \in Seq(Events) /\ Len(stream') = Len(stream) + 1
      /\ DOMAIN stream' = 1..(Len(stream) + 1)
      /\ \A k \in DOMAIN stream : stream'[k] = stream[k]
      /\ stream'[Len(stream) + 1] = Event(nextId, Head(out[e]), held[e])
  BY <1>1, <1>5, AppendProperties DEF Xadd
<1>7. /\ Tail(out[e]) \in Seq(Types) /\ Len(Tail(out[e])) = Len(out[e]) - 1
      /\ \A i \in DOMAIN Tail(out[e]) : i + 1 \in DOMAIN out[e] /\ Tail(out[e])[i] = out[e][i + 1]
  BY <1>1, HeadTailProperties
<1>8. out'[e] = Tail(out[e]) /\ held'[e] = 0
  BY DEF Xadd, TypeOK
<1>9. /\ out' \in [Emitters -> Seq(Types)] /\ held' \in [Emitters -> 0..MaxEvents]
      /\ \A o \in Emitters : o # e => out'[o] = out[o] /\ held'[o] = held[o]
  <2>1. out' = [out EXCEPT ![e] = Tail(out[e])] /\ held' = [held EXCEPT ![e] = 0]
    BY DEF Xadd
  <2>2. 0 \in 0..MaxEvents
    BY Numbers
  <2> QED BY <1>7, <2>1, <2>2 DEF TypeOK
<1>10. stream' # <<>>
  BY <1>6, Indices
<1>11. /\ stream'[Len(stream) + 1].id = nextId /\ stream'[Len(stream) + 1].type = out[e][1]
       /\ stream'[Len(stream) + 1].seq = held[e]
  BY <1>2, <1>6 DEF Event
<1> QED BY <1>1, <1>2, <1>4, <1>6, <1>7, <1>8, <1>9, <1>10, <1>11

\* What Xadd does to the ids: the first entry of a stream stays, and one that
\* follows an expiry is not numbered 1.
LEMMA FirstEntry ==
  ASSUME TypeOK, IdInv, NEW e \in Emitters, Xadd(e)
  PROVE  /\ Original' = Original /\ ~Gone'
         /\ Gone => stream'[1].id # 1
<1>1. /\ stream' # <<>> /\ \A k \in DOMAIN stream : stream'[k] = stream[k]
      /\ stream'[Len(stream) + 1].id = nextId
  BY Appended
<1>2. CASE Gone
  <2>1. stream'[1].id # 1
    BY <1>1, <1>2 DEF IdInv, Gone
  <2> QED BY <1>1, <1>2, <2>1 DEF Original, Renumbered, Gone
<1>3. CASE ~Gone
  <2>1. 1 \in DOMAIN stream
    BY <1>3, Indices DEF Gone, TypeOK
  <2>2. stream'[1] = stream[1]
    BY <1>1, <2>1
  <2> QED BY <1>1, <1>3, <2>2 DEF Original, Renumbered, Gone
<1> QED BY <1>2, <1>3

\* What Publish does to its emitter.
LEMMA Published ==
  ASSUME TypeOK, NEW e \in Emitters, NEW types \in Seq(Types), Publish(e, types)
  PROVE  /\ out[e] = <<>> /\ out' \in [Emitters -> Seq(Types)] /\ out'[e] = types
         /\ \A o \in Emitters : o # e => out'[o] = out[o]
BY DEF Publish, TypeOK

\* What the steps that commit or publish leave alone.
LEMMA Committed ==
  ASSUME Turn \/ Supersede
  PROVE  UNCHANGED <<held, seqNo, stream, nextId, expiring, relay, wire, client, given, heard, told, drops>>
BY DEF Turn, Supersede, Work, Complete, Fail, Cancel, Close, SupersedeAnnounces, SupersedeCommits,
       SupersedeFails, RestUnchanged, newsVars

\* What they publish.
LEMMA Publications ==
  /\ \A type \in {"progress", "reply.ready"} : <<type>> \in Seq(Types) /\ Len(<<type>>) = 1
  /\ <<"turn.completed">> \in Seq(Types) /\ Len(<<"turn.completed">>) = 1
  /\ <<"turn.cancelled">> \in Seq(Types) /\ Len(<<"turn.cancelled">>) = 1
  /\ <<"reply.ready", "turn.failed">> \in Seq(Types) /\ Len(<<"reply.ready", "turn.failed">>) = 2
  /\ "worker" \in Emitters /\ "api" \in Emitters /\ "rival" \in Emitters
BY DEF Types, TerminalTypes, Emitters

\* Relay sends an entry behind the cursor, and goes on unless that was the end.
LEMMA RelaySends ==
  ASSUME TypeOK, IdInv, Relay
  PROVE  \E k \in DOMAIN stream :
           /\ relay.at = "read" /\ ~Gone
           /\ stream[k].id > relay.cursor /\ stream[k].id # Snapshot
           /\ \A j \in 1..(k - 1) : stream[j].id <= relay.cursor
           /\ wire' \in Seq(Events) /\ Len(wire') = Len(wire) + 1 /\ DOMAIN wire' = 1..(Len(wire) + 1)
           /\ \A i \in DOMAIN wire : wire'[i] = wire[i]
           /\ wire'[Len(wire) + 1] = stream[k]
           /\ \/ relay' = Off /\ stream[k].type \in TerminalTypes
              \/ /\ relay' = [relay EXCEPT !.cursor = stream[k].id]
                 /\ relay'.at = "read" /\ relay'.cursor = stream[k].id /\ relay'.state = relay.state
<1>1. PICK k \in DOMAIN stream :
        /\ stream[k].id > relay.cursor
        /\ \A j \in 1..(k - 1) : stream[j].id <= relay.cursor
        /\ wire' = Append(wire, stream[k])
        /\ relay' = IF stream[k].type \in TerminalTypes THEN Off
                    ELSE [relay EXCEPT !.cursor = stream[k].id]
  BY DEF Relay
<1>2. relay.at = "read" /\ ~Gone /\ stream[k].id # Snapshot
  <2>1. stream # <<>>
    BY <1>1, Indices
  <2> QED BY <1>1, <2>1, RealEntries DEF Relay, Gone
<1>3. /\ wire' \in Seq(Events) /\ Len(wire') = Len(wire) + 1 /\ DOMAIN wire' = 1..(Len(wire) + 1)
      /\ \A i \in DOMAIN wire : wire'[i] = wire[i]
      /\ wire'[Len(wire) + 1] = stream[k]
  BY <1>1, Indices, AppendProperties DEF TypeOK
<1>4. \/ relay' = Off /\ stream[k].type \in TerminalTypes
      \/ /\ relay' = [relay EXCEPT !.cursor = stream[k].id]
         /\ relay'.at = "read" /\ relay'.cursor = stream[k].id /\ relay'.state = relay.state
  BY <1>1, <1>2 DEF TypeOK
<1> QED BY <1>1, <1>2, <1>3, <1>4

\* While the first stream is there, it is the next entry.
LEMMA Relayed ==
  ASSUME TypeOK, IdInv, ChainInv, Relay, Original
  PROVE  LET k == client.lastId + Len(wire) + 1
         IN  /\ k \in DOMAIN stream /\ stream[k].id = k
             /\ Len(wire') = Len(wire) + 1 /\ DOMAIN wire' = 1..(Len(wire) + 1)
             /\ \A i \in DOMAIN wire : wire'[i] = wire[i]
             /\ wire'[Len(wire) + 1] = stream[k]
             /\ relay'.at = "off" \/ (relay'.at = "read" /\ relay'.cursor = k)
<1> DEFINE c == client.lastId + Len(wire)
<1>1. PICK k \in DOMAIN stream :
           /\ relay.at = "read" /\ ~Gone
           /\ stream[k].id > relay.cursor /\ stream[k].id # Snapshot
           /\ \A j \in 1..(k - 1) : stream[j].id <= relay.cursor
           /\ wire' \in Seq(Events) /\ Len(wire') = Len(wire) + 1 /\ DOMAIN wire' = 1..(Len(wire) + 1)
           /\ \A i \in DOMAIN wire : wire'[i] = wire[i]
           /\ wire'[Len(wire) + 1] = stream[k]
           /\ \/ relay' = Off /\ stream[k].type \in TerminalTypes
              \/ /\ relay' = [relay EXCEPT !.cursor = stream[k].id]
                 /\ relay'.at = "read" /\ relay'.cursor = stream[k].id /\ relay'.state = relay.state
  BY RelaySends
<1>2. /\ relay.cursor = c /\ c \in Nat
      /\ \A j \in DOMAIN stream : stream[j].id = j
  BY <1>1, Indices, Numbers DEF IdInv, ChainInv
<1>3. k = c + 1
  <2>1. k > c /\ k \in Nat
    BY <1>1, <1>2, Indices
  <2>2. k > c + 1 => c + 1 \in 1..(k - 1) /\ c + 1 \in DOMAIN stream
    BY <1>2, <2>1, Indices
  <2> QED BY <1>1, <1>2, <2>1, <2>2
<1>4. relay'.at = "off" \/ (relay'.at = "read" /\ relay'.cursor = k)
  BY <1>1, <1>2 DEF Off
<1> QED BY <1>1, <1>2, <1>3, <1>4

-----------------------------------------------------------------------------
(* Types and the initial state *)

RelayTypes == [at : {"off", "judge", "read"}, state : {"open"} \cup Terminal, cursor : NoId..Snapshot]
ClientPcs == {"connecting", "reading", "recovering", "done", "gaveup"}
ClientTypes == [pc : ClientPcs, lastId : NoId..Snapshot, lastSeq : Nat, attempt : 0..Retries]

LEMMA Scalars ==
  ASSUME TypeOK
  PROVE  /\ MaxEvents \in Nat /\ Snapshot = MaxEvents + 1
         /\ MaxWork \in Nat /\ MaxDrops \in Nat /\ MaxDeaths \in Nat
         /\ 0 \in 0..MaxEvents /\ 1 \in 1..MaxEvents /\ 2 \in 1..MaxEvents
         /\ NoId \in NoId..Snapshot /\ Snapshot \in NoId..Snapshot /\ Snapshot \in 1..Snapshot
         /\ relay \in RelayTypes /\ client \in ClientTypes
         /\ drops \in Nat /\ drops <= MaxDrops
<1>1. /\ MaxEvents \in Nat /\ MaxEvents > 3 /\ Snapshot = MaxEvents + 1
      /\ MaxWork \in Nat /\ MaxDrops \in Nat /\ MaxDeaths \in Nat
  BY Numbers, BoundsAssumption
<1>2. relay \in RelayTypes /\ client \in ClientTypes /\ drops \in Nat /\ drops <= MaxDrops
  BY BoundsAssumption DEF TypeOK, RelayTypes, ClientTypes, ClientPcs
<1> QED BY <1>1, <1>2 DEF NoId

\* What Judge does to the relay and the wire.
LEMMA Judged ==
  ASSUME TypeOK, Judge
  PROVE  /\ relay.at = "judge"
         /\ Gone /\ relay.state \in Terminal =>
              /\ relay' = Off
              /\ wire' = IF message
                   THEN <<Event(Snapshot, "reply.ready", 1), Event(Snapshot, EventOf(relay.state), 2)>>
                   ELSE <<Event(Snapshot, EventOf(relay.state), 1)>>
         /\ ~(Gone /\ relay.state \in Terminal) =>
              /\ relay' = [relay EXCEPT !.at = "read"] /\ wire' = wire
              /\ relay'.at = "read" /\ relay'.cursor = relay.cursor /\ relay'.state = relay.state
BY DEF Judge, Gone, TypeOK

\* A new place or a new step of the client, a new step of the relay.
LEMMA NewRecords ==
  ASSUME TypeOK
  PROVE  /\ \A pc \in ClientPcs : [client EXCEPT !.pc = pc] \in ClientTypes
         /\ client.attempt < Retries => [client EXCEPT !.pc = "connecting", !.attempt = @ + 1] \in ClientTypes
         /\ Off \in RelayTypes
         /\ \A at \in {"off", "judge", "read"} : [relay EXCEPT !.at = at] \in RelayTypes
         /\ \A c \in NoId..Snapshot : [relay EXCEPT !.cursor = c] \in RelayTypes
         /\ [at |-> "judge", state |-> row, cursor |-> client.lastId] \in RelayTypes
<1>1. relay \in RelayTypes /\ client \in ClientTypes /\ NoId \in NoId..Snapshot
      /\ row \in {"open"} \cup Terminal
  BY Scalars DEF TypeOK
<1>2. \A pc \in ClientPcs : [client EXCEPT !.pc = pc] \in ClientTypes
  BY <1>1 DEF ClientTypes
<1>3. ASSUME client.attempt < Retries
      PROVE  [client EXCEPT !.pc = "connecting", !.attempt = client.attempt + 1] \in ClientTypes
  <2>1. client.attempt + 1 \in 0..Retries
    BY <1>1, <1>3 DEF ClientTypes, Retries
  <2> QED BY <1>1, <2>1 DEF ClientTypes, ClientPcs
<1>4. Off \in RelayTypes
  BY <1>1 DEF RelayTypes, Off
<1>5. /\ \A at \in {"off", "judge", "read"} : [relay EXCEPT !.at = at] \in RelayTypes
      /\ \A c \in NoId..Snapshot : [relay EXCEPT !.cursor = c] \in RelayTypes
  BY <1>1 DEF RelayTypes
<1>6. client.lastId \in NoId..Snapshot
  BY <1>1 DEF ClientTypes
<1>7. [at |-> "judge", state |-> row, cursor |-> client.lastId] \in RelayTypes
  BY <1>1, <1>6 DEF RelayTypes
<1> QED BY <1>2, <1>3, <1>4, <1>5, <1>7

LEMMA TypeKeeps ==
  ASSUME TypeOK, IdInv, Next
  PROVE  TypeOK'
<1> USE DEF newsVars, turnVars, busVars, RestUnchanged
<1>1. ASSUME NEW type \in {"progress", "reply.ready"}, Work(type) PROVE TypeOK'
  <2>1. work < MaxWork
    BY <1>1 DEF Work
  <2>2. work + 1 \in 0..MaxWork
    BY <2>1, Scalars, Numbers
  <2>3. out' \in [Emitters -> Seq(Types)]
    BY <1>1, Publications, Published DEF Work
  <2> QED BY <1>1, <2>2, <2>3 DEF Work, TypeOK
<1>2. CASE Complete \/ Fail \/ Cancel
  <2>1. out' \in [Emitters -> Seq(Types)]
    BY <1>2, Publications, Published DEF Complete, Fail, Cancel, Close
  <2> QED BY <1>2, <2>1 DEF Complete, Fail, Cancel, Close, TypeOK, Terminal
<1>3. CASE Supersede
  <2>1. out' \in [Emitters -> Seq(Types)]
    BY <1>3, Publications, Published DEF Supersede, SupersedeAnnounces, SupersedeCommits, SupersedeFails, TypeOK
  <2> QED BY <1>3, <2>1 DEF Supersede, SupersedeAnnounces, SupersedeCommits, SupersedeFails, TypeOK, Terminal
<1>4. ASSUME NEW e \in Emitters, Die(e) PROVE TypeOK'
  <2>1. deaths' \in 0..MaxDeaths
    <3>1. deaths \in 0..MaxDeaths
      BY DEF TypeOK
    <3>2. deaths < MaxDeaths /\ deaths' = deaths + 1
      BY <1>4 DEF Die
    <3> QED BY <3>1, <3>2, BoundsAssumption
  <2>2. 0 \in 0..MaxEvents
    BY Scalars
  <2>3. <<>> \in Seq(Types)
    OBVIOUS
  <2> QED BY <1>4, <2>1, <2>2, <2>3 DEF Die, TypeOK
<1>5. ASSUME NEW e \in Emitters, Incr(e) PROVE TypeOK'
  <2>1. Undrawn(out[e], held[e]) > 0
    BY <1>5, Counts DEF Incr, Undrawn, Queued
  <2>2. Undrawn(out[e], held[e]) \in Nat /\ seqNo + Undrawn(out[e], held[e]) <= work + Room - 1
    BY Counts
  <2>3. seqNo + 1 \in 0..MaxEvents
    BY <2>1, <2>2, Numbers
  <2> QED BY <1>5, <2>3 DEF Incr, TypeOK
<1>6. ASSUME NEW e \in Emitters, Xadd(e) PROVE TypeOK'
  <2>1. /\ stream' \in Seq(Events) /\ out' \in [Emitters -> Seq(Types)]
        /\ held' \in [Emitters -> 0..MaxEvents] /\ nextId <= MaxEvents
    BY <1>6, Appended
  <2>2. nextId' \in 1..Snapshot /\ expiring' \in BOOLEAN
    <3>1. nextId + 1 \in 1..Snapshot
      BY <2>1, Numbers
    <3> QED BY <1>6, <3>1 DEF Xadd, TypeOK
  <2> QED BY <1>6, <2>1, <2>2 DEF Xadd, TypeOK
<1>7. CASE Expire
  <2>1. <<>> \in Seq(Events) /\ 0 \in 0..MaxEvents
    BY Scalars
  <2> QED BY <1>7, <2>1 DEF Expire, TypeOK
<1>8. CASE Connect
  <2>1. relay' \in RelayTypes /\ client' \in ClientTypes /\ <<>> \in Seq(Events)
    BY <1>8, NewRecords DEF Connect, ClientPcs
  <2> QED BY <1>8, <2>1 DEF Connect, TypeOK, RelayTypes, ClientTypes, ClientPcs
<1>9. CASE Judge
  <2>1. relay.state \in Terminal =>
          /\ Event(Snapshot, EventOf(relay.state), 1) \in Events
          /\ Event(Snapshot, EventOf(relay.state), 2) \in Events
    <3>1. relay.state \in Terminal => EventOf(relay.state) \in Types
      BY DEF EventOf, Types, Terminal, TerminalTypes
    <3> QED BY <3>1, Scalars DEF Event, Events
  <2>2. Event(Snapshot, "reply.ready", 1) \in Events
    BY Scalars DEF Event, Events, Types
  <2>3. wire' \in Seq(Events)
    <3>1. CASE relay.state \in Terminal
      <4>1. /\ <<Event(Snapshot, EventOf(relay.state), 1)>> \in Seq(Events)
            /\ <<Event(Snapshot, "reply.ready", 1), Event(Snapshot, EventOf(relay.state), 2)>> \in Seq(Events)
        BY <2>1, <2>2, <3>1
      <4> QED BY <1>9, <4>1 DEF Judge, TypeOK
    <3>2. CASE relay.state \notin Terminal
      BY <1>9, <3>2 DEF Judge, TypeOK
    <3> QED BY <3>1, <3>2
  <2>4. relay' \in RelayTypes
    BY <1>9, NewRecords DEF Judge
  <2> QED BY <1>9, <2>3, <2>4 DEF Judge, TypeOK, RelayTypes
<1>10. CASE Relay
  <2>1. PICK k \in DOMAIN stream :
          /\ wire' \in Seq(Events)
          /\ relay' = Off \/ relay' = [relay EXCEPT !.cursor = stream[k].id]
    BY <1>10, RelaySends
  <2>2. stream[k].id \in NoId..Snapshot
    BY Indices, Numbers DEF Events, NoId
  <2>3. relay' \in RelayTypes
    BY <2>1, <2>2, NewRecords
  <2> QED BY <1>10, <2>1, <2>3 DEF Relay, TypeOK, RelayTypes
<1>11. CASE Refuse \/ Drop
  <2>1. relay' = Off /\ Off \in RelayTypes /\ wire' \in Seq(Events)
    <3>1. Off \in RelayTypes
      BY NewRecords
    <3>2. relay' = Off /\ (wire' = wire \/ wire' = <<>>)
      BY <1>11 DEF Refuse, Drop
    <3>3. wire \in Seq(Events) /\ <<>> \in Seq(Events)
      BY DEF TypeOK
    <3> QED BY <3>1, <3>2, <3>3
  <2>2. drops' \in 0..MaxDrops
    BY <1>11, Scalars DEF Refuse, Drop
  <2> QED BY <1>11, <2>1, <2>2 DEF Refuse, Drop, TypeOK, RelayTypes
<1>12. CASE Read
  <2>1. /\ wire \in Seq(Events) /\ wire # <<>> /\ Head(wire) \in Events /\ wire' \in Seq(Events)
    BY <1>12, HeadTailProperties DEF Read, TypeOK
  <2>2. /\ Head(wire).id \in NoId..Snapshot /\ (Head(wire).id # Snapshot => Head(wire).id \in 1..MaxEvents)
        /\ LogicalSeq(Head(wire)) \in Nat
    <3>1. Head(wire) = wire[1] /\ 1 \in DOMAIN wire
      BY <2>1
    <3>2. Head(wire).seq \in Nat /\ Head(wire).id \in 1..Snapshot
      BY <2>1, <3>1, Numbers DEF Events
    <3> QED BY <3>2, Numbers DEF NoId, LogicalSeq
  <2>3. client' \in ClientTypes
    BY <1>12, <2>2, Scalars DEF Read, ClientTypes, ClientPcs
  <2>4. given' \subseteq 1..MaxEvents
    BY <1>12, <2>2 DEF Read, TypeOK
  <2>5. heard' \in BOOLEAN
    BY <1>12 DEF Read, TypeOK
  <2>6. told' \in {"none"} \cup Terminal
    BY <1>12 DEF Read, TypeOK, Outcome, Terminal, TerminalTypes
  <2> QED BY <1>12, <2>1, <2>3, <2>4, <2>5, <2>6 DEF Read, TypeOK, ClientTypes, ClientPcs
<1>13. CASE Disconnected
  <2>1. client' \in ClientTypes
    BY <1>13, NewRecords DEF Disconnected, ClientPcs
  <2> QED BY <1>13, <2>1 DEF Disconnected, TypeOK, ClientTypes, ClientPcs
<1>14. CASE Recover \/ RecoverFails
  <2>1. client' \in ClientTypes
    BY <1>14, NewRecords DEF Recover, RecoverFails, ClientPcs
  <2>2. drops' \in 0..MaxDrops
    BY <1>14, Scalars DEF Recover, RecoverFails
  <2>3. heard' \in BOOLEAN /\ told' \in {"none"} \cup Terminal
    BY <1>14 DEF Recover, RecoverFails, TypeOK
  <2> QED BY <1>14, <2>1, <2>2, <2>3 DEF Recover, RecoverFails, TypeOK, ClientTypes, ClientPcs
<1> QED BY <1>1, <1>2, <1>3, <1>4, <1>5, <1>6, <1>7, <1>8, <1>9, <1>10, <1>11, <1>12, <1>13, <1>14
        DEF Next, Emit, Serve, Follow, Turn, Trouble

LEMMA InitInv == Init => IInv
<1> SUFFICES ASSUME Init PROVE IInv
  OBVIOUS
<1>1. TypeOK
  <2>1. /\ MaxEvents \in Nat /\ MaxEvents > 3 /\ Snapshot = MaxEvents + 1
        /\ 2 \in 1..Snapshot /\ 1 \in 1..Snapshot /\ 1 \in 1..MaxEvents /\ 0 \in 0..MaxEvents /\ NoId \in NoId..Snapshot
        /\ 1 \in 0..MaxEvents
    BY BoundsAssumption DEF Snapshot, MaxEvents, NoId
  <2>2. stream \in Seq(Events)
    BY <2>1 DEF Init, Event, Events, Types
  <2>3. relay \in RelayTypes /\ client \in ClientTypes
    BY <2>1 DEF Init, Off, RelayTypes, ClientTypes, ClientPcs, Retries
  <2>4. nextId \in 1..Snapshot
    BY <2>1 DEF Init
  <2>5. out \in [Emitters -> Seq(Types)] /\ held \in [Emitters -> 0..MaxEvents] /\ wire \in Seq(Events)
    BY <2>1 DEF Init
  <2>6. work \in 0..MaxWork /\ seqNo \in 0..MaxEvents /\ drops \in 0..MaxDrops /\ deaths \in 0..MaxDeaths
    BY <2>1, BoundsAssumption DEF Init
  <2> QED BY <2>2, <2>3, <2>4, <2>5, <2>6 DEF Init, TypeOK, RelayTypes, ClientTypes, ClientPcs
<1>2. /\ DOMAIN stream = {1} /\ stream[1] = Event(1, "turn.accepted", 1) /\ ~Gone /\ Len(stream) = 1 /\ Original
      /\ stream[1].id = 1 /\ stream[1].seq = 1 /\ stream[1].type = "turn.accepted"
      /\ DOMAIN wire = {} /\ wire = <<>> /\ Len(wire) = 0
      /\ \A e \in Emitters : DOMAIN out[e] = {} /\ Len(out[e]) = 0 /\ held[e] = 0
  BY DEF Init, Gone, Original, Renumbered, Event
<1>3. TurnInv /\ TruthInv
  BY <1>2 DEF Init, TurnInv, TruthInv, OutTruth, StreamTruth, WireTruth, Truthful, TerminalTypes,
              Off, Terminal
<1>4. IdInv
  BY <1>2 DEF Init, IdInv, Room, Total, Queued, Undrawn, Emitters
<1>5. OutInv /\ SeqInv
  BY <1>2 DEF Init, OutInv, SeqInv, Emitters
<1>6. ReplyInv
  BY <1>2 DEF Init, ReplyInv, Endings, Emitters
<1>7. ChainInv /\ WireInv
  BY <1>2 DEF Init, ChainInv, WireInv, Off, NoId
<1>8. NoneSkipped
  BY <1>2 DEF Init, NoneSkipped, NoId
<1>9. PlaceInv
  <2>1. Snapshot # NoId
    BY <1>1, Numbers DEF NoId
  <2> QED BY <1>2, <2>1 DEF Init, PlaceInv, CursorIsReal, Off
<1> QED BY <1>1, <1>3, <1>4, <1>5, <1>6, <1>7, <1>8, <1>9 DEF IInv

-----------------------------------------------------------------------------
(* Truth *)

\* A turn once closed stays closed, what was said stays said, a reply stays stored.
LEMMA RowStays ==
  ASSUME TypeOK, Next
  PROVE  /\ row \in Terminal => row' \in Terminal
         /\ claims \subseteq claims'
         /\ message => message'
<1> USE DEF newsVars, turnVars, busVars, RestUnchanged, Terminal
<1>1. CASE Turn
  BY <1>1 DEF Turn, Work, Complete, Fail, Cancel, Close
<1>2. CASE Supersede
  BY <1>2 DEF Supersede, SupersedeAnnounces, SupersedeCommits, SupersedeFails
<1>3. CASE Emit \/ Serve
  BY <1>3 DEF Emit, Incr, Xadd, Serve, Connect, Judge, Relay, Refuse
<1>4. CASE Follow \/ Trouble
  BY <1>4 DEF Follow, Read, Disconnected, Recover, Trouble, Die, Expire, Drop, RecoverFails
<1> QED BY <1>1, <1>2, <1>3, <1>4 DEF Next

\* Who is done stays done.
LEMMA DoneStays ==
  ASSUME TypeOK, Next, client.pc = "done"
  PROVE  client' = client
<1> USE DEF newsVars, turnVars, busVars, RestUnchanged
<1>1. CASE Turn \/ Supersede
  BY <1>1, Committed
<1>2. CASE Emit \/ Serve
  BY <1>2 DEF Emit, Incr, Xadd, Serve, Connect, Judge, Relay, Refuse
<1>3. CASE Follow \/ Trouble
  BY <1>3 DEF Follow, Read, Disconnected, Recover, Trouble, Die, Expire, Drop, RecoverFails
<1> QED BY <1>1, <1>2, <1>3 DEF Next

\* What was said of the turn stays so.
LEMMA TruthStays ==
  ASSUME TypeOK, Next
  PROVE  \A type \in Types : Truthful(type, claims, message) => Truthful(type, claims', message')
BY RowStays DEF Truthful

\* What the client reads.
LEMMA Taken ==
  ASSUME TypeOK, Read
  PROVE  LET event == wire[1]
             fresh == LogicalSeq(event) > client.lastSeq
             ends == fresh /\ event.type \in TerminalTypes
         IN  /\ 1 \in DOMAIN wire /\ event \in Events
             /\ wire' \in Seq(Events) /\ Len(wire') = Len(wire) - 1
             /\ \A i \in DOMAIN wire' : i + 1 \in DOMAIN wire /\ wire'[i] = wire[i + 1]
             /\ client.pc = "reading" /\ LogicalSeq(event) \in Nat
             /\ client'.lastId = event.id
             /\ client'.lastSeq = (IF fresh THEN LogicalSeq(event) ELSE client.lastSeq)
             /\ client'.pc = (IF ends THEN "done" ELSE "reading")
             /\ given' = (IF fresh /\ event.id # Snapshot THEN given \cup {event.id} ELSE given)
             /\ heard' = (heard \/ (fresh /\ event.type = "reply.ready"))
             /\ told' = (IF ends THEN Outcome(event.type) ELSE told)
<1>1. /\ wire \in Seq(Events) /\ wire # <<>> /\ Head(wire) = wire[1] /\ 1 \in DOMAIN wire
      /\ wire' = Tail(wire) /\ client.pc = "reading"
  BY Indices DEF TypeOK, Read
<1>2. /\ wire' \in Seq(Events) /\ Len(wire') = Len(wire) - 1
      /\ \A i \in DOMAIN wire' : i + 1 \in DOMAIN wire /\ wire'[i] = wire[i + 1]
  BY <1>1, HeadTailProperties
<1>3. wire[1] \in Events /\ LogicalSeq(wire[1]) \in Nat
  <2>1. wire[1] \in Events /\ wire[1].seq \in Nat /\ client.lastSeq \in Nat
    BY <1>1, Indices, Numbers
  <2> QED BY <2>1 DEF LogicalSeq
<1>4. /\ client'.lastId = wire[1].id
      /\ client'.lastSeq = (IF LogicalSeq(wire[1]) > client.lastSeq THEN LogicalSeq(wire[1]) ELSE client.lastSeq)
      /\ client'.pc = (IF LogicalSeq(wire[1]) > client.lastSeq /\ wire[1].type \in TerminalTypes
                      THEN "done" ELSE "reading")
  BY <1>1 DEF Read, TypeOK
<1> QED BY <1>1, <1>2, <1>3, <1>4 DEF Read

\* A publication, by the types of its events.
LEMMA PublishedTruth ==
  ASSUME IInv, Next, NEW o \in Emitters, NEW types \in Seq(Types), Publish(o, types),
         \A j \in DOMAIN types : Truthful(types[j], claims', message')
  PROVE  OutTruth'
<1>1. \A e \in Emitters : \A j \in DOMAIN out[e] : Truthful(out[e][j], claims', message')
  BY TruthStays, Indices DEF IInv, TruthInv, OutTruth
<1>2. ASSUME NEW e \in Emitters, NEW i \in DOMAIN out'[e] PROVE Truthful(out'[e][i], claims', message')
  BY <1>1, Published DEF IInv
<1> QED BY <1>2 DEF OutTruth

LEMMA OutTruthKeeps ==
  ASSUME IInv, Next
  PROVE  OutTruth'
<1>0. \A e \in Emitters : \A j \in DOMAIN out[e] : Truthful(out[e][j], claims', message')
  BY TruthStays, Indices DEF IInv, TruthInv, OutTruth
<1> USE DEF newsVars, turnVars, busVars, RestUnchanged
<1>1. CASE UNCHANGED out
  BY <1>0, <1>1 DEF OutTruth
<1>2. ASSUME NEW type \in {"progress", "reply.ready"}, Work(type) PROVE OutTruth'
  <2>1. Truthful(type, claims', message') /\ Publish("worker", <<type>>)
    BY <1>2 DEF Work, Truthful, TerminalTypes
  <2>2. DOMAIN <<type>> = {1} /\ <<type>>[1] = type
    OBVIOUS
  <2> QED BY <2>1, <2>2, Publications, PublishedTruth
<1>3. CASE Complete
  <2>1. Truthful("turn.completed", claims', message') /\ Publish("worker", <<"turn.completed">>)
    BY <1>3 DEF Complete, Close, Truthful, Outcome
  <2>2. DOMAIN <<"turn.completed">> = {1} /\ <<"turn.completed">>[1] = "turn.completed"
    OBVIOUS
  <2> QED BY <2>1, <2>2, Publications, PublishedTruth
<1>4. CASE Fail
  <2>1. /\ Truthful("turn.failed", claims', message') /\ Truthful("reply.ready", claims', message')
        /\ Publish("worker", <<"reply.ready", "turn.failed">>)
    BY <1>4 DEF Fail, Close, Truthful, Outcome, TerminalTypes
  <2>2. /\ DOMAIN <<"reply.ready", "turn.failed">> = {1, 2}
        /\ <<"reply.ready", "turn.failed">>[1] = "reply.ready" /\ <<"reply.ready", "turn.failed">>[2] = "turn.failed"
    OBVIOUS
  <2> QED BY <2>1, <2>2, Publications, PublishedTruth
<1>5. CASE Cancel \/ SupersedeAnnounces
  <2>1. /\ Truthful("turn.cancelled", claims', message')
        /\ Publish("api", <<"turn.cancelled">>) \/ Publish("rival", <<"turn.cancelled">>)
    BY <1>5 DEF Cancel, Close, SupersedeAnnounces, Truthful, Outcome
  <2>2. DOMAIN <<"turn.cancelled">> = {1} /\ <<"turn.cancelled">>[1] = "turn.cancelled"
    OBVIOUS
  <2> QED BY <2>1, <2>2, Publications, PublishedTruth
<1>6. ASSUME NEW o \in Emitters, Die(o) PROVE OutTruth'
  <2>1. \A e \in Emitters : out'[e] = out[e] \/ out'[e] = <<>>
    BY <1>6 DEF Die, IInv, TypeOK
  <2> QED BY <1>0, <2>1 DEF OutTruth
<1>7. ASSUME NEW o \in Emitters, Xadd(o) PROVE OutTruth'
  <2>1. ASSUME NEW e \in Emitters, NEW i \in DOMAIN out'[e] PROVE Truthful(out'[e][i], claims', message')
    BY <1>0, <1>7, Appended DEF IInv
  <2> QED BY <2>1 DEF OutTruth
<1>8. CASE Serve \/ Follow \/ SupersedeCommits \/ SupersedeFails
  BY <1>1, <1>8 DEF Serve, Connect, Judge, Relay, Refuse, Follow, Read, Disconnected, Recover,
                    SupersedeCommits, SupersedeFails
<1>9. CASE Expire \/ Drop \/ RecoverFails \/ \E o \in Emitters : Incr(o)
  BY <1>1, <1>9 DEF Expire, Drop, RecoverFails, Incr
<1> QED BY <1>2, <1>3, <1>4, <1>5, <1>6, <1>7, <1>8, <1>9 DEF Next, Emit, Turn, Supersede, Trouble

LEMMA StreamTruthKeeps ==
  ASSUME IInv, Next
  PROVE  StreamTruth'
<1>0. \A j \in DOMAIN stream : Truthful(stream[j].type, claims', message')
  <2>1. \A j \in DOMAIN stream : stream[j].type \in Types
    BY Indices DEF IInv, Events
  <2> QED BY <2>1, TruthStays DEF IInv, TruthInv, StreamTruth
<1> USE DEF newsVars, turnVars, busVars
<1>1. CASE UNCHANGED stream
  BY <1>0, <1>1 DEF StreamTruth
<1>2. ASSUME NEW e \in Emitters, Xadd(e) PROVE StreamTruth'
  <2>1. 1 \in DOMAIN out[e] /\ Truthful(out[e][1], claims', message')
    <3>1. 1 \in DOMAIN out[e]
      BY <1>2, Appended, Indices DEF IInv
    <3> QED BY <3>1, TruthStays, Indices DEF IInv, TruthInv, OutTruth
  <2>2. ASSUME NEW k \in DOMAIN stream' PROVE Truthful(stream'[k].type, claims', message')
    <3>1. CASE k \in DOMAIN stream
      BY <1>0, <1>2, <3>1, Appended DEF IInv
    <3>2. CASE k \notin DOMAIN stream
      <4>1. k = Len(stream) + 1
        BY <1>2, <3>2, Appended, Indices DEF IInv
      <4>2. stream'[k].type = out[e][1]
        BY <1>2, <4>1, Appended DEF IInv
      <4> QED BY <2>1, <4>2
    <3> QED BY <3>1, <3>2
  <2> QED BY <2>2 DEF StreamTruth
<1>3. CASE Expire
  BY <1>3 DEF Expire, StreamTruth
<1>4. CASE Serve \/ Follow \/ Turn \/ Supersede
  BY <1>1, <1>4, Committed DEF Serve, Connect, Judge, Relay, Refuse, Follow, Read, Disconnected, Recover
<1>5. CASE Drop \/ RecoverFails \/ (\E o \in Emitters : Incr(o) \/ Die(o))
  BY <1>1, <1>5 DEF Drop, RecoverFails, Incr, Die
<1> QED BY <1>2, <1>3, <1>4, <1>5 DEF Next, Emit, Trouble

LEMMA WireTruthKeeps ==
  ASSUME IInv, Next
  PROVE  WireTruth'
<1> SUFFICES ASSUME NEW i \in DOMAIN wire' PROVE Truthful(wire'[i].type, claims', message')
  BY DEF WireTruth
<1>0. \A j \in DOMAIN wire : Truthful(wire[j].type, claims', message')
  <2>1. \A j \in DOMAIN wire : wire[j].type \in Types
    BY Indices DEF IInv, Events
  <2> QED BY <2>1, TruthStays DEF IInv, TruthInv, WireTruth
<1> USE DEF newsVars, turnVars, busVars
<1>1. CASE UNCHANGED wire
  BY <1>0, <1>1
<1>2. CASE Connect \/ Drop
  BY <1>2 DEF Connect, Drop
<1>3. CASE Judge
  <2>0. UNCHANGED <<claims, message>>
    BY <1>3 DEF Judge
  <2>1. relay.state \in Terminal => Truthful(EventOf(relay.state), claims', message')
    BY <2>0 DEF Truthful, Terminal, EventOf, Outcome, TerminalTypes, IInv, TurnInv
  <2>2. message => Truthful("reply.ready", claims', message')
    BY <2>0 DEF Truthful, TerminalTypes
  <2>3. CASE Gone /\ relay.state \in Terminal
    <3>1. wire' = IF message
            THEN <<Event(Snapshot, "reply.ready", 1), Event(Snapshot, EventOf(relay.state), 2)>>
            ELSE <<Event(Snapshot, EventOf(relay.state), 1)>>
      BY <1>3, <2>3, Judged DEF IInv
    <3> QED BY <2>1, <2>2, <2>3, <3>1 DEF Event
  <2>4. CASE ~(Gone /\ relay.state \in Terminal)
    BY <1>1, <1>3, <2>4, Judged DEF IInv
  <2> QED BY <2>3, <2>4
<1>4. CASE Relay
  <2>1. \A k \in DOMAIN stream : Truthful(stream[k].type, claims', message')
    <3>1. \A j \in DOMAIN stream : stream[j].type \in Types
      BY Indices DEF IInv, Events
    <3> QED BY <3>1, TruthStays DEF IInv, TruthInv, StreamTruth
  <2>2. PICK k \in DOMAIN stream :
          /\ DOMAIN wire' = 1..(Len(wire) + 1) /\ wire'[Len(wire) + 1] = stream[k]
          /\ \A j \in DOMAIN wire : wire'[j] = wire[j]
    BY <1>4, RelaySends DEF IInv
  <2>3. i \in DOMAIN wire \/ i = Len(wire) + 1
    BY <2>2, Indices DEF IInv
  <2> QED BY <1>0, <2>1, <2>2, <2>3
<1>5. CASE Read
  BY <1>0, <1>5, Taken DEF IInv
<1>6. CASE Emit \/ Turn \/ Supersede \/ Refuse \/ Disconnected \/ Recover
  BY <1>1, <1>6, Committed DEF Emit, Incr, Xadd, Refuse, Disconnected, Recover
<1>7. CASE Expire \/ RecoverFails \/ (\E o \in Emitters : Die(o))
  BY <1>1, <1>7 DEF Expire, RecoverFails, Die
<1> QED BY <1>2, <1>3, <1>4, <1>5, <1>6, <1>7 DEF Next, Serve, Follow, Trouble

LEMMA TurnKeeps ==
  ASSUME IInv, Next, TypeOK'
  PROVE  TurnInv'
<1> USE DEF newsVars, turnVars, busVars, RestUnchanged
<1>0. TypeOK /\ TurnInv
  BY DEF IInv
<1>1. CASE Turn
  BY <1>0, <1>1 DEF Turn, Work, Complete, Fail, Cancel, Close, TurnInv, Terminal
<1>2. CASE Supersede
  BY <1>0, <1>2 DEF Supersede, SupersedeAnnounces, SupersedeCommits, SupersedeFails, TurnInv, Terminal
<1>3. ASSUME NEW e \in Emitters, Xadd(e) PROVE TurnInv'
  <2>1. 1 \in DOMAIN out[e] /\ Truthful(out[e][1], claims, message)
    BY <1>3, Appended, Indices DEF IInv, TruthInv, OutTruth
  <2>2. expiring' => claims # {}
    <3>1. Head(out[e]) = out[e][1] /\ expiring' = (expiring \/ Head(out[e]) \in TerminalTypes)
      BY <1>3, Appended DEF IInv, Xadd
    <3>2. out[e][1] \in TerminalTypes => claims # {}
      BY <2>1 DEF Truthful
    <3> QED BY <1>0, <3>1, <3>2 DEF TurnInv
  <2> QED BY <1>0, <1>3, <2>2 DEF Xadd, TurnInv
<1>4. CASE Expire \/ (\E e \in Emitters : Incr(e) \/ Die(e))
  BY <1>0, <1>4 DEF Expire, Incr, Die, TurnInv
<1>5. CASE Connect
  BY <1>0, <1>5 DEF Connect, TurnInv, TypeOK
<1>6. CASE Judge
  <2>1. relay'.state \in Terminal => relay'.state = relay.state
    BY <1>0, <1>6, Judged DEF Off, Terminal
  <2> QED BY <1>0, <1>6, <2>1 DEF Judge, TurnInv
<1>7. CASE Relay
  <2>1. relay'.state \in Terminal => relay'.state = relay.state
    <3>1. relay' = Off \/ relay'.state = relay.state
      BY <1>0, <1>7, RelaySends DEF IInv
    <3> QED BY <3>1 DEF Off, Terminal
  <2> QED BY <1>0, <1>7, <2>1 DEF Relay, TurnInv
<1>8. CASE Refuse \/ Drop
  BY <1>0, <1>8 DEF Refuse, Drop, Off, TurnInv, Terminal
<1>9. CASE Read
  <2>1. 1 \in DOMAIN wire /\ Truthful(wire[1].type, claims, message)
    BY <1>9, Taken DEF IInv, TruthInv, WireTruth
  <2>2. heard' => message
    BY <1>0, <1>9, <2>1, Taken DEF TurnInv, Truthful
  <2>3. told' # "none" => client'.pc = "done"
    <3>1. told = "none"
      BY <1>0, <1>9 DEF Read, TurnInv
    <3> QED BY <1>0, <1>9, <3>1, Taken
  <2> QED BY <1>0, <1>9, <2>2, <2>3 DEF Read, TurnInv
<1>10. CASE Disconnected \/ Recover \/ RecoverFails
  BY <1>0, <1>10 DEF Disconnected, Recover, RecoverFails, TurnInv, TypeOK
<1> QED BY <1>1, <1>2, <1>3, <1>4, <1>5, <1>6, <1>7, <1>8, <1>9, <1>10 DEF Next, Emit, Serve, Follow, Trouble

-----------------------------------------------------------------------------
(* Ids, numbers and who publishes *)

\* One of three terms changes.
\* A term and the counter may grow as much as the bound.
Grown(x, p, m, a, n, k) == x + p + m <= a + n + k

LEMMA Sums ==
  \A a, b, c, n, m, x, p, k \in Nat :
    Total(a, b, c, n) <= m =>
      /\ Grown(x, p, m, a, n, k) => Total(x, b, c, p) <= k
      /\ Grown(x, p, m, b, n, k) => Total(a, x, c, p) <= k
      /\ Grown(x, p, m, c, n, k) => Total(a, b, x, p) <= k
BY DEF Total, Grown

\* A step of one emitter keeps to the bounds if what is queued and the counters
\* grow no more than they do.
LEMMA Counting ==
  ASSUME TypeOK, IdInv, out' \in [Emitters -> Seq(Types)], NEW e \in Emitters,
         \A o \in Emitters : o # e => out'[o] = out[o] /\ held'[o] = held[o],
         held'[e] # 0 => out'[e] # <<>>,
         NEW bound \in Nat, NEW id \in Nat, NEW number \in Nat,
         Grown(Queued(out'[e]), id, work + Room, Queued(out[e]), nextId, bound),
         Grown(Undrawn(out'[e], held'[e]), number, work + Room, Undrawn(out[e], held[e]), seqNo + 1, bound)
  PROVE  /\ \A o \in Emitters : held'[o] # 0 => out'[o] # <<>>
         /\ Total(Queued(out'["worker"]), Queued(out'["api"]), Queued(out'["rival"]), id) <= bound
         /\ Total(Undrawn(out'["worker"], held'["worker"]), Undrawn(out'["api"], held'["api"]),
                 Undrawn(out'["rival"], held'["rival"]), number) <= bound
<1> DEFINE was(o) == Queued(out[o])
           had(o) == Undrawn(out[o], held[o])
           q == Queued(out'[e])
           u == Undrawn(out'[e], held'[e])
<1>1. \A o \in Emitters : held'[o] # 0 => out'[o] # <<>>
  BY DEF IdInv
<1>2. /\ "worker" \in Emitters /\ "api" \in Emitters /\ "rival" \in Emitters
      /\ e = "worker" \/ e = "api" \/ e = "rival"
      /\ nextId \in Nat /\ seqNo + 1 \in Nat /\ work + Room \in Nat
  <2>1. nextId \in Nat /\ seqNo \in Nat /\ work \in Nat /\ Room \in Nat
    BY Numbers
  <2> QED BY <2>1 DEF Emitters
<1>3. /\ was("worker") \in Nat /\ was("api") \in Nat /\ was("rival") \in Nat
      /\ had("worker") \in Nat /\ had("api") \in Nat /\ had("rival") \in Nat
  BY <1>2, Counts
<1>4. q \in Nat /\ u \in Nat
  <2>1. Queued(out'[e]) \in Nat /\ (out'[e] # <<>> => Queued(out'[e]) > 0)
    BY DEF Queued
  <2> QED BY <1>1, <2>1 DEF Undrawn, Queued
<1>5. /\ Total(was("worker"), was("api"), was("rival"), nextId) <= work + Room
      /\ Total(had("worker"), had("api"), had("rival"), seqNo + 1) <= work + Room
      /\ Grown(q, id, work + Room, was(e), nextId, bound)
      /\ Grown(u, number, work + Room, had(e), seqNo + 1, bound)
  BY DEF IdInv
<1>6. \A o \in Emitters : o # e => was(o) = Queued(out'[o]) /\ had(o) = Undrawn(out'[o], held'[o])
  OBVIOUS
<1>7. CASE e = "worker"
  <2>1. /\ Total(q, was("api"), was("rival"), id) <= bound
        /\ Total(u, had("api"), had("rival"), number) <= bound
    BY <1>2, <1>3, <1>4, <1>5, <1>7, Sums
  <2>2. /\ was("api") = Queued(out'["api"]) /\ was("rival") = Queued(out'["rival"])
        /\ had("api") = Undrawn(out'["api"], held'["api"]) /\ had("rival") = Undrawn(out'["rival"], held'["rival"])
    BY <1>2, <1>6, <1>7
  <2> QED BY <1>1, <1>7, <2>1, <2>2, Zenon
<1>8. CASE e = "api"
  <2>1. /\ Total(was("worker"), q, was("rival"), id) <= bound
        /\ Total(had("worker"), u, had("rival"), number) <= bound
    BY <1>2, <1>3, <1>4, <1>5, <1>8, Sums
  <2>2. /\ was("worker") = Queued(out'["worker"]) /\ was("rival") = Queued(out'["rival"])
        /\ had("worker") = Undrawn(out'["worker"], held'["worker"])
        /\ had("rival") = Undrawn(out'["rival"], held'["rival"])
    BY <1>2, <1>6, <1>8
  <2> QED BY <1>1, <1>8, <2>1, <2>2, Zenon
<1>9. CASE e = "rival"
  <2>1. /\ Total(was("worker"), was("api"), q, id) <= bound
        /\ Total(had("worker"), had("api"), u, number) <= bound
    BY <1>2, <1>3, <1>4, <1>5, <1>9, Sums
  <2>2. /\ was("worker") = Queued(out'["worker"]) /\ was("api") = Queued(out'["api"])
        /\ had("worker") = Undrawn(out'["worker"], held'["worker"]) /\ had("api") = Undrawn(out'["api"], held'["api"])
    BY <1>2, <1>6, <1>9
  <2> QED BY <1>1, <1>9, <2>1, <2>2, Zenon
<1> QED BY <1>2, <1>7, <1>8, <1>9

\* What a step has to show of what is queued.
Counted ==
  /\ \A e \in Emitters : held[e] # 0 => out[e] # <<>>
  /\ Total(Queued(out["worker"]), Queued(out["api"]), Queued(out["rival"]), nextId) <= work + Room
  /\ Total(Undrawn(out["worker"], held["worker"]), Undrawn(out["api"], held["api"]),
                 Undrawn(out["rival"], held["rival"]), seqNo + 1) <= work + Room

LEMMA NewCounts ==
  ASSUME TypeOK, IdInv, out' \in [Emitters -> Seq(Types)], NEW e \in Emitters,
         \A o \in Emitters : o # e => out'[o] = out[o] /\ held'[o] = held[o],
         held'[e] # 0 => out'[e] # <<>>,
         NEW bound \in Nat, bound = work' + Room',
         NEW id \in Nat, nextId' = id, NEW number \in Nat, seqNo' + 1 = number,
         Grown(Queued(out'[e]), id, work + Room, Queued(out[e]), nextId, bound),
         Grown(Undrawn(out'[e], held'[e]), number, work + Room, Undrawn(out[e], held[e]), seqNo + 1, bound)
  PROVE  Counted'
<1>1. /\ \A o \in Emitters : held'[o] # 0 => out'[o] # <<>>
      /\ Total(Queued(out'["worker"]), Queued(out'["api"]), Queued(out'["rival"]), id) <= bound
      /\ Total(Undrawn(out'["worker"], held'["worker"]), Undrawn(out'["api"], held'["api"]),
                 Undrawn(out'["rival"], held'["rival"]), number) <= bound
  BY Counting
<1> QED BY <1>1 DEF Counted

\* A publication fits if the bound grows with it.
LEMMA PublishedCounts ==
  ASSUME TypeOK, IdInv, NEW e \in Emitters, NEW types \in Seq(Types), Publish(e, types),
         UNCHANGED <<nextId, held, seqNo>>, NEW bound \in Nat, bound = work' + Room',
         work + Room + Len(types) <= bound
  PROVE  Counted'
<1>1. /\ out[e] = <<>> /\ out'[e] = types /\ out' \in [Emitters -> Seq(Types)]
      /\ \A o \in Emitters : o # e => out'[o] = out[o] /\ held'[o] = held[o]
  BY Published
<1>2. held[e] = 0 /\ held'[e] = 0
  BY <1>1 DEF IdInv
<1>3. /\ Queued(out[e]) = 0 /\ Queued(out'[e]) = Len(types)
      /\ Undrawn(out[e], held[e]) = 0 /\ Undrawn(out'[e], held'[e]) = Len(types)
  BY <1>1, <1>2 DEF Queued, Undrawn
<1>4. nextId \in Nat /\ seqNo + 1 \in Nat /\ work \in Nat /\ Room \in Nat /\ Len(types) \in Nat
  BY Numbers
<1>5. /\ Grown(Len(types), nextId, work + Room, 0, nextId, bound)
      /\ Grown(Len(types), seqNo + 1, work + Room, 0, seqNo + 1, bound)
  BY <1>4 DEF Grown
<1>6. nextId' = nextId /\ seqNo' + 1 = seqNo + 1
  OBVIOUS
<1> QED BY <1>1, <1>2, <1>3, <1>4, <1>5, <1>6, NewCounts

LEMMA CountsKeep ==
  ASSUME IInv, Next, TypeOK'
  PROVE  Counted'
<1> USE DEF newsVars, turnVars, busVars, RestUnchanged
<1>0. TypeOK /\ IdInv
  BY DEF IInv
<1>00. /\ nextId \in Nat /\ seqNo \in Nat /\ work \in Nat /\ Room \in Nat /\ Room >= 2
       /\ seqNo + 1 \in Nat /\ nextId + 1 \in Nat /\ seqNo + 2 \in Nat
       /\ work + Room \in Nat /\ (work + 1) + Room \in Nat
       /\ work + (Room + 1) \in Nat /\ work + (Room + 2) \in Nat /\ work + (Room + 3) \in Nat
       /\ \A o \in Emitters : Queued(out[o]) \in Nat /\ Undrawn(out[o], held[o]) \in Nat
       /\ "worker" \in Emitters /\ "api" \in Emitters /\ "rival" \in Emitters
  <2>1. nextId \in Nat /\ seqNo \in Nat /\ work \in Nat /\ Room \in Nat /\ Room >= 2
    BY <1>0, Numbers
  <2>2. \A o \in Emitters : Queued(out[o]) \in Nat /\ Undrawn(out[o], held[o]) \in Nat
    BY <1>0, Counts
  <2>3. "worker" \in Emitters /\ "api" \in Emitters /\ "rival" \in Emitters
    BY DEF Emitters
  <2> QED BY <2>1, <2>2, <2>3
<1>1. CASE UNCHANGED <<row, work, rival, out, held, seqNo, nextId>>
  BY <1>0, <1>1 DEF IdInv, Counted, Room
<1>2. ASSUME NEW type \in {"progress", "reply.ready"}, Work(type) PROVE Counted'
  <2>1. Room' = Room /\ work' = work + 1 /\ Publish("worker", <<type>>) /\ UNCHANGED <<nextId, held, seqNo>>
    BY <1>2 DEF Work, Room
  <2>2. <<type>> \in Seq(Types) /\ work + Room + Len(<<type>>) <= (work + 1) + Room
    <3>1. Len(<<type>>) = 1 /\ <<type>> \in Seq(Types)
      BY Publications
    <3>2. work + Room + 1 <= (work + 1) + Room
      BY <1>00
    <3> QED BY <3>1, <3>2
  <2>3. (work + 1) + Room = work' + Room'
    BY <2>1
  <2> QED BY <1>0, <1>00, <2>1, <2>2, <2>3, PublishedCounts
<1>3. ASSUME NEW e \in Emitters, NEW outcome \in Terminal, NEW types \in Seq(Types), Len(types) \in {1, 2},
             Close(e, outcome, types)
      PROVE  Counted'
  <2>1. Room' = Room + 2 /\ work' = work /\ Publish(e, types) /\ UNCHANGED <<nextId, held, seqNo>>
    BY <1>3 DEF Close, Room, Terminal
  <2>2. work + Room + Len(types) <= work + (Room + 2)
    <3>1. work + Room + 1 <= work + (Room + 2) /\ work + Room + 2 <= work + (Room + 2)
      BY <1>00
    <3>2. Len(types) = 1 \/ Len(types) = 2
      BY <1>3
    <3> QED BY <3>1, <3>2
  <2>3. work + (Room + 2) = work' + Room'
    BY <2>1
  <2> QED BY <1>0, <1>00, <1>3, <2>1, <2>2, <2>3, PublishedCounts
<1>4. CASE Complete \/ Fail \/ Cancel
  <2>1. /\ Len(<<"turn.completed">>) \in {1, 2} /\ Len(<<"turn.cancelled">>) \in {1, 2}
        /\ Len(<<"reply.ready", "turn.failed">>) \in {1, 2}
    BY Publications
  <2>2. "completed" \in Terminal /\ "failed" \in Terminal /\ "cancelled" \in Terminal
    BY DEF Terminal
  <2>3. \/ Close("worker", "completed", <<"turn.completed">>)
        \/ Close("worker", "failed", <<"reply.ready", "turn.failed">>)
        \/ Close("api", "cancelled", <<"turn.cancelled">>)
    BY <1>4 DEF Complete, Fail, Cancel
  <2> QED BY <1>00, <1>3, <2>1, <2>2, <2>3, Publications
<1>5. CASE SupersedeAnnounces
  <2>1. /\ Room' = Room + 1 /\ work' = work /\ Publish("rival", <<"turn.cancelled">>)
        /\ UNCHANGED <<nextId, held, seqNo>>
    BY <1>5 DEF SupersedeAnnounces, Room
  <2>2. <<"turn.cancelled">> \in Seq(Types) /\ work + Room + Len(<<"turn.cancelled">>) <= work + (Room + 1)
    <3>1. Len(<<"turn.cancelled">>) = 1 /\ <<"turn.cancelled">> \in Seq(Types)
      BY Publications
    <3>2. work + Room + 1 <= work + (Room + 1)
      BY <1>00
    <3> QED BY <3>1, <3>2
  <2>3. work + (Room + 1) = work' + Room'
    BY <2>1
  <2> QED BY <1>0, <1>00, <2>1, <2>2, <2>3, PublishedCounts
<1>6. ASSUME NEW e \in Emitters, UNCHANGED <<work, seqNo, nextId>>, out' \in [Emitters -> Seq(Types)],
             \A o \in Emitters : o # e => out'[o] = out[o] /\ held'[o] = held[o],
             \/ out'[e] = out[e] /\ held'[e] = held[e]
             \/ out'[e] = <<>> /\ held'[e] = 0,
             Room' \in {Room, Room + 1, Room + 2, Room + 3}
      PROVE  Counted'
  <2>1. \/ Queued(out'[e]) = Queued(out[e]) /\ Undrawn(out'[e], held'[e]) = Undrawn(out[e], held[e])
        \/ Queued(out'[e]) = 0 /\ Undrawn(out'[e], held'[e]) = 0
    <3>1. CASE out'[e] = out[e] /\ held'[e] = held[e]
      BY <3>1
    <3>2. CASE out'[e] = <<>> /\ held'[e] = 0
      BY <3>2 DEF Queued, Undrawn
    <3> QED BY <1>6, <3>1, <3>2
  <2>2. ASSUME NEW bound \in Nat, bound >= work + Room
        PROVE  /\ Grown(Queued(out[e]), nextId, work + Room, Queued(out[e]), nextId, bound)
               /\ Grown(Undrawn(out[e], held[e]), seqNo + 1, work + Room, Undrawn(out[e], held[e]), seqNo + 1, bound)
               /\ Grown(0, nextId, work + Room, Queued(out[e]), nextId, bound)
               /\ Grown(0, seqNo + 1, work + Room, Undrawn(out[e], held[e]), seqNo + 1, bound)
    BY <1>00, <2>2 DEF Grown
  <2>3. PICK bound \in Nat : bound = work' + Room' /\ bound >= work + Room
    <3>1. /\ work + Room >= work + Room /\ work + (Room + 1) >= work + Room
          /\ work + (Room + 2) >= work + Room /\ work + (Room + 3) >= work + Room
      BY <1>00
    <3> QED BY <1>00, <1>6, <3>1
  <2>4. /\ Grown(Queued(out'[e]), nextId, work + Room, Queued(out[e]), nextId, bound)
        /\ Grown(Undrawn(out'[e], held'[e]), seqNo + 1, work + Room, Undrawn(out[e], held[e]), seqNo + 1, bound)
    BY <2>1, <2>2, <2>3
  <2>5. nextId' = nextId /\ seqNo' + 1 = seqNo + 1 /\ (held'[e] # 0 => out'[e] # <<>>)
    BY <1>0, <1>6 DEF IdInv
  <2> QED BY <1>0, <1>00, <1>6, <2>3, <2>4, <2>5, NewCounts
<1>7. CASE SupersedeCommits \/ SupersedeFails
  <2>1. UNCHANGED <<work, seqNo, nextId, out, held>> /\ Room' \in {Room, Room + 1, Room + 2, Room + 3}
    BY <1>7 DEF SupersedeCommits, SupersedeFails, Room
  <2> QED BY <1>0, <1>00, <1>6, <2>1 DEF TypeOK
<1>8. ASSUME NEW e \in Emitters, Die(e) PROVE Counted'
  <2>1. /\ out'[e] = <<>> /\ held'[e] = 0 /\ UNCHANGED <<work, seqNo, nextId>>
        /\ \A o \in Emitters : o # e => out'[o] = out[o] /\ held'[o] = held[o]
        /\ out' \in [Emitters -> Seq(Types)]
    BY <1>0, <1>8 DEF Die, TypeOK
  <2>2. Room' \in {Room, Room + 1, Room + 2, Room + 3}
    BY <1>8 DEF Die, Room
  <2> QED BY <1>6, <2>1, <2>2
<1>9. ASSUME NEW e \in Emitters, Incr(e) PROVE Counted'
  <2>1. /\ out[e] # <<>> /\ held[e] = 0 /\ held'[e] = seqNo + 1 /\ seqNo' = seqNo + 1
        /\ UNCHANGED <<row, work, rival, out, nextId>> /\ out' \in [Emitters -> Seq(Types)]
        /\ \A o \in Emitters : o # e => out'[o] = out[o] /\ held'[o] = held[o]
    BY <1>0, <1>9 DEF Incr, TypeOK
  <2>2. /\ Queued(out'[e]) = Queued(out[e])
        /\ Undrawn(out'[e], held'[e]) = Undrawn(out[e], held[e]) - 1
    BY <1>00, <2>1 DEF Queued, Undrawn
  <2>3. Queued(out[e]) \in Nat /\ Undrawn(out[e], held[e]) \in Nat
    BY <1>00
  <2>4. /\ Grown(Queued(out[e]), nextId, work + Room, Queued(out[e]), nextId, work + Room)
        /\ Grown(Undrawn(out[e], held[e]) - 1, seqNo + 2, work + Room, Undrawn(out[e], held[e]), seqNo + 1, work + Room)
        /\ (seqNo + 1) + 1 = seqNo + 2
    BY <1>00, <2>3 DEF Grown
  <2>5. work' = work /\ Room' = Room
    BY <2>1 DEF Room
  <2>6. /\ work + Room = work' + Room' /\ nextId' = nextId /\ seqNo' + 1 = seqNo + 2
        /\ (held'[e] # 0 => out'[e] # <<>>)
    BY <2>1, <2>4, <2>5
  <2>7. /\ Grown(Queued(out'[e]), nextId, work + Room, Queued(out[e]), nextId, work + Room)
        /\ Grown(Undrawn(out'[e], held'[e]), seqNo + 2, work + Room, Undrawn(out[e], held[e]), seqNo + 1, work + Room)
    BY <2>2, <2>4
  <2> QED BY <1>0, <1>00, <2>1, <2>6, <2>7, NewCounts
<1>10. ASSUME NEW e \in Emitters, Xadd(e) PROVE Counted'
  <2>1. /\ held[e] # 0 /\ held'[e] = 0 /\ out[e] # <<>> /\ Len(out'[e]) = Len(out[e]) - 1
        /\ \A o \in Emitters : o # e => out'[o] = out[o] /\ held'[o] = held[o]
        /\ out' \in [Emitters -> Seq(Types)]
    BY <1>0, <1>10, Appended DEF Xadd
  <2>2. nextId' = nextId + 1 /\ UNCHANGED <<row, work, rival, seqNo>>
    BY <1>10 DEF Xadd
  <2>3. Queued(out'[e]) = Queued(out[e]) - 1 /\ Undrawn(out'[e], held'[e]) = Undrawn(out[e], held[e])
    BY <1>00, <2>1 DEF Queued, Undrawn
  <2>4. Queued(out[e]) \in Nat /\ Undrawn(out[e], held[e]) \in Nat
    BY <1>00
  <2>5. /\ Grown(Queued(out[e]) - 1, nextId + 1, work + Room, Queued(out[e]), nextId, work + Room)
        /\ Grown(Undrawn(out[e], held[e]), seqNo + 1, work + Room, Undrawn(out[e], held[e]), seqNo + 1, work + Room)
    BY <1>00, <2>4 DEF Grown
  <2>6. work' = work /\ Room' = Room
    BY <2>2 DEF Room
  <2>7. work + Room = work' + Room' /\ nextId' = nextId + 1 /\ seqNo' + 1 = seqNo + 1
    BY <2>2, <2>6
  <2>8. /\ Grown(Queued(out'[e]), nextId + 1, work + Room, Queued(out[e]), nextId, work + Room)
        /\ Grown(Undrawn(out'[e], held'[e]), seqNo + 1, work + Room, Undrawn(out[e], held[e]), seqNo + 1, work + Room)
    BY <2>3, <2>5
  <2> QED BY <1>0, <1>00, <2>1, <2>7, <2>8, NewCounts
<1>11. CASE Expire
  <2>1. /\ \A e \in Emitters : out[e] = <<>> /\ held[e] = 0
        /\ UNCHANGED <<row, work, rival, out, held, nextId>> /\ seqNo' = 0
    BY <1>0, <1>11 DEF Expire, IdInv
  <2>2. /\ \A e \in Emitters : Queued(out[e]) = 0 /\ Undrawn(out[e], held[e]) = 0
    BY <2>1 DEF Queued, Undrawn
  <2>3. /\ work' = work /\ Room' = Room
        /\ Total(Queued(out["worker"]), Queued(out["api"]), Queued(out["rival"]), nextId) <= work + Room
    BY <1>0, <2>1 DEF Room, IdInv
  <2>4. Total(0, 0, 0, 0 + 1) <= work + Room
    BY <1>00 DEF Total
  <2>5. Total(Undrawn(out["worker"], held["worker"]), Undrawn(out["api"], held["api"]),
                 Undrawn(out["rival"], held["rival"]), 0 + 1) <= work + Room
    BY <1>00, <2>2, <2>4
  <2> QED BY <2>1, <2>3, <2>5 DEF Counted
<1>12. CASE Serve \/ Follow \/ Drop \/ RecoverFails
  BY <1>1, <1>12 DEF Serve, Connect, Judge, Relay, Refuse, Follow, Read, Disconnected, Recover, Drop, RecoverFails
<1> QED BY <1>2, <1>4, <1>5, <1>7, <1>8, <1>9, <1>10, <1>11, <1>12 DEF Next, Emit, Turn, Supersede, Trouble

LEMMA IdKeeps ==
  ASSUME IInv, Next, TypeOK'
  PROVE  IdInv'
<1> USE DEF newsVars, turnVars, busVars
<1>0. TypeOK /\ IdInv /\ Counted'
  BY CountsKeep DEF IInv
<1>1. CASE UNCHANGED <<stream, nextId>>
  BY <1>0, <1>1 DEF IdInv, Counted, Original, Gone, Renumbered
<1>2. ASSUME NEW e \in Emitters, Xadd(e) PROVE IdInv'
  <2>1. /\ DOMAIN stream' = 1..(Len(stream) + 1) /\ Len(stream') = Len(stream) + 1
        /\ \A k \in DOMAIN stream : stream'[k] = stream[k]
        /\ stream'[Len(stream) + 1].id = nextId /\ nextId' = nextId + 1 /\ Original' = Original
    BY <1>0, <1>2, Appended, FirstEntry DEF Xadd
  <2>2. /\ Len(stream) \in Nat /\ nextId \in Nat /\ nextId > 1 /\ (Original => nextId = Len(stream) + 1)
        /\ \A j \in DOMAIN stream : stream[j].id \in Nat /\ stream[j].id < nextId /\ (Original => stream[j].id = j)
    BY <1>0, Numbers, Indices DEF IdInv
  <2>3. ASSUME NEW k \in DOMAIN stream' PROVE stream'[k].id < nextId' /\ (Original' => stream'[k].id = k)
    <3>1. k \in DOMAIN stream \/ k = Len(stream) + 1
      BY <1>0, <2>1, Indices
    <3>2. stream'[k].id < nextId + 1 /\ (Original => stream'[k].id = k)
      BY <2>1, <2>2, <3>1
    <3> QED BY <2>1, <3>2
  <2>4. nextId' > 1 /\ (Original' => nextId' = Len(stream') + 1)
    <3>1. nextId + 1 > 1 /\ (Original => nextId + 1 = Len(stream) + 1 + 1)
      BY <2>2
    <3> QED BY <2>1, <3>1
  <2> QED BY <1>0, <2>3, <2>4 DEF IdInv, Counted
<1>3. CASE Expire
  <2>1. ~Original' /\ DOMAIN stream' = {} /\ nextId' > 1
    BY <1>0, <1>3 DEF Expire, Original, Gone, IdInv
  <2> QED BY <1>0, <2>1 DEF IdInv, Counted
<1>4. CASE Serve \/ Follow \/ Turn \/ Supersede
  BY <1>1, <1>4, Committed DEF Serve, Connect, Judge, Relay, Refuse, Follow, Read, Disconnected, Recover
<1>5. CASE Drop \/ RecoverFails \/ (\E o \in Emitters : Incr(o) \/ Die(o))
  BY <1>1, <1>5 DEF Drop, RecoverFails, Incr, Die
<1> QED BY <1>2, <1>3, <1>4, <1>5 DEF Next, Emit, Trouble

LEMMA OutKeeps ==
  ASSUME IInv, Next, TypeOK'
  PROVE  OutInv'
<1> USE DEF newsVars, turnVars, busVars, RestUnchanged
<1>0. TypeOK /\ IdInv /\ OutInv /\ TurnInv
  BY DEF IInv
<1>00. "worker" \in Emitters /\ "api" \in Emitters /\ "rival" \in Emitters
  BY DEF Emitters
<1>1. CASE UNCHANGED <<row, worker, rival, out, stream>>
  BY <1>0, <1>1 DEF OutInv, Original, Gone, Renumbered
<1>2. ASSUME NEW types \in Seq(Types), Publish("worker", types), UNCHANGED <<rival, stream>>, worker # "gone",
             \A i \in DOMAIN types : Own(types[i])
      PROVE  OutInv'
  <2>1. Original /\ Original'
    BY <1>0, <1>2 DEF OutInv, Original, Gone, Renumbered
  <2>2. out'["worker"] = types /\ out'["api"] = out["api"] /\ out'["rival"] = out["rival"]
    BY <1>0, <1>00, <1>2, Published
  <2> QED BY <1>0, <1>2, <2>1, <2>2 DEF OutInv
<1>3. CASE (\E type \in {"progress", "reply.ready"} : Work(type)) \/ Complete \/ Fail
  <2>1. \A type \in {"progress", "reply.ready"} : DOMAIN <<type>> = {1} /\ <<type>>[1] = type /\ Own(type)
    BY DEF Own
  <2>2. /\ DOMAIN <<"turn.completed">> = {1} /\ <<"turn.completed">>[1] = "turn.completed"
        /\ DOMAIN <<"reply.ready", "turn.failed">> = {1, 2}
        /\ <<"reply.ready", "turn.failed">>[1] = "reply.ready" /\ <<"reply.ready", "turn.failed">>[2] = "turn.failed"
        /\ Own("turn.completed") /\ Own("turn.failed") /\ Own("reply.ready")
    BY DEF Own
  <2> QED BY <1>2, <1>3, <2>1, <2>2, Publications DEF Work, Complete, Fail, Close
<1>4. CASE Cancel \/ SupersedeAnnounces
  <2>1. PICK e \in {"api", "rival"} :
          /\ Publish(e, <<"turn.cancelled">>) /\ (e = "rival" => Original)
          /\ UNCHANGED <<worker, stream>> /\ (e = "api" => UNCHANGED rival)
          /\ (e = "api" => row = "open")
    <3>1. CASE Cancel
      BY <3>1 DEF Cancel, Close
    <3>2. CASE SupersedeAnnounces
      <4>1. Original
        BY <1>0, <3>2 DEF SupersedeAnnounces, OutInv, Gone
      <4> QED BY <3>2, <4>1 DEF SupersedeAnnounces
    <3> QED BY <1>4, <3>1, <3>2
  <2>2. out'[e] = <<"turn.cancelled">> /\ \A o \in Emitters : o # e => out'[o] = out[o]
    BY <1>0, <1>00, <2>1, Publications, Published
  <2>3. DOMAIN <<"turn.cancelled">> = {1} /\ <<"turn.cancelled">>[1] = "turn.cancelled" /\ ~Own("turn.cancelled")
    BY DEF Own
  <2>4. Original' = Original
    BY <2>1 DEF Original, Gone, Renumbered
  <2>5. ~Original => e = "api" /\ rival = "done"
    BY <1>0, <2>1 DEF OutInv, Terminal
  <2> QED BY <1>0, <1>00, <2>1, <2>2, <2>3, <2>4, <2>5 DEF OutInv
<1>5. CASE SupersedeCommits \/ SupersedeFails
  <2>1. Original /\ Original' /\ UNCHANGED out
    BY <1>0, <1>5 DEF SupersedeCommits, SupersedeFails, OutInv, Original, Gone, Renumbered
  <2> QED BY <1>0, <2>1 DEF OutInv
<1>6. ASSUME NEW o \in Emitters, Die(o) PROVE OutInv'
  <2>1. /\ \A e \in Emitters : out'[e] = out[e] \/ out'[e] = <<>>
        /\ Original' = Original /\ UNCHANGED <<row, stream>> /\ out[o] # <<>>
    BY <1>0, <1>6 DEF Die, TypeOK, Original, Gone, Renumbered
  <2>2. ~Original => o = "api" /\ rival = "done"
    BY <1>0, <2>1 DEF OutInv, Emitters
  <2>3. ~Original => UNCHANGED <<worker, rival>>
    BY <1>6, <2>2 DEF Die
  <2> QED BY <1>0, <1>00, <2>1, <2>2, <2>3 DEF OutInv
<1>7. ASSUME NEW o \in Emitters, Xadd(o) PROVE OutInv'
  <2>1. /\ Original' = Original /\ UNCHANGED <<row, worker, rival>> /\ out[o] # <<>> /\ 1 \in DOMAIN out[o]
    <3>1. Original' = Original /\ UNCHANGED <<row, worker, rival>> /\ out[o] # <<>>
      BY <1>0, <1>7, FirstEntry, Appended DEF Xadd
    <3> QED BY <1>0, <3>1, Indices
  <2>2. /\ \A e \in Emitters : e # o => out'[e] = out[e]
        /\ \A i \in DOMAIN out'[o] : i + 1 \in DOMAIN out[o] /\ out'[o][i] = out[o][i + 1]
        /\ DOMAIN stream' = 1..(Len(stream) + 1)
        /\ \A k \in DOMAIN stream : stream'[k] = stream[k]
        /\ stream'[Len(stream) + 1].type = out[o][1]
    BY <1>0, <1>7, Appended
  <2>3. ~Original => o = "api" /\ rival = "done" /\ ~Own(out[o][1])
    BY <1>0, <2>1 DEF OutInv, Emitters
  <2>4. ASSUME ~Original, NEW k \in DOMAIN stream' PROVE ~Own(stream'[k].type)
    <3>1. k \in DOMAIN stream \/ k = Len(stream) + 1
      BY <1>0, <2>2, Indices
    <3> QED BY <1>0, <2>2, <2>3, <2>4, <3>1 DEF OutInv
  <2>5. /\ \A i \in DOMAIN out'["worker"] : Own(out'["worker"][i])
        /\ \A e \in {"api", "rival"} : \A i \in DOMAIN out'[e] : ~Own(out'[e][i])
    BY <1>0, <1>00, <2>2 DEF OutInv
  <2>6. ~Original => worker = "gone" /\ out'["worker"] = <<>> /\ out'["rival"] = <<>>
    BY <1>0, <1>00, <2>2, <2>3 DEF OutInv
  <2> QED BY <2>1, <2>3, <2>4, <2>5, <2>6 DEF OutInv
<1>8. CASE Expire
  <2>1. /\ \A e \in Emitters : out'[e] = <<>>
        /\ stream' = <<>> /\ worker' = "gone" /\ UNCHANGED <<row, rival>> /\ rival # "announced" /\ expiring
    BY <1>8 DEF Expire
  <2>2. rival = "done" \/ (rival = "none" /\ row \in Terminal)
    BY <1>0, <2>1 DEF TurnInv, TypeOK
  <2> QED BY <1>00, <2>1, <2>2 DEF OutInv, Gone
<1>9. CASE Serve \/ Follow \/ Drop \/ RecoverFails \/ (\E o \in Emitters : Incr(o))
  BY <1>1, <1>9 DEF Serve, Connect, Judge, Relay, Refuse, Follow, Read, Disconnected, Recover, Drop, RecoverFails, Incr
<1> QED BY <1>3, <1>4, <1>5, <1>6, <1>7, <1>8, <1>9 DEF Next, Emit, Turn, Supersede, Trouble

LEMMA SeqKeeps ==
  ASSUME IInv, Next, TypeOK'
  PROVE  SeqInv'
<1> USE DEF newsVars, turnVars, busVars, RestUnchanged
<1>0. TypeOK /\ IdInv /\ SeqInv /\ OutInv
  BY DEF IInv
<1>1. CASE UNCHANGED <<held, seqNo, stream>>
  BY <1>0, <1>1 DEF SeqInv
<1>2. ASSUME NEW e \in Emitters, Incr(e) PROVE SeqInv'
  <2>1. /\ held'[e] = seqNo + 1 /\ seqNo' = seqNo + 1 /\ seqNo \in Nat /\ UNCHANGED stream
        /\ \A o \in Emitters : o # e => held'[o] = held[o]
        /\ \A o \in Emitters : held[o] \in Nat /\ held[o] <= seqNo
        /\ \A k \in DOMAIN stream : stream[k].seq \in Nat /\ stream[k].seq <= seqNo
    BY <1>0, <1>2, Numbers DEF Incr, TypeOK, SeqInv
  <2>2. /\ \A k \in DOMAIN stream' : stream'[k].seq <= seqNo'
        /\ \A o \in Emitters : held'[o] <= seqNo'
        /\ \A o \in Emitters, k \in DOMAIN stream' : stream'[k].seq # held'[o]
        /\ \A d, o \in Emitters : held'[d] = held'[o] => held'[o] = 0 \/ d = o
    BY <1>0, <2>1 DEF SeqInv
  <2>3. held'["worker"] # 0 => \A k \in DOMAIN stream' : Own(stream'[k].type) => stream'[k].seq < held'["worker"]
    <3>1. CASE e = "worker"
      BY <2>1, <3>1
    <3>2. CASE e # "worker"
      BY <1>0, <2>1, <3>2 DEF SeqInv, Emitters
    <3> QED BY <3>1, <3>2
  <2> QED BY <1>0, <2>1, <2>2, <2>3 DEF SeqInv
<1>3. ASSUME NEW e \in Emitters, Die(e) PROVE SeqInv'
  <2>1. /\ held'[e] = 0 /\ UNCHANGED <<seqNo, stream>> /\ seqNo \in Nat
        /\ \A o \in Emitters : o # e => held'[o] = held[o]
        /\ \A k \in DOMAIN stream : stream[k].seq \in Nat /\ stream[k].seq > 0
    BY <1>0, <1>3, Numbers DEF Die, TypeOK
  <2>2. \A o \in Emitters, k \in DOMAIN stream' : stream'[k].seq # held'[o]
    BY <1>0, <2>1 DEF SeqInv
  <2>3. \A o \in Emitters : held'[o] <= seqNo'
    BY <1>0, <2>1 DEF SeqInv
  <2>4. held'["worker"] # 0 => held'["worker"] = held["worker"]
    BY <2>1 DEF Emitters
  <2> QED BY <1>0, <2>1, <2>2, <2>3, <2>4 DEF SeqInv
<1>4. ASSUME NEW e \in Emitters, Xadd(e) PROVE SeqInv'
  <2>1. /\ held'[e] = 0 /\ held[e] # 0 /\ seqNo' = seqNo /\ seqNo \in Nat
        /\ \A o \in Emitters : o # e => held'[o] = held[o]
        /\ DOMAIN stream' = 1..(Len(stream) + 1)
        /\ \A k \in DOMAIN stream : stream'[k] = stream[k]
        /\ stream'[Len(stream) + 1].seq = held[e] /\ stream'[Len(stream) + 1].type = out[e][1]
        /\ out[e] # <<>>
    BY <1>0, <1>4, Appended, Numbers DEF Xadd
  <2>0. 1 \in DOMAIN out[e]
    BY <1>0, <2>1, Indices
  <2>2. \A k \in DOMAIN stream' : k \in DOMAIN stream \/ k = Len(stream) + 1
    BY <1>0, <2>1, Indices
  <2>3. /\ \A k \in DOMAIN stream : stream[k].seq \in Nat /\ stream[k].seq > 0 /\ stream[k].seq <= seqNo
        /\ \A o \in Emitters : held[o] \in Nat /\ held[o] <= seqNo
        /\ DOMAIN stream = 1..Len(stream) /\ Len(stream) \in Nat
    BY <1>0, Indices, Numbers DEF SeqInv
  <2>4. Own(out[e][1]) => e = "worker"
    BY <1>0, <2>0 DEF OutInv, Emitters
  <2>5. /\ \A k \in DOMAIN stream' : stream'[k].seq <= seqNo'
        /\ \A o \in Emitters : held'[o] <= seqNo'
    BY <2>1, <2>2, <2>3
  <2>6. \A j, k \in DOMAIN stream' : stream'[j].seq = stream'[k].seq => j = k
    BY <1>0, <2>1, <2>2, <2>3 DEF SeqInv
  <2>7. \A o \in Emitters, k \in DOMAIN stream' : stream'[k].seq # held'[o]
    BY <1>0, <2>1, <2>2, <2>3 DEF SeqInv
  <2>8. \A d, o \in Emitters : held'[d] = held'[o] => held'[o] = 0 \/ d = o
    BY <1>0, <2>1, <2>3 DEF SeqInv
  <2>9. ASSUME NEW j \in DOMAIN stream', NEW k \in DOMAIN stream', j < k, Own(stream'[j].type), Own(stream'[k].type)
        PROVE  stream'[j].seq < stream'[k].seq
    <3>1. j \in DOMAIN stream
      BY <2>1, <2>2, <2>3, <2>9
    <3>2. CASE k \in DOMAIN stream
      BY <1>0, <2>1, <2>9, <3>1, <3>2 DEF SeqInv
    <3>3. CASE k = Len(stream) + 1
      BY <1>0, <2>1, <2>4, <2>9, <3>1, <3>3 DEF SeqInv
    <3> QED BY <2>2, <3>2, <3>3
  <2>10. held'["worker"] # 0 => \A k \in DOMAIN stream' : Own(stream'[k].type) => stream'[k].seq < held'["worker"]
    <3>1. held'["worker"] # 0 => e # "worker" /\ held'["worker"] = held["worker"]
      BY <2>1 DEF Emitters
    <3> QED BY <1>0, <2>1, <2>2, <2>4, <3>1 DEF SeqInv
  <2> QED BY <2>5, <2>6, <2>7, <2>8, <2>9, <2>10 DEF SeqInv
<1>5. CASE Expire
  <2>1. stream' = <<>> /\ seqNo' = 0 /\ \A e \in Emitters : held'[e] = 0
    BY <1>0, <1>5 DEF Expire, IdInv
  <2> QED BY <2>1 DEF SeqInv, Emitters
<1>6. CASE Turn \/ Supersede \/ Serve \/ Follow \/ Drop \/ RecoverFails
  BY <1>1, <1>6, Committed DEF Serve, Connect, Judge, Relay, Refuse, Follow, Read, Disconnected, Recover, Drop, RecoverFails
<1> QED BY <1>2, <1>3, <1>4, <1>5, <1>6 DEF Next, Emit, Trouble

-----------------------------------------------------------------------------
(* The reply comes before the end that the worker gives the turn *)

LEMMA ReplyKeeps ==
  ASSUME IInv, Next, TypeOK'
  PROVE  ReplyInv'
<1> USE DEF newsVars, turnVars, busVars, RestUnchanged
<1>0. TypeOK /\ IdInv /\ OutInv /\ ReplyInv
  BY DEF IInv
<1>00. "worker" \in Emitters /\ "api" \in Emitters /\ "rival" \in Emitters
  BY DEF Emitters
<1>1. CASE UNCHANGED <<worker, stream>> /\ out'["worker"] = out["worker"]
  BY <1>0, <1>1 DEF ReplyInv, InStream
<1>2. ASSUME NEW type \in {"progress", "reply.ready"}, Work(type) PROVE ReplyInv'
  <2>1. /\ out["worker"] = <<>> /\ out'["worker"] = <<type>> /\ stream' = stream
        /\ worker' = IF type = "reply.ready" THEN "replied" ELSE worker
    BY <1>0, <1>00, <1>2, Publications, Published DEF Work
  <2>2. DOMAIN <<type>> = {1} /\ <<type>>[1] = type /\ type \notin Endings
    BY DEF Endings
  <2>3. worker = "replied" => InStream
    BY <1>0, <2>1 DEF ReplyInv
  <2> QED BY <1>0, <2>1, <2>2, <2>3 DEF ReplyInv, InStream
<1>3. CASE Complete
  <2>1. /\ out["worker"] = <<>> /\ out'["worker"] = <<"turn.completed">> /\ worker = "replied"
        /\ UNCHANGED <<stream, worker>>
    BY <1>0, <1>00, <1>3, Publications, Published DEF Complete, Close
  <2>2. InStream
    BY <1>0, <2>1 DEF ReplyInv
  <2> QED BY <1>0, <2>1, <2>2 DEF ReplyInv, InStream
<1>4. CASE Fail
  <2>1. out'["worker"] = <<"reply.ready", "turn.failed">> /\ UNCHANGED stream
    BY <1>0, <1>00, <1>4, Publications, Published DEF Fail, Close
  <2>2. /\ DOMAIN <<"reply.ready", "turn.failed">> = 1..2
        /\ <<"reply.ready", "turn.failed">>[1] = "reply.ready" /\ "reply.ready" \notin Endings
    BY DEF Endings
  <2>3. /\ 1 \in DOMAIN out'["worker"] /\ out'["worker"][1] = "reply.ready"
        /\ \A i \in DOMAIN out'["worker"] : out'["worker"][i] \in Endings => 1 \in 1..(i - 1)
    <3>1. \A i \in 1..2 : i # 1 => 1 \in 1..(i - 1)
      OBVIOUS
    <3> QED BY <2>1, <2>2, <3>1
  <2> QED BY <1>0, <2>1, <2>3 DEF ReplyInv, InStream
<1>5. CASE Cancel \/ SupersedeAnnounces
  <2>1. out'["worker"] = out["worker"] /\ UNCHANGED <<worker, stream>>
    BY <1>0, <1>00, <1>5, Publications, Published DEF Cancel, Close, SupersedeAnnounces
  <2> QED BY <1>1, <2>1
<1>6. ASSUME NEW o \in Emitters, Die(o) PROVE ReplyInv'
  <2>1. CASE o = "worker"
    <3>1. out'["worker"] = <<>> /\ worker' = "working" /\ stream' = stream
      BY <1>0, <1>6, <2>1 DEF Die, TypeOK
    <3> QED BY <1>0, <3>1 DEF ReplyInv, InStream
  <2>2. CASE o # "worker"
    BY <1>0, <1>00, <1>1, <1>6, <2>2 DEF Die, TypeOK
  <2> QED BY <2>1, <2>2
<1>7. ASSUME NEW o \in Emitters, Xadd(o) PROVE ReplyInv'
  <2>1. /\ worker' = worker /\ out[o] # <<>>
        /\ DOMAIN stream' = 1..(Len(stream) + 1)
        /\ \A k \in DOMAIN stream : stream'[k] = stream[k]
        /\ stream'[Len(stream) + 1].type = out[o][1]
        /\ \A i \in DOMAIN out'[o] : i + 1 \in DOMAIN out[o] /\ out'[o][i] = out[o][i + 1]
        /\ Len(out'[o]) = Len(out[o]) - 1
        /\ \A e \in Emitters : e # o => out'[e] = out[e]
    BY <1>0, <1>7, Appended DEF Xadd
  <2>2. /\ DOMAIN stream = 1..Len(stream) /\ Len(stream) \in Nat
        /\ DOMAIN out[o] = 1..Len(out[o]) /\ Len(out[o]) \in Nat /\ 1 \in DOMAIN out[o]
        /\ DOMAIN out'[o] = 1..(Len(out[o]) - 1)
    <3>1. out' \in [Emitters -> Seq(Types)]
      BY <1>0, <1>7, Appended
    <3>2. DOMAIN out'[o] = 1..Len(out'[o])
      BY <3>1
    <3> QED BY <1>0, <2>1, <3>2, Indices
  <2>3. InStream => InStream'
    BY <2>1, <2>2 DEF InStream
  <2>4. out[o][1] = "reply.ready" => InStream'
    <3>1. Len(stream) + 1 \in DOMAIN stream'
      BY <2>1, <2>2
    <3> QED BY <2>1, <3>1 DEF InStream
  <2>5. CASE o = "worker"
    <3>1. worker' = "replied" => InStream' \/ \E i \in DOMAIN out'[o] : out'[o][i] = "reply.ready"
      <4> SUFFICES ASSUME worker' = "replied", ~InStream'
                   PROVE  \E i \in DOMAIN out'[o] : out'[o][i] = "reply.ready"
        OBVIOUS
      <4>1. PICK i \in DOMAIN out[o] : out[o][i] = "reply.ready"
        BY <1>0, <2>1, <2>3, <2>5 DEF ReplyInv
      <4>2. i # 1
        BY <2>4, <4>1
      <4>3. i - 1 \in DOMAIN out'[o] /\ (i - 1) + 1 = i
        BY <2>2, <4>1, <4>2
      <4> QED BY <2>1, <4>1, <4>3
    <3>2. ASSUME NEW i \in DOMAIN out'[o], out'[o][i] \in Endings
          PROVE  InStream' \/ \E j \in 1..(i - 1) : out'[o][j] = "reply.ready"
      <4>1. i + 1 \in DOMAIN out[o] /\ out[o][i + 1] \in Endings /\ i \in Nat /\ (i + 1) - 1 = i
        BY <2>1, <2>2, <3>2
      <4>2. InStream \/ \E j \in 1..i : out[o][j] = "reply.ready"
        BY <1>0, <2>5, <4>1 DEF ReplyInv
      <4>3. ASSUME ~InStream', NEW j \in 1..i, out[o][j] = "reply.ready"
            PROVE  \E h \in 1..(i - 1) : out'[o][h] = "reply.ready"
        <5>1. j # 1
          BY <2>4, <4>3
        <5>2. j - 1 \in 1..(i - 1) /\ j - 1 \in DOMAIN out'[o] /\ (j - 1) + 1 = j
          BY <2>2, <4>1, <4>3, <5>1
        <5> QED BY <2>1, <4>3, <5>2
      <4> QED BY <2>3, <4>2, <4>3
    <3>3. ASSUME NEW k \in DOMAIN stream', stream'[k].type \in Endings
          PROVE  \E j \in 1..(k - 1) : stream'[j].type = "reply.ready"
      <4>1. CASE k \in DOMAIN stream
        <5>1. PICK j \in 1..(k - 1) : stream[j].type = "reply.ready"
          BY <1>0, <2>1, <3>3, <4>1 DEF ReplyInv
        <5>2. j \in DOMAIN stream
          BY <2>2, <4>1, <5>1
        <5> QED BY <2>1, <5>1, <5>2
      <4>2. CASE k \notin DOMAIN stream
        <5>1. k = Len(stream) + 1
          BY <2>1, <2>2, <4>2
        <5>2. InStream
          <6>1. out[o][1] \in Endings /\ 1 - 1 = 0
            BY <2>1, <3>3, <5>1
          <6> QED BY <1>0, <2>2, <2>5, <6>1 DEF ReplyInv
        <5>3. PICK j \in DOMAIN stream : stream[j].type = "reply.ready"
          BY <5>2 DEF InStream
        <5>4. j \in 1..(k - 1)
          BY <2>2, <5>1, <5>3
        <5> QED BY <2>1, <5>3, <5>4
      <4> QED BY <4>1, <4>2
    <3> QED BY <2>5, <3>1, <3>2, <3>3 DEF ReplyInv
  <2>6. CASE o # "worker"
    <3>1. out'["worker"] = out["worker"] /\ out[o][1] \notin Endings
      BY <1>0, <1>00, <2>1, <2>2, <2>6 DEF OutInv, Own, Endings, Emitters
    <3>2. ASSUME NEW k \in DOMAIN stream', stream'[k].type \in Endings
          PROVE  \E j \in 1..(k - 1) : stream'[j].type = "reply.ready"
      <4>1. k \in DOMAIN stream
        BY <2>1, <2>2, <3>1, <3>2
      <4>2. PICK j \in 1..(k - 1) : stream[j].type = "reply.ready"
        BY <1>0, <2>1, <3>2, <4>1 DEF ReplyInv
      <4>3. j \in DOMAIN stream
        BY <2>2, <4>1, <4>2
      <4> QED BY <2>1, <4>2, <4>3
    <3> QED BY <1>0, <2>1, <2>3, <3>1, <3>2 DEF ReplyInv
  <2> QED BY <2>5, <2>6
<1>8. CASE Expire
  <2>1. stream' = <<>> /\ worker' = "gone" /\ out'["worker"] = <<>>
    BY <1>00, <1>8 DEF Expire
  <2> QED BY <2>1 DEF ReplyInv
<1>9. CASE Serve \/ Follow \/ SupersedeCommits \/ SupersedeFails
  BY <1>1, <1>9 DEF Serve, Connect, Judge, Relay, Refuse, Follow, Read, Disconnected, Recover,
                    SupersedeCommits, SupersedeFails
<1>10. CASE Drop \/ RecoverFails \/ (\E o \in Emitters : Incr(o))
  BY <1>1, <1>10 DEF Drop, RecoverFails, Incr
<1> QED BY <1>2, <1>3, <1>4, <1>5, <1>6, <1>7, <1>8, <1>9, <1>10 DEF Next, Emit, Turn, Supersede, Trouble

-----------------------------------------------------------------------------
(* The place of the client *)

\* These steps leave it where it is.
LEMMA PlaceStays ==
  ASSUME TypeOK, Connect \/ Disconnected \/ Recover \/ RecoverFails \/ Drop
  PROVE  /\ client'.lastId = client.lastId /\ client'.lastSeq = client.lastSeq
         /\ client.pc # "done" /\ (heard => heard')
         /\ UNCHANGED <<stream, given, nextId, out>>
BY DEF TypeOK, Connect, Disconnected, Recover, RecoverFails, Drop, turnVars, busVars, newsVars

\* A step that does not end the first stream adds at most one entry to it.
LEMMA Before ==
  ASSUME IInv, Next, Original'
  PROVE  /\ Original
         /\ UNCHANGED stream \/ \E e \in Emitters : Xadd(e)
<1> USE DEF newsVars, turnVars, busVars
<1>1. UNCHANGED stream \/ \E e \in Emitters : Xadd(e)
  <2>1. CASE Expire
    BY <2>1 DEF Expire, Original, Gone
  <2>2. CASE Serve \/ Follow \/ Turn \/ Supersede
    BY <2>2, Committed DEF Serve, Connect, Judge, Relay, Refuse, Follow, Read, Disconnected, Recover
  <2>3. CASE Drop \/ RecoverFails \/ (\E o \in Emitters : Incr(o) \/ Die(o))
    BY <2>3 DEF Drop, RecoverFails, Incr, Die
  <2> QED BY <2>1, <2>2, <2>3 DEF Next, Emit, Trouble
<1>2. CASE UNCHANGED stream
  BY <1>1, <1>2 DEF Original, Gone, Renumbered
<1>3. CASE \E e \in Emitters : Xadd(e)
  BY <1>1, <1>3, FirstEntry DEF IInv
<1> QED BY <1>1, <1>2, <1>3

\* Before the stream expires there are no snapshots.
LEMMA RealIds ==
  ASSUME IInv, Original
  PROVE  /\ client.lastId # Snapshot /\ client.lastId <= Len(stream) /\ client.lastId \in Nat
         /\ Len(stream) < Snapshot
         /\ \A i \in DOMAIN wire : /\ client.lastId + i \in DOMAIN stream /\ wire[i] = stream[client.lastId + i]
                                   /\ wire[i].id = client.lastId + i /\ wire[i].id # Snapshot
<1>1. /\ Len(stream) < Snapshot /\ Len(stream) \in Nat /\ Snapshot \in Nat
      /\ client.lastId \in Nat /\ DOMAIN stream = 1..Len(stream)
      /\ DOMAIN wire = 1..Len(wire) /\ Len(wire) \in Nat
  BY RealEntries, Indices, Numbers DEF IInv
<1>2. /\ client.lastId <= Len(stream) /\ client.lastId + Len(wire) <= Len(stream)
      /\ \A i \in DOMAIN wire : wire[i] = stream[client.lastId + i]
      /\ \A k \in DOMAIN stream : stream[k].id = k
  BY DEF IInv, ChainInv, IdInv
<1>3. \A i \in DOMAIN wire : client.lastId + i \in DOMAIN stream /\ client.lastId + i # Snapshot
  BY <1>1, <1>2
<1> QED BY <1>1, <1>2, <1>3

\* What the worker published is new to the client that reads it.
LEMMA AlwaysFresh ==
  ASSUME IInv, Read, Own(wire[1].type)
  PROVE  LogicalSeq(wire[1]) > client.lastSeq
<1>1. client.pc = "reading" /\ 1 \in DOMAIN wire /\ wire[1].seq \in Nat /\ client.lastSeq \in Nat
  BY Taken, Numbers DEF IInv
<1>2. wire[1].id = Snapshot \/ wire[1].seq > client.lastSeq
  BY <1>1 DEF IInv, WireInv
<1> QED BY <1>1, <1>2 DEF LogicalSeq

LEMMA ChainKeeps ==
  ASSUME IInv, Next, TypeOK'
  PROVE  ChainInv'
<1> SUFFICES ASSUME Original' PROVE ChainInv'
  BY DEF ChainInv
<1> USE DEF newsVars, turnVars, busVars
<1>0. /\ TypeOK /\ IdInv /\ Original /\ ChainInv
      /\ UNCHANGED stream \/ \E e \in Emitters : Xadd(e)
  BY Before DEF IInv
<1>00. /\ client.lastId \in Nat /\ Len(stream) \in Nat /\ Len(wire) \in Nat
       /\ DOMAIN stream = 1..Len(stream) /\ DOMAIN wire = 1..Len(wire)
  BY <1>0, Indices, Numbers
<1>1. CASE UNCHANGED <<stream, wire, relay, client, heard>>
  BY <1>0, <1>1 DEF ChainInv
<1>2. ASSUME NEW e \in Emitters, Xadd(e) PROVE ChainInv'
  <2>1. /\ UNCHANGED <<wire, relay, client, heard>> /\ Len(stream') = Len(stream) + 1
        /\ DOMAIN stream' = 1..(Len(stream) + 1)
        /\ \A k \in DOMAIN stream : stream'[k] = stream[k]
    BY <1>0, <1>2, Appended DEF Xadd
  <2>2. /\ client.lastId <= Len(stream) + 1 /\ client.lastId + Len(wire) <= Len(stream) + 1
        /\ \A i \in DOMAIN wire : client.lastId + i \in DOMAIN stream
        /\ \A k \in DOMAIN stream' : k <= client.lastId => k \in DOMAIN stream
        /\ \A k \in DOMAIN stream : k \in DOMAIN stream'
    BY <1>0, <1>00, <2>1 DEF ChainInv
  <2>3. client.lastSeq = 0 \/ \E j \in DOMAIN stream' :
         /\ j <= client.lastId /\ stream'[j].seq = client.lastSeq
         /\ client.pc = "done" \/ Own(stream'[j].type)
    BY <1>0, <2>1, <2>2 DEF ChainInv
  <2> QED BY <1>0, <2>1, <2>2, <2>3 DEF ChainInv
<1>3. CASE Connect
  <2>1. /\ wire' = <<>> /\ relay'.at = "judge" /\ relay'.cursor = client.lastId
        /\ Len(<<>>) = 0 /\ DOMAIN <<>> = {} /\ client.lastId + 0 = client.lastId
    BY <1>00, <1>3 DEF Connect
  <2> QED BY <1>0, <1>00, <1>3, <2>1, PlaceStays DEF ChainInv, Connect
<1>4. CASE Judge
  <2>1. /\ relay.at = "judge" /\ wire' = wire /\ relay'.at = "read" /\ relay'.cursor = relay.cursor
        /\ UNCHANGED <<stream, client, heard>>
    BY <1>0, <1>4, Judged DEF Original, Judge
  <2>2. relay.cursor = client.lastId + Len(wire)
    <3>1. wire = <<>> /\ relay.cursor = client.lastId /\ Len(<<>>) = 0
      BY <1>0, <2>1 DEF ChainInv
    <3> QED BY <1>00, <3>1
  <2> QED BY <1>0, <2>1, <2>2 DEF ChainInv
<1>5. CASE Relay
  <2>0. /\ UNCHANGED <<stream, client, heard>>
    BY <1>5 DEF Relay
  <2> DEFINE k == client.lastId + Len(wire) + 1
  <2>1. /\ k \in DOMAIN stream /\ stream[k].id = k
        /\ Len(wire') = Len(wire) + 1 /\ DOMAIN wire' = 1..(Len(wire) + 1)
        /\ \A i \in DOMAIN wire : wire'[i] = wire[i]
        /\ wire'[Len(wire) + 1] = stream[k]
        /\ relay'.at = "off" \/ (relay'.at = "read" /\ relay'.cursor = k)
    BY <1>0, <1>5, Relayed
  <2>2. client.lastId + (Len(wire) + 1) = k /\ k <= Len(stream)
    BY <1>00, <2>1
  <2>3. \A i \in DOMAIN wire' : wire'[i] = stream[client.lastId + i]
    <3>1. \A i \in DOMAIN wire' : i \in DOMAIN wire \/ i = Len(wire) + 1
      BY <1>00, <2>1
    <3> QED BY <1>0, <2>1, <2>2, <3>1 DEF ChainInv
  <2> HIDE DEF k
  <2> QED BY <1>0, <2>0, <2>1, <2>2, <2>3 DEF ChainInv
<1>6. CASE Refuse \/ Drop
  <2>1. /\ relay'.at = "off" /\ UNCHANGED <<stream, client, heard>> /\ (wire' = wire \/ wire' = <<>>)
    BY <1>6 DEF Refuse, Drop, Off
  <2>2. Len(<<>>) = 0 /\ DOMAIN <<>> = {} /\ client.lastId + 0 = client.lastId
    BY <1>00
  <2> QED BY <1>0, <2>1, <2>2 DEF ChainInv
<1>7. CASE Read
  <2>1. /\ 1 \in DOMAIN wire /\ Len(wire') = Len(wire) - 1 /\ wire' \in Seq(Events)
        /\ \A i \in DOMAIN wire' : i + 1 \in DOMAIN wire /\ wire'[i] = wire[i + 1]
        /\ client.pc = "reading" /\ client'.lastId = wire[1].id
        /\ client'.lastSeq = (IF LogicalSeq(wire[1]) > client.lastSeq THEN LogicalSeq(wire[1]) ELSE client.lastSeq)
        /\ client'.pc = (IF LogicalSeq(wire[1]) > client.lastSeq /\ wire[1].type \in TerminalTypes
                         THEN "done" ELSE "reading")
        /\ heard' = (heard \/ (LogicalSeq(wire[1]) > client.lastSeq /\ wire[1].type = "reply.ready"))
        /\ UNCHANGED <<stream, relay>>
    BY <1>0, <1>7, Taken DEF Read
  <2> DEFINE p == client.lastId + 1
  <2>2. /\ p \in DOMAIN stream /\ wire[1] = stream[p] /\ wire[1].id = p /\ wire[1].id # Snapshot
        /\ p \in Nat /\ p <= Len(stream)
    BY <1>0, <1>00, <2>1, RealIds
  <2>3. LogicalSeq(wire[1]) = wire[1].seq
    BY <2>2 DEF LogicalSeq
  <2>4. /\ p + Len(wire') = client.lastId + Len(wire) /\ client.lastId + Len(wire) <= Len(stream)
    BY <1>0, <1>00, <2>1 DEF ChainInv
  <2>5. ASSUME NEW i \in DOMAIN wire' PROVE wire'[i] = stream[p + i]
    <3>1. i \in Nat /\ p + i = client.lastId + (i + 1)
      <4>1. DOMAIN wire' = 1..Len(wire')
        BY <2>1
      <4> QED BY <1>00, <2>5, <4>1
    <3> QED BY <1>0, <2>1, <3>1 DEF ChainInv
  <2>6. /\ relay.at # "judge" /\ (relay.at = "read" => relay.cursor = p + Len(wire'))
    <3>1. wire # <<>>
      BY <1>7 DEF Read
    <3> QED BY <1>0, <2>4, <3>1 DEF ChainInv, TypeOK
  <2>7. client'.lastSeq = 0 \/ \E j \in DOMAIN stream :
         /\ j <= p /\ stream[j].seq = client'.lastSeq
         /\ client'.pc = "done" \/ Own(stream[j].type)
    <3>1. CASE LogicalSeq(wire[1]) > client.lastSeq
      <4>1. client'.lastSeq = stream[p].seq /\ p <= p
        BY <2>1, <2>2, <2>3, <3>1
      <4>2. client'.pc = "done" \/ Own(stream[p].type)
        BY <2>1, <2>2, <3>1 DEF Own, TerminalTypes
      <4> QED BY <2>2, <4>1, <4>2
    <3>2. CASE ~(LogicalSeq(wire[1]) > client.lastSeq)
      <4>1. client'.lastSeq = client.lastSeq
        BY <2>1, <3>2
      <4>2. \A j \in DOMAIN stream : j <= client.lastId => j <= p
        BY <1>00
      <4> QED BY <1>0, <2>1, <4>1, <4>2 DEF ChainInv
    <3> QED BY <3>1, <3>2
  <2>8. ASSUME NEW k \in DOMAIN stream, k <= p, stream[k].type = "reply.ready" PROVE heard'
    <3>1. CASE k <= client.lastId
      BY <1>0, <2>1, <2>8, <3>1 DEF ChainInv
    <3>2. CASE k = p
      <4>1. Own(wire[1].type)
        BY <2>2, <2>8, <3>2 DEF Own
      <4> QED BY <1>7, <2>1, <2>2, <2>8, <3>2, <4>1, AlwaysFresh
    <3> QED BY <1>00, <2>8, <3>1, <3>2
  <2>9. client'.lastId = p
    BY <2>1, <2>2
  <2> HIDE DEF p
  <2> QED BY <2>1, <2>2, <2>4, <2>5, <2>6, <2>7, <2>8, <2>9 DEF ChainInv
<1>8. CASE Disconnected \/ Recover \/ RecoverFails
  <2>1. UNCHANGED <<stream, wire, relay>>
    BY <1>8 DEF Disconnected, Recover, RecoverFails
  <2> QED BY <1>0, <1>8, <2>1, PlaceStays DEF ChainInv
<1>9. CASE Turn \/ Supersede
  BY <1>1, <1>9, Committed
<1>10. CASE Expire
  BY <1>10 DEF Expire, Original, Gone
<1>11. CASE \E o \in Emitters : Incr(o) \/ Die(o)
  BY <1>1, <1>11 DEF Incr, Die
<1> QED BY <1>2, <1>3, <1>4, <1>5, <1>6, <1>7, <1>8, <1>9, <1>10, <1>11 DEF Next, Emit, Serve, Follow, Trouble

-----------------------------------------------------------------------------
(* What is under way *)

LEMMA WireKeeps ==
  ASSUME IInv, Next, TypeOK'
  PROVE  WireInv'
<1> USE DEF newsVars, turnVars, busVars
<1>0. TypeOK /\ IdInv /\ WireInv
  BY DEF IInv
<1>00. /\ client.lastId \in Nat /\ client.lastSeq \in Nat /\ Len(stream) \in Nat /\ Len(wire) \in Nat
       /\ DOMAIN stream = 1..Len(stream) /\ DOMAIN wire = 1..Len(wire)
       /\ \A i \in DOMAIN wire : wire[i].seq \in Nat /\ wire[i].seq > 0
       /\ \A k \in DOMAIN stream : stream[k].seq \in Nat /\ stream[k].seq > 0
  BY <1>0, Indices, Numbers
<1>1. CASE UNCHANGED <<wire, relay, client, heard>>
  BY <1>0, <1>1 DEF WireInv
<1>2. CASE Connect \/ Drop
  <2>1. wire' = <<>> /\ DOMAIN <<>> = {}
    BY <1>2 DEF Connect, Drop
  <2> QED BY <2>1 DEF WireInv
<1>3. CASE Judge
  <2>0. UNCHANGED <<client, heard>> /\ wire = <<>> /\ DOMAIN <<>> = {}
    BY <1>0, <1>3, Judged DEF Judge, WireInv
  <2>1. CASE Gone /\ relay.state \in Terminal /\ message
    <3>1. /\ relay'.at = "off"
          /\ DOMAIN wire' = {1, 2} /\ wire'[1] = Event(Snapshot, "reply.ready", 1)
          /\ wire'[2] = Event(Snapshot, EventOf(relay.state), 2)
      BY <1>0, <1>3, <2>1, Judged DEF Off
    <3>2. /\ \A i \in DOMAIN wire' : wire'[i].id = Snapshot
          /\ wire'[1].type = "reply.ready" /\ "reply.ready" \notin Endings
      BY <3>1 DEF Event, Endings
    <3>3. \A i \in DOMAIN wire' : wire'[i].type \in Endings => \E j \in 1..(i - 1) : wire'[j].type = "reply.ready"
      <4>1. 1 \in 1..(2 - 1)
        OBVIOUS
      <4> QED BY <3>1, <3>2, <4>1
    <3> QED BY <3>1, <3>2, <3>3 DEF WireInv
  <2>2. CASE Gone /\ relay.state \in Terminal /\ ~message
    <3>1. /\ relay'.at = "off"
          /\ DOMAIN wire' = {1} /\ wire'[1] = Event(Snapshot, EventOf(relay.state), 1)
      BY <1>0, <1>3, <2>2, Judged DEF Off
    <3>2. relay.state = "cancelled"
      BY <2>2 DEF IInv, TurnInv, Terminal
    <3>3. wire'[1].id = Snapshot /\ wire'[1].type \notin Endings
      BY <3>1, <3>2 DEF Event, EventOf, Endings
    <3> QED BY <3>1, <3>3 DEF WireInv
  <2>3. CASE ~(Gone /\ relay.state \in Terminal)
    <3>1. wire' = <<>>
      BY <1>0, <1>3, <2>0, <2>3, Judged
    <3> QED BY <2>0, <3>1 DEF WireInv
  <2> QED BY <2>1, <2>2, <2>3
<1>4. CASE Relay
  <2>1. UNCHANGED <<client, heard>>
    BY <1>4 DEF Relay
  <2>2. \E k \in DOMAIN stream :
          /\ relay.at = "read" /\ relay'.at # "judge" /\ stream[k].id # Snapshot
          /\ DOMAIN wire' = 1..(Len(wire) + 1)
          /\ \A i \in DOMAIN wire : wire'[i] = wire[i]
          /\ wire'[Len(wire) + 1] = stream[k]
          /\ Original => k = client.lastId + Len(wire) + 1
    <3>1. CASE Original
      <4>1. /\ client.lastId + Len(wire) + 1 \in DOMAIN stream
            /\ DOMAIN wire' = 1..(Len(wire) + 1)
            /\ \A i \in DOMAIN wire : wire'[i] = wire[i]
            /\ wire'[Len(wire) + 1] = stream[client.lastId + Len(wire) + 1]
            /\ relay'.at # "judge"
        BY <1>4, <3>1, Relayed DEF IInv
      <4> QED BY <1>0, <1>4, <4>1, RealEntries DEF Relay
    <3>2. CASE ~Original
      BY <1>0, <1>4, <3>2, RelaySends DEF Off
    <3> QED BY <3>1, <3>2
  <2>3. PICK k \in DOMAIN stream :
          /\ relay.at = "read" /\ relay'.at # "judge" /\ stream[k].id # Snapshot
          /\ DOMAIN wire' = 1..(Len(wire) + 1)
          /\ \A i \in DOMAIN wire : wire'[i] = wire[i]
          /\ wire'[Len(wire) + 1] = stream[k]
          /\ Original => k = client.lastId + Len(wire) + 1
    BY <2>2
  <2>4. ASSUME NEW i \in DOMAIN wire' PROVE i \in DOMAIN wire \/ (i = Len(wire) + 1 /\ wire'[i] = stream[k])
    BY <1>00, <2>3
  <2>5. \A i \in DOMAIN wire' : wire'[i].id # Snapshot
    BY <1>0, <2>3, <2>4 DEF WireInv
  <2>6. CASE client.pc # "done" /\ ~Original
    <3>1. ~Own(stream[k].type) /\ stream[k].type \notin Endings
      BY <2>3, <2>6 DEF IInv, OutInv, Own, Endings
    <3>2. \A i \in DOMAIN wire' : Own(wire'[i].type) => i \in DOMAIN wire /\ wire'[i] = wire[i]
      BY <2>3, <2>4, <3>1
    <3>3. \A i \in DOMAIN wire' : wire'[i].type \in Endings => i \in DOMAIN wire /\ wire'[i] = wire[i]
      BY <2>3, <2>4, <3>1
    <3>4. \A i \in DOMAIN wire : \A j \in 1..(i - 1) : j \in DOMAIN wire
      BY <1>00
    <3> QED BY <1>0, <2>1, <2>3, <2>5, <2>6, <3>2, <3>3, <3>4 DEF WireInv
  <2>7. CASE client.pc # "done" /\ Original
    <3>0. /\ k = client.lastId + Len(wire) + 1 /\ k \in Nat /\ client.lastId < k
          /\ \A i \in DOMAIN wire : /\ client.lastId + i \in DOMAIN stream /\ client.lastId + i < k
                                    /\ wire[i] = stream[client.lastId + i]
      BY <1>00, <2>3, <2>7, RealIds DEF IInv
    <3>1. Own(stream[k].type) => stream[k].seq > client.lastSeq
      <4> SUFFICES ASSUME Own(stream[k].type), client.lastSeq # 0 PROVE stream[k].seq > client.lastSeq
        BY <1>00
      <4>1. PICK j \in DOMAIN stream : j <= client.lastId /\ stream[j].seq = client.lastSeq /\ Own(stream[j].type)
        BY <2>7 DEF IInv, ChainInv
      <4>2. j < k
        BY <1>00, <3>0, <4>1
      <4> QED BY <1>00, <4>1, <4>2 DEF IInv, SeqInv
    <3>2. Own(stream[k].type) => \A i \in DOMAIN wire : Own(wire[i].type) => wire[i].seq < stream[k].seq
      BY <3>0 DEF IInv, SeqInv
    <3>3. stream[k].type \in Endings => heard \/ \E i \in DOMAIN wire : wire[i].type = "reply.ready"
      <4> SUFFICES ASSUME stream[k].type \in Endings, ~heard
                   PROVE  \E i \in DOMAIN wire : wire[i].type = "reply.ready"
        OBVIOUS
      <4>1. PICK j \in 1..(k - 1) : stream[j].type = "reply.ready"
        BY DEF IInv, ReplyInv
      <4>2. j \in DOMAIN stream /\ j \in Nat
        BY <1>00, <3>0
      <4>3. ~(j <= client.lastId)
        BY <2>7, <4>1, <4>2 DEF IInv, ChainInv
      <4>4. j - client.lastId \in DOMAIN wire /\ client.lastId + (j - client.lastId) = j
        BY <1>00, <3>0, <4>2, <4>3
      <4> QED BY <3>0, <4>1, <4>4
    <3>4. ASSUME NEW i \in DOMAIN wire', Own(wire'[i].type) PROVE wire'[i].seq > client.lastSeq
      <4>1. CASE i \in DOMAIN wire
        BY <1>0, <2>3, <2>7, <3>4, <4>1 DEF WireInv
      <4>2. CASE i = Len(wire) + 1
        BY <2>3, <3>1, <3>4, <4>2
      <4> QED BY <2>4, <4>1, <4>2
    <3>5. ASSUME NEW i \in DOMAIN wire', NEW j \in DOMAIN wire', i < j, Own(wire'[i].type), Own(wire'[j].type)
          PROVE  wire'[i].seq < wire'[j].seq
      <4>1. i \in DOMAIN wire /\ wire'[i] = wire[i]
        BY <1>00, <2>3, <3>5
      <4>2. CASE j \in DOMAIN wire
        BY <1>0, <2>3, <2>7, <3>5, <4>1, <4>2 DEF WireInv
      <4>3. CASE j = Len(wire) + 1
        BY <2>3, <3>2, <3>5, <4>1, <4>3
      <4> QED BY <2>4, <4>2, <4>3
    <3>6. ASSUME NEW i \in DOMAIN wire', wire'[i].type \in Endings
          PROVE  heard \/ \E j \in 1..(i - 1) : wire'[j].type = "reply.ready"
      <4>1. CASE i \in DOMAIN wire
        <5>1. heard \/ \E j \in 1..(i - 1) : wire[j].type = "reply.ready"
          BY <1>0, <2>3, <2>7, <3>6, <4>1 DEF WireInv
        <5>2. \A j \in 1..(i - 1) : j \in DOMAIN wire
          BY <1>00, <4>1
        <5> QED BY <2>3, <5>1, <5>2
      <4>2. CASE i = Len(wire) + 1
        <5>1. \A j \in DOMAIN wire : j \in 1..(i - 1)
          BY <1>00, <4>2
        <5> QED BY <2>3, <3>3, <3>6, <4>2, <5>1
      <4> QED BY <2>4, <4>1, <4>2
    <3> QED BY <2>1, <2>3, <2>5, <3>4, <3>5, <3>6 DEF WireInv
  <2>8. CASE client.pc = "done"
    BY <2>1, <2>3, <2>5, <2>8 DEF WireInv
  <2> QED BY <2>6, <2>7, <2>8
<1>5. CASE Refuse
  <2>1. UNCHANGED <<wire, client, heard>> /\ relay'.at = "off"
    BY <1>5 DEF Refuse, Off
  <2> QED BY <1>0, <2>1 DEF WireInv
<1>6. CASE Read
  <2>1. /\ 1 \in DOMAIN wire /\ Len(wire') = Len(wire) - 1 /\ wire' \in Seq(Events)
        /\ \A i \in DOMAIN wire' : i + 1 \in DOMAIN wire /\ wire'[i] = wire[i + 1]
        /\ client.pc = "reading" /\ wire # <<>> /\ relay' = relay
        /\ client'.lastSeq = (IF LogicalSeq(wire[1]) > client.lastSeq THEN LogicalSeq(wire[1]) ELSE client.lastSeq)
        /\ client'.pc = (IF LogicalSeq(wire[1]) > client.lastSeq /\ wire[1].type \in TerminalTypes
                         THEN "done" ELSE "reading")
        /\ heard' = (heard \/ (LogicalSeq(wire[1]) > client.lastSeq /\ wire[1].type = "reply.ready"))
    BY <1>0, <1>6, Taken DEF Read
  <2>2. /\ DOMAIN wire' = 1..Len(wire') /\ Len(wire') \in Nat
        /\ relay.at # "judge"
    BY <1>0, <2>1 DEF WireInv
  <2>3. \A i \in DOMAIN wire' : i \in Nat /\ 1 < i + 1 /\ (i + 1) - 1 = i
    BY <2>2
  <2>4. CASE client'.pc # "done"
    <3>1. ASSUME NEW i \in DOMAIN wire', Own(wire'[i].type), wire'[i].id # Snapshot
          PROVE  wire'[i].seq > client'.lastSeq
      <4>1. CASE LogicalSeq(wire[1]) > client.lastSeq
        <5>1. Own(wire[1].type)
          BY <2>1, <2>4, <4>1 DEF Own, TerminalTypes
        <5>2. wire[1].id # Snapshot
          BY <1>0, <2>1, <3>1 DEF WireInv
        <5>3. wire[1].seq < wire[i + 1].seq
          BY <1>0, <2>1, <2>3, <3>1, <5>1, <5>2 DEF WireInv
        <5>4. client'.lastSeq = wire[1].seq
          BY <2>1, <4>1, <5>2 DEF LogicalSeq
        <5> QED BY <1>00, <2>1, <5>3, <5>4
      <4>2. CASE ~(LogicalSeq(wire[1]) > client.lastSeq)
        BY <1>0, <2>1, <3>1, <4>2 DEF WireInv
      <4> QED BY <4>1, <4>2
    <3>2. ASSUME NEW i \in DOMAIN wire', NEW j \in DOMAIN wire', i < j, Own(wire'[i].type), Own(wire'[j].type)
          PROVE  wire'[i].id = Snapshot \/ wire'[i].seq < wire'[j].seq
      <4>1. i + 1 < j + 1
        BY <2>3, <3>2
      <4> QED BY <1>0, <2>1, <3>2, <4>1 DEF WireInv
    <3>3. ASSUME NEW i \in DOMAIN wire', wire'[i].type \in Endings
          PROVE  heard' \/ \E j \in 1..(i - 1) : wire'[j].type = "reply.ready"
      <4>1. heard \/ \E j \in 1..i : wire[j].type = "reply.ready"
        BY <1>0, <2>1, <2>3, <3>3 DEF WireInv
      <4>2. ASSUME NEW j \in 1..i, wire[j].type = "reply.ready", ~heard'
            PROVE  \E h \in 1..(i - 1) : wire'[h].type = "reply.ready"
        <5>1. j # 1
          <6>1. Own("reply.ready")
            BY DEF Own
          <6> QED BY <1>6, <2>1, <4>2, <6>1, AlwaysFresh
        <5>2. j - 1 \in 1..(i - 1) /\ j - 1 \in DOMAIN wire' /\ (j - 1) + 1 = j
          BY <2>2, <2>3, <4>2, <5>1
        <5> QED BY <2>1, <4>2, <5>2
      <4> QED BY <2>1, <4>1, <4>2
    <3> QED BY <1>0, <2>1, <2>2, <3>1, <3>2, <3>3 DEF WireInv
  <2>5. CASE client'.pc = "done"
    BY <1>0, <2>1, <2>2, <2>5 DEF WireInv
  <2> QED BY <2>4, <2>5
<1>7. CASE Disconnected \/ Recover \/ RecoverFails
  <2>1. UNCHANGED <<wire, relay>>
    BY <1>7 DEF Disconnected, Recover, RecoverFails
  <2> QED BY <1>0, <1>7, <2>1, PlaceStays DEF WireInv
<1>8. CASE Turn \/ Supersede \/ Emit
  BY <1>1, <1>8, Committed DEF Emit, Incr, Xadd
<1>9. CASE Expire \/ \E o \in Emitters : Die(o)
  BY <1>1, <1>9 DEF Expire, Die
<1> QED BY <1>2, <1>3, <1>4, <1>5, <1>6, <1>7, <1>8, <1>9 DEF Next, Serve, Follow, Trouble

-----------------------------------------------------------------------------
(* Snapshots, and what was skipped *)

LEMMA PlaceKeeps ==
  ASSUME IInv, Next, TypeOK'
  PROVE  PlaceInv'
<1> USE DEF newsVars, turnVars, busVars
<1>0. TypeOK /\ IdInv /\ PlaceInv /\ (row \in Terminal => row' \in Terminal)
  BY RowStays DEF IInv
<1>1. CASE UNCHANGED <<stream, wire, relay, client>>
  BY <1>0, <1>1 DEF PlaceInv, CursorIsReal, Renumbered
<1>2. ASSUME NEW e \in Emitters, Xadd(e) PROVE PlaceInv'
  <2>1. UNCHANGED <<wire, relay, client>> /\ stream' # <<>>
    BY <1>0, <1>2, Appended DEF Xadd
  <2>2. ~Renumbered' => ~Renumbered
    <3> SUFFICES ASSUME ~Renumbered' PROVE ~Renumbered
      OBVIOUS
    <3>1. Original'
      BY <2>1 DEF Original, Gone
    <3> QED BY <3>1, Before DEF Original
  <2> QED BY <1>0, <2>1, <2>2 DEF PlaceInv, CursorIsReal
<1>3. CASE Expire
  BY <1>0, <1>3 DEF Expire, PlaceInv, CursorIsReal
<1>4. CASE Connect
  <2>1. /\ relay'.at = "judge" /\ relay'.state = row /\ relay'.cursor = client.lastId
        /\ wire' = <<>> /\ DOMAIN <<>> = {} /\ client'.lastId = client.lastId /\ UNCHANGED row
    BY <1>0, <1>4, PlaceStays DEF Connect
  <2> QED BY <1>0, <2>1 DEF PlaceInv, CursorIsReal
<1>5. CASE Judge
  <2>0. UNCHANGED <<client, stream>> /\ relay.at = "judge"
    BY <1>5 DEF Judge
  <2>1. CASE Gone /\ relay.state \in Terminal
    <3>1. relay'.at = "off"
      BY <1>0, <1>5, <2>1, Judged DEF Off
    <3>2. row' \in Terminal
      BY <1>0, <2>1 DEF IInv, TurnInv
    <3> QED BY <1>0, <2>0, <3>1, <3>2 DEF PlaceInv, CursorIsReal
  <2>2. CASE ~(Gone /\ relay.state \in Terminal)
    <3>1. wire' = wire /\ relay'.at = "read" /\ relay'.cursor = relay.cursor
      BY <1>0, <1>5, <2>2, Judged
    <3>2. relay.cursor = Snapshot => Renumbered
      <4> SUFFICES ASSUME relay.cursor = Snapshot, ~Renumbered PROVE FALSE
        OBVIOUS
      <4>1. Original
        BY <1>0, <2>0, <2>2 DEF PlaceInv, Original
      <4> QED BY <2>0, <4>1, RealIds DEF IInv, ChainInv
    <3> QED BY <1>0, <2>0, <3>1, <3>2 DEF PlaceInv, CursorIsReal, Renumbered
  <2> QED BY <2>1, <2>2
<1>6. CASE Relay
  <2>0. UNCHANGED <<client, stream>>
    BY <1>6 DEF Relay
  <2>1. PICK k \in DOMAIN stream :
          /\ stream[k].id # Snapshot
          /\ DOMAIN wire' = 1..(Len(wire) + 1)
          /\ \A i \in DOMAIN wire : wire'[i] = wire[i]
          /\ wire'[Len(wire) + 1] = stream[k]
          /\ relay' = Off \/ (relay'.at = "read" /\ relay'.cursor = stream[k].id)
    BY <1>0, <1>6, RelaySends
  <2>2. \A i \in DOMAIN wire' : i \in DOMAIN wire \/ i = Len(wire) + 1
    BY <1>0, <2>1, Indices
  <2>3. relay'.at # "judge" /\ (relay'.at = "read" => relay'.cursor # Snapshot)
    BY <2>1 DEF Off
  <2> QED BY <1>0, <2>0, <2>1, <2>2, <2>3 DEF PlaceInv, CursorIsReal
<1>7. CASE Refuse \/ Drop
  <2>1. relay'.at = "off" /\ UNCHANGED client /\ (wire' = wire \/ wire' = <<>>) /\ DOMAIN <<>> = {}
    BY <1>7 DEF Refuse, Drop, Off
  <2> QED BY <1>0, <2>1 DEF PlaceInv, CursorIsReal
<1>8. CASE Read
  <2>1. /\ 1 \in DOMAIN wire /\ client'.lastId = wire[1].id
        /\ \A i \in DOMAIN wire' : i + 1 \in DOMAIN wire /\ wire'[i] = wire[i + 1]
        /\ UNCHANGED <<relay, stream>>
    BY <1>0, <1>8, Taken DEF Read
  <2> QED BY <1>0, <2>1 DEF PlaceInv, CursorIsReal, Renumbered
<1>9. CASE Disconnected \/ Recover \/ RecoverFails
  <2>1. UNCHANGED <<wire, relay>>
    BY <1>9 DEF Disconnected, Recover, RecoverFails
  <2> QED BY <1>0, <1>9, <2>1, PlaceStays DEF PlaceInv, CursorIsReal, Renumbered
<1>10. CASE Turn \/ Supersede
  BY <1>1, <1>10, Committed
<1>11. CASE \E o \in Emitters : Incr(o) \/ Die(o)
  BY <1>1, <1>11 DEF Incr, Die
<1> QED BY <1>2, <1>3, <1>4, <1>5, <1>6, <1>7, <1>8, <1>9, <1>10, <1>11 DEF Next, Emit, Serve, Follow, Trouble

LEMMA SkipKeeps ==
  ASSUME IInv, Next, TypeOK'
  PROVE  NoneSkipped'
<1> USE DEF newsVars, turnVars, busVars
<1>1. CASE ~Original'
  <2>1. Renumbered' \/ DOMAIN stream' = {}
    BY <1>1 DEF Original, Gone
  <2> QED BY <2>1 DEF NoneSkipped
<1>2. CASE Original'
  <2>0. /\ TypeOK /\ IdInv /\ Original /\ client.lastId # Snapshot
        /\ UNCHANGED stream \/ \E e \in Emitters : Xadd(e)
    BY <1>2, Before, RealIds DEF IInv
  <2>00. /\ client.lastId \in Nat /\ client.lastId <= Len(stream) /\ Len(stream) \in Nat
         /\ DOMAIN stream = 1..Len(stream) /\ nextId = Len(stream) + 1
         /\ \A k \in DOMAIN stream : stream[k].id = k /\ stream[k].seq \in Nat /\ stream[k].seq > 0
         /\ \A k \in DOMAIN stream : k <= client.lastId => k \in given \/ Overtaken(k)
    BY <2>0, RealIds, Indices, Numbers DEF IInv, IdInv, NoneSkipped, Original
  <2>1. CASE UNCHANGED <<stream, given>> /\ client'.lastId = client.lastId
    BY <2>00, <2>1 DEF NoneSkipped, Overtaken
  <2>2. ASSUME NEW e \in Emitters, Xadd(e) PROVE NoneSkipped'
    <3>1. /\ UNCHANGED <<client, given>> /\ DOMAIN stream' = 1..(Len(stream) + 1)
          /\ \A k \in DOMAIN stream : stream'[k] = stream[k]
          /\ stream'[Len(stream) + 1].id = nextId
      BY <2>0, <2>2, Appended DEF Xadd
    <3>2. ASSUME NEW k \in DOMAIN stream', stream'[k].id <= client.lastId
          PROVE  stream'[k].id \in given \/ Overtaken(k)'
      <4>1. k \in DOMAIN stream /\ stream'[k] = stream[k] /\ k <= client.lastId
        BY <2>00, <3>1, <3>2
      <4>2. \A j \in 1..(k - 1) : j \in DOMAIN stream
        BY <2>00, <4>1
      <4> QED BY <2>00, <3>1, <4>1, <4>2 DEF Overtaken
    <3> QED BY <3>1, <3>2 DEF NoneSkipped
  <2>3. CASE Read
    <3>1. /\ 1 \in DOMAIN wire /\ client'.lastId = wire[1].id /\ UNCHANGED stream
          /\ given' = (IF LogicalSeq(wire[1]) > client.lastSeq /\ wire[1].id # Snapshot
                       THEN given \cup {wire[1].id} ELSE given)
      BY <2>0, <2>3, Taken DEF Read
    <3> DEFINE p == client.lastId + 1
    <3>2. /\ p \in DOMAIN stream /\ wire[1] = stream[p] /\ wire[1].id = p /\ wire[1].id # Snapshot
          /\ p \in Nat /\ LogicalSeq(wire[1]) = stream[p].seq
      BY <2>0, <3>1, RealIds DEF LogicalSeq
    <3>3. p \in given' \/ Overtaken(p)
      <4> SUFFICES ASSUME ~(stream[p].seq > client.lastSeq) PROVE Overtaken(p)
        BY <3>1, <3>2
      <4>1. client.lastSeq \in Nat /\ client.lastSeq # 0
        BY <2>0, <2>00, <3>2, Numbers
      <4>2. PICK j \in DOMAIN stream : j <= client.lastId /\ stream[j].seq = client.lastSeq
        BY <2>0, <4>1 DEF IInv, ChainInv
      <4>3. j \in 1..(p - 1) /\ j # p
        BY <2>00, <4>2
      <4>4. stream[j].seq # stream[p].seq
        BY <3>2, <4>3, <4>2 DEF IInv, SeqInv
      <4> QED BY <2>00, <3>2, <4>1, <4>2, <4>3, <4>4 DEF Overtaken
    <3>4. ASSUME NEW k \in DOMAIN stream, k <= p PROVE k \in given' \/ Overtaken(k)
      <4>1. k <= client.lastId \/ k = p
        BY <2>00, <3>4
      <4> QED BY <2>00, <3>1, <3>3, <4>1
    <3>5. client'.lastId = p
      BY <3>1, <3>2
    <3> HIDE DEF p
    <3> QED BY <2>00, <3>1, <3>4, <3>5 DEF NoneSkipped, Overtaken
  <2>4. CASE Disconnected \/ Recover \/ RecoverFails \/ Connect \/ Drop
    BY <2>0, <2>1, <2>4, PlaceStays
  <2>5. CASE Turn \/ Supersede \/ Judge \/ Relay \/ Refuse
    BY <2>1, <2>5, Committed DEF Judge, Relay, Refuse
  <2>6. CASE \E o \in Emitters : Incr(o) \/ Die(o)
    BY <2>1, <2>6 DEF Incr, Die
  <2>7. CASE Expire
    BY <1>2, <2>7 DEF Expire, Original, Gone
  <2> QED BY <2>2, <2>3, <2>4, <2>5, <2>6, <2>7 DEF Next, Emit, Serve, Follow, Trouble
<1> QED BY <1>1, <1>2

-----------------------------------------------------------------------------
(* Together *)

LEMMA StepInv == IInv /\ [Next]_vars => IInv'
<1> SUFFICES ASSUME IInv, [Next]_vars PROVE IInv'
  OBVIOUS
<1>1. CASE Next
  <2>1. TypeOK'
    BY <1>1, TypeKeeps DEF IInv
  <2>2. TurnInv' /\ IdInv' /\ OutInv' /\ SeqInv' /\ ReplyInv'
    BY <1>1, <2>1, TurnKeeps, IdKeeps, OutKeeps, SeqKeeps, ReplyKeeps
  <2>3. TruthInv'
    BY <1>1, OutTruthKeeps, StreamTruthKeeps, WireTruthKeeps DEF TruthInv
  <2>4. ChainInv' /\ WireInv' /\ PlaceInv' /\ NoneSkipped'
    BY <1>1, <2>1, ChainKeeps, WireKeeps, PlaceKeeps, SkipKeeps
  <2> QED BY <2>1, <2>2, <2>3, <2>4 DEF IInv
<1>2. CASE UNCHANGED vars
  <2> USE DEF vars, turnVars, busVars, newsVars
  <2>1. TypeOK' /\ TurnInv' /\ TruthInv'
    BY <1>2 DEF IInv, TypeOK, TurnInv, TruthInv, OutTruth, StreamTruth, WireTruth
  <2>2. IdInv' /\ OutInv'
    BY <1>2 DEF IInv, IdInv, OutInv, Original, Gone, Renumbered, Room
  <2>3. SeqInv' /\ ReplyInv'
    BY <1>2 DEF IInv, SeqInv, ReplyInv, InStream
  <2>4. ChainInv' /\ WireInv'
    BY <1>2 DEF IInv, ChainInv, WireInv, Original, Gone, Renumbered
  <2>5. PlaceInv' /\ NoneSkipped'
    BY <1>2 DEF IInv, PlaceInv, CursorIsReal, NoneSkipped, Overtaken, Renumbered
  <2> QED BY <2>1, <2>2, <2>3, <2>4, <2>5 DEF IInv
<1> QED BY <1>1, <1>2

LEMMA Invariant == Spec => []IInv
BY InitInv, StepInv, PTL DEF Spec

\* Every state is well typed; in particular there are never more entries, numbers
\* or events than MaxEvents, whatever dies and is tried again.
THEOREM StreamTypes == Spec => []TypeOK
<1>1. IInv => TypeOK
  BY DEF IInv
<1> QED BY <1>1, Invariant, PTL

\* However often the connection breaks and however the publishers interleave, an
\* entry before the client's Last-Event-ID was yielded or has been overtaken.
THEOREM ReconnectSkipsNothing == Spec => []NoneSkipped
<1>1. IInv => NoneSkipped
  BY DEF IInv
<1> QED BY <1>1, Invariant, PTL

\* The id of a snapshot never becomes the cursor of XREAD, although the relay
\* judges the row early and looks at the stream late, unless the numbers begin
\* again in a stream that had expired.
THEOREM CursorsAreReal == Spec => []CursorIsReal
<1>1. IInv => CursorIsReal
  BY DEF IInv, PlaceInv
<1> QED BY <1>1, Invariant, PTL

-----------------------------------------------------------------------------
(* The promise *)

followed == <<row, claims, message, heard, told>>

\* An event read is a reply, the one outcome, or nothing that is promised.
LEMMA ReadTells ==
  ASSUME IInv, Read
  PROVE  News!Hear \/ News!Tell \/ UNCHANGED followed
<1> DEFINE event == wire[1]
           fresh == LogicalSeq(event) > client.lastSeq
           ends == fresh /\ event.type \in TerminalTypes
<1>1. /\ 1 \in DOMAIN wire /\ client.pc = "reading"
      /\ heard' = (heard \/ (fresh /\ event.type = "reply.ready"))
      /\ told' = (IF ends THEN Outcome(event.type) ELSE told)
      /\ UNCHANGED <<row, claims, message>>
  BY Taken DEF IInv, Read, turnVars
<1>2. told = "none" /\ heard \in BOOLEAN /\ message \in BOOLEAN
  BY <1>1 DEF IInv, TurnInv, TypeOK
<1>3. Truthful(event.type, claims, message)
  BY <1>1 DEF IInv, TruthInv, WireTruth
<1>4. CASE ends
  <2>1. event.type \in TerminalTypes /\ told' = Outcome(event.type) /\ told' \in claims
    BY <1>1, <1>3, <1>4 DEF Truthful
  <2>2. heard' = heard
    BY <1>1, <1>2, <2>1 DEF TerminalTypes
  <2>3. told' # "cancelled" => heard
    <3>1. told' # "cancelled" => event.type \in Endings
      BY <2>1 DEF TerminalTypes, Endings, Outcome
    <3>2. event.type \in Endings => heard \/ \E j \in 1..(1 - 1) : wire[j].type = "reply.ready"
      BY <1>1 DEF IInv, WireInv
    <3>3. 1..(1 - 1) = {}
      OBVIOUS
    <3> QED BY <3>1, <3>2, <3>3
  <2> QED BY <1>1, <1>2, <2>1, <2>2, <2>3 DEF News!Tell
<1>5. CASE ~ends /\ fresh /\ event.type = "reply.ready"
  <2>1. message /\ heard' /\ told' = told
    BY <1>1, <1>3, <1>5 DEF Truthful
  <2> QED BY <1>1, <1>2, <2>1 DEF News!Hear
<1>6. CASE ~ends /\ ~(fresh /\ event.type = "reply.ready")
  <2>1. heard' = heard /\ told' = told
    BY <1>1, <1>2, <1>6
  <2> QED BY <1>1, <2>1 DEF followed
<1> QED BY <1>4, <1>5, <1>6

\* Who fetches the turn is told how the row closed, and gets the reply with it.
LEMMA RecoverTells ==
  ASSUME IInv, Recover
  PROVE  News!Tell \/ UNCHANGED followed
<1>1. /\ TypeOK /\ TurnInv /\ client.pc = "recovering" /\ told = "none"
      /\ UNCHANGED <<row, claims, message>>
  BY DEF IInv, TurnInv, Recover, turnVars
<1>2. CASE row \in Terminal
  <2>1. told' = row /\ heard' = (heard \/ message) /\ row \in claims
    BY <1>1, <1>2 DEF Recover, TurnInv
  <2>2. row # "cancelled" => message
    BY <1>1, <1>2, <2>1 DEF TurnInv, Terminal
  <2> QED BY <1>1, <2>1, <2>2 DEF News!Tell, TypeOK
<1>3. CASE row \notin Terminal
  BY <1>1, <1>3 DEF Recover, followed
<1> QED BY <1>2, <1>3

LEMMA StepIsNews == IInv /\ [Next]_vars => [News!Next]_followed
<1> SUFFICES ASSUME IInv, [Next]_vars PROVE [News!Next]_followed
  OBVIOUS
<1> USE DEF News!Next
<1>0. TypeOK /\ TurnInv
  BY DEF IInv
<1>1. ASSUME NEW type \in {"progress", "reply.ready"}, Work(type) PROVE News!Reply \/ UNCHANGED followed
  BY <1>1 DEF Work, RestUnchanged, newsVars, followed, News!Reply
<1>2. CASE Complete \/ Fail \/ Cancel
  BY <1>0, <1>2 DEF Complete, Fail, Cancel, Close, RestUnchanged, newsVars, TurnInv, TypeOK,
                    News!Close, News!Closed
<1>3. CASE SupersedeAnnounces
  BY <1>3 DEF SupersedeAnnounces, RestUnchanged, newsVars, News!Announce
<1>4. CASE SupersedeCommits
  BY <1>0, <1>4 DEF SupersedeCommits, RestUnchanged, newsVars, TurnInv, News!Overrule
<1>5. CASE Read \/ Recover
  BY <1>5, ReadTells, RecoverTells
<1>6. CASE SupersedeFails \/ Emit \/ Serve \/ Disconnected \/ Trouble \/ UNCHANGED vars
  BY <1>6 DEF SupersedeFails, RestUnchanged, Emit, Incr, Xadd, Serve, Connect, Judge, Relay, Refuse,
              Disconnected, Trouble, Die, Expire, Drop, RecoverFails, vars, turnVars, newsVars, followed
<1> QED BY <1>1, <1>2, <1>3, <1>4, <1>5, <1>6 DEF Next, Follow, Turn, Supersede

\* Whatever the connections, the streams and the publishers go through, who follows
\* the turn is told one outcome: one that the row had or a rival announced, and of
\* a completed or failed turn only after the reply.
THEOREM NewsKept == Spec => ImplementsNews
<1>1. Init => News!Init
  BY DEF Init, News!Init
<1>2. IInv /\ [Next]_vars => [News!Next]_<<row, claims, message, heard, told>>
  BY StepIsNews DEF followed
<1> QED BY <1>1, <1>2, Invariant, PTL DEF Spec, ImplementsNews, News!Spec
=============================================================================
