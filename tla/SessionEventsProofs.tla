------------------------ MODULE SessionEventsProofs -------------------------
(***************************************************************************)
(* Proofs about SessionEvents, for any number of sessions, connections,    *)
(* emitters and events and any limit of the queue: neither the queue nor a *)
(* channel changes the order of a task's events, and every event is in one *)
(* place.  What holds it together is that a connection's channel is fed    *)
(* only once the sender is swapped, when the session is no longer paused:  *)
(* whoever still has an event for the queue then has none in the channel.  *)
(***************************************************************************)
EXTENDS SessionEvents, SessionRegistryProofs, FiniteSetTheorems

(* Every event of xs was sent before those of its task in ys.              *)
Before(xs, ys) == \A x \in xs, y \in ys : x[1] = y[1] => x[2] < y[2]

-----------------------------------------------------------------------------
(* Sequences of events                                                     *)

(* What is in a sequence is at a position of it.                           *)
LEMMA Elements ==
  ASSUME NEW S, NEW seq \in Seq(S)
  PROVE  /\ Len(seq) \in Nat /\ \A i \in 1 .. Len(seq) : seq[i] \in S /\ seq[i] \in ToSet(seq)
         /\ \A y : y \in ToSet(seq) <=> \E i \in 1 .. Len(seq) : y = seq[i]
         /\ ToSet(seq) \subseteq S
         /\ (seq = <<>> <=> Len(seq) = 0)
<1>1. Len(seq) \in Nat /\ DOMAIN seq = 1 .. Len(seq) /\ \A i \in 1 .. Len(seq) : seq[i] \in S
  OBVIOUS
<1>2. seq = <<>> <=> Len(seq) = 0
  OBVIOUS
<1> QED BY <1>1, <1>2 DEF ToSet

(* What comes after everything in a sequence keeps it in order at its end. *)
LEMMA AppendEvent ==
  ASSUME NEW S, NEW seq \in Seq(S), InOrder(seq), NEW x \in S, Before(ToSet(seq), {x})
  PROVE  /\ Append(seq, x) \in Seq(S) /\ Len(Append(seq, x)) = Len(seq) + 1
         /\ ToSet(Append(seq, x)) = ToSet(seq) \cup {x} /\ InOrder(Append(seq, x))
<1> DEFINE longer == Append(seq, x)
<1>1. /\ longer \in Seq(S) /\ Len(longer) = Len(seq) + 1 /\ Len(seq) \in Nat
      /\ longer[Len(seq) + 1] = x /\ \A i \in 1 .. Len(seq) : longer[i] = seq[i]
  OBVIOUS
<1> HIDE DEF longer
<1>2. \A y : y \in ToSet(longer) <=> \E i \in 1 .. Len(longer) : y = longer[i]
  BY <1>1, Elements
<1>3. \A y : y \in ToSet(seq) <=> \E i \in 1 .. Len(seq) : y = seq[i]
  BY Elements
<1>4. ASSUME NEW i \in 1 .. Len(longer) PROVE i \in 1 .. Len(seq) \/ i = Len(seq) + 1
  BY <1>1
<1>5. \A i \in 1 .. Len(seq) : i \in 1 .. Len(longer)
  BY <1>1
<1>6. Len(seq) + 1 \in 1 .. Len(longer)
  BY <1>1
<1>7. ToSet(longer) = ToSet(seq) \cup {x}
  <2>1. ASSUME NEW y \in ToSet(longer) PROVE y \in ToSet(seq) \cup {x}
    BY <1>1, <1>2, <1>3, <1>4
  <2>2. ASSUME NEW y \in ToSet(seq) PROVE y \in ToSet(longer)
    BY <1>1, <1>2, <1>3, <1>5
  <2>3. x \in ToSet(longer)
    BY <1>1, <1>2, <1>6
  <2> QED BY <2>1, <2>2, <2>3
<1>8. ASSUME NEW i \in 1 .. Len(longer), NEW j \in 1 .. Len(longer), i < j, longer[i][1] = longer[j][1]
      PROVE  longer[i][2] < longer[j][2]
  <2>1. i \in 1 .. Len(seq) /\ longer[i] = seq[i]
    BY <1>1, <1>8
  <2>2. CASE j = Len(seq) + 1
    <3>1. seq[i] \in ToSet(seq) /\ longer[j] = x
      BY <1>1, <1>3, <2>1, <2>2
    <3> QED BY <1>8, <2>1, <3>1 DEF Before
  <2>3. CASE j \in 1 .. Len(seq)
    BY <1>1, <1>8, <2>1, <2>3 DEF InOrder
  <2> QED BY <1>4, <2>2, <2>3
<1> QED BY <1>1, <1>7, <1>8 DEF InOrder, longer

(* What is left of a sequence comes after its head.                        *)
LEMMA TailEvents ==
  ASSUME NEW S, \A y \in S : y[2] \in Nat, NEW seq \in Seq(S), InOrder(seq), seq # <<>>
  PROVE  /\ Tail(seq) \in Seq(S) /\ InOrder(Tail(seq)) /\ Len(Tail(seq)) = Len(seq) - 1
         /\ Head(seq) \in S /\ Head(seq) \in ToSet(seq)
         /\ ToSet(Tail(seq)) = ToSet(seq) \ {Head(seq)}
         /\ Before({Head(seq)}, ToSet(Tail(seq)))
<1> DEFINE rest == Tail(seq)
<1>1. /\ rest \in Seq(S) /\ Len(rest) = Len(seq) - 1 /\ Len(seq) \in Nat \ {0}
      /\ Head(seq) = seq[1] /\ seq[1] \in S /\ \A i \in 1 .. Len(seq) - 1 : rest[i] = seq[i + 1]
  OBVIOUS
<1> HIDE DEF rest
<1>2. \A y : y \in ToSet(rest) <=> \E i \in 1 .. Len(rest) : y = rest[i]
  BY <1>1, Elements
<1>3. \A y : y \in ToSet(seq) <=> \E i \in 1 .. Len(seq) : y = seq[i]
  BY Elements
<1>4. \A i \in 1 .. Len(seq) : seq[i] \in S /\ seq[i][2] \in Nat
  OBVIOUS
<1>5. 1 \in 1 .. Len(seq) /\ \A i \in 2 .. Len(seq) : i \in 1 .. Len(seq) /\ 1 < i
  BY <1>1
<1>6. \A i \in 2 .. Len(seq) : seq[i][1] = seq[1][1] => seq[1][2] < seq[i][2]
  BY <1>5 DEF InOrder
<1>7. \A i \in 2 .. Len(seq) : seq[i] # seq[1]
  <2> SUFFICES ASSUME NEW i \in 2 .. Len(seq), seq[i] = seq[1] PROVE FALSE
    OBVIOUS
  <2>1. seq[1][2] < seq[1][2] /\ seq[1][2] \in Nat
    BY <1>4, <1>5, <1>6
  <2> QED BY <2>1
<1>8. \A y : y \in ToSet(rest) <=> \E i \in 2 .. Len(seq) : y = seq[i]
  <2>1. ASSUME NEW i \in 1 .. Len(rest) PROVE i + 1 \in 2 .. Len(seq) /\ rest[i] = seq[i + 1]
    BY <1>1, <2>1
  <2>2. ASSUME NEW i \in 2 .. Len(seq) PROVE i - 1 \in 1 .. Len(rest) /\ rest[i - 1] = seq[i]
    <3>1. i - 1 \in 1 .. Len(seq) - 1 /\ (i - 1) + 1 = i
      BY <1>1
    <3> QED BY <1>1, <3>1
  <2>3. ASSUME NEW y \in ToSet(rest) PROVE \E i \in 2 .. Len(seq) : y = seq[i]
    <3>1. PICK i \in 1 .. Len(rest) : y = rest[i]
      BY <1>2
    <3>2. i + 1 \in 2 .. Len(seq) /\ y = seq[i + 1]
      BY <2>1, <3>1
    <3> QED BY <3>2
  <2>4. ASSUME NEW i \in 2 .. Len(seq) PROVE seq[i] \in ToSet(rest)
    BY <1>2, <2>2
  <2> QED BY <2>3, <2>4
<1>9. ToSet(rest) = ToSet(seq) \ {seq[1]}
  <2>1. ASSUME NEW y \in ToSet(rest) PROVE y \in ToSet(seq) /\ y # seq[1]
    BY <1>3, <1>5, <1>7, <1>8
  <2>2. ASSUME NEW y \in ToSet(seq), y # seq[1] PROVE y \in ToSet(rest)
    <3>1. PICK i \in 1 .. Len(seq) : y = seq[i]
      BY <1>3
    <3>2. i \in 2 .. Len(seq)
      BY <1>1, <2>2, <3>1
    <3> QED BY <1>8, <3>1, <3>2
  <2> QED BY <2>1, <2>2
<1>10. InOrder(rest)
  <2> SUFFICES ASSUME NEW i \in 1 .. Len(rest), NEW j \in 1 .. Len(rest), i < j, rest[i][1] = rest[j][1]
               PROVE  rest[i][2] < rest[j][2]
    BY DEF InOrder
  <2>1. rest[i] = seq[i + 1] /\ rest[j] = seq[j + 1] /\ i + 1 \in 1 .. Len(seq) /\ j + 1 \in 1 .. Len(seq) /\ i + 1 < j + 1
    BY <1>1
  <2> HIDE DEF InOrder
  <2>2. \A a, b \in 1 .. Len(seq) : a < b /\ seq[a][1] = seq[b][1] => seq[a][2] < seq[b][2]
    BY DEF InOrder
  <2> QED BY <2>1, <2>2
<1>11. Before({seq[1]}, ToSet(rest))
  BY <1>6, <1>8 DEF Before
<1>12. seq[1] \in ToSet(seq)
  BY <1>3, <1>5
<1> QED BY <1>1, <1>9, <1>10, <1>11, <1>12 DEF rest

(* The part of a queue that is written before the socket breaks, and the   *)
(* part that is lost.                                                      *)
LEMMA PartOfEvents ==
  ASSUME NEW S, \A y \in S : y[2] \in Nat, NEW seq \in Seq(S), InOrder(seq), NEW k \in 0 .. Len(seq)
  PROVE  LET part == SubSeq(seq, 1, k)
             rest == {seq[i] : i \in k + 1 .. Len(seq)}
         IN  /\ part \in Seq(S) /\ InOrder(part)
             /\ ToSet(part) \cup rest = ToSet(seq) /\ ToSet(part) \cap rest = {}
<1> DEFINE part == SubSeq(seq, 1, k)
           rest == {seq[i] : i \in k + 1 .. Len(seq)}
<1>1. Len(seq) \in Nat /\ k \in Nat /\ k <= Len(seq)
  OBVIOUS
<1>2. part \in Seq(S) /\ Len(part) = k /\ \A i \in 1 .. k : part[i] = seq[i]
  BY <1>1
<1> HIDE DEF part
<1>3. \A y : y \in ToSet(part) <=> \E i \in 1 .. k : y = seq[i]
  BY <1>2, Elements
<1>4. \A y : y \in ToSet(seq) <=> \E i \in 1 .. Len(seq) : y = seq[i]
  BY Elements
<1>5. \A i \in 1 .. Len(seq) : seq[i] \in S /\ seq[i][2] \in Nat
  OBVIOUS
<1>6. \A i \in 1 .. k : i \in 1 .. Len(seq)
  BY <1>1
<1>7. \A i \in k + 1 .. Len(seq) : i \in 1 .. Len(seq)
  BY <1>1
<1>8. \A i \in 1 .. Len(seq) : i \in 1 .. k \/ i \in k + 1 .. Len(seq)
  BY <1>1
<1>9. \A i, j \in 1 .. Len(seq) : i < j /\ seq[i][1] = seq[j][1] => seq[i][2] < seq[j][2]
  BY DEF InOrder
<1>10. InOrder(part)
  BY <1>2, <1>6, <1>9 DEF InOrder
<1>11. ToSet(part) \cup rest = ToSet(seq)
  BY <1>3, <1>4, <1>6, <1>7, <1>8
<1>12. ASSUME NEW i \in 1 .. k, NEW j \in k + 1 .. Len(seq) PROVE seq[i] # seq[j]
  <2>1. i < j /\ i \in 1 .. Len(seq) /\ j \in 1 .. Len(seq)
    BY <1>1
  <2> QED BY <1>5, <1>9, <2>1
<1>13. ToSet(part) \cap rest = {}
  BY <1>3, <1>12
<1> QED BY <1>2, <1>10, <1>11, <1>13 DEF part

(* An event is its emitter and its number.                                 *)
LEMMA EventShape ==
  /\ \A x \in Event : x[1] \in Emitter /\ x[2] \in 1 .. MaxEvents /\ x[2] \in Nat /\ x = <<x[1], x[2]>>
  /\ \A e \in Emitter, n \in 1 .. MaxEvents :
       <<e, n>> \in Event /\ <<e, n>>[1] = e /\ <<e, n>>[2] = n
BY EventAssumption DEF Event

-----------------------------------------------------------------------------
(* The inductive invariant                                                 *)

(* A connection whose channel nobody feeds yet.                            *)
Fresh == {"idle", "taken", "unpaused"}
Fed == {"swapped"} \cup Serving

EmitterKnows(e) ==
  emitter[e].at # "idle" =>
    emitter[e].for \in SessionId /\ sent[e] \in 1 .. MaxEvents /\ sender[emitter[e].for] # NoConn

SenderKnows(s) ==
  sender[s] # NoConn => sess[sender[s]] = s /\ pc[sender[s]] \notin Fresh

ChannelFed(c) ==
  /\ channel[c] # <<>> => pc[c] \in Fed
  /\ inbox[c] # <<>> => pc[c] \notin Fresh \cup {"swapped", "initial"}

(* send_json has returned for the event.                                   *)
Settled(x) == x[2] <= sent[x[1]] /\ (emitter[x[1]].at # "idle" => x[2] < sent[x[1]])

(* The places an event can be in, as a kind and an index.                  *)
In(k, i, x) ==
  \/ k = "queue" /\ i \in SessionId /\ x \in ToSet(event_queue[i])
  \/ k = "channel" /\ i \in Conn /\ x \in ToSet(channel[i])
  \/ k = "inbox" /\ i \in Conn /\ x \in ToSet(inbox[i])
  \/ k = "overflowed" /\ i \in SessionId /\ x \in overflowed[i]
  \/ k = "lost" /\ i = NoSession /\ x \in lost

InOnePlace(x) ==
  /\ \E k, i : In(k, i, x)
  /\ \A k, i, l, j : In(k, i, x) /\ In(l, j, x) => k = l /\ i = j

InNoPlace(x) == \A l, j : ~In(l, j, x)
Placing(x) == IF Settled(x) THEN InOnePlace(x) ELSE InNoPlace(x)

(* The queue of a session whose connection has yet to drain it is sent     *)
(* before the channel; who is about to add to it has nothing in there.     *)
QueueFirst(c) ==
  pc[c] \in {"swapped", "initial"} =>
    /\ Before(ToSet(event_queue[sess[c]]), ToSet(channel[c]))
    /\ \A e \in Emitter : emitter[e].at = "queue" /\ emitter[e].for = sess[c] =>
         \A y \in ToSet(channel[c]) : y[1] # e

ConnOrder(c) ==
  /\ InOrder(channel[c]) /\ InOrder(inbox[c])
  /\ Before(ToSet(inbox[c]), ToSet(channel[c]))

QueueLimit == IF max_queue_size = 0 THEN 1 ELSE max_queue_size

QueueOrder(s) ==
  /\ Len(event_queue[s]) <= QueueLimit /\ InOrder(event_queue[s])
  /\ Before(overflowed[s], ToSet(event_queue[s]))

(* Once the queue is drained, each task can add the one event it was       *)
(* sending.                                                                *)
Stranded(c) ==
  pc[c] \in {"loop", "op"} =>
    /\ \A x, y \in ToSet(event_queue[sess[c]]) : x[1] = y[1] => x = y
    /\ \A e \in Emitter : emitter[e].at = "queue" /\ emitter[e].for = sess[c] =>
         \A y \in ToSet(event_queue[sess[c]]) : y[1] # e

EventsInv ==
  /\ IInv
  /\ EventsTypeOK
  /\ \A e \in Emitter : EmitterKnows(e)
  /\ \A s \in SessionId : SenderKnows(s) /\ QueueOrder(s)
  /\ \A c \in Conn : ChannelFed(c) /\ QueueFirst(c) /\ ConnOrder(c) /\ Stranded(c)
  /\ \A x \in Event : Placing(x)

USE NullAssumption DEF Resuming, Serving, Closing, Attached, PC, InMap, Fresh, Fed

(* What the composition does to the sessions, the registry does.           *)
LEMMA RegistryStep == [Next]_vars => [RegNext]_regVars
<1> USE DEF RegNext, regVars, vars
<1>1. Registry => RegNext
  BY DEF Registry
<1>2. ASSUME NEW e \in Emitter, Emit(e) \/ \E s \in SessionId : ReadPaused(e, s) PROVE UNCHANGED regVars
  BY <1>2 DEF Emit, PushBack, SendToChannel, ReadPaused
<1>3. ASSUME NEW c \in Conn, Forward(c) \/ SocketBreaks(c) PROVE UNCHANGED regVars
  BY <1>3 DEF Forward, SocketBreaks
<1>4. ASSUME NEW c \in Conn, Leave(c) PROVE RegNext
  BY <1>4 DEF Leave
<1>5. ASSUME NEW c \in Conn, Drain(c) PROVE RegNext
  BY <1>5 DEF Drain, DrainQueue, ConnStep
<1> QED BY <1>1, <1>2, <1>3, <1>4, <1>5 DEF Next

(* Everything that is anywhere is settled, so whatever a task is sending   *)
(* comes after it.                                                         *)
LEMMA InIsSettled ==
  ASSUME EventsInv, NEW k, NEW i, NEW x \in Event, In(k, i, x)
  PROVE  Settled(x)
BY DEF EventsInv, Placing, InNoPlace

(* What a task is sending is nowhere and comes after all it has sent.      *)
LEMMA CurrentIsLast ==
  ASSUME EventsInv, NEW e \in Emitter, emitter[e].at # "idle"
  PROVE  /\ Current(e) \in Event /\ Current(e)[1] = e /\ Current(e)[2] = sent[e]
         /\ ~Settled(Current(e)) /\ InNoPlace(Current(e))
         /\ \A s \in SessionId : /\ Before(ToSet(event_queue[s]), {Current(e)})
                                 /\ Before(overflowed[s], {Current(e)})
         /\ \A c \in Conn : /\ Before(ToSet(channel[c]), {Current(e)})
                            /\ Before(ToSet(inbox[c]), {Current(e)})
<1> DEFINE x == Current(e)
<1>1. x \in Event /\ x[1] = e /\ x[2] = sent[e] /\ sent[e] \in Nat
  BY EventShape DEF EventsInv, EmitterKnows, Current
<1> HIDE DEF x
<1>2. ~Settled(x)
  BY <1>1 DEF Settled
<1>3. InNoPlace(x)
  BY <1>1, <1>2 DEF EventsInv, Placing
<1>4. ASSUME NEW y \in Event, NEW k, NEW i, In(k, i, y) PROVE Before({y}, {x})
  <2>1. Settled(y)
    BY <1>4, InIsSettled
  <2> QED BY <1>1, <2>1 DEF Before, Settled
<1>5. ASSUME NEW s \in SessionId PROVE Before(ToSet(event_queue[s]), {x}) /\ Before(overflowed[s], {x})
  <2>1. ToSet(event_queue[s]) \subseteq Event /\ overflowed[s] \subseteq Event
    BY Elements DEF EventsInv, EventsTypeOK
  <2>2. \A y \in ToSet(event_queue[s]) : In("queue", s, y)
    BY DEF In
  <2>3. \A y \in overflowed[s] : In("overflowed", s, y)
    BY DEF In
  <2> QED BY <1>4, <2>1, <2>2, <2>3 DEF Before
<1>6. ASSUME NEW c \in Conn PROVE Before(ToSet(channel[c]), {x}) /\ Before(ToSet(inbox[c]), {x})
  <2>1. ToSet(channel[c]) \subseteq Event /\ ToSet(inbox[c]) \subseteq Event
    BY Elements DEF EventsInv, EventsTypeOK
  <2>2. \A y \in ToSet(channel[c]) : In("channel", c, y)
    BY DEF In
  <2>3. \A y \in ToSet(inbox[c]) : In("inbox", c, y)
    BY DEF In
  <2> QED BY <1>4, <2>1, <2>2, <2>3 DEF Before
<1> QED BY <1>1, <1>2, <1>3, <1>5, <1>6 DEF x

-----------------------------------------------------------------------------
(* Steps of the registry                                                   *)

(* What the events see of a step that leaves them alone.                   *)
Unhurried ==
  /\ \A c \in Conn :
       /\ pc[c] \notin Fresh => pc'[c] \notin Fresh /\ sess'[c] = sess[c]
       /\ pc[c] \in Fed => pc'[c] \in Fed
       /\ pc'[c] \in {"loop", "op"} => pc[c] \in {"loop", "op"}
       /\ pc'[c] \in {"swapped", "initial"} => pc[c] \in Fresh \cup {"swapped", "initial"}
       /\ pc'[c] \in Fresh => pc[c] \in Fresh
  /\ \A s \in SessionId :
       /\ sender[s] # NoConn => sender'[s] # NoConn
       /\ sender'[s] = sender[s] \/
            (sender'[s] \in Conn /\ sess'[sender'[s]] = s /\ pc'[sender'[s]] \notin Fresh)

(* No step of the registry ends the reading of a channel, drains a queue or *)
(* makes a sender of a connection that has not swapped itself in.          *)
LEMMA RegistryMoves ==
  ASSUME IInv, \A s \in SessionId : SenderKnows(s), Registry
  PROVE  Unhurried
<1> USE DEF IInv, TypeOK, Goto, Unhurried
<1>2. ASSUME NEW c \in Conn, NEW s \in SessionId, OpenNew(c, s) PROVE Unhurried
  BY <1>2 DEF OpenNew, born
<1>3. ASSUME NEW c \in Conn, NEW s \in SessionId, TakeResumable(c, s) PROVE Unhurried
  BY <1>3 DEF TakeResumable
<1>4. ASSUME NEW c \in Conn, Unpause(c) PROVE Unhurried
  BY <1>4 DEF Unpause
<1>5. ASSUME NEW c \in Conn, SwapSender(c) PROVE Unhurried
  BY <1>5 DEF SwapSender, ConnKnows
<1>6. ASSUME NEW c \in Conn, InsertResumed(c) \/ EndOp(c) PROVE Unhurried
  BY <1>6 DEF InsertResumed, EndOp
<1>7. ASSUME NEW c \in Conn, ReadResumable(c) \/ CheckChannel(c) \/ RemoveLive(c) \/ EvictTwin(c)
      PROVE  Unhurried
  BY <1>7 DEF ReadResumable, CheckChannel, RemoveLive, EvictTwin
<1>8. ASSUME NEW c \in Conn, Park(c) \/ ArmTimer(c) \/ DropSession(c) \/ FireTimer(c) PROVE Unhurried
  BY <1>8 DEF Park, ArmTimer, DropSession, FireTimer
<1>9. ASSUME NEW s \in SessionId, NEW b \in BOOLEAN, NEW t \in Timeouts, UpdateSession(s, b, t)
      PROVE  Unhurried
  BY <1>9 DEF UpdateSession
<1>10. Tick => Unhurried
  BY DEF Tick
<1> QED
  BY <1>2, <1>3, <1>4, <1>5, <1>6, <1>7, <1>8, <1>9, <1>10 DEF Registry, ConnStep, SendInitialState

(* Nothing is in an empty sequence.                                        *)
LEMMA EmptyQueue == ToSet(<<>>) = {}
BY DEF ToSet

(* A step of the sessions that leaves the events alone keeps the invariant.*)
LEMMA RegistryKeeps ==
  ASSUME EventsInv, IInv', Unhurried, UNCHANGED eventVars
  PROVE  EventsInv'
<1> USE DEF eventVars
<1>1. EventsTypeOK'
  BY DEF EventsInv, EventsTypeOK, IInv
<1>2. \A e \in Emitter : EmitterKnows(e)'
  BY DEF EventsInv, EmitterKnows, Unhurried
<1>3. ASSUME NEW s \in SessionId PROVE SenderKnows(s)' /\ QueueOrder(s)'
  <2>1. sender[s] \in Conn \cup {NoConn}
    BY DEF EventsInv, IInv, TypeOK
  <2>2. SenderKnows(s)'
    BY <2>1 DEF EventsInv, SenderKnows, Unhurried
  <2>3. QueueOrder(s)'
    BY DEF EventsInv, QueueOrder
  <2> QED BY <2>2, <2>3
<1>4. ASSUME NEW c \in Conn PROVE ChannelFed(c)' /\ QueueFirst(c)' /\ ConnOrder(c)' /\ Stranded(c)'
  <2>1. ChannelFed(c)'
    BY DEF EventsInv, ChannelFed, Unhurried
  <2>2. QueueFirst(c)'
    <3>1. CASE pc[c] \in Fresh
      <4>1. ToSet(channel[c]) = {}
        BY <3>1, EmptyQueue DEF EventsInv, ChannelFed
      <4> QED BY <4>1 DEF QueueFirst, Before
    <3>2. CASE pc[c] \notin Fresh /\ pc'[c] \in {"swapped", "initial"}
      <4>1. pc[c] \in {"swapped", "initial"} /\ sess'[c] = sess[c]
        BY <3>2 DEF Unhurried
      <4> QED BY <4>1 DEF EventsInv, QueueFirst
    <3> QED BY <3>1, <3>2 DEF QueueFirst
  <2>3. ConnOrder(c)'
    BY DEF EventsInv, ConnOrder
  <2>4. Stranded(c)'
    <3>1. CASE pc'[c] \in {"loop", "op"}
      <4>1. pc[c] \in {"loop", "op"} /\ sess'[c] = sess[c]
        BY <3>1 DEF Unhurried
      <4> QED BY <4>1 DEF EventsInv, Stranded
    <3> QED BY <3>1 DEF Stranded
  <2> QED BY <2>1, <2>2, <2>3, <2>4
<1>5. ASSUME NEW x \in Event PROVE Placing(x)'
  <2>1. Placing(x) /\ (Settled(x)' <=> Settled(x))
    BY DEF EventsInv, Settled
  <2>2. \A l, j : In(l, j, x)' <=> In(l, j, x)
    BY DEF In
  <2> QED BY <2>1, <2>2 DEF Placing, InOnePlace, InNoPlace
<1> QED BY <1>1, <1>2, <1>3, <1>4, <1>5 DEF EventsInv

-----------------------------------------------------------------------------
(* Steps of send_json                                                      *)

(* The task starts its next event: it is nowhere, and all its earlier ones *)
(* have arrived where they go.                                             *)
LEMMA ReadPausedKeeps ==
  ASSUME EventsInv, IInv', NEW e \in Emitter, NEW s \in SessionId, ReadPaused(e, s)
  PROVE  EventsInv'
<1>1. /\ emitter[e].at = "idle" /\ sent[e] \in Nat /\ sent[e] + 1 \in 1 .. MaxEvents
      /\ sender[s] # NoConn /\ UNCHANGED <<regVars, event_queue, channel, inbox, up, overflowed, lost>>
  BY EventAssumption DEF EventsInv, EventsTypeOK, ReadPaused, born
<1>2. /\ emitter' \in [Emitter -> [at : {"idle", "queue", "send"}, for : SessionId \cup {NoSession}]]
      /\ emitter'[e].at \in {"queue", "send"} /\ (emitter'[e].at = "queue" => paused[s])
      /\ emitter'[e].for = s /\ \A f \in Emitter \ {e} : emitter'[f] = emitter[f]
  BY DEF EventsInv, EventsTypeOK, ReadPaused
<1>3. sent' \in [Emitter -> 0 .. MaxEvents] /\ sent'[e] = sent[e] + 1
      /\ \A f \in Emitter \ {e} : sent'[f] = sent[f]
  BY <1>1 DEF EventsInv, EventsTypeOK, ReadPaused
<1>4. EventsTypeOK'
  BY <1>1, <1>2, <1>3 DEF EventsInv, EventsTypeOK, IInv
<1>5. \A f \in Emitter : EmitterKnows(f)'
  BY <1>1, <1>2, <1>3 DEF EventsInv, EmitterKnows, regVars
<1>6. \A t \in SessionId : SenderKnows(t)' /\ QueueOrder(t)'
  BY <1>1 DEF EventsInv, SenderKnows, QueueOrder, regVars
<1>7. ASSUME NEW c \in Conn PROVE ChannelFed(c)' /\ QueueFirst(c)' /\ ConnOrder(c)' /\ Stranded(c)'
  <2>1. pc[c] \in Serving \cup {"swapped"} => ~paused[sess[c]]
    BY DEF EventsInv, IInv, ConnMap
  <2>2. ChannelFed(c)' /\ ConnOrder(c)'
    BY <1>1 DEF EventsInv, ChannelFed, ConnOrder, regVars
  <2>3. QueueFirst(c)'
    BY <1>1, <1>2, <2>1 DEF EventsInv, QueueFirst, regVars
  <2>4. Stranded(c)'
    BY <1>1, <1>2, <2>1 DEF EventsInv, Stranded, regVars
  <2> QED BY <2>2, <2>3, <2>4
<1>8. ASSUME NEW x \in Event PROVE Placing(x)'
  <2>1. x[1] \in Emitter /\ x[2] \in Nat
    BY EventShape
  <2>2. Settled(x)' <=> Settled(x)
    BY <1>1, <1>2, <1>3, <2>1 DEF Settled
  <2>3. \A l, j : In(l, j, x)' <=> In(l, j, x)
    BY <1>1 DEF In
  <2>4. Placing(x)
    BY DEF EventsInv
  <2> QED BY <2>2, <2>3, <2>4 DEF Placing, InOnePlace, InNoPlace
<1> QED BY <1>4, <1>5, <1>6, <1>7, <1>8 DEF EventsInv

(* send_json returns: the event it was sending is settled, no other.       *)
LEMMA Returned ==
  ASSUME EventsInv, NEW e \in Emitter, emitter[e].at # "idle",
         emitter' = [emitter EXCEPT ![e] = Quiet], UNCHANGED sent
  PROVE  /\ emitter' \in [Emitter -> [at : {"idle", "queue", "send"}, for : SessionId \cup {NoSession}]]
         /\ emitter'[e].at = "idle" /\ \A f \in Emitter \ {e} : emitter'[f] = emitter[f]
         /\ \A x \in Event : Settled(x)' <=> Settled(x) \/ x = Current(e)
<1>1. emitter \in [Emitter -> [at : {"idle", "queue", "send"}, for : SessionId \cup {NoSession}]]
  BY DEF EventsInv, EventsTypeOK
<1>2. /\ emitter' \in [Emitter -> [at : {"idle", "queue", "send"}, for : SessionId \cup {NoSession}]]
      /\ emitter'[e].at = "idle" /\ \A f \in Emitter \ {e} : emitter'[f] = emitter[f]
  BY <1>1 DEF Quiet
<1>3. ASSUME NEW x \in Event PROVE Settled(x)' <=> Settled(x) \/ x = Current(e)
  <2>1. x[1] \in Emitter /\ x[2] \in Nat /\ x = <<x[1], x[2]>> /\ sent[e] \in Nat
    BY EventShape DEF EventsInv, EmitterKnows
  <2>2. CASE x[1] # e
    <3>1. x # Current(e)
      BY CurrentIsLast, <2>2
    <3> QED BY <1>2, <2>1, <2>2, <3>1 DEF Settled
  <2>3. CASE x[1] = e
    <3>1. x = Current(e) <=> x[2] = sent[e]
      BY CurrentIsLast, <2>1, <2>3 DEF Current
    <3> QED BY <1>2, <2>1, <2>3, <3>1 DEF Settled
  <2> QED BY <2>2, <2>3
<1> QED BY <1>2, <1>3

(* The event that has been sent is where it was put, and every other event *)
(* in one place is still in one.                                           *)
LEMMA Settling ==
  ASSUME EventsInv, NEW now \in Event,
         \A x \in Event : Settled(x)' <=> Settled(x) \/ x = now,
         InOnePlace(now)',
         \A x \in Event : x # now /\ InOnePlace(x) => InOnePlace(x)',
         \A x \in Event : x # now /\ InNoPlace(x) => InNoPlace(x)'
  PROVE  \A x \in Event : Placing(x)'
<1> SUFFICES ASSUME NEW x \in Event PROVE Placing(x)'
  OBVIOUS
<1>1. Placing(x) /\ (Settled(x)' <=> Settled(x) \/ x = now)
  BY DEF EventsInv
<1>2. CASE x = now
  BY <1>1, <1>2 DEF Placing
<1>3. CASE x # now
  BY <1>1, <1>3 DEF Placing
<1> QED BY <1>2, <1>3

(* What happens to a queue: the oldest event makes room for the new one.   *)
LEMMA Pushed ==
  ASSUME EventsInv, NEW e \in Emitter, PushBack(e)
  PROVE  LET s == emitter[e].for
             gone == ToSet(event_queue[s]) \ ToSet(event_queue'[s])
         IN  /\ s \in SessionId
             /\ event_queue' \in [SessionId -> Seq(Event)] /\ overflowed' \in [SessionId -> SUBSET Event]
             /\ \A t \in SessionId \ {s} : event_queue'[t] = event_queue[t] /\ overflowed'[t] = overflowed[t]
             /\ ToSet(event_queue'[s]) = (ToSet(event_queue[s]) \ gone) \cup {Current(e)}
             /\ overflowed'[s] = overflowed[s] \cup gone
             /\ Before(gone, ToSet(event_queue'[s]))
             /\ InOrder(event_queue'[s]) /\ Len(event_queue'[s]) <= QueueLimit
<1> DEFINE s == emitter[e].for
           q == event_queue[s]
           x == Current(e)
           full == Len(q) >= max_queue_size /\ q # <<>>
           kept == IF full THEN Tail(q) ELSE q
           gone == IF full THEN {Head(q)} ELSE {}
<1>1. /\ s \in SessionId /\ x \in Event /\ q \in Seq(Event) /\ InOrder(q) /\ Len(q) <= QueueLimit
      /\ event_queue \in [SessionId -> Seq(Event)] /\ overflowed \in [SessionId -> SUBSET Event]
      /\ Before(ToSet(q), {x}) /\ x \notin ToSet(q)
      /\ \A y \in Event : y[2] \in Nat
  <2>1. emitter[e].at # "idle"
    BY DEF PushBack
  <2>2. s \in SessionId
    BY <2>1 DEF EventsInv, EmitterKnows
  <2>3. x \in Event /\ Before(ToSet(q), {x}) /\ InNoPlace(x)
    BY <2>1, <2>2, CurrentIsLast
  <2>4. x \notin ToSet(q)
    BY <2>2, <2>3 DEF InNoPlace, In
  <2> QED BY <2>2, <2>3, <2>4, EventShape DEF EventsInv, EventsTypeOK, QueueOrder
<1>2. /\ event_queue' = [event_queue EXCEPT ![s] = Append(kept, x)]
      /\ overflowed' = [overflowed EXCEPT ![s] = @ \cup gone]
  <2>1. CASE full
    BY <1>1, <2>1 DEF PushBack
  <2>2. CASE ~full
    <3>1. [overflowed EXCEPT ![s] = @ \cup {}] = overflowed
      BY <1>1
    <3> QED BY <1>1, <2>2, <3>1 DEF PushBack
  <2> QED BY <2>1, <2>2
<1> HIDE DEF s, q, x
<1>3. /\ kept \in Seq(Event) /\ InOrder(kept) /\ gone \subseteq ToSet(q) /\ ToSet(kept) = ToSet(q) \ gone
      /\ Before(gone, ToSet(kept)) /\ Len(kept) + 1 <= QueueLimit /\ Len(kept) \in Nat
  <2>1. CASE full
    <3>1. Len(q) \in Nat /\ QueueLimit \in Nat
      <4>1. Len(q) \in Nat
        BY <1>1
      <4> QED BY <4>1, EventAssumption DEF QueueLimit
    <3>2. /\ Tail(q) \in Seq(Event) /\ InOrder(Tail(q)) /\ Len(Tail(q)) = Len(q) - 1
          /\ Head(q) \in ToSet(q) /\ ToSet(Tail(q)) = ToSet(q) \ {Head(q)}
          /\ Before({Head(q)}, ToSet(Tail(q)))
      BY <1>1, <2>1, TailEvents
    <3>3. Len(Tail(q)) \in Nat /\ Len(Tail(q)) + 1 <= QueueLimit
      BY <1>1, <3>1, <3>2
    <3> QED BY <2>1, <3>2, <3>3
  <2>2. CASE ~full
    <3>1. Len(q) \in Nat /\ max_queue_size \in Nat /\ (q = <<>> => Len(q) = 0)
      BY <1>1, EventAssumption
    <3>2. Len(q) + 1 <= QueueLimit
      BY <2>2, <3>1 DEF QueueLimit
    <3> QED BY <1>1, <2>2, <3>1, <3>2 DEF Before
  <2> QED BY <2>1, <2>2
<1> HIDE DEF kept, gone
<1>4. Before(ToSet(kept), {x}) /\ Before(gone, {x})
  BY <1>1, <1>3 DEF Before
<1> DEFINE longer == Append(kept, x)
<1>5. /\ longer \in Seq(Event) /\ Len(longer) = Len(kept) + 1
      /\ ToSet(longer) = ToSet(kept) \cup {x} /\ InOrder(longer)
  BY <1>1, <1>3, <1>4, AppendEvent
<1> HIDE DEF longer
<1>6. event_queue'[s] = longer /\ overflowed'[s] = overflowed[s] \cup gone
  BY <1>1, <1>2 DEF longer
<1>7. ToSet(q) \ ToSet(longer) = gone
  BY <1>1, <1>3, <1>5
<1>8. ToSet(longer) = (ToSet(q) \ gone) \cup {x} /\ Before(gone, ToSet(longer)) /\ Len(longer) <= QueueLimit
  BY <1>3, <1>4, <1>5 DEF Before
<1>9. /\ event_queue' \in [SessionId -> Seq(Event)] /\ overflowed' \in [SessionId -> SUBSET Event]
      /\ \A t \in SessionId \ {s} : event_queue'[t] = event_queue[t] /\ overflowed'[t] = overflowed[t]
  <2>1. gone \subseteq Event
    BY <1>1, <1>3, Elements
  <2> QED BY <1>1, <1>2, <1>5, <2>1 DEF longer
<1> QED BY <1>1, <1>5, <1>6, <1>7, <1>8, <1>9 DEF s, q, x

(* The event goes to the queue: nothing of its task is in a channel that   *)
(* comes after, and a queue that has been drained has nothing of its task. *)
LEMMA PushBackKeeps ==
  ASSUME EventsInv, IInv', NEW e \in Emitter, PushBack(e)
  PROVE  EventsInv'
<1>1. PICK s \in SessionId, now \in Event : s = emitter[e].for /\ now = Current(e)
  BY CurrentIsLast DEF PushBack, EventsInv, EmitterKnows
<1>2. /\ emitter[e].at = "queue" /\ emitter[e].for = s /\ emitter' = [emitter EXCEPT ![e] = Quiet]
      /\ UNCHANGED <<regVars, channel, inbox, up, sent, lost>>
  BY <1>1 DEF PushBack
<1>3. PICK gone : gone = ToSet(event_queue[s]) \ ToSet(event_queue'[s])
  OBVIOUS
<1>4. /\ event_queue' \in [SessionId -> Seq(Event)] /\ overflowed' \in [SessionId -> SUBSET Event]
      /\ \A t \in SessionId \ {s} : event_queue'[t] = event_queue[t] /\ overflowed'[t] = overflowed[t]
      /\ ToSet(event_queue'[s]) = (ToSet(event_queue[s]) \ gone) \cup {now}
      /\ overflowed'[s] = overflowed[s] \cup gone
      /\ Before(gone, ToSet(event_queue'[s]))
      /\ InOrder(event_queue'[s]) /\ Len(event_queue'[s]) <= QueueLimit
  BY <1>1, <1>3, Pushed
<1>5. /\ emitter' \in [Emitter -> [at : {"idle", "queue", "send"}, for : SessionId \cup {NoSession}]]
      /\ emitter'[e].at = "idle" /\ \A f \in Emitter \ {e} : emitter'[f] = emitter[f]
      /\ \A x \in Event : Settled(x)' <=> Settled(x) \/ x = now
  BY <1>1, <1>2, Returned
<1>6. /\ now[1] = e /\ InNoPlace(now) /\ gone \subseteq ToSet(event_queue[s])
      /\ \A t \in SessionId : Before(ToSet(event_queue[t]), {now}) /\ Before(overflowed[t], {now})
  BY <1>1, <1>2, <1>3, CurrentIsLast
<1>7. EventsTypeOK'
  BY <1>2, <1>4, <1>5 DEF EventsInv, EventsTypeOK, IInv
<1>8. \A f \in Emitter : EmitterKnows(f)'
  BY <1>2, <1>5 DEF EventsInv, EmitterKnows, regVars
<1>9. ASSUME NEW t \in SessionId PROVE SenderKnows(t)' /\ QueueOrder(t)'
  <2>1. SenderKnows(t)'
    BY <1>2 DEF EventsInv, SenderKnows, regVars
  <2>2. CASE t # s
    BY <1>4, <2>1, <2>2 DEF EventsInv, QueueOrder, QueueLimit
  <2>3. CASE t = s
    <3>1. Before(overflowed[s], ToSet(event_queue[s])) /\ Before(overflowed[s], {now})
      BY <1>6 DEF EventsInv, QueueOrder
    <3>2. Before(overflowed[s] \cup gone, ToSet(event_queue'[s]))
      BY <1>4, <3>1 DEF Before
    <3> QED BY <1>4, <2>1, <2>3, <3>2 DEF QueueOrder, QueueLimit
  <2> QED BY <2>2, <2>3
<1>10. ASSUME NEW c \in Conn PROVE ChannelFed(c)' /\ QueueFirst(c)' /\ ConnOrder(c)' /\ Stranded(c)'
  <2>1. ChannelFed(c)' /\ ConnOrder(c)'
    BY <1>2 DEF EventsInv, ChannelFed, ConnOrder, regVars
  <2>2. pc'[c] = pc[c] /\ sess'[c] = sess[c] /\ channel'[c] = channel[c]
    BY <1>2 DEF regVars
  <2>3. pc[c] # "idle" => sess[c] \in SessionId
    BY DEF EventsInv, IInv, ConnKnows
  <2>4. QueueFirst(c)'
    <3> SUFFICES ASSUME pc[c] \in {"swapped", "initial"}
                 PROVE  /\ Before(ToSet(event_queue'[sess[c]]), ToSet(channel[c]))
                        /\ \A f \in Emitter : emitter'[f].at = "queue" /\ emitter'[f].for = sess[c] =>
                             \A y \in ToSet(channel[c]) : y[1] # f
      BY <2>2 DEF QueueFirst
    <3>1. /\ Before(ToSet(event_queue[sess[c]]), ToSet(channel[c]))
          /\ \A f \in Emitter : emitter[f].at = "queue" /\ emitter[f].for = sess[c] =>
               \A y \in ToSet(channel[c]) : y[1] # f
      BY DEF EventsInv, QueueFirst
    <3>2. CASE sess[c] # s
      BY <1>4, <1>5, <2>3, <3>1, <3>2
    <3>3. CASE sess[c] = s
      <4>1. Before({now}, ToSet(channel[c]))
        BY <1>2, <1>6, <3>1, <3>3 DEF Before
      <4> QED BY <1>4, <1>5, <3>1, <3>3, <4>1 DEF Before
    <3> QED BY <3>2, <3>3
  <2>5. Stranded(c)'
    <3> SUFFICES ASSUME pc[c] \in {"loop", "op"}
                 PROVE  /\ \A x, y \in ToSet(event_queue'[sess[c]]) : x[1] = y[1] => x = y
                        /\ \A f \in Emitter : emitter'[f].at = "queue" /\ emitter'[f].for = sess[c] =>
                             \A y \in ToSet(event_queue'[sess[c]]) : y[1] # f
      BY <2>2 DEF Stranded
    <3>1. /\ \A x, y \in ToSet(event_queue[sess[c]]) : x[1] = y[1] => x = y
          /\ \A f \in Emitter : emitter[f].at = "queue" /\ emitter[f].for = sess[c] =>
               \A y \in ToSet(event_queue[sess[c]]) : y[1] # f
      BY DEF EventsInv, Stranded
    <3>2. CASE sess[c] # s
      BY <1>4, <1>5, <2>3, <3>1, <3>2
    <3>3. CASE sess[c] = s
      <4>1. \A y \in ToSet(event_queue[s]) : y[1] # e
        BY <1>2, <3>1, <3>3
      <4>2. \A x, y \in ToSet(event_queue[s]) \cup {now} : x[1] = y[1] => x = y
        BY <1>6, <3>1, <3>3, <4>1
      <4>3. ASSUME NEW f \in Emitter, emitter'[f].at = "queue", emitter'[f].for = s,
                   NEW y \in ToSet(event_queue[s]) \cup {now}
            PROVE  y[1] # f
        BY <1>5, <1>6, <3>1, <3>3, <4>3
      <4> QED BY <1>4, <3>3, <4>2, <4>3
    <3> QED BY <3>2, <3>3
  <2> QED BY <2>1, <2>4, <2>5
<1>11. ASSUME NEW x \in Event, NEW k, NEW i
       PROVE  In(k, i, x)' <=> \/ In(k, i, x) /\ ~(x \in gone /\ k = "queue" /\ i = s)
                               \/ x = now /\ k = "queue" /\ i = s
                               \/ x \in gone /\ k = "overflowed" /\ i = s
  BY <1>2, <1>4 DEF In
<1>12. \A x \in gone : In("queue", s, x)
  BY <1>6 DEF In
<1>13. now \notin gone
  BY <1>3, <1>4
<1>14. InOnePlace(now)'
  <2>1. \A l, j : In(l, j, now)' <=> l = "queue" /\ j = s
    BY <1>6, <1>11, <1>13 DEF InNoPlace
  <2>2. In("queue", s, now)'
    BY <2>1
  <2> QED BY <2>1, <2>2 DEF InOnePlace
<1>15. ASSUME NEW x \in Event, x # now, InOnePlace(x) PROVE InOnePlace(x)'
  <2>1. CASE x \in gone
    <3>1. \A l, j : In(l, j, x) <=> l = "queue" /\ j = s
      BY <1>12, <1>15, <2>1 DEF InOnePlace
    <3>2. \A l, j : In(l, j, x)' <=> l = "overflowed" /\ j = s
      BY <1>11, <1>15, <2>1, <3>1
    <3>3. In("overflowed", s, x)'
      BY <3>2
    <3> QED BY <3>2, <3>3 DEF InOnePlace
  <2>2. CASE x \notin gone
    BY <1>11, <1>15, <2>2 DEF InOnePlace
  <2> QED BY <2>1, <2>2
<1>16. ASSUME NEW x \in Event, x # now, InNoPlace(x) PROVE InNoPlace(x)'
  BY <1>11, <1>12, <1>16 DEF InNoPlace
<1>17. \A x \in Event : Placing(x)'
  BY <1>5, <1>14, <1>15, <1>16, Settling
<1> QED BY <1>7, <1>8, <1>9, <1>10, <1>17 DEF EventsInv

(* The event goes to the channel of the connection that has swapped itself *)
(* in, or is lost with a connection that is gone.                          *)
LEMMA SendToChannelKeeps ==
  ASSUME EventsInv, IInv', NEW e \in Emitter, SendToChannel(e)
  PROVE  EventsInv'
<1>1. PICK now \in Event : now = Current(e)
  BY CurrentIsLast DEF SendToChannel
<1>2. /\ emitter[e].at = "send" /\ emitter' = [emitter EXCEPT ![e] = Quiet]
      /\ UNCHANGED <<regVars, event_queue, inbox, up, sent, overflowed>>
  BY DEF SendToChannel
<1>3. PICK d \in Conn : d = sender[emitter[e].for] /\ sess[d] = emitter[e].for /\ pc[d] \notin Fresh
  BY <1>2 DEF EventsInv, EmitterKnows, SenderKnows, IInv, TypeOK
<1>4. /\ emitter' \in [Emitter -> [at : {"idle", "queue", "send"}, for : SessionId \cup {NoSession}]]
      /\ emitter'[e].at = "idle" /\ \A f \in Emitter \ {e} : emitter'[f] = emitter[f]
      /\ \A x \in Event : Settled(x)' <=> Settled(x) \/ x = now
  BY <1>1, <1>2, Returned
<1>5. /\ now[1] = e /\ InNoPlace(now)
      /\ \A c \in Conn : Before(ToSet(channel[c]), {now}) /\ Before(ToSet(inbox[c]), {now})
      /\ \A s \in SessionId : Before(ToSet(event_queue[s]), {now})
  BY <1>1, <1>2, CurrentIsLast
<1>6. \A f \in Emitter : EmitterKnows(f)'
  BY <1>2, <1>4 DEF EventsInv, EmitterKnows, regVars
<1>7. \A t \in SessionId : SenderKnows(t)' /\ QueueOrder(t)'
  BY <1>2 DEF EventsInv, SenderKnows, QueueOrder, regVars
<1>8. ASSUME NEW c \in Conn PROVE Stranded(c)'
  BY <1>2, <1>4 DEF EventsInv, Stranded, regVars
<1>9. CASE pc[d] \in Resuming \cup Serving
  <2>1. lost' = lost /\ channel' = [channel EXCEPT ![d] = Append(@, now)] /\ pc[d] \in Fed
    BY <1>1, <1>3, <1>9 DEF SendToChannel
  <2>2. channel \in [Conn -> Seq(Event)] /\ InOrder(channel[d])
    BY DEF EventsInv, EventsTypeOK, ConnOrder
  <2>3. /\ channel'[d] \in Seq(Event) /\ InOrder(channel'[d])
        /\ ToSet(channel'[d]) = ToSet(channel[d]) \cup {now}
    BY <1>5, <2>1, <2>2, AppendEvent
  <2>4. channel' \in [Conn -> Seq(Event)] /\ \A c \in Conn \ {d} : channel'[c] = channel[c]
    BY <2>1, <2>2, <2>3
  <2>5. EventsTypeOK'
    BY <1>2, <1>4, <2>1, <2>4 DEF EventsInv, EventsTypeOK, IInv
  <2>6. ASSUME NEW c \in Conn PROVE ChannelFed(c)' /\ QueueFirst(c)' /\ ConnOrder(c)'
    <3>1. CASE c # d
      BY <1>2, <1>4, <2>4, <3>1 DEF EventsInv, ChannelFed, QueueFirst, ConnOrder, regVars
    <3>2. CASE c = d
      <4>1. ChannelFed(d)'
        BY <1>2, <2>1 DEF EventsInv, ChannelFed, regVars
      <4>2. ConnOrder(d)'
        BY <1>2, <1>5, <2>3 DEF EventsInv, ConnOrder, Before
      <4>3. sess[d] \in SessionId
        BY <1>3 DEF EventsInv, IInv, ConnKnows
      <4>4. QueueFirst(d)'
        BY <1>2, <1>4, <1>5, <2>3, <4>3 DEF EventsInv, QueueFirst, Before, regVars
      <4> QED BY <3>2, <4>1, <4>2, <4>4
    <3> QED BY <3>1, <3>2
  <2>7. ASSUME NEW x \in Event, NEW k, NEW i
        PROVE  In(k, i, x)' <=> In(k, i, x) \/ (x = now /\ k = "channel" /\ i = d)
    BY <1>2, <2>1, <2>3, <2>4 DEF In
  <2>8. InOnePlace(now)'
    <3>1. In("channel", d, now)' /\ \A l, j : In(l, j, now)' => l = "channel" /\ j = d
      BY <1>5, <2>7 DEF InNoPlace
    <3> QED BY <3>1 DEF InOnePlace
  <2>9. \A x \in Event : x # now => (InOnePlace(x) => InOnePlace(x)') /\ (InNoPlace(x) => InNoPlace(x)')
    BY <2>7 DEF InOnePlace, InNoPlace
  <2>10. \A x \in Event : Placing(x)'
    BY <1>4, <2>8, <2>9, Settling
  <2> QED BY <1>6, <1>7, <1>8, <2>5, <2>6, <2>10 DEF EventsInv
<1>10. CASE pc[d] \notin Resuming \cup Serving
  <2>1. lost' = lost \cup {now} /\ channel' = channel
    BY <1>1, <1>3, <1>10 DEF SendToChannel
  <2>2. EventsTypeOK'
    BY <1>2, <1>4, <2>1 DEF EventsInv, EventsTypeOK, IInv
  <2>3. ASSUME NEW c \in Conn PROVE ChannelFed(c)' /\ QueueFirst(c)' /\ ConnOrder(c)'
    BY <1>2, <1>4, <2>1 DEF EventsInv, ChannelFed, QueueFirst, ConnOrder, regVars
  <2>4. ASSUME NEW x \in Event, NEW k, NEW i
        PROVE  In(k, i, x)' <=> In(k, i, x) \/ (x = now /\ k = "lost" /\ i = NoSession)
    BY <1>2, <2>1 DEF In
  <2>5. InOnePlace(now)'
    <3>1. In("lost", NoSession, now)' /\ \A l, j : In(l, j, now)' => l = "lost" /\ j = NoSession
      BY <1>5, <2>4 DEF InNoPlace
    <3> QED BY <3>1 DEF InOnePlace
  <2>6. \A x \in Event : x # now => (InOnePlace(x) => InOnePlace(x)') /\ (InNoPlace(x) => InNoPlace(x)')
    BY <2>4 DEF InOnePlace, InNoPlace
  <2>7. \A x \in Event : Placing(x)'
    BY <1>4, <2>5, <2>6, Settling
  <2> QED BY <1>6, <1>7, <1>8, <2>2, <2>3, <2>7 DEF EventsInv
<1> QED BY <1>9, <1>10

-----------------------------------------------------------------------------
(* Steps of a connection                                                   *)

(* The events in one place are moved, the others stay.                     *)
LEMMA Moving ==
  ASSUME EventsInv, UNCHANGED <<emitter, sent>>,
         \A x \in Event : (InOnePlace(x) => InOnePlace(x)') /\ (InNoPlace(x) => InNoPlace(x)')
  PROVE  \A x \in Event : Placing(x)'
<1> SUFFICES ASSUME NEW x \in Event PROVE Placing(x)'
  OBVIOUS
<1>1. Placing(x) /\ (Settled(x)' <=> Settled(x))
  BY DEF EventsInv, Settled
<1> QED BY <1>1 DEF Placing

(* The queue is written, as far as the socket lasts, before anything of    *)
(* the channel: nothing of the channel was sent before.                    *)
LEMMA DrainKeeps ==
  ASSUME EventsInv, IInv', NEW c \in Conn, Drain(c)
  PROVE  EventsInv'
<1>1. PICK s : s = sess[c]
  OBVIOUS
<1>2. PICK k \in 0 .. Len(event_queue[s]) : DrainQueue(c, k)
  BY <1>1 DEF Drain
<1>3. PICK q : q = event_queue[s]
  OBVIOUS
<1>4. /\ s \in SessionId /\ pc[c] = "initial" /\ pc' = [pc EXCEPT ![c] = "loop"]
      /\ sess' = sess /\ sender' = sender /\ q \in Seq(Event) /\ InOrder(q)
      /\ pc \in [Conn -> PC]
      /\ UNCHANGED <<channel, emitter, sent, overflowed>>
      /\ inbox' = [inbox EXCEPT ![c] = @ \o SubSeq(q, 1, k)]
      /\ lost' = lost \cup {q[i] : i \in k + 1 .. Len(q)}
      /\ event_queue' = [event_queue EXCEPT ![s] = <<>>]
      /\ up' = [up EXCEPT ![c] = @ /\ k = Len(q)]
  BY <1>1, <1>2, <1>3
     DEF DrainQueue, SendInitialState, Goto, EventsInv, EventsTypeOK, IInv, TypeOK, ConnKnows, QueueOrder
<1>5. PICK part, rest : part = SubSeq(q, 1, k) /\ rest = {q[i] : i \in k + 1 .. Len(q)}
  OBVIOUS
<1>6. /\ part \in Seq(Event) /\ InOrder(part)
      /\ ToSet(part) \cup rest = ToSet(q) /\ ToSet(part) \cap rest = {}
  <2>1. (\A y \in Event : y[2] \in Nat) /\ k \in 0 .. Len(q)
    BY <1>2, <1>3, EventShape
  <2> QED BY <1>4, <1>5, <2>1, PartOfEvents
<1>7. rest \subseteq Event
  BY <1>4, <1>6, Elements
<1>8. inbox[c] = <<>> /\ inbox'[c] = part
  BY SMTT(60), <1>4, <1>5, <1>6 DEF EventsInv, EventsTypeOK, ChannelFed
<1>9. /\ inbox' \in [Conn -> Seq(Event)] /\ \A d \in Conn \ {c} : inbox'[d] = inbox[d]
      /\ event_queue' \in [SessionId -> Seq(Event)] /\ event_queue'[s] = <<>>
      /\ \A t \in SessionId \ {s} : event_queue'[t] = event_queue[t]
      /\ \A d \in Conn \ {c} : pc'[d] = pc[d]
      /\ pc'[c] = "loop" /\ lost' = lost \cup rest
  <2>1. inbox \in [Conn -> Seq(Event)] /\ event_queue \in [SessionId -> Seq(Event)]
    BY DEF EventsInv, EventsTypeOK
  <2>2. inbox' \in [Conn -> Seq(Event)]
    BY <1>4, <1>6, <1>8, <2>1
  <2> QED BY <1>4, <1>5, <2>1, <2>2
<1>10. EventsTypeOK'
  <2>1. up' \in [Conn -> BOOLEAN]
    BY <1>4 DEF EventsInv, EventsTypeOK
  <2> QED BY <1>4, <1>7, <1>9, <2>1 DEF EventsInv, EventsTypeOK, IInv
<1>11. \A e \in Emitter : EmitterKnows(e)'
  BY <1>4 DEF EventsInv, EmitterKnows
<1>12. ASSUME NEW t \in SessionId PROVE SenderKnows(t)' /\ QueueOrder(t)'
  <2>1. SenderKnows(t)'
    BY <1>4, <1>9 DEF EventsInv, SenderKnows, IInv, TypeOK
  <2>2. QueueOrder(t)'
    <3>1. CASE t = s
      <4>1. Len(<<>>) = 0 /\ ToSet(<<>>) = {} /\ InOrder(<<>>)
        BY EmptyQueue DEF InOrder
      <4>2. 0 <= QueueLimit
        BY EventAssumption DEF QueueLimit
      <4> QED BY <1>9, <3>1, <4>1, <4>2 DEF QueueOrder, Before, QueueLimit
    <3>2. CASE t # s
      BY <1>4, <1>9, <3>2 DEF EventsInv, QueueOrder, QueueLimit
    <3> QED BY <3>1, <3>2
  <2> QED BY <2>1, <2>2
<1>13. ASSUME NEW d \in Conn PROVE ChannelFed(d)' /\ QueueFirst(d)' /\ ConnOrder(d)' /\ Stranded(d)'
  <2>1. ChannelFed(d)'
    BY <1>4, <1>9 DEF EventsInv, ChannelFed
  <2>2. QueueFirst(d)'
    <3>1. CASE sess[d] = s
      BY SMTT(60), <1>4, <1>9, <3>1, EmptyQueue DEF EventsInv, QueueFirst, Before
    <3>2. CASE sess[d] # s /\ d # c /\ pc[d] \in {"swapped", "initial"}
      <4>1. sess[d] \in SessionId \ {s}
        BY <3>2 DEF EventsInv, IInv, ConnKnows
      <4> QED BY <1>4, <1>9, <3>2, <4>1 DEF EventsInv, QueueFirst
    <3> QED BY <1>1, <1>4, <1>9, <3>1, <3>2 DEF QueueFirst
  <2>3. ConnOrder(d)'
    <3>1. CASE d = c
      <4>1. Before(ToSet(q), ToSet(channel[c]))
        BY <1>1, <1>3, <1>4 DEF EventsInv, QueueFirst
      <4>2. Before(ToSet(part), ToSet(channel[c]))
        BY <1>6, <4>1 DEF Before
      <4> QED BY <1>4, <1>6, <1>8, <3>1, <4>2 DEF EventsInv, ConnOrder
    <3>2. CASE d # c
      BY <1>4, <1>9, <3>2 DEF EventsInv, ConnOrder
    <3> QED BY <3>1, <3>2
  <2>4. Stranded(d)'
    <3>1. CASE sess[d] = s
      BY <1>4, <1>9, <3>1, EmptyQueue DEF EventsInv, Stranded
    <3>2. CASE sess[d] # s /\ d # c /\ pc[d] \in {"loop", "op"}
      <4>1. sess[d] \in SessionId \ {s}
        BY <3>2 DEF EventsInv, IInv, ConnKnows
      <4> QED BY <1>4, <1>9, <3>2, <4>1 DEF EventsInv, Stranded
    <3> QED BY <1>1, <1>4, <1>9, <3>1, <3>2 DEF Stranded
  <2> QED BY <2>1, <2>2, <2>3, <2>4
<1>14. ASSUME NEW x \in Event, NEW l, NEW i
       PROVE  In(l, i, x)' <=> \/ In(l, i, x) /\ ~(x \in ToSet(q) /\ l = "queue" /\ i = s)
                               \/ x \in ToSet(part) /\ l = "inbox" /\ i = c
                               \/ x \in rest /\ l = "lost" /\ i = NoSession
  <2>1. ToSet(inbox[c]) = {} /\ ToSet(event_queue'[s]) = {}
    BY <1>8, <1>9, EmptyQueue
  <2> QED BY <1>3, <1>4, <1>8, <1>9, <2>1 DEF In
<1>15. \A x \in ToSet(q) : In("queue", s, x)
  BY <1>3, <1>4 DEF In
<1>16. ASSUME NEW x \in Event, InOnePlace(x) PROVE InOnePlace(x)'
  <2>1. CASE x \notin ToSet(q)
    BY <1>6, <1>14, <1>16, <2>1 DEF InOnePlace
  <2>2. CASE x \in ToSet(part)
    <3>1. \A l, i : In(l, i, x) => l = "queue" /\ i = s
      BY <1>6, <1>15, <1>16, <2>2 DEF InOnePlace
    <3>2. In("inbox", c, x)' /\ \A l, i : In(l, i, x)' => l = "inbox" /\ i = c
      BY <1>6, <1>14, <2>2, <3>1
    <3> QED BY <3>2 DEF InOnePlace
  <2>3. CASE x \in rest
    <3>1. \A l, i : In(l, i, x) => l = "queue" /\ i = s
      BY <1>6, <1>15, <1>16, <2>3 DEF InOnePlace
    <3>2. In("lost", NoSession, x)' /\ \A l, i : In(l, i, x)' => l = "lost" /\ i = NoSession
      BY <1>6, <1>14, <2>3, <3>1
    <3> QED BY <3>2 DEF InOnePlace
  <2> QED BY <1>6, <2>1, <2>2, <2>3
<1>17. ASSUME NEW x \in Event, InNoPlace(x) PROVE InNoPlace(x)'
  BY <1>6, <1>14, <1>15, <1>17 DEF InNoPlace
<1>18. \A x \in Event : Placing(x)'
  BY <1>4, <1>16, <1>17, Moving
<1> QED BY <1>10, <1>11, <1>12, <1>13, <1>18 DEF EventsInv

(* The head of the channel is written after everything the client has.     *)
LEMMA ForwardKeeps ==
  ASSUME EventsInv, IInv', NEW c \in Conn, Forward(c)
  PROVE  EventsInv'
<1>1. PICK h, rest : h = Head(channel[c]) /\ rest = Tail(channel[c])
  OBVIOUS
<1>2. /\ pc[c] = "loop" /\ channel[c] # <<>> /\ channel' = [channel EXCEPT ![c] = rest]
      /\ UNCHANGED <<regVars, event_queue, up, emitter, sent, overflowed>>
  BY <1>1 DEF Forward
<1>3. /\ channel \in [Conn -> Seq(Event)] /\ inbox \in [Conn -> Seq(Event)]
      /\ InOrder(channel[c]) /\ InOrder(inbox[c]) /\ Before(ToSet(inbox[c]), ToSet(channel[c]))
  BY DEF EventsInv, EventsTypeOK, ConnOrder
<1>4. /\ rest \in Seq(Event) /\ InOrder(rest) /\ h \in Event /\ h \in ToSet(channel[c])
      /\ ToSet(rest) = ToSet(channel[c]) \ {h} /\ Before({h}, ToSet(rest))
  <2>1. \A y \in Event : y[2] \in Nat
    BY EventShape
  <2> QED BY <1>1, <1>2, <1>3, <2>1, TailEvents
<1>5. /\ channel' \in [Conn -> Seq(Event)] /\ channel'[c] = rest
      /\ \A d \in Conn \ {c} : channel'[d] = channel[d]
  BY <1>2, <1>3, <1>4
<1>6. \A e \in Emitter : EmitterKnows(e)'
  BY <1>2 DEF EventsInv, EmitterKnows, regVars
<1>7. \A t \in SessionId : SenderKnows(t)' /\ QueueOrder(t)'
  BY <1>2 DEF EventsInv, SenderKnows, QueueOrder, regVars
<1>8. ASSUME NEW d \in Conn PROVE QueueFirst(d)' /\ Stranded(d)'
  <2>1. QueueFirst(d)'
    BY <1>2, <1>5 DEF EventsInv, QueueFirst, regVars
  <2>2. Stranded(d)'
    BY <1>2 DEF EventsInv, Stranded, regVars
  <2> QED BY <2>1, <2>2
<1>9. In("channel", c, h)
  BY <1>4 DEF In
<1>10. CASE up[c]
  <2>1. inbox' = [inbox EXCEPT ![c] = Append(@, h)] /\ lost' = lost
    BY <1>1, <1>10 DEF Forward
  <2>2. Before(ToSet(inbox[c]), {h})
    BY <1>3, <1>4 DEF Before
  <2>3. Append(inbox[c], h) \in Seq(Event) /\ InOrder(Append(inbox[c], h))
        /\ ToSet(Append(inbox[c], h)) = ToSet(inbox[c]) \cup {h}
    BY <1>3, <1>4, <2>2, AppendEvent
  <2>4. /\ inbox' \in [Conn -> Seq(Event)] /\ InOrder(inbox'[c]) /\ ToSet(inbox'[c]) = ToSet(inbox[c]) \cup {h}
        /\ \A d \in Conn \ {c} : inbox'[d] = inbox[d]
    BY <1>3, <2>1, <2>3
  <2>5. EventsTypeOK'
    BY <1>2, <1>5, <2>1, <2>4 DEF EventsInv, EventsTypeOK, IInv
  <2>6. ASSUME NEW d \in Conn PROVE ChannelFed(d)' /\ ConnOrder(d)'
    <3>1. CASE d = c
      <4>1. Before(ToSet(inbox[c]) \cup {h}, ToSet(rest))
        BY <1>3, <1>4 DEF Before
      <4> QED BY <1>2, <1>4, <1>5, <2>4, <3>1, <4>1 DEF ChannelFed, ConnOrder, regVars
    <3>2. CASE d # c
      BY <1>2, <1>5, <2>4, <3>2 DEF EventsInv, ChannelFed, ConnOrder, regVars
    <3> QED BY <3>1, <3>2
  <2>7. ASSUME NEW x \in Event, NEW k, NEW i
        PROVE  In(k, i, x)' <=> \/ In(k, i, x) /\ ~(x = h /\ k = "channel" /\ i = c)
                                \/ x = h /\ k = "inbox" /\ i = c
    BY <1>2, <1>4, <1>5, <2>1, <2>4 DEF In
  <2>8. ASSUME NEW x \in Event, InOnePlace(x) PROVE InOnePlace(x)'
    <3>1. CASE x = h
      <4>1. \A k, i : In(k, i, h) => k = "channel" /\ i = c
        BY <1>9, <2>8, <3>1 DEF InOnePlace
      <4>2. In("inbox", c, h)' /\ \A k, i : In(k, i, h)' => k = "inbox" /\ i = c
        BY <1>4, <2>7, <4>1
      <4> QED BY <3>1, <4>2 DEF InOnePlace
    <3>2. CASE x # h
      BY <2>7, <2>8, <3>2 DEF InOnePlace
    <3> QED BY <3>1, <3>2
  <2>9. ASSUME NEW x \in Event, InNoPlace(x) PROVE InNoPlace(x)'
    BY <1>9, <2>7, <2>9 DEF InNoPlace
  <2>10. \A x \in Event : Placing(x)'
    BY <1>2, <2>8, <2>9, Moving
  <2> QED BY <1>6, <1>7, <1>8, <2>5, <2>6, <2>10 DEF EventsInv
<1>11. CASE ~up[c]
  <2>1. inbox' = inbox /\ lost' = lost \cup {h}
    BY <1>1, <1>11 DEF Forward
  <2>2. EventsTypeOK'
    BY <1>2, <1>4, <1>5, <2>1 DEF EventsInv, EventsTypeOK, IInv
  <2>3. ASSUME NEW d \in Conn PROVE ChannelFed(d)' /\ ConnOrder(d)'
    <3>1. CASE d = c
      <4>1. Before(ToSet(inbox[c]), ToSet(rest))
        BY <1>3, <1>4 DEF Before
      <4> QED BY <1>2, <1>3, <1>4, <1>5, <2>1, <3>1, <4>1 DEF ChannelFed, ConnOrder, regVars
    <3>2. CASE d # c
      BY <1>2, <1>5, <2>1, <3>2 DEF EventsInv, ChannelFed, ConnOrder, regVars
    <3> QED BY <3>1, <3>2
  <2>4. ASSUME NEW x \in Event, NEW k, NEW i
        PROVE  In(k, i, x)' <=> \/ In(k, i, x) /\ ~(x = h /\ k = "channel" /\ i = c)
                                \/ x = h /\ k = "lost" /\ i = NoSession
    BY <1>2, <1>4, <1>5, <2>1 DEF In
  <2>5. ASSUME NEW x \in Event, InOnePlace(x) PROVE InOnePlace(x)'
    <3>1. CASE x = h
      <4>1. \A k, i : In(k, i, h) => k = "channel" /\ i = c
        BY <1>9, <2>5, <3>1 DEF InOnePlace
      <4>2. In("lost", NoSession, h)' /\ \A k, i : In(k, i, h)' => k = "lost" /\ i = NoSession
        BY <1>4, <2>4, <4>1
      <4> QED BY <3>1, <4>2 DEF InOnePlace
    <3>2. CASE x # h
      BY <2>4, <2>5, <3>2 DEF InOnePlace
    <3> QED BY <3>1, <3>2
  <2>6. ASSUME NEW x \in Event, InNoPlace(x) PROVE InNoPlace(x)'
    BY <1>9, <2>4, <2>6 DEF InNoPlace
  <2>7. \A x \in Event : Placing(x)'
    BY <1>2, <2>5, <2>6, Moving
  <2> QED BY <1>6, <1>7, <1>8, <2>2, <2>3, <2>7 DEF EventsInv
<1> QED BY <1>10, <1>11

(* A broken socket moves nothing.                                          *)
LEMMA SocketBreaksKeeps ==
  ASSUME EventsInv, IInv', NEW c \in Conn, SocketBreaks(c)
  PROVE  EventsInv'
<1>1. /\ up' \in [Conn -> BOOLEAN]
      /\ UNCHANGED <<regVars, event_queue, channel, inbox, emitter, sent, overflowed, lost>>
  BY DEF SocketBreaks, EventsInv, EventsTypeOK
<1>2. EventsTypeOK'
  BY <1>1 DEF EventsInv, EventsTypeOK, IInv
<1>3. \A e \in Emitter : EmitterKnows(e)'
  BY <1>1 DEF EventsInv, EmitterKnows, regVars
<1>4. \A t \in SessionId : SenderKnows(t)' /\ QueueOrder(t)'
  BY <1>1 DEF EventsInv, SenderKnows, QueueOrder, regVars
<1>5. ASSUME NEW d \in Conn PROVE ChannelFed(d)' /\ QueueFirst(d)' /\ ConnOrder(d)' /\ Stranded(d)'
  <2>1. ChannelFed(d)' /\ ConnOrder(d)'
    BY <1>1 DEF EventsInv, ChannelFed, ConnOrder, regVars
  <2>2. QueueFirst(d)'
    BY <1>1 DEF EventsInv, QueueFirst, regVars
  <2>3. Stranded(d)'
    BY <1>1 DEF EventsInv, Stranded, regVars
  <2> QED BY <2>1, <2>2, <2>3
<1>6. ASSUME NEW x \in Event PROVE (InOnePlace(x) => InOnePlace(x)') /\ (InNoPlace(x) => InNoPlace(x)')
  <2>1. \A k, i : In(k, i, x)' <=> In(k, i, x)
    BY <1>1 DEF In
  <2> QED BY <2>1 DEF InOnePlace, InNoPlace
<1>7. \A x \in Event : Placing(x)'
  BY <1>1, <1>6, Moving
<1> QED BY <1>2, <1>3, <1>4, <1>5, <1>7 DEF EventsInv

(* What is left in a channel is lost with it.                              *)
LEMMA LeaveKeeps ==
  ASSUME EventsInv, IInv', NEW c \in Conn, Leave(c)
  PROVE  EventsInv'
<1>1. /\ pc[c] = "loop" /\ pc' = [pc EXCEPT ![c] = "left"] /\ pc \in [Conn -> PC]
      /\ sess' = sess /\ sender' = sender
      /\ lost' = lost \cup ToSet(channel[c]) /\ channel' = [channel EXCEPT ![c] = <<>>]
      /\ channel \in [Conn -> Seq(Event)]
      /\ UNCHANGED <<event_queue, inbox, up, emitter, sent, overflowed>>
  BY DEF Leave, LeaveLoop, Goto, EventsInv, EventsTypeOK, IInv, TypeOK
<1>2. /\ channel' \in [Conn -> Seq(Event)] /\ channel'[c] = <<>> /\ ToSet(channel'[c]) = {}
      /\ \A d \in Conn \ {c} : channel'[d] = channel[d] /\ pc'[d] = pc[d]
      /\ pc'[c] = "left" /\ InOrder(<<>>)
  BY <1>1, EmptyQueue DEF InOrder
<1>3. EventsTypeOK'
  <2>1. ToSet(channel[c]) \subseteq Event
    BY <1>1, Elements
  <2> QED BY <1>1, <1>2, <2>1 DEF EventsInv, EventsTypeOK, IInv
<1>4. \A e \in Emitter : EmitterKnows(e)'
  BY <1>1 DEF EventsInv, EmitterKnows
<1>5. \A t \in SessionId : SenderKnows(t)' /\ QueueOrder(t)'
  BY <1>1, <1>2 DEF EventsInv, SenderKnows, QueueOrder, IInv, TypeOK
<1>6. ASSUME NEW d \in Conn PROVE ChannelFed(d)' /\ QueueFirst(d)' /\ ConnOrder(d)' /\ Stranded(d)'
  <2>1. CASE d = c
    BY <1>1, <1>2, <2>1 DEF EventsInv, ChannelFed, QueueFirst, ConnOrder, Stranded, Before
  <2>2. CASE d # c
    <3>1. ChannelFed(d)' /\ ConnOrder(d)'
      BY <1>1, <1>2, <2>2 DEF EventsInv, ChannelFed, ConnOrder
    <3>2. QueueFirst(d)'
      BY <1>1, <1>2, <2>2 DEF EventsInv, QueueFirst
    <3>3. Stranded(d)'
      BY <1>1, <1>2, <2>2 DEF EventsInv, Stranded
    <3> QED BY <3>1, <3>2, <3>3
  <2> QED BY <2>1, <2>2
<1>7. ASSUME NEW x \in Event, NEW k, NEW i
      PROVE  In(k, i, x)' <=> \/ In(k, i, x) /\ ~(k = "channel" /\ i = c)
                              \/ x \in ToSet(channel[c]) /\ k = "lost" /\ i = NoSession
  BY <1>1, <1>2 DEF In
<1>8. \A x : In("channel", c, x) <=> x \in ToSet(channel[c])
  BY DEF In
<1>9. ASSUME NEW x \in Event, InOnePlace(x) PROVE InOnePlace(x)'
  <2>1. CASE x \in ToSet(channel[c])
    <3>1. \A k, i : In(k, i, x) => k = "channel" /\ i = c
      BY <1>8, <1>9, <2>1 DEF InOnePlace
    <3>2. In("lost", NoSession, x)' /\ \A k, i : In(k, i, x)' => k = "lost" /\ i = NoSession
      BY <1>7, <2>1, <3>1
    <3> QED BY <3>2 DEF InOnePlace
  <2>2. CASE x \notin ToSet(channel[c])
    BY <1>7, <1>8, <1>9, <2>2 DEF InOnePlace
  <2> QED BY <2>1, <2>2
<1>10. ASSUME NEW x \in Event, InNoPlace(x) PROVE InNoPlace(x)'
  BY <1>7, <1>8, <1>10 DEF InNoPlace
<1>11. \A x \in Event : Placing(x)'
  BY <1>1, <1>9, <1>10, Moving
<1> QED BY <1>3, <1>4, <1>5, <1>6, <1>11 DEF EventsInv

-----------------------------------------------------------------------------
(* The theorems                                                            *)

(* Nothing has been sent.                                                  *)
LEMMA EventsInit == Init => EventsInv
<1> SUFFICES ASSUME Init PROVE EventsInv
  OBVIOUS
<1> USE DEF Init, RegInit
<1>1. IInv
  BY InvInit
<1>2. /\ \A s \in SessionId : event_queue[s] = <<>> /\ overflowed[s] = {} /\ sender[s] = NoConn
      /\ \A c \in Conn : channel[c] = <<>> /\ inbox[c] = <<>> /\ pc[c] = "idle"
      /\ \A e \in Emitter : emitter[e].at = "idle" /\ sent[e] = 0
      /\ lost = {}
  BY DEF Quiet
<1>3. Len(<<>>) = 0 /\ ToSet(<<>>) = {} /\ InOrder(<<>>) /\ 0 <= QueueLimit
  BY EmptyQueue, EventAssumption DEF InOrder, QueueLimit
<1>4. EventsTypeOK
  <2>1. <<>> \in Seq(Event) /\ 0 \in 0 .. MaxEvents
    BY EventAssumption
  <2> QED BY <1>1, <2>1 DEF EventsTypeOK, IInv, Quiet
<1>5. \A e \in Emitter : EmitterKnows(e)
  BY <1>2 DEF EmitterKnows
<1>6. \A s \in SessionId : SenderKnows(s) /\ QueueOrder(s)
  BY <1>2, <1>3 DEF SenderKnows, QueueOrder, Before, QueueLimit
<1>7. \A c \in Conn : ChannelFed(c) /\ QueueFirst(c) /\ ConnOrder(c) /\ Stranded(c)
  BY <1>2, <1>3 DEF ChannelFed, QueueFirst, ConnOrder, Stranded, Before
<1>8. ASSUME NEW x \in Event PROVE Placing(x)
  <2>1. ~Settled(x)
    BY <1>2, EventShape DEF Settled
  <2>2. InNoPlace(x)
    BY <1>2, <1>3 DEF InNoPlace, In
  <2> QED BY <2>1, <2>2 DEF Placing
<1> QED BY <1>1, <1>4, <1>5, <1>6, <1>7, <1>8 DEF EventsInv

(* One case per action.                                                    *)
LEMMA EventsStep == EventsInv /\ [Next]_vars => EventsInv'
<1> SUFFICES ASSUME EventsInv, [Next]_vars PROVE EventsInv'
  OBVIOUS
<1>1. IInv'
  BY RegistryStep, InvStep DEF EventsInv
<1>2. CASE Registry
  <2>1. Unhurried
    BY <1>2, RegistryMoves DEF EventsInv
  <2> QED BY <1>1, <1>2, <2>1, RegistryKeeps DEF Registry
<1>3. CASE UNCHANGED vars
  <2>1. Unhurried /\ UNCHANGED eventVars
    BY <1>3 DEF vars, regVars, Unhurried
  <2> QED BY <1>1, <2>1, RegistryKeeps
<1>4. ASSUME NEW e \in Emitter, Emit(e) \/ \E s \in SessionId : ReadPaused(e, s) PROVE EventsInv'
  BY <1>1, <1>4, PushBackKeeps, SendToChannelKeeps, ReadPausedKeeps DEF Emit
<1>5. ASSUME NEW c \in Conn, Forward(c) \/ SocketBreaks(c) \/ Leave(c) \/ Drain(c) PROVE EventsInv'
  BY <1>1, <1>5, ForwardKeeps, SocketBreaksKeeps, LeaveKeeps, DrainKeeps
<1> QED BY <1>2, <1>3, <1>4, <1>5 DEF Next

(* The invariant holds of every behaviour.                                 *)
LEMMA EventsInvariance == Spec => []EventsInv
BY EventsInit, EventsStep, PTL DEF Spec

(* Whatever the tasks that send events do, the sessions are moved between  *)
(* the maps as SessionRegistry says.                                       *)
THEOREM EventsRunTheRegistry == Spec => RegSpec
<1>1. Init => RegInit
  BY DEF Init
<1> QED BY <1>1, RegistryStep, PTL DEF Spec, RegSpec

(* The type invariant.                                                     *)
THEOREM EventsTypeCorrect == Spec => []EventsTypeOK
<1>1. EventsInv => EventsTypeOK
  BY DEF EventsInv
<1> QED BY <1>1, EventsInvariance, PTL

(* The events of one task reach the client, and wait in the queue, in the  *)
(* order they were sent, whenever send_json is overtaken by a resumption:  *)
(* for any number of tasks, sessions and connections.                      *)
THEOREM OrderIsKeptHolds == Spec => []OrderIsKept
<1>1. EventsInv => OrderIsKept
  <2> SUFFICES ASSUME EventsInv PROVE OrderIsKept
    OBVIOUS
  <2>1. DeliveredInOrder
    BY DEF EventsInv, ConnOrder, DeliveredInOrder
  <2>2. QueueKeepsNewest
    BY DEF EventsInv, QueueOrder, QueueLimit, Before, QueueKeepsNewest
  <2> QED BY <2>1, <2>2 DEF OrderIsKept
<1> QED BY <1>1, EventsInvariance, PTL

(* The set of places that ExactlyOnePlace counts has the one element that  *)
(* In says.                                                                *)
LEMMA OnePlace ==
  ASSUME EventsInv, NEW e \in Emitter, NEW n \in 1 .. sent[e]
  PROVE  LET x == <<e, n>>
             places == {<<"queue", s>> : s \in {t \in SessionId : x \in ToSet(event_queue[t])}}
                  \cup {<<"channel", c>> : c \in {d \in Conn : x \in ToSet(channel[d])}}
                  \cup {<<"inbox", c>> : c \in {d \in Conn : x \in ToSet(inbox[d])}}
                  \cup {<<"overflowed", s>> : s \in {t \in SessionId : x \in overflowed[t]}}
                  \cup (IF x \in lost THEN {<<"lost">>} ELSE {})
         IN  Cardinality(places) = IF n = sent[e] /\ emitter[e].at # "idle" THEN 0 ELSE 1
<1> DEFINE x == <<e, n>>
           queues == {<<"queue", s>> : s \in {t \in SessionId : x \in ToSet(event_queue[t])}}
           channels == {<<"channel", c>> : c \in {d \in Conn : x \in ToSet(channel[d])}}
           inboxes == {<<"inbox", c>> : c \in {d \in Conn : x \in ToSet(inbox[d])}}
           overflows == {<<"overflowed", s>> : s \in {t \in SessionId : x \in overflowed[t]}}
           losses == IF x \in lost THEN {<<"lost">>} ELSE {}
           places == queues \cup channels \cup inboxes \cup overflows \cup losses
<1>1. sent[e] \in 0 .. MaxEvents
  BY DEF EventsInv, EventsTypeOK
<1>2. n \in 1 .. MaxEvents /\ n \in Nat /\ sent[e] \in Nat /\ n <= sent[e]
  BY <1>1, EventAssumption
<1>3. x \in Event /\ x[1] = e /\ x[2] = n
  BY <1>2, EventShape
<1>4. Placing(x)
  BY <1>3 DEF EventsInv
<1> HIDE DEF x
<1>5. Settled(x) <=> ~(n = sent[e] /\ emitter[e].at # "idle")
  BY <1>2, <1>3 DEF Settled
<1>6. CASE ~Settled(x)
  <2>1. \A l, j : ~In(l, j, x)
    BY <1>4, <1>6 DEF Placing, InNoPlace
  <2>2. queues = {} /\ channels = {} /\ inboxes = {} /\ overflows = {} /\ x \notin lost
    BY <2>1 DEF In
  <2>3. places = {}
    BY <2>2
  <2> QED BY <1>5, <1>6, <2>3, FS_EmptySet DEF x
<1>7. CASE Settled(x)
  <2>1. PICK k, i : In(k, i, x)
    BY <1>4, <1>7 DEF Placing, InOnePlace
  <2>2. \A l, j : In(l, j, x) => l = k /\ j = i
    BY <1>4, <1>7, <2>1 DEF Placing, InOnePlace
  <2>3. \E p : places = {p}
    <3>1. CASE k = "queue"
      <4>1. channels = {} /\ inboxes = {} /\ overflows = {} /\ x \notin lost
        BY <2>2, <3>1 DEF In
      <4>2. {t \in SessionId : x \in ToSet(event_queue[t])} = {i}
        BY <2>1, <2>2, <3>1 DEF In
      <4>3. places = {<<"queue", i>>}
        BY <4>1, <4>2
      <4> QED BY <4>3
    <3>2. CASE k = "channel"
      <4>1. queues = {} /\ inboxes = {} /\ overflows = {} /\ x \notin lost
        BY <2>2, <3>2 DEF In
      <4>2. {d \in Conn : x \in ToSet(channel[d])} = {i}
        BY <2>1, <2>2, <3>2 DEF In
      <4>3. places = {<<"channel", i>>}
        BY <4>1, <4>2
      <4> QED BY <4>3
    <3>3. CASE k = "inbox"
      <4>1. queues = {} /\ channels = {} /\ overflows = {} /\ x \notin lost
        BY <2>2, <3>3 DEF In
      <4>2. {d \in Conn : x \in ToSet(inbox[d])} = {i}
        BY <2>1, <2>2, <3>3 DEF In
      <4>3. places = {<<"inbox", i>>}
        BY <4>1, <4>2
      <4> QED BY <4>3
    <3>4. CASE k = "overflowed"
      <4>1. queues = {} /\ channels = {} /\ inboxes = {} /\ x \notin lost
        BY <2>2, <3>4 DEF In
      <4>2. {t \in SessionId : x \in overflowed[t]} = {i}
        BY <2>1, <2>2, <3>4 DEF In
      <4>3. places = {<<"overflowed", i>>}
        BY <4>1, <4>2
      <4> QED BY <4>3
    <3>5. CASE k = "lost"
      <4>1. queues = {} /\ channels = {} /\ inboxes = {} /\ overflows = {} /\ x \in lost
        BY <2>1, <2>2, <3>5 DEF In
      <4> QED BY <4>1
    <3> QED BY <2>1, <3>1, <3>2, <3>3, <3>4, <3>5 DEF In
  <2> HIDE DEF places
  <2>4. Cardinality(places) = 1
    BY <2>3, FS_Singleton
  <2> QED BY <1>5, <1>7, <2>4 DEF places, x
<1> QED BY <1>6, <1>7

(* Two positions of a queue in order hold two events, so a task's one      *)
(* event takes one.                                                        *)
LEMMA OneStranded ==
  ASSUME EventsInv, NEW c \in Conn, pc[c] \in {"loop", "op"}, NEW e \in Emitter
  PROVE  Cardinality({i \in 1 .. Len(event_queue[sess[c]]) : event_queue[sess[c]][i][1] = e}) <= 1
<1> DEFINE q == event_queue[sess[c]]
           ofTask == {i \in 1 .. Len(q) : q[i][1] = e}
<1>1. sess[c] \in SessionId
  BY DEF EventsInv, IInv, ConnKnows
<1>2. q \in Seq(Event) /\ InOrder(q) /\ \A x, y \in ToSet(q) : x[1] = y[1] => x = y
  BY <1>1 DEF EventsInv, EventsTypeOK, QueueOrder, Stranded
<1> HIDE DEF q
<1>3. \A i \in 1 .. Len(q) : q[i] \in ToSet(q) /\ q[i] \in Event /\ q[i][2] \in Nat
  BY <1>2, Elements, EventShape
<1>4. ASSUME NEW i \in ofTask, NEW j \in ofTask PROVE ~(i < j)
  <2>1. q[i] = q[j] /\ q[i][1] = q[j][1]
    BY <1>2, <1>3
  <2> QED BY <1>2, <1>3, <2>1 DEF InOrder
<1>5. \A i, j \in ofTask : i = j
  BY <1>2, <1>4
<1>6. ofTask = {} \/ \E i : ofTask = {i}
  BY ZenonT(60), <1>5
<1> HIDE DEF ofTask
<1>7. Cardinality(ofTask) = 0 \/ Cardinality(ofTask) = 1
  BY <1>6, FS_EmptySet, FS_Singleton
<1> QED BY <1>7 DEF ofTask, q

(* Every event whose send_json has returned is in exactly one place: none  *)
(* is delivered twice, none disappears but by the queue's limit or a dead  *)
(* connection, and a session that is served keeps at most the one event    *)
(* each task was sending when it was resumed.                              *)
THEOREM AccountedForHolds == Spec => []AccountedFor
<1>1. EventsInv => AccountedFor
  <2> SUFFICES ASSUME EventsInv PROVE AccountedFor
    OBVIOUS
  <2>1. ExactlyOnePlace
    BY OnePlace DEF ExactlyOnePlace
  <2>2. AtMostOneStranded
    BY OneStranded DEF AtMostOneStranded
  <2> QED BY <2>1, <2>2 DEF AccountedFor
<1> QED BY <1>1, EventsInvariance, PTL
=============================================================================
