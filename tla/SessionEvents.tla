---------------------------- MODULE SessionEvents ----------------------------
(***************************************************************************)
(* The way of an event from a player task to the client: Session.send_json *)
(* reads `paused', then either queues the event or sends it into the       *)
(* channel of the session's current connection; the connection drains the  *)
(* queue when it resumes and then forwards its channel. send_json takes no *)
(* lock over both steps, so it interleaves with the steps of the           *)
(* connections in SessionRegistry, which this module is composed with.     *)
(*                                                                         *)
(* Sources: Session::send_json in src/server/session.rs,                   *)
(* send_initial_state and the receive arm of handle_socket in              *)
(* src/ws/handler.rs.                                                      *)
(***************************************************************************)
EXTENDS SessionRegistry, Sequences, SequencesExt

CONSTANTS
  Emitter,        \* tasks that send events, each one after the other
  MaxEvents,      \* bound: events per emitter
  max_queue_size  \* ServerConfig.max_event_queue_size

Event == Emitter \X (1..MaxEvents)

ASSUME EventAssumption == MaxEvents \in Nat /\ max_queue_size \in Nat

VARIABLES
  event_queue, \* Session.event_queue
  channel,     \* the flume channel of each connection
  inbox,       \* what each connection has written to its client
  up,          \* whether the socket of each connection still carries data
  emitter,     \* where each emitter is in send_json, for which session
  sent,        \* how many events each emitter has started
  overflowed,  \* per session, the events popped from its full queue
  lost         \* events that went to a dead channel or a broken socket

eventVars == <<event_queue, channel, inbox, up, emitter, sent, overflowed, lost>>
vars == <<regVars, eventVars>>

EventsTypeOK ==
  /\ TypeOK
  /\ event_queue \in [SessionId -> Seq(Event)]
  /\ channel \in [Conn -> Seq(Event)]
  /\ inbox \in [Conn -> Seq(Event)]
  /\ up \in [Conn -> BOOLEAN]
  /\ emitter \in [Emitter -> [at : {"idle", "queue", "send"}, for : SessionId \cup {NoSession}]]
  /\ sent \in [Emitter -> 0..MaxEvents]
  /\ overflowed \in [SessionId -> SUBSET Event] /\ lost \subseteq Event

Quiet == [at |-> "idle", for |-> NoSession]

Init ==
  /\ RegInit
  /\ event_queue = [s \in SessionId |-> <<>>]
  /\ channel = [c \in Conn |-> <<>>]
  /\ inbox = [c \in Conn |-> <<>>]
  /\ up = [c \in Conn |-> TRUE]
  /\ emitter = [e \in Emitter |-> Quiet]
  /\ sent = [e \in Emitter |-> 0]
  /\ overflowed = [s \in SessionId |-> {}] /\ lost = {}

Current(e) == <<e, sent[e]>>

-----------------------------------------------------------------------------
(* send_json                                                               *)

(* The load of `paused' decides where the event goes.                      *)
ReadPaused(e, s) ==
  /\ emitter[e].at = "idle" /\ sent[e] < MaxEvents
  /\ s \in born \ shut
  /\ sent' = [sent EXCEPT ![e] = @ + 1]
  /\ emitter' = [emitter EXCEPT ![e] = [at |-> IF paused[s] THEN "queue" ELSE "send", for |-> s]]
  /\ UNCHANGED <<regVars, event_queue, channel, inbox, up, overflowed, lost>>

(* Mistakes kept for checking: push_front for push_back, pop_back for      *)
(* pop_front, and the next event's number for the current one's.           *)
PushFront(e) ==
  LET s == emitter[e].for
      full == Len(event_queue[s]) >= max_queue_size /\ event_queue[s] # <<>>
  IN
  /\ emitter[e].at = "queue"
  /\ event_queue' = [event_queue EXCEPT ![s] =
                       <<Current(e)>> \o (IF full THEN Tail(@) ELSE @)]
  /\ overflowed' = IF full THEN [overflowed EXCEPT ![s] = @ \cup {Head(event_queue[s])}] ELSE overflowed
  /\ emitter' = [emitter EXCEPT ![e] = Quiet]
  /\ UNCHANGED <<regVars, channel, inbox, up, sent, lost>>

PushBackPopBack(e) ==
  LET s == emitter[e].for
      full == Len(event_queue[s]) >= max_queue_size /\ event_queue[s] # <<>>
  IN
  /\ emitter[e].at = "queue"
  /\ IF full THEN overflowed' = [overflowed EXCEPT ![s] = @ \cup {Current(e)}] /\ UNCHANGED event_queue
             ELSE /\ event_queue' = [event_queue EXCEPT ![s] = Append(@, Current(e))]
                  /\ UNCHANGED overflowed
  /\ emitter' = [emitter EXCEPT ![e] = Quiet]
  /\ UNCHANGED <<regVars, channel, inbox, up, sent, lost>>

(* A full queue loses its oldest event first.                              *)
PushBack(e) ==
  LET s == emitter[e].for
      full == Len(event_queue[s]) >= max_queue_size /\ event_queue[s] # <<>>
  IN
  /\ emitter[e].at = "queue"
  /\ event_queue' = [event_queue EXCEPT ![s] =
                       Append(IF full THEN Tail(@) ELSE @, Current(e))]
  /\ overflowed' = IF full THEN [overflowed EXCEPT ![s] = @ \cup {Head(event_queue[s])}] ELSE overflowed
  /\ emitter' = [emitter EXCEPT ![e] = Quiet]
  /\ UNCHANGED <<regVars, channel, inbox, up, sent, lost>>

(* Only a connection that will come to its select loop reads its channel.  *)
SendToChannel(e) ==
  LET c == sender[emitter[e].for] IN
  /\ emitter[e].at = "send"
  /\ IF pc[c] \in Resuming \cup Serving
       THEN channel' = [channel EXCEPT ![c] = Append(@, Current(e))] /\ UNCHANGED lost
       ELSE lost' = lost \cup {Current(e)} /\ UNCHANGED channel
  /\ emitter' = [emitter EXCEPT ![e] = Quiet]
  /\ UNCHANGED <<regVars, event_queue, inbox, up, sent, overflowed>>

-----------------------------------------------------------------------------
(* The connection's side                                                   *)

(* Mistakes kept for checking: the queue is copied, not taken; the channel *)
(* waits for the queue.                                                    *)
DrainQueueCopied(c, k) ==
  LET q == event_queue[sess[c]] IN
  /\ SendInitialState(c)
  /\ k \in 0..Len(q) /\ (~up[c] => k = 0)
  /\ inbox' = [inbox EXCEPT ![c] = @ \o SubSeq(q, 1, k)]
  /\ lost' = lost \cup {q[i] : i \in k+1..Len(q)}
  /\ up' = [up EXCEPT ![c] = @ /\ k = Len(q)]
  /\ UNCHANGED <<event_queue, channel, emitter, sent, overflowed>>

ForwardAfterQueue(c) ==
  /\ pc[c] = "loop" /\ channel[c] # <<>> /\ event_queue[sess[c]] = <<>>
  /\ channel' = [channel EXCEPT ![c] = Tail(@)]
  /\ inbox' = [inbox EXCEPT ![c] = Append(@, Head(channel[c]))]
  /\ UNCHANGED <<regVars, event_queue, up, emitter, sent, overflowed, lost>>

(* The queue is taken in one go and written event by event; a socket that  *)
(* breaks on the way loses the rest, the errors of send are ignored.       *)
DrainQueue(c, k) ==
  LET q == event_queue[sess[c]] IN
  /\ SendInitialState(c)
  /\ k \in 0..Len(q) /\ (~up[c] => k = 0)
  /\ inbox' = [inbox EXCEPT ![c] = @ \o SubSeq(q, 1, k)]
  /\ lost' = lost \cup {q[i] : i \in k+1..Len(q)}
  /\ up' = [up EXCEPT ![c] = @ /\ k = Len(q)]
  /\ event_queue' = [event_queue EXCEPT ![sess[c]] = <<>>]
  /\ UNCHANGED <<channel, emitter, sent, overflowed>>

Forward(c) ==
  /\ pc[c] = "loop" /\ channel[c] # <<>>
  /\ channel' = [channel EXCEPT ![c] = Tail(@)]
  /\ IF up[c] THEN inbox' = [inbox EXCEPT ![c] = Append(@, Head(channel[c]))] /\ UNCHANGED lost
              ELSE lost' = lost \cup {Head(channel[c])} /\ UNCHANGED inbox
  /\ UNCHANGED <<regVars, event_queue, up, emitter, sent, overflowed>>

SocketBreaks(c) ==
  /\ pc[c] \in Serving /\ up[c]
  /\ up' = [up EXCEPT ![c] = FALSE]
  /\ UNCHANGED <<regVars, event_queue, channel, inbox, emitter, sent, overflowed, lost>>

(* What is left in the channel when the loop ends is never read.           *)
Leave(c) ==
  /\ LeaveLoop(c)
  /\ lost' = lost \cup ToSet(channel[c])
  /\ channel' = [channel EXCEPT ![c] = <<>>]
  /\ UNCHANGED <<event_queue, inbox, up, emitter, sent, overflowed>>

(* Steps of the registry that touch no event. Operations and guards do not *)
(* meet the events: they are left to SessionPlayers.                       *)
Registry ==
  /\ \/ \E c \in Conn : \/ ConnStep(c) /\ pc[c] # "initial"
                        \/ FireTimer(c)
                        \/ \E s \in SessionId : OpenNew(c, s) \/ TakeResumable(c, s)
     \/ \E s \in SessionId, b \in BOOLEAN, t \in Timeouts : UpdateSession(s, b, t)
     \/ Tick
  /\ UNCHANGED eventVars

Drain(c) == pc[c] = "initial" /\ \E k \in 0..Len(event_queue[sess[c]]) : DrainQueue(c, k)
Emit(e) == PushBack(e) \/ SendToChannel(e)

Next ==
  \/ Registry
  \/ \E e \in Emitter : Emit(e) \/ \E s \in SessionId : ReadPaused(e, s)
  \/ \E c \in Conn : \/ Forward(c) \/ SocketBreaks(c) \/ Leave(c)
                     \/ Drain(c)

Spec == Init /\ [][Next]_vars

(* The emitter runs on, the select loop polls its receive arm, and a       *)
(* connection that finds its socket broken leaves.                         *)
FairSpec ==
  /\ Spec
  /\ \A e \in Emitter : WF_vars(Emit(e))
  /\ \A c \in Conn : /\ WF_vars(Forward(c)) /\ WF_vars(up[c] = FALSE /\ Leave(c))
                     /\ WF_vars(ConnStep(c) /\ pc[c] # "initial" /\ UNCHANGED eventVars)
                     /\ WF_vars(Drain(c))

-----------------------------------------------------------------------------
(* Properties                                                              *)

InOrder(seq) ==
  \A i, j \in 1..Len(seq) : i < j /\ seq[i][1] = seq[j][1] => seq[i][2] < seq[j][2]

(* The events of one task reach the client in the order they were sent on  *)
(* every connection: the drained queue comes before the channel.           *)
DeliveredInOrder == \A c \in Conn : InOrder(inbox[c])

(* The queue keeps the newest events, in order, and no more than its       *)
(* limit; a limit of zero still keeps one.                                 *)
QueueKeepsNewest ==
  \A s \in SessionId :
    /\ Len(event_queue[s]) <= IF max_queue_size = 0 THEN 1 ELSE max_queue_size
    /\ InOrder(event_queue[s])
    /\ \A x \in overflowed[s], y \in ToSet(event_queue[s]) : x[1] = y[1] => x[2] < y[2]

(* Neither delivery nor the queue changes the order of events.             *)
OrderIsKept == DeliveredInOrder /\ QueueKeepsNewest

(* An event is in exactly one place once send_json has returned: queued,   *)
(* in a channel somebody reads, delivered, overflowed or lost. Nothing is  *)
(* delivered twice, across all connections of a session.                   *)
ExactlyOnePlace ==
  \A e \in Emitter : \A n \in 1..sent[e] :
    LET x == <<e, n>>
        places == {<<"queue", s>> : s \in {t \in SessionId : x \in ToSet(event_queue[t])}}
             \cup {<<"channel", c>> : c \in {d \in Conn : x \in ToSet(channel[d])}}
             \cup {<<"inbox", c>> : c \in {d \in Conn : x \in ToSet(inbox[d])}}
             \cup {<<"overflowed", s>> : s \in {t \in SessionId : x \in overflowed[t]}}
             \cup (IF x \in lost THEN {<<"lost">>} ELSE {})
    IN Cardinality(places) = IF n = sent[e] /\ emitter[e].at # "idle" THEN 0 ELSE 1

(* The race between send_json and a resumption (paused is read, the queue  *)
(* is drained, the event is pushed) strands at most the one event each     *)
(* task was sending: a session being served queues nothing after that.     *)
AtMostOneStranded ==
  \A c \in Conn : pc[c] \in {"loop", "op"} =>
    \A e \in Emitter :
      Cardinality({i \in 1..Len(event_queue[sess[c]]) :
                     event_queue[sess[c]][i][1] = e}) <= 1

(* Every event is accounted for: it is in one place, and the queue is      *)
(* that place for a client that is being served only after the race.       *)
AccountedFor == ExactlyOnePlace /\ AtMostOneStranded

(* "True when WS is disconnected but session is kept for resume", says the *)
(* comment on Session.paused: an event sent when the client of a resumable *)
(* session has left is queued.                                             *)
QueuedWhileAway ==
  [][\A e \in Emitter, s \in SessionId :
       /\ ReadPaused(e, s) /\ resumable[s]
       /\ \A c \in Conn : sess[c] = s => pc[c] \notin Resuming \cup Serving
       => emitter'[e].at = "queue"]_vars

(* What a served connection has in its channel is delivered unless the     *)
(* connection ends.                                                        *)
ChannelDelivered ==
  \A c \in Conn : channel[c] # <<>> ~> (channel[c] = <<>> \/ pc[c] = "op")
=============================================================================
