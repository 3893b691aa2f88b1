--------------------------- MODULE VoiceHeartbeat ---------------------------
(***************************************************************************)
(* The heartbeat of one voice gateway connection: the task that            *)
(* HeartbeatTracker::spawn starts, the connection's select loop that reads *)
(* the server's acks, and the server, which may answer a heartbeat late or *)
(* not at all.  The task and the loop share three atomics (missed_acks,    *)
(* last_nonce, sent_at) and the connection's cancellation token, and each  *)
(* of their accesses is a step of its own.                                 *)
(*                                                                         *)
(* A nonce is the wall clock in milliseconds.  Only its identity matters,  *)
(* so the model draws it from a small set and uses one again only when     *)
(* nothing in the system refers to it any more.  What is sent goes through *)
(* the connection's writer task, which ends when the socket breaks.        *)
(***************************************************************************)
EXTENDS Naturals, Sequences, SequencesExt

CONSTANTS
  Nonce,      \* identities for the clock readings sent as nonces
  NoNonce,    \* last_nonce before the first heartbeat (0)
  Tolerated   \* missed acks at which the next tick gives up: 2

ASSUME HeartbeatAssumption ==
  /\ NoNonce \notin Nonce
  /\ Tolerated \in Nat \ {0}

VARIABLES
  missed_acks, last_nonce,   \* HeartbeatTracker
  cancelled,                 \* conn_token.is_cancelled()
  beat,       \* the task: "tick" | "store" | "send" | "dead" (broken out, aborted)
  reader,     \* the loop: "select" | "clear" (in on_heartbeat_ack) | "discover" | "left"
  writer,     \* whether the connection's writer task runs, so that tx.send succeeds
  wire,       \* heartbeats sent that the server has not looked at
  answers,    \* acks the server sent that the loop has not read
  owed,       \* history: heartbeats sent since the last one whose ack was accepted
  raced       \* history: a tick was half done when the last accepted ack was compared,
              \* or came before its store(0)

vars == <<missed_acks, last_nonce, cancelled, beat, reader, writer, wire, answers, owed, raced>>

InFlight == Range(wire) \cup Range(answers)

TypeOK ==
  /\ missed_acks \in 0 .. Tolerated + 1
  /\ last_nonce \in Nonce \cup {NoNonce}
  /\ cancelled \in BOOLEAN
  /\ beat \in {"tick", "store", "send", "dead"}
  /\ reader \in {"select", "clear", "discover", "left"}
  /\ writer \in BOOLEAN
  /\ wire \in Seq(Nonce)
  /\ answers \in Seq(Nonce)
  /\ owed \in Nat
  /\ raced \in BOOLEAN

(* on_hello has just spawned the task; its first tick is immediate.        *)
Init ==
  /\ missed_acks = 0
  /\ last_nonce = NoNonce
  /\ cancelled = FALSE
  /\ beat = "tick"
  /\ reader = "select"
  /\ writer = TRUE
  /\ wire = <<>>
  /\ answers = <<>>
  /\ owed = 0
  /\ raced = FALSE

-----------------------------------------------------------------------------
(* The heartbeat task.                                                     *)

(* Mistakes kept for checking: a threshold off by one, and a task that     *)
(* stops without cancelling the connection.                                *)
TickLate ==
  /\ beat = "tick"
  /\ reader = "clear" => ~raced
  /\ raced' = (raced \/ reader = "clear")
  /\ missed_acks' = missed_acks + 1
  /\ IF missed_acks > Tolerated
       THEN cancelled' = TRUE /\ beat' = "dead"
       ELSE beat' = "store" /\ UNCHANGED cancelled
  /\ UNCHANGED <<last_nonce, reader, wire, answers, owed, writer>>

TickMute ==
  /\ beat = "tick"
  /\ reader = "clear" => ~raced
  /\ raced' = (raced \/ reader = "clear")
  /\ missed_acks' = missed_acks + 1
  /\ beat' = (IF missed_acks >= Tolerated THEN "dead" ELSE "store")
  /\ UNCHANGED <<last_nonce, cancelled, reader, wire, answers, owed, writer>>

(* ticker.tick() and fetch_add; the third tick in a row that finds no ack  *)
(* accepted cancels the connection and ends the task.  Ticks are seconds   *)
(* apart: at most one overlaps the few instructions of an ack.             *)
Tick ==
  /\ beat = "tick"
  /\ reader = "clear" => ~raced
  /\ raced' = (raced \/ reader = "clear")
  /\ missed_acks' = missed_acks + 1
  /\ IF missed_acks >= Tolerated
       THEN cancelled' = TRUE /\ beat' = "dead"
       ELSE beat' = "store" /\ UNCHANGED cancelled
  /\ UNCHANGED <<last_nonce, reader, wire, answers, owed, writer>>

StoreNonce ==
  /\ beat = "store"
  /\ \E n \in Nonce \ (InFlight \cup {last_nonce}) : last_nonce' = n
  /\ beat' = "send"
  /\ UNCHANGED <<missed_acks, cancelled, reader, wire, answers, owed, raced, writer>>

SendHeartbeat ==
  /\ beat = "send" /\ writer
  /\ wire' = Append(wire, last_nonce)
  /\ owed' = owed + 1
  /\ beat' = "tick"
  /\ UNCHANGED <<missed_acks, last_nonce, cancelled, reader, answers, raced, writer>>

(* tx.send fails: the task ends, and leaves the connection as it is.       *)
BeatFails ==
  /\ beat = "send" /\ ~writer
  /\ beat' = "dead"
  /\ UNCHANGED <<missed_acks, last_nonce, cancelled, reader, wire, answers, owed, raced,
                 writer>>

(* The socket cannot be written any more, and the writer task breaks out.  *)
(* What it had not written is lost: nobody answers it.                     *)
WriterEnds ==
  /\ writer /\ writer' = FALSE
  /\ UNCHANGED <<missed_acks, last_nonce, cancelled, beat, reader, wire, answers, owed, raced>>

-----------------------------------------------------------------------------
(* The server: takes heartbeats in order and answers each one or not.      *)

Answer ==
  /\ wire # <<>>
  /\ wire' = Tail(wire)
  /\ answers' = Append(answers, Head(wire))
  /\ UNCHANGED <<missed_acks, last_nonce, cancelled, beat, reader, owed, raced, writer>>

Ignore ==
  /\ wire # <<>>
  /\ wire' = Tail(wire)
  /\ UNCHANGED <<missed_acks, last_nonce, cancelled, beat, reader, answers, owed, raced,
                 writer>>

-----------------------------------------------------------------------------
(* The select loop.  It is biased: a cancelled token is seen before a      *)
(* message is read.                                                        *)

(* validate_ack: only the nonce stored last counts.                        *)
Accepts(n) == n = last_nonce

ReadAck ==
  /\ reader = "select" /\ ~cancelled
  /\ answers # <<>>
  /\ answers' = Tail(answers)
  /\ IF Accepts(Head(answers))
       THEN reader' = "clear" /\ owed' = 0 /\ raced' = (beat = "store")
       ELSE UNCHANGED <<reader, owed, raced>>
  /\ UNCHANGED <<missed_acks, last_nonce, cancelled, beat, wire, writer>>

(* Mistake kept for checking: the ack does not clear the count.            *)
ClearNothing ==
  /\ reader = "clear"
  /\ reader' = "select"
  /\ UNCHANGED <<missed_acks, last_nonce, cancelled, beat, wire, answers, owed, raced,
                 writer>>

(* missed_acks.store(0), after the nonce has been compared.                *)
ClearMissed ==
  /\ reader = "clear"
  /\ missed_acks' = 0
  /\ reader' = "select"
  /\ UNCHANGED <<last_nonce, cancelled, beat, wire, answers, owed, raced, writer>>

(* A Ready message: on_ready awaits discover_ip for up to half a minute,   *)
(* and the loop reads nothing meanwhile.                                   *)
BeginDiscovery ==
  /\ reader = "select" /\ ~cancelled
  /\ reader' = "discover"
  /\ UNCHANGED <<missed_acks, last_nonce, cancelled, beat, wire, answers, owed, raced,
                 writer>>

EndDiscovery ==
  /\ reader = "discover"
  /\ reader' = "select"
  /\ UNCHANGED <<missed_acks, last_nonce, cancelled, beat, wire, answers, owed, raced,
                 writer>>

(* The loop breaks; the token is cancelled and the state dropped, which    *)
(* aborts the heartbeat task.                                              *)
Break ==
  /\ reader' = "left"
  /\ cancelled' = TRUE
  /\ beat' = "dead"
  /\ UNCHANGED <<missed_acks, last_nonce, wire, answers, owed, raced, writer>>

LeaveCancelled == reader = "select" /\ cancelled /\ Break

(* A close frame, an error or the end of the stream.                       *)
LeaveClosed == reader = "select" /\ ~cancelled /\ Break

(* The end of a socket that has broken.                                    *)
LeaveBroken == ~writer /\ LeaveClosed

-----------------------------------------------------------------------------
Next ==
  \/ Tick \/ StoreNonce \/ SendHeartbeat \/ BeatFails \/ WriterEnds
  \/ Answer \/ Ignore
  \/ ReadAck \/ ClearMissed \/ BeginDiscovery \/ EndDiscovery
  \/ LeaveCancelled \/ LeaveClosed

Spec == Init /\ [][Next]_vars

(* The timer fires, tokio polls both tasks, discover_ip has a deadline. A  *)
(* socket that cannot be written any more has an end, which is read after  *)
(* the messages that had arrived. Nothing is assumed of the server.        *)
FairSpec ==
  /\ Spec
  /\ WF_vars(Tick) /\ WF_vars(StoreNonce) /\ WF_vars(SendHeartbeat) /\ WF_vars(BeatFails)
  /\ WF_vars(ClearMissed) /\ WF_vars(EndDiscovery) /\ WF_vars(LeaveCancelled)
  /\ SF_vars(LeaveBroken)

-----------------------------------------------------------------------------
(* A server that has gone quiet costs a bounded number of heartbeats: two, *)
(* and one more when an ack and a tick overlap, so that the store(0) wipes *)
(* out the count of a heartbeat the ack does not answer.                   *)
QuietIsBounded == owed <= Tolerated + (IF raced THEN 1 ELSE 0)

(* The task gives up on a connection only when the acks of the last two    *)
(* heartbeats were not accepted; the one excuse is an ack whose comparison *)
(* was done and whose store(0) was yet to come when the timer fired. And   *)
(* it ends without having given up only when nothing can be sent any more. *)
GivesUpForCause ==
  beat = "dead" /\ reader # "left" =>
    IF cancelled THEN raced \/ owed >= Tolerated ELSE ~writer

(* If the server stops answering for good, the connection is left, even    *)
(* though nothing but the heartbeat tells a silent server from a dead one, *)
(* and the heartbeat may end with the socket's writer.                     *)
QuietServerIsLeft == <>[][~Answer]_vars => <>(reader = "left")
=============================================================================
