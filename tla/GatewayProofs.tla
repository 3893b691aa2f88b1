---------------------------- MODULE GatewayProofs ----------------------------
(***************************************************************************)
(* Proofs about the parts of a voice gateway, each by itself: the          *)
(* heartbeat, the connections with their handshakes, the group key         *)
(* exchange, and the loop that speaks.  A part's proofs use nothing of the *)
(* other parts.                                                            *)
(***************************************************************************)
EXTENDS VoiceHeartbeat, VoiceGateway, DaveHandler, SpeakLoop, TLAPS

-----------------------------------------------------------------------------
(***************************************************************************)
(* Proofs about VoiceHeartbeat, for any set of nonces and any number of    *)
(* tolerated missed acks.  The count of missed acks and the heartbeats     *)
(* really owed drift apart by at most one, and only while a tick and an    *)
(* ack overlap; Drift says by how much at each point of the two tasks.     *)
(***************************************************************************)

(* A tick that has counted its heartbeat and not sent it yet.              *)
Pending == IF beat \in {"store", "send"} THEN 1 ELSE 0

Slack == IF raced THEN 1 ELSE 0

Drift ==
  /\ beat # "dead" => missed_acks <= Tolerated
  /\ beat # "dead" =>
       IF reader = "clear" THEN owed + Pending <= Slack
                           ELSE owed + Pending <= missed_acks + Slack
  /\ beat # "dead" /\ reader # "clear" /\ ~raced => missed_acks <= owed + Pending

(* A nonce that is stored and not sent is answered by nobody, and a task   *)
(* that has given up has cancelled the connection or could not send its    *)
(* nonce, so no ack resets owed.                                           *)
Unanswered == beat = "send" \/ (beat = "dead" /\ ~cancelled) => last_nonce \in Nonce \ InFlight
GaveUp == (reader = "left" => cancelled) /\ (cancelled => beat = "dead")

HeartbeatInv == TypeOK /\ Drift /\ Unanswered /\ GaveUp /\ QuietIsBounded /\ GivesUpForCause

-----------------------------------------------------------------------------
(* What the wire's two sequences hold when a message moves along them.     *)

LEMMA TailRange ==
  ASSUME NEW S, NEW s \in Seq(S), s # <<>>
  PROVE  /\ Tail(s) \in Seq(S) /\ Head(s) \in S /\ Head(s) \in Range(s)
         /\ Range(Tail(s)) \subseteq Range(s)
<1>1. Len(s) \in Nat \ {0} /\ DOMAIN s = 1 .. Len(s)
  OBVIOUS
<1>2. Tail(s) \in Seq(S) /\ Head(s) \in S
  BY <1>1
<1>3. Head(s) \in Range(s)
  BY <1>1 DEF Range
<1>4. ASSUME NEW i \in DOMAIN Tail(s) PROVE Tail(s)[i] \in Range(s)
  <2>1. i \in 1 .. Len(s) - 1
    BY <1>1, <1>4
  <2>2. Tail(s)[i] = s[i + 1] /\ i + 1 \in DOMAIN s
    BY <1>1, <2>1
  <2> QED BY <2>2 DEF Range
<1> QED BY <1>2, <1>3, <1>4 DEF Range

LEMMA AppendRange ==
  ASSUME NEW S, NEW s \in Seq(S), NEW e \in S
  PROVE  Append(s, e) \in Seq(S) /\ Range(Append(s, e)) \subseteq Range(s) \cup {e}
<1>1. Append(s, e) \in Seq(S) /\ Len(Append(s, e)) = Len(s) + 1 /\ Len(s) \in Nat
  OBVIOUS
<1>2. ASSUME NEW i \in DOMAIN Append(s, e) PROVE Append(s, e)[i] \in Range(s) \cup {e}
  <2>1. i \in 1 .. Len(s) + 1
    BY <1>1, <1>2
  <2>2. CASE i = Len(s) + 1
    BY <2>2
  <2>3. CASE i \in 1 .. Len(s)
    <3>1. Append(s, e)[i] = s[i] /\ i \in DOMAIN s
      BY <2>3
    <3> QED BY <3>1 DEF Range
  <2> QED BY <1>1, <2>1, <2>2, <2>3
<1> QED BY <1>1, <1>2 DEF Range

-----------------------------------------------------------------------------
LEMMA HeartbeatInit == Init => HeartbeatInv
<1> SUFFICES ASSUME Init PROVE HeartbeatInv
  OBVIOUS
<1>1. TypeOK
  <2>1. 0 \in 0 .. Tolerated + 1 /\ 0 \in Nat
    BY HeartbeatAssumption
  <2>2. <<>> \in Seq(Nonce)
    OBVIOUS
  <2> QED BY <2>1, <2>2 DEF Init, TypeOK
<1>2. Drift /\ Unanswered /\ GaveUp /\ QuietIsBounded /\ GivesUpForCause
  BY HeartbeatAssumption DEF Init, Drift, Pending, Slack, Unanswered, GaveUp,
     QuietIsBounded, GivesUpForCause
<1> QED BY <1>1, <1>2 DEF HeartbeatInv

LEMMA HeartbeatStep == HeartbeatInv /\ [Next]_vars => HeartbeatInv'
<1> SUFFICES ASSUME HeartbeatInv, [Next]_vars PROVE HeartbeatInv'
  OBVIOUS
<1> USE HeartbeatAssumption
<1>1. CASE Tick
  <2>1. TypeOK'
    <3>1. missed_acks' \in 0 .. Tolerated + 1
      BY <1>1 DEF HeartbeatInv, TypeOK, Drift, Tick
    <3>2. raced' \in BOOLEAN /\ cancelled' \in BOOLEAN
      BY <1>1, Zenon DEF HeartbeatInv, TypeOK, Tick
    <3>3. beat' \in {"tick", "store", "send", "dead"}
      BY <1>1 DEF Tick
    <3> QED BY <1>1, <3>1, <3>2, <3>3 DEF HeartbeatInv, TypeOK, Tick
  <2>2. Drift' /\ QuietIsBounded' /\ GivesUpForCause'
    <3>1. CASE reader = "clear"
      <4>1. ~raced /\ raced' = TRUE
        BY <1>1, <3>1 DEF Tick
      <4> QED
        BY <1>1, <3>1, <4>1 DEF HeartbeatInv, TypeOK, Drift, Pending, Slack, QuietIsBounded,
           GivesUpForCause, Tick
    <3>2. CASE reader # "clear"
      <4>1. raced' = raced
        BY <1>1, <3>2, Zenon DEF HeartbeatInv, TypeOK, Tick
      <4> QED
        BY <1>1, <3>2, <4>1 DEF HeartbeatInv, TypeOK, Drift, Pending, Slack, QuietIsBounded,
           GivesUpForCause, Tick
    <3> QED BY <3>1, <3>2
  <2>3. Unanswered' /\ GaveUp'
    BY <1>1 DEF HeartbeatInv, TypeOK, Unanswered, GaveUp, Tick
  <2> QED BY <2>1, <2>2, <2>3 DEF HeartbeatInv
<1>2. CASE StoreNonce
  <2>1. TypeOK'
    BY <1>2 DEF HeartbeatInv, TypeOK, StoreNonce
  <2>2. Drift' /\ QuietIsBounded' /\ GivesUpForCause'
    BY <1>2 DEF HeartbeatInv, TypeOK, Drift, Pending, Slack, QuietIsBounded, GivesUpForCause, StoreNonce
  <2>3. Unanswered' /\ GaveUp'
    BY <1>2 DEF HeartbeatInv, TypeOK, Unanswered, GaveUp, StoreNonce, InFlight
  <2> QED BY <2>1, <2>2, <2>3 DEF HeartbeatInv
<1>3. CASE SendHeartbeat
  <2>1. TypeOK'
    <3>1. wire' \in Seq(Nonce)
      <4>1. last_nonce \in Nonce /\ wire \in Seq(Nonce)
        <5>1. beat = "send"
          BY <1>3, Zenon DEF SendHeartbeat
        <5>2. last_nonce \in Nonce \ InFlight
          BY <5>1, Zenon DEF HeartbeatInv, Unanswered
        <5>3. wire \in Seq(Nonce)
          BY DEF HeartbeatInv, TypeOK
        <5> QED BY <5>2, <5>3, Zenon
      <4>2. wire' = Append(wire, last_nonce)
        BY <1>3, Zenon DEF SendHeartbeat
      <4> QED BY <4>1, <4>2, AppendRange, Zenon
    <3> QED BY <1>3, <3>1 DEF HeartbeatInv, TypeOK, SendHeartbeat
  <2>2. Drift' /\ QuietIsBounded' /\ GivesUpForCause'
    BY <1>3 DEF HeartbeatInv, TypeOK, Drift, Pending, Slack, QuietIsBounded, GivesUpForCause,
       SendHeartbeat
  <2>3. Unanswered' /\ GaveUp'
    BY <1>3 DEF HeartbeatInv, TypeOK, Unanswered, GaveUp, SendHeartbeat
  <2> QED BY <2>1, <2>2, <2>3 DEF HeartbeatInv
<1>11. CASE BeatFails
  <2>1. TypeOK'
    BY <1>11 DEF HeartbeatInv, TypeOK, BeatFails
  <2>2. Drift' /\ QuietIsBounded' /\ GivesUpForCause'
    <3>1. beat = "send" /\ beat' = "dead" /\ ~writer'
      BY <1>11 DEF BeatFails
    <3>2. UNCHANGED <<missed_acks, reader, cancelled, owed, raced>>
      BY <1>11, Zenon DEF BeatFails
    <3>3. ~cancelled
      BY <3>1 DEF HeartbeatInv, GaveUp
    <3> QED BY <3>1, <3>2, <3>3 DEF HeartbeatInv, Drift, QuietIsBounded, GivesUpForCause, Slack
  <2>3. Unanswered' /\ GaveUp'
    BY <1>11 DEF HeartbeatInv, TypeOK, Unanswered, GaveUp, BeatFails, InFlight
  <2> QED BY <2>1, <2>2, <2>3 DEF HeartbeatInv
<1>12. CASE WriterEnds
  <2>1. TypeOK'
    BY <1>12 DEF HeartbeatInv, TypeOK, WriterEnds
  <2>2. Drift' /\ QuietIsBounded' /\ GivesUpForCause'
    BY <1>12 DEF HeartbeatInv, Drift, Pending, Slack, QuietIsBounded, GivesUpForCause, WriterEnds
  <2>3. Unanswered' /\ GaveUp'
    BY <1>12 DEF HeartbeatInv, Unanswered, GaveUp, WriterEnds, InFlight
  <2> QED BY <2>1, <2>2, <2>3 DEF HeartbeatInv
<1>4. CASE Answer
  <2>1. /\ Tail(wire) \in Seq(Nonce) /\ Head(wire) \in Nonce
        /\ Head(wire) \in Range(wire) /\ Range(Tail(wire)) \subseteq Range(wire)
    BY <1>4, TailRange DEF HeartbeatInv, TypeOK, Answer
  <2>2. /\ Append(answers, Head(wire)) \in Seq(Nonce)
        /\ Range(Append(answers, Head(wire))) \subseteq Range(answers) \cup {Head(wire)}
    BY <2>1, AppendRange DEF HeartbeatInv, TypeOK
  <2>3. TypeOK'
    BY <1>4, <2>1, <2>2 DEF HeartbeatInv, TypeOK, Answer
  <2>4. InFlight' \subseteq InFlight
    BY <1>4, <2>1, <2>2 DEF InFlight, Answer
  <2>5. Drift' /\ GaveUp' /\ QuietIsBounded' /\ GivesUpForCause'
    BY <1>4 DEF HeartbeatInv, Drift, Pending, Slack, GaveUp, QuietIsBounded, GivesUpForCause, Answer
  <2>6. Unanswered'
    BY <1>4, <2>4 DEF HeartbeatInv, Unanswered, Answer
  <2> QED BY <2>3, <2>5, <2>6 DEF HeartbeatInv
<1>5. CASE Ignore
  <2>1. Tail(wire) \in Seq(Nonce) /\ Range(Tail(wire)) \subseteq Range(wire)
    BY <1>5, TailRange DEF HeartbeatInv, TypeOK, Ignore
  <2>2. TypeOK'
    BY <1>5, <2>1 DEF HeartbeatInv, TypeOK, Ignore
  <2>3. InFlight' \subseteq InFlight
    BY <1>5, <2>1 DEF InFlight, Ignore
  <2>4. Drift' /\ GaveUp' /\ QuietIsBounded' /\ GivesUpForCause'
    BY <1>5 DEF HeartbeatInv, Drift, Pending, Slack, GaveUp, QuietIsBounded, GivesUpForCause, Ignore
  <2>5. Unanswered'
    BY <1>5, <2>3 DEF HeartbeatInv, Unanswered, Ignore
  <2> QED BY <2>2, <2>4, <2>5 DEF HeartbeatInv
<1>6. CASE ReadAck
  <2>1. /\ Tail(answers) \in Seq(Nonce) /\ Range(Tail(answers)) \subseteq Range(answers)
        /\ Head(answers) \in InFlight
    BY <1>6, TailRange DEF HeartbeatInv, TypeOK, ReadAck, InFlight
  <2>2. TypeOK'
    <3>1. raced' \in BOOLEAN
      BY <1>6, Zenon DEF HeartbeatInv, TypeOK, ReadAck
    <3>2. owed' \in Nat /\ reader' \in {"select", "clear", "discover", "left"}
      BY <1>6 DEF HeartbeatInv, TypeOK, ReadAck
    <3> QED BY <1>6, <2>1, <3>1, <3>2 DEF HeartbeatInv, TypeOK, ReadAck
  <2>3. InFlight' \subseteq InFlight
    BY <1>6, <2>1 DEF InFlight, ReadAck
  <2>4. Unanswered' /\ GaveUp'
    BY <1>6, <2>3 DEF HeartbeatInv, TypeOK, Unanswered, GaveUp, ReadAck
  <2>5. CASE Accepts(Head(answers))
    <3>1. beat \in {"tick", "store"}
      BY <1>6, <2>1, <2>5 DEF HeartbeatInv, TypeOK, Unanswered, GaveUp, ReadAck, Accepts
    <3>2. reader' = "clear" /\ owed' = 0 /\ beat' = beat /\ missed_acks' = missed_acks
      BY <1>6, <2>5 DEF ReadAck
    <3>3. (beat = "store" => raced' = TRUE) /\ raced' \in BOOLEAN
      BY <1>6, <2>5, Zenon DEF ReadAck
    <3>4. Drift' /\ QuietIsBounded' /\ GivesUpForCause'
      BY <3>1, <3>2, <3>3 DEF HeartbeatInv, TypeOK, Drift, Pending, Slack, QuietIsBounded,
         GivesUpForCause
    <3> QED BY <2>2, <2>4, <3>4 DEF HeartbeatInv
  <2>6. CASE ~Accepts(Head(answers))
    <3>1. Drift' /\ QuietIsBounded' /\ GivesUpForCause'
      BY <1>6, <2>6 DEF HeartbeatInv, Drift, Pending, Slack, QuietIsBounded, GivesUpForCause, ReadAck
    <3> QED BY <2>2, <2>4, <3>1 DEF HeartbeatInv
  <2> QED BY <2>5, <2>6
<1>7. CASE ClearMissed
  <2>1. TypeOK'
    BY <1>7 DEF HeartbeatInv, TypeOK, ClearMissed
  <2>2. Drift' /\ QuietIsBounded' /\ GivesUpForCause'
    BY <1>7 DEF HeartbeatInv, TypeOK, Drift, Pending, Slack, QuietIsBounded, GivesUpForCause,
       ClearMissed
  <2>3. Unanswered' /\ GaveUp'
    BY <1>7 DEF HeartbeatInv, Unanswered, GaveUp, ClearMissed, InFlight
  <2> QED BY <2>1, <2>2, <2>3 DEF HeartbeatInv
<1>8. CASE BeginDiscovery \/ EndDiscovery
  <2>1. TypeOK'
    BY <1>8 DEF HeartbeatInv, TypeOK, BeginDiscovery, EndDiscovery
  <2>2. Drift' /\ QuietIsBounded' /\ GivesUpForCause'
    BY <1>8 DEF HeartbeatInv, Drift, Pending, Slack, QuietIsBounded, GivesUpForCause,
       BeginDiscovery, EndDiscovery
  <2>3. Unanswered' /\ GaveUp'
    BY <1>8 DEF HeartbeatInv, Unanswered, GaveUp, BeginDiscovery, EndDiscovery, InFlight
  <2> QED BY <2>1, <2>2, <2>3 DEF HeartbeatInv
<1>9. CASE LeaveCancelled \/ LeaveClosed
  <2>1. Break
    BY <1>9 DEF LeaveCancelled, LeaveClosed
  <2>2. TypeOK'
    BY <2>1 DEF HeartbeatInv, TypeOK, Break
  <2>3. Drift' /\ Unanswered' /\ GaveUp' /\ QuietIsBounded' /\ GivesUpForCause'
    BY <2>1 DEF HeartbeatInv, Drift, Unanswered, GaveUp, QuietIsBounded, GivesUpForCause, Break
  <2> QED BY <2>2, <2>3 DEF HeartbeatInv
<1>10. CASE UNCHANGED vars
  <2>1. TypeOK'
    BY <1>10 DEF HeartbeatInv, TypeOK, vars
  <2>2. Drift' /\ Unanswered' /\ GaveUp' /\ QuietIsBounded' /\ GivesUpForCause'
    BY <1>10 DEF HeartbeatInv, Drift, Pending, Slack, Unanswered, GaveUp, InFlight,
       QuietIsBounded, GivesUpForCause, vars
  <2> QED BY <2>1, <2>2 DEF HeartbeatInv
<1> QED
  BY <1>1, <1>2, <1>3, <1>4, <1>5, <1>6, <1>7, <1>8, <1>9, <1>10, <1>11, <1>12
  DEF Next, LeaveBroken

LEMMA HeartbeatInvariance == Spec => []HeartbeatInv
  BY HeartbeatInit, HeartbeatStep, PTL DEF Spec

-----------------------------------------------------------------------------
(* The counter, the flags and the messages keep their types; the counter   *)
(* never passes the threshold by more than one.                            *)
THEOREM HeartbeatTypeCorrect == Spec => []TypeOK
<1>1. HeartbeatInv => TypeOK
  BY DEF HeartbeatInv
<1> QED BY HeartbeatInvariance, <1>1, PTL

(* A server that has gone quiet is sent at most the tolerated number of    *)
(* heartbeats, and one more after a tick overlapped an ack: the race of    *)
(* fetch_add with store(0) in heartbeat.rs costs no more than that.        *)
THEOREM QuietIsBoundedHolds == Spec => []QuietIsBounded
<1>1. HeartbeatInv => QuietIsBounded
  BY DEF HeartbeatInv
<1> QED BY HeartbeatInvariance, <1>1, PTL

(* The heartbeat task cancels a connection only when that many heartbeats  *)
(* in a row went without an accepted ack, or an ack was being processed;   *)
(* and it ends without that only when the socket's writer has ended.       *)
THEOREM GivesUpForCauseHolds == Spec => []GivesUpForCause
<1>1. HeartbeatInv => GivesUpForCause
  BY DEF HeartbeatInv
<1> QED BY HeartbeatInvariance, <1>1, PTL

-----------------------------------------------------------------------------
(***************************************************************************)
(* Proofs about VoiceGateway, for any close codes, limits and number of    *)
(* sessions: which loop speaks, for which session it speaks, and that the  *)
(* client is told of a close code that ends the gateway.                   *)
(***************************************************************************)

(* A connection that waits for its Hello has nothing yet, and one that     *)
(* holds a loop has it running, or is cancelled.                           *)
RunsInv ==
  /\ VoiceRuns
  /\ pc = "hello" => speak_task = 0
  /\ pc \in {"loop", "discover"} /\ ~conn_token /\ speak_task # 0 =>
       \E l \in loops : l.id = speak_task
  /\ pc = "discover" => link \in {"identified", "replaying"}

(* An ssrc that does not come from what has survived is the session's own. *)
OwnSsrc ==
  /\ pc = "hello" => ssrc = 0 /\ link = "opening"
  /\ link \in {"opening", "identifying", "resuming"} => ssrc = 0
  /\ link # "resumed" => ssrc \in {0, server_session}
  /\ pc = "discover" => link \in {"identified", "replaying"}

(* Before the server opens a session, what was of the last is forgotten.   *)
Forgotten == seq_ack = 0 /\ persistent = NoState

SessionInv ==
  /\ VoiceIsOwned /\ OwnSsrc /\ StateIsOfSession
  /\ server_session \in Nat /\ ssrc \in Nat /\ persistent \in [ssrc : Nat, key : Nat]
  /\ ~dirty /\ ~is_resume /\ pc \in {"connect", "hello", "backoff"} => Forgotten
  /\ ~dirty /\ link = "identifying" => Forgotten /\ loops = {}

ToldInv == ShutdownIsTold /\ (ending = "shutdown" => pc = "ended")

-----------------------------------------------------------------------------
(* Leaving                                                                 *)

(* Whatever the outcome, the loop that ran is gone and the connection over.*)
LEMMA LeaveEnds ==
  ASSUME VoiceIsOwned, NEW outcome, NEW seq, LeaveAt(outcome, seq)
  PROVE  /\ loops' = {} /\ speak_task' = 0 /\ conn_token' = TRUE /\ ssrc' = ssrc
         /\ pc' \in {"ended", "backoff"}
BY DEF VoiceIsOwned, LeaveAt, DropState

LEMMA LeaveOwned ==
  ASSUME VoiceIsOwned, NEW outcome, NEW seq, LeaveAt(outcome, seq)
  PROVE  VoiceIsOwned'
BY LeaveEnds DEF VoiceIsOwned

-----------------------------------------------------------------------------
(* The loop that speaks                                                    *)

LEMMA OwnedInit == VoiceInit => VoiceIsOwned
BY DEF VoiceInit, VoiceIsOwned

LEMMA OwnedStep == VoiceIsOwned /\ [VoiceNext]_voiceVars => VoiceIsOwned'
<1> SUFFICES ASSUME VoiceIsOwned, [VoiceNext]_voiceVars PROVE VoiceIsOwned'
  OBVIOUS
<1> USE DEF gatewayVars, connVars, remoteVars, clientVars, lostVars
<1>1. CASE Connected \/ ConnectFails \/ Retry \/ Hello \/ TakeIdentify \/ TakeResume
  BY <1>1 DEF Connected, ConnectFails, Retry, Hello, TakeIdentify, TakeResume, VoiceIsOwned
<1>2. CASE Abort
  BY <1>2 DEF Abort, DropState, VoiceIsOwned
<1>3. CASE HelloAgain \/ Disconnect \/ SeeCancelled \/ DiscoveryFails
  BY <1>3, LeaveOwned DEF HelloAgain, Disconnect, SeeCancelled, DiscoveryFails, Leave
<1>4. CASE \E code \in Codes : Close(code)
  BY <1>4, LeaveOwned DEF Close, Leave
<1>5. CASE Malformed
  BY <1>5, LeaveOwned DEF Malformed
<1>6. CASE OtherMessage \/ Ready \/ Discovered \/ HeartbeatTimeout
  BY <1>6 DEF OtherMessage, Ready, Discovered, HeartbeatTimeout, Reading, VoiceIsOwned
<1>7. CASE SessionDescription
  BY <1>7 DEF SessionDescription, start_voice, Reading, VoiceIsOwned
<1>8. CASE Resumed
  <2>1. CASE persistent.key = 0
    BY <1>8, <2>1, LeaveOwned DEF Resumed, Leave
  <2>2. CASE persistent.key # 0
    BY <1>8, <2>2 DEF Resumed, start_voice, Reading, VoiceIsOwned
  <2> QED BY <2>1, <2>2
<1>9. CASE \E l \in loops : SpeakFails(l) \/ SpeakEnds(l)
  BY <1>9 DEF SpeakFails, SpeakEnds, VoiceIsOwned
<1>10. CASE UNCHANGED voiceVars
  BY <1>10 DEF voiceVars, VoiceIsOwned
<1> QED
  BY <1>1, <1>2, <1>3, <1>4, <1>5, <1>6, <1>7, <1>8, <1>9, <1>10 DEF VoiceNext

(* start_voice and Drop of SessionState: no speak loop outlives its        *)
(* connection or its successor.                                            *)
THEOREM VoiceIsOwnedHolds == VoiceSpec => []VoiceIsOwned
<1>1. VoiceInit => VoiceIsOwned
  BY OwnedInit
<1>2. VoiceIsOwned /\ [VoiceNext]_voiceVars => VoiceIsOwned'
  BY OwnedStep
<1> QED BY <1>1, <1>2, PTL DEF VoiceSpec

-----------------------------------------------------------------------------
(* A connection with voice speaks                                          *)

LEMMA StartSpeaks ==
  ASSUME NEW key, NEW as, start_voice(key, as)
  PROVE  \E l \in loops' : l.id = speak_task'
<1> DEFINE new == [id |-> FreshId, ssrc |-> as, key |-> key]
<1>1. new \in loops' /\ speak_task' = FreshId
  BY DEF start_voice
<1>2. new.id = FreshId
  OBVIOUS
<1> QED BY <1>1, <1>2

LEMMA RunsInit == VoiceInit => RunsInv
BY DEF VoiceInit, RunsInv, VoiceRuns

LEMMA RunsStep == VoiceIsOwned /\ RunsInv /\ [VoiceNext]_voiceVars => RunsInv'
<1> SUFFICES ASSUME VoiceIsOwned, RunsInv, [VoiceNext]_voiceVars PROVE RunsInv'
  OBVIOUS
<1> USE DEF gatewayVars, connVars, remoteVars, clientVars, lostVars, RunsInv, VoiceRuns
<1>0. ASSUME NEW outcome, NEW seq, LeaveAt(outcome, seq) PROVE RunsInv'
  BY <1>0, LeaveEnds
<1>1. CASE Connected \/ ConnectFails \/ Retry \/ Hello \/ TakeIdentify \/ TakeResume
  BY <1>1 DEF Connected, ConnectFails, Retry, Hello, TakeIdentify, TakeResume
<1>2. CASE Abort
  BY <1>2 DEF Abort, DropState
<1>3. CASE HelloAgain \/ Disconnect \/ SeeCancelled \/ DiscoveryFails
  BY <1>3, <1>0 DEF HelloAgain, Disconnect, SeeCancelled, DiscoveryFails, Leave
<1>4. CASE \E code \in Codes : Close(code)
  BY <1>4, <1>0 DEF Close, Leave
<1>5. CASE Malformed
  BY <1>5, <1>0 DEF Malformed
<1>6. CASE OtherMessage \/ Ready \/ Discovered \/ HeartbeatTimeout
  BY <1>6 DEF OtherMessage, Ready, Discovered, HeartbeatTimeout, Reading
<1>7. CASE SessionDescription
  <2>1. \E l \in loops' : l.id = speak_task'
    BY <1>7, StartSpeaks DEF SessionDescription
  <2> QED BY <1>7, <2>1 DEF SessionDescription, Reading
<1>8. CASE Resumed
  <2>1. CASE persistent.key = 0
    BY <1>8, <2>1, <1>0 DEF Resumed, Leave
  <2>2. CASE persistent.key # 0
    <3>1. \E l \in loops' : l.id = speak_task'
      <4>1. CASE speak_task # 0
        BY <1>8, <2>2, <4>1 DEF Resumed, Reading
      <4>2. CASE speak_task = 0
        BY <1>8, <2>2, <4>2, StartSpeaks DEF Resumed
      <4> QED BY <4>1, <4>2
    <3> QED BY <1>8, <2>2, <3>1 DEF Resumed, Reading
  <2> QED BY <2>1, <2>2
<1>9. CASE \E l \in loops : SpeakFails(l) \/ SpeakEnds(l)
  BY <1>9 DEF SpeakFails, SpeakEnds, VoiceIsOwned
<1>10. CASE UNCHANGED voiceVars
  BY <1>10 DEF voiceVars
<1> QED
  BY <1>1, <1>2, <1>3, <1>4, <1>5, <1>6, <1>7, <1>8, <1>9, <1>10 DEF VoiceNext

(* on_session_description, on_resumed and the failure of a loop: a         *)
(* connection that has voice has a loop that speaks, or is about to end.   *)
THEOREM VoiceRunsHolds == VoiceSpec => []VoiceRuns
<1>1. VoiceInit => VoiceIsOwned /\ RunsInv
  BY OwnedInit, RunsInit
<1>2. VoiceIsOwned /\ RunsInv /\ [VoiceNext]_voiceVars => (VoiceIsOwned /\ RunsInv)'
  BY OwnedStep, RunsStep
<1>3. RunsInv => VoiceRuns
  BY DEF RunsInv
<1> QED BY <1>1, <1>2, <1>3, PTL DEF VoiceSpec

-----------------------------------------------------------------------------
(* The close code that ends the gateway                                    *)

LEMMA ToldInit == VoiceInit => ToldInv
BY DEF VoiceInit, ToldInv, ShutdownIsTold

(* Only a close frame shuts the gateway down; any other way out leads on   *)
(* or is the last attempt.                                                 *)
LEMMA LeaveTold ==
  ASSUME ToldInv, pc # "ended", NEW outcome \in {"Reconnect", "Identify"}, NEW seq,
         LeaveAt(outcome, seq)
  PROVE  ToldInv'
BY DEF ToldInv, ShutdownIsTold, LeaveAt

LEMMA ToldStep == ToldInv /\ [VoiceNext]_voiceVars => ToldInv'
<1> SUFFICES ASSUME ToldInv, [VoiceNext]_voiceVars PROVE ToldInv'
  OBVIOUS
<1> USE DEF gatewayVars, connVars, remoteVars, clientVars, lostVars
<1>1. CASE Connected \/ Retry \/ Hello \/ TakeIdentify \/ TakeResume
  BY <1>1 DEF Connected, Retry, Hello, TakeIdentify, TakeResume, ToldInv, ShutdownIsTold
<1>2. CASE ConnectFails \/ Abort
  BY <1>2 DEF ConnectFails, Abort, ToldInv, ShutdownIsTold
<1>3. CASE HelloAgain \/ Disconnect \/ SeeCancelled \/ DiscoveryFails
  BY <1>3, LeaveTold DEF HelloAgain, Disconnect, SeeCancelled, DiscoveryFails, Leave
<1>4. ASSUME NEW code \in Codes, Close(code) PROVE ToldInv'
  <2>1. classify(code) = "Shutdown" => ~is_retryable(code)
    BY DEF classify, is_retryable, Retryable
  <2>2. CASE classify(code) = "Shutdown"
    BY <1>4, <2>1, <2>2 DEF Close, Leave, LeaveAt, ToldInv, ShutdownIsTold
  <2>3. CASE classify(code) # "Shutdown"
    BY <1>4, <2>3 DEF Close, Leave, LeaveAt, ToldInv, ShutdownIsTold
  <2> QED BY <2>2, <2>3
<1>5. CASE Malformed
  BY <1>5, LeaveTold DEF Malformed, Reading
<1>6. CASE OtherMessage \/ Ready \/ Discovered \/ HeartbeatTimeout
  BY <1>6 DEF OtherMessage, Ready, Discovered, HeartbeatTimeout, Reading, ToldInv, ShutdownIsTold
<1>7. CASE SessionDescription
  BY <1>7 DEF SessionDescription, ToldInv, ShutdownIsTold
<1>8. CASE Resumed
  <2>1. CASE persistent.key = 0
    BY <1>8, <2>1, LeaveTold DEF Resumed, Leave, Reading
  <2>2. CASE persistent.key # 0
    BY <1>8, <2>2 DEF Resumed, ToldInv, ShutdownIsTold
  <2> QED BY <2>1, <2>2
<1>9. CASE \E l \in loops : SpeakFails(l) \/ SpeakEnds(l)
  BY <1>9 DEF SpeakFails, SpeakEnds, ToldInv, ShutdownIsTold
<1>10. CASE UNCHANGED voiceVars
  BY <1>10 DEF voiceVars, ToldInv, ShutdownIsTold
<1> QED
  BY <1>1, <1>2, <1>3, <1>4, <1>5, <1>6, <1>7, <1>8, <1>9, <1>10 DEF VoiceNext

(* policy.rs, is_retryable and classify: a close code that ends the        *)
(* gateway is told to the client.                                          *)
THEOREM ShutdownIsToldHolds == VoiceSpec => []ShutdownIsTold
<1>1. VoiceInit => ToldInv
  BY ToldInit
<1>2. ToldInv /\ [VoiceNext]_voiceVars => ToldInv'
  BY ToldStep
<1>3. ToldInv => ShutdownIsTold
  BY DEF ToldInv
<1> QED BY <1>1, <1>2, <1>3, PTL DEF VoiceSpec

-----------------------------------------------------------------------------
(* Whose state it is                                                       *)

LEMMA SessionInit == VoiceInit => SessionInv
BY DEF VoiceInit, SessionInv, VoiceIsOwned, OwnSsrc, StateIsOfSession, NoState, Forgotten

(* A way out that resumes keeps the state, and any other forgets it.       *)
LEMMA LeaveSession ==
  ASSUME SessionInv, NEW outcome, NEW seq \in {seq_ack, server_session},
         link = "identifying" => seq = seq_ack,
         LeaveAt(outcome, seq), UNCHANGED <<link, server_session>>
  PROVE  SessionInv'
<1> USE DEF lostVars
<1>1. /\ loops' = {} /\ ssrc' = ssrc /\ pc' \in {"ended", "backoff"}
      /\ VoiceIsOwned'
  BY LeaveEnds, LeaveOwned DEF SessionInv
<1>2. OwnSsrc' /\ server_session' \in Nat /\ ssrc' \in Nat
  BY <1>1 DEF SessionInv, OwnSsrc
<1>3. CASE pc' = "backoff" /\ outcome # "Reconnect"
  <2>1. Forgotten' /\ ~dirty'
    BY <1>1, <1>3 DEF LeaveAt, Forgotten
  <2>2. persistent' \in [ssrc : Nat, key : Nat] /\ persistent'.ssrc = 0 /\ persistent'.key = 0
    BY <2>1 DEF Forgotten, NoState
  <2>3. StateIsOfSession'
    BY <1>1, <2>1, <2>2 DEF StateIsOfSession, Forgotten
  <2> QED BY <1>1, <1>2, <2>1, <2>2, <2>3 DEF SessionInv
<1>4. CASE pc' = "ended" \/ outcome = "Reconnect"
  <2>1. /\ UNCHANGED <<persistent, dirty>> /\ seq_ack' = seq
        /\ pc' = "backoff" => is_resume'
    BY <1>1, <1>4 DEF LeaveAt
  <2>2. StateIsOfSession'
    BY <1>1, <2>1 DEF SessionInv, StateIsOfSession
  <2>3. ~dirty' /\ link' = "identifying" => Forgotten'
    BY <2>1 DEF SessionInv, Forgotten
  <2> QED BY <1>1, <1>2, <2>1, <2>2, <2>3 DEF SessionInv
<1> QED BY <1>1, <1>3, <1>4

(* A loop that starts with a key and an ssrc is the only one.              *)
LEMMA StartAlone ==
  ASSUME VoiceIsOwned, NEW key, NEW as, start_voice(key, as)
  PROVE  \A l \in loops' : l.key = key /\ l.ssrc = as
<1> DEFINE new == [id |-> FreshId, ssrc |-> as, key |-> key]
<1>1. loops' = {new}
  BY DEF VoiceIsOwned, start_voice
<1>2. new.key = key /\ new.ssrc = as
  OBVIOUS
<1> QED BY <1>1, <1>2

LEMMA SessionStep == SessionInv /\ [VoiceNext]_voiceVars => SessionInv'
<1> SUFFICES ASSUME SessionInv, [VoiceNext]_voiceVars PROVE SessionInv'
  OBVIOUS
<1> USE DEF gatewayVars, connVars, remoteVars, clientVars, lostVars
<1>0. VoiceIsOwned'
  BY OwnedStep DEF SessionInv
<1>1. CASE Connected \/ Retry
  BY <1>0, <1>1 DEF Connected, Retry, SessionInv, OwnSsrc, StateIsOfSession, Forgotten
<1>2. CASE ConnectFails
  <2>1. ~dirty' /\ pc' = "backoff" => Forgotten'
    BY <1>2 DEF ConnectFails, Forgotten
  <2> QED BY <1>0, <1>2, <2>1
          DEF ConnectFails, SessionInv, OwnSsrc, StateIsOfSession, Forgotten
<1>3. CASE Hello
  <2>1. loops = {} /\ ssrc = 0
    BY <1>3 DEF Hello, SessionInv, VoiceIsOwned, OwnSsrc
  <2> QED BY <1>0, <1>3, <2>1 DEF Hello, SessionInv, OwnSsrc, StateIsOfSession, Forgotten
<1>4. CASE TakeIdentify
  <2>1. ssrc = 0 /\ pc \notin {"hello", "discover"}
    BY <1>4 DEF TakeIdentify, SessionInv, OwnSsrc
  <2>2. ~dirty => Forgotten /\ loops = {}
    BY <1>4 DEF TakeIdentify, SessionInv
  <2>3. ~dirty => seq_ack = 0 /\ persistent.ssrc = 0 /\ persistent.key = 0
    BY <2>2 DEF Forgotten, NoState
  <2>4. StateIsOfSession'
    BY <1>4, <2>2, <2>3 DEF TakeIdentify, StateIsOfSession
  <2>5. OwnSsrc'
    BY <1>4, <2>1 DEF TakeIdentify, OwnSsrc
  <2> QED BY <1>0, <1>4, <2>4, <2>5 DEF TakeIdentify, SessionInv, Forgotten
<1>5. CASE TakeResume
  BY <1>0, <1>5 DEF TakeResume, SessionInv, OwnSsrc, StateIsOfSession, Forgotten
<1>6. CASE HelloAgain \/ Disconnect \/ SeeCancelled \/ DiscoveryFails
  BY <1>6, LeaveSession DEF HelloAgain, Disconnect, SeeCancelled, DiscoveryFails, Leave
<1>7. CASE \E code \in Codes : Close(code)
  BY <1>7, LeaveSession DEF Close, Leave
<1>8. CASE Malformed
  BY <1>8, LeaveSession DEF Malformed, Served
<1>9. CASE Abort
  BY <1>0, <1>9 DEF Abort, DropState, SessionInv, OwnSsrc, StateIsOfSession, Forgotten
<1>10. CASE OtherMessage \/ HeartbeatTimeout
  BY <1>0, <1>10 DEF OtherMessage, HeartbeatTimeout, Reading, Served, SessionInv, OwnSsrc,
                     StateIsOfSession, Forgotten
<1>11. CASE Ready
  <2>1. /\ persistent' \in [ssrc : Nat, key : Nat]
        /\ persistent'.ssrc = server_session /\ persistent'.key = persistent.key
    BY <1>11 DEF Ready, SessionInv
  <2>2. StateIsOfSession'
    BY <1>11, <2>1 DEF Ready, SessionInv, StateIsOfSession
  <2> QED BY <1>0, <1>11, <2>1, <2>2 DEF Ready, SessionInv, OwnSsrc
<1>12. CASE Discovered
  BY <1>0, <1>12 DEF Discovered, SessionInv, OwnSsrc, StateIsOfSession, Forgotten
<1>13. CASE SessionDescription
  <2>1. ssrc \in {0, server_session} /\ link' # "identifying"
    BY <1>13 DEF SessionDescription, SessionInv, OwnSsrc
  <2>2. \A l \in loops' : l.key = server_session /\ l.ssrc = ssrc
    BY <1>13, StartAlone DEF SessionDescription, SessionInv
  <2>3. /\ persistent' \in [ssrc : Nat, key : Nat]
        /\ persistent'.ssrc = ssrc /\ persistent'.key = server_session
    BY <1>13 DEF SessionDescription, SessionInv
  <2>4. StateIsOfSession'
    BY <1>13, <2>1, <2>2, <2>3 DEF SessionDescription, StateIsOfSession
  <2>5. OwnSsrc'
    BY <1>13, <2>1 DEF SessionDescription, Reading, OwnSsrc, SessionInv
  <2> QED BY <1>0, <1>13, <2>1, <2>3, <2>4, <2>5 DEF SessionDescription, Reading, SessionInv
<1>14. CASE Resumed
  <2>1. CASE persistent.key = 0
    BY <1>14, <2>1, LeaveSession DEF Resumed, Leave
  <2>2. CASE persistent.key # 0
    <3>1. /\ pc' = "loop" /\ link' = "resumed" /\ ssrc' = persistent.ssrc
          /\ UNCHANGED <<seq_ack, persistent, is_resume, server_session, dirty>>
      BY <1>14, <2>2 DEF Resumed, Reading
    <3>2. ~dirty => persistent.key = server_session /\ persistent.ssrc \in {0, server_session}
      BY <2>2 DEF SessionInv, StateIsOfSession
    <3>3. CASE speak_task # 0
      BY <1>0, <1>14, <2>2, <3>1, <3>3 DEF Resumed, SessionInv, StateIsOfSession, OwnSsrc
    <3>4. CASE speak_task = 0
      <4>1. \A l \in loops' : l.key = persistent.key /\ l.ssrc = persistent.ssrc
        BY <1>14, <2>2, <3>4, StartAlone DEF Resumed, SessionInv
      <4>2. StateIsOfSession'
        BY <3>1, <3>2, <4>1 DEF SessionInv, StateIsOfSession
      <4> QED BY <1>0, <3>1, <4>2 DEF SessionInv, OwnSsrc
    <3> QED BY <3>3, <3>4
  <2> QED BY <2>1, <2>2
<1>15. CASE \E l \in loops : SpeakFails(l) \/ SpeakEnds(l)
  BY <1>0, <1>15 DEF SpeakFails, SpeakEnds, SessionInv, OwnSsrc, StateIsOfSession, Forgotten
<1>16. CASE UNCHANGED voiceVars
  BY <1>0, <1>16 DEF voiceVars, SessionInv, OwnSsrc, StateIsOfSession, Forgotten
<1> QED
  BY <1>1, <1>2, <1>3, <1>4, <1>5, <1>6, <1>7, <1>8, <1>9, <1>10, <1>11, <1>12, <1>13, <1>14,
     <1>15, <1>16 DEF VoiceNext

(* mod.rs, run: what outlives a connection belongs to the session that the *)
(* server is on, unless a connect failed outright since.                   *)
THEOREM StateIsOfSessionHolds == VoiceSpec => []StateIsOfSession
<1>1. VoiceInit => SessionInv
  BY SessionInit
<1>2. SessionInv /\ [VoiceNext]_voiceVars => SessionInv'
  BY SessionStep
<1>3. SessionInv => StateIsOfSession
  BY DEF SessionInv
<1> QED BY <1>1, <1>2, <1>3, PTL DEF VoiceSpec

-----------------------------------------------------------------------------
(***************************************************************************)
(* Proofs about DaveHandler, for any users, transitions, limit and number  *)
(* of setups.  A session is always the one set up last, and whatever is    *)
(* kept was received since then: Fresh says so, and it is why nothing can  *)
(* cross over, whatever order the server's messages come in.               *)
(***************************************************************************)

(* What is kept was received in the setup under way.                       *)
OfThis(kept, setup) == \A i \in DOMAIN kept : kept[i].of = setup

Proposal == [of : Nat]
Answerable == [tid : Transitions, of : Nat]

Fresh ==
  /\ setups \in Nat /\ session \in {None, setups}
  /\ pending_proposals \in Seq(Proposal) /\ OfThis(pending_proposals, setups)
  /\ pending_handshake \in Seq(Answerable) /\ OfThis(pending_handshake, setups)

GroupInv == Fresh /\ KeptForItsSession

UsersInv == Self \in recognized_users /\ ConnectedAreRecognized

-----------------------------------------------------------------------------
LEMMA NothingKept ==
  ASSUME NEW S, NEW n \in Nat
  PROVE  <<>> \in Seq(S) /\ OfThis(<<>>, n)
<1>1. DOMAIN <<>> = {}
  OBVIOUS
<1> QED BY <1>1 DEF OfThis

(* What is kept for the setup under way is of that setup.                  *)
LEMMA KeepFresh ==
  ASSUME NEW S, NEW kept \in Seq(S), NEW message \in S, NEW n \in Nat,
         OfThis(kept, n), message.of = n
  PROVE  Keep(kept, message) \in Seq(S) /\ OfThis(Keep(kept, message), n)
<1>1. CASE Len(kept) < MaxPending
  <2> DEFINE longer == Append(kept, message)
  <2>1. longer \in Seq(S) /\ DOMAIN longer = 1 .. Len(kept) + 1
    OBVIOUS
  <2>2. ASSUME NEW i \in DOMAIN longer PROVE longer[i].of = n
    <3>1. CASE i = Len(kept) + 1
      <4>1. longer[i] = message
        BY <3>1
      <4> QED BY <4>1
    <3>2. CASE i \in 1 .. Len(kept)
      <4>1. longer[i] = kept[i] /\ i \in DOMAIN kept
        BY <3>2
      <4> QED BY <4>1 DEF OfThis
    <3> QED BY <2>1, <2>2, <3>1, <3>2
  <2> QED BY <1>1, <2>1, <2>2 DEF Keep, OfThis
<1>2. CASE ~(Len(kept) < MaxPending)
  BY <1>2 DEF Keep
<1> QED BY <1>1, <1>2

(* Whatever comes of setting a session up: the new one has nothing kept,   *)
(* and one that is refused leaves the old one as it was.                   *)
LEMMA SetUpInv ==
  ASSUME GroupInv, NEW version, crossed' = crossed,
         \/ \E sender \in BOOLEAN : SetUp(version, sender)
         \/ SetUpHalf(version)
         \/ \E left : SetUpRefused(left)
  PROVE  GroupInv'
<1>1. CASE (\E sender \in BOOLEAN : SetUp(version, sender)) \/ SetUpHalf(version)
  <2>1. /\ setups' = setups + 1 /\ session' = setups + 1
        /\ pending_proposals' = <<>> /\ pending_handshake' = <<>>
    BY <1>1 DEF SetUp, SetUpHalf
  <2>2. Fresh'
    BY <2>1, NothingKept DEF GroupInv, Fresh
  <2>3. KeptForItsSession'
    BY <2>1 DEF GroupInv, Fresh, KeptForItsSession, None
  <2> QED BY <2>2, <2>3 DEF GroupInv
<1>2. CASE \E left : SetUpRefused(left)
  BY <1>2 DEF SetUpRefused, GroupInv, Fresh, KeptForItsSession
<1> QED BY <1>1, <1>2

LEMMA ResetInv ==
  ASSUME GroupInv, NEW version, ResetTo(version), UNCHANGED <<setups, crossed>>
  PROVE  GroupInv'
<1>1. Fresh'
  BY NothingKept DEF ResetTo, GroupInv, Fresh
<1>2. KeptForItsSession'
  BY DEF ResetTo, GroupInv, KeptForItsSession
<1> QED BY <1>1, <1>2 DEF GroupInv

LEMMA RestartInv ==
  ASSUME GroupInv, Restart, crossed' = crossed
  PROVE  GroupInv'
<1>1. setups' \in Nat /\ session' \in {None, setups'}
  BY DEF Restart, GroupInv, Fresh
<1>2. Fresh'
  BY <1>1, NothingKept DEF Restart, Fresh
<1>3. KeptForItsSession'
  BY DEF Restart, GroupInv, KeptForItsSession
<1> QED BY <1>2, <1>3 DEF GroupInv

-----------------------------------------------------------------------------
LEMMA GroupInit == DaveInit => GroupInv
<1> SUFFICES ASSUME DaveInit PROVE GroupInv
  OBVIOUS
<1>1. Fresh
  BY NothingKept DEF DaveInit, Fresh
<1> QED BY <1>1 DEF DaveInit, GroupInv, KeptForItsSession

LEMMA GroupStep == GroupInv /\ [DaveNext]_daveVars => GroupInv'
<1> SUFFICES ASSUME GroupInv, [DaveNext]_daveVars PROVE GroupInv'
  OBVIOUS
<1>1. CASE Connect \/ \E uid \in Users \ {Self} : add_users({uid}) \/ remove_user(uid)
  <2>1. UNCHANGED <<groupVars, setupVars>>
    BY <1>1 DEF Connect, add_users, remove_user
  <2> QED BY <2>1 DEF groupVars, setupVars, GroupInv, Fresh, KeptForItsSession
<1>2. ASSUME NEW version \in Versions, Describe(version) PROVE GroupInv'
  <2>1. crossed' = crossed
    BY <1>2 DEF Describe
  <2>2. CASE version = 0
    BY <1>2, <2>1, <2>2, ResetInv DEF Describe
  <2>3. CASE version # 0
    BY <1>2, <2>1, <2>3, SetUpInv DEF Describe
  <2> QED BY <2>2, <2>3
<1>3. ASSUME NEW version \in Versions, PrepareEpoch(version) PROVE GroupInv'
  <2>1. crossed' = crossed
    BY <1>3 DEF PrepareEpoch
  <2>2. CASE version = 0
    BY <1>3, <2>1, <2>2, ResetInv DEF PrepareEpoch
  <2>3. CASE version # 0
    BY <1>3, <2>1, <2>3, SetUpInv DEF PrepareEpoch
  <2> QED BY <2>2, <2>3
<1>4. CASE InvalidCommitWelcome
  BY <1>4, RestartInv DEF InvalidCommitWelcome
<1>5. CASE \E tid \in Transitions, version \in Versions : PrepareTransition(tid, version)
  BY <1>5 DEF PrepareTransition, setupVars, GroupInv, Fresh, KeptForItsSession
<1>6. CASE \E tid \in Transitions : ExecuteTransition(tid)
  BY <1>6 DEF ExecuteTransition, setupVars, GroupInv, Fresh, KeptForItsSession
<1>7. ASSUME NEW tid \in Transitions, Handshake(tid) PROVE GroupInv'
  <2>1. crossed' = crossed
    BY <1>7 DEF Handshake
  <2>2. CASE external_sender_set /\ Restart
    BY <2>1, <2>2, RestartInv
  <2>3. CASE ~external_sender_set /\ pending_handshake' = Keep(pending_handshake, [tid |-> tid, of |-> setups])
             /\ UNCHANGED <<session, external_sender_set, pending_proposals, setups>>
    <3>1. [tid |-> tid, of |-> setups] \in Answerable
      BY DEF GroupInv, Fresh, Answerable
    <3>2. Fresh'
      BY <2>3, <3>1, KeepFresh DEF GroupInv, Fresh
    <3> QED BY <2>1, <2>3, <3>2 DEF GroupInv, KeptForItsSession
  <2>4. CASE UNCHANGED <<session, external_sender_set, pending_proposals, pending_handshake, setups>>
    BY <2>1, <2>4 DEF GroupInv, Fresh, KeptForItsSession
  <2> QED BY <1>7, <2>2, <2>3, <2>4 DEF Handshake
<1>8. CASE ExternalSender
  <2>1. ~Crossing(pending_proposals) /\ ~Crossing(pending_handshake)
    BY <1>8 DEF ExternalSender, GroupInv, Fresh, Crossing, OfThis
  <2>2. ~crossed'
    BY <1>8, <2>1, Zenon DEF ExternalSender, GroupInv, KeptForItsSession
  <2>3. /\ UNCHANGED <<setups, session>> /\ session # None
        /\ pending_proposals' = <<>> /\ pending_handshake' = <<>>
    BY <1>8 DEF ExternalSender
  <2>4. Fresh'
    BY <2>3, NothingKept DEF GroupInv, Fresh
  <2> QED BY <2>2, <2>3, <2>4 DEF GroupInv, KeptForItsSession
<1>9. CASE Proposals
  <2>1. crossed' = crossed
    BY <1>9 DEF Proposals
  <2>2. CASE external_sender_set /\ Restart
    BY <2>1, <2>2, RestartInv
  <2>3. CASE ~external_sender_set /\ pending_proposals' = Keep(pending_proposals, [of |-> setups])
             /\ UNCHANGED <<session, external_sender_set, pending_handshake, setups>>
    <3>1. [of |-> setups] \in Proposal
      BY DEF GroupInv, Fresh, Proposal
    <3>2. Fresh'
      BY <2>3, <3>1, KeepFresh DEF GroupInv, Fresh
    <3> QED BY <2>1, <2>3, <3>2 DEF GroupInv, KeptForItsSession
  <2> QED BY <1>9, <2>2, <2>3 DEF Proposals
<1>10. CASE UNCHANGED daveVars
  BY <1>10 DEF daveVars, groupVars, setupVars, GroupInv, Fresh, KeptForItsSession
<1> QED BY <1>1, <1>2, <1>3, <1>4, <1>5, <1>6, <1>7, <1>8, <1>9, <1>10 DEF DaveNext

(* encryption.rs: what is kept is kept only for an external sender that is *)
(* awaited, and is never given to a session that was set up after it came, *)
(* in whatever order epochs, transitions, failures and messages come.      *)
THEOREM KeptForItsSessionHolds == DaveSpec => []KeptForItsSession
<1>1. GroupInv => KeptForItsSession
  BY DEF GroupInv
<1> QED BY GroupInit, GroupStep, <1>1, PTL DEF DaveSpec

-----------------------------------------------------------------------------
LEMMA UsersInit == DaveInit => UsersInv
BY DEF DaveInit, UsersInv, ConnectedAreRecognized

LEMMA UsersStep == UsersInv /\ [DaveNext]_daveVars => UsersInv'
<1> SUFFICES ASSUME UsersInv, [DaveNext]_daveVars PROVE UsersInv'
  OBVIOUS
<1> USE DEF UsersInv, ConnectedAreRecognized
<1>1. CASE Connect
  BY <1>1 DEF Connect
<1>2. ASSUME NEW uid \in Users \ {Self}, add_users({uid}) PROVE UsersInv'
  BY <1>2 DEF add_users
<1>3. ASSUME NEW uid \in Users \ {Self}, remove_user(uid) PROVE UsersInv'
  <2>1. CASE uid \in recognized_users
    BY <1>3, <2>1 DEF remove_user
  <2>2. CASE uid \notin recognized_users
    BY <1>3, <2>2 DEF remove_user
  <2> QED BY <2>1, <2>2
<1>4. ASSUME UNCHANGED userVars PROVE UsersInv'
  BY <1>4 DEF userVars
<1>5. CASE \/ \E version \in Versions : Describe(version) \/ PrepareEpoch(version)
           \/ InvalidCommitWelcome
           \/ \E tid \in Transitions, version \in Versions : PrepareTransition(tid, version)
           \/ \E tid \in Transitions : ExecuteTransition(tid) \/ Handshake(tid)
           \/ ExternalSender \/ Proposals \/ UNCHANGED daveVars
  <2>1. UNCHANGED userVars
    BY <1>5 DEF Describe, PrepareEpoch, InvalidCommitWelcome, PrepareTransition,
       ExecuteTransition, Handshake, ExternalSender, Proposals, daveVars
  <2> QED BY <2>1, <1>4
<1> QED BY <1>1, <1>2, <1>3, <1>5 DEF DaveNext

(* encryption.rs and handler.rs: the members the proposals are checked     *)
(* against include everyone the current connection knows, however often    *)
(* the gateway has reconnected, and the cached list of them is up to date. *)
THEOREM ConnectedAreRecognizedHolds == DaveSpec => []ConnectedAreRecognized
<1>1. UsersInv => ConnectedAreRecognized
  BY DEF UsersInv
<1> QED BY UsersInit, UsersStep, <1>1, PTL DEF DaveSpec

-----------------------------------------------------------------------------
(***************************************************************************)
(* Proofs about SpeakLoop, for any number of silent frames, rounds and     *)
(* announcements.  A loop that speaks owes the receivers a rest: what it   *)
(* still owes, what it has sent since the last audio and what it is about  *)
(* to send are together MAX_SILENCE_FRAMES at least; Owing says so at      *)
(* every place the loop may be aborted at.                                 *)
(***************************************************************************)

Frames == {Silence, Audio, Echo}

Quiescent ==
  /\ active_silence \in 0 .. MaxSilence /\ quiet \in 0 .. MaxSilence
  /\ ~is_speaking => active_silence = 0 /\ at # "filter"

RestFrames == {<<Silence>>, <<Echo>>, <<Silence, Silence>>, <<Silence, Echo>>}
AudioFrames == {<<Audio>>, <<Silence, Audio>>}

Owing ==
  is_speaking /\ ~stretched =>
    /\ at \in {"tick", "look", "ended"} => active_silence + quiet >= MaxSilence
    /\ at = "filter" => IF has_input THEN active_silence = MaxSilence
                                     ELSE active_silence + quiet + 1 >= MaxSilence
    /\ at = "send" =>
         \/ outgoing = <<>> /\ active_silence + quiet >= MaxSilence
         \/ outgoing \in RestFrames /\ active_silence + quiet + Len(outgoing) >= MaxSilence
         \/ outgoing \in AudioFrames /\ active_silence = MaxSilence

Saved == at = "ended" => rtp_state \in {NoRtp, sequence}

Told == Last(<<announced>> \o speaking_rx)
TellInv == speaking_rx \in Seq(BOOLEAN) /\ SpeakingIsTold

-----------------------------------------------------------------------------
(* Announcements                                                           *)

LEMMA ToldAppend ==
  ASSUME NEW a, NEW s \in Seq(BOOLEAN), NEW b \in BOOLEAN
  PROVE  Append(s, b) \in Seq(BOOLEAN) /\ Last(<<a>> \o Append(s, b)) = b
<1> DEFINE t == Append(s, b)
<1>1. t \in Seq(BOOLEAN) /\ Len(t) = Len(s) + 1 /\ t[Len(s) + 1] = b
  OBVIOUS
<1> HIDE DEF t
<1>2. Len(<<a>> \o t) = 1 + Len(t)
  BY <1>1
<1>3. (<<a>> \o t)[1 + Len(t)] = t[Len(t)]
  BY <1>1
<1> QED BY <1>1, <1>2, <1>3 DEF Last, t

LEMMA ToldTail ==
  ASSUME NEW a, NEW s \in Seq(BOOLEAN), s # <<>>
  PROVE  Tail(s) \in Seq(BOOLEAN) /\ Last(<<Head(s)>> \o Tail(s)) = Last(<<a>> \o s)
<1> DEFINE n == Len(s)
<1>1. n \in Nat \ {0} /\ Tail(s) \in Seq(BOOLEAN) /\ Len(Tail(s)) = n - 1
  OBVIOUS
<1>2. Len(<<Head(s)>> \o Tail(s)) = n /\ Len(<<a>> \o s) = n + 1
  BY <1>1
<1>3. (<<a>> \o s)[n + 1] = s[n]
  BY <1>1
<1>4. (<<Head(s)>> \o Tail(s))[n] = s[n]
  <2>1. CASE n = 1
    BY <1>1, <2>1
  <2>2. CASE n > 1
    <3>1. (<<Head(s)>> \o Tail(s))[n] = Tail(s)[n - 1]
      BY <1>1, <2>2
    <3>2. Tail(s)[n - 1] = s[n]
      BY <1>1, <2>2
    <3> QED BY <3>1, <3>2
  <2> QED BY <1>1, <2>1, <2>2
<1> QED BY <1>1, <1>2, <1>3, <1>4 DEF Last

(* A change is announced, and what was announced last stays the last.      *)
LEMMA SetSpeakingTells ==
  ASSUME TellInv, NEW speaking \in BOOLEAN, SetSpeaking(speaking)
  PROVE  TellInv'
<1>1. is_speaking' = speaking /\ announced' = announced
  BY DEF SetSpeaking
<1>2. CASE speaking = is_speaking
  <2>1. speaking_rx' = speaking_rx
    BY <1>2 DEF SetSpeaking
  <2> QED BY <1>1, <1>2, <2>1, Zenon DEF TellInv, SpeakingIsTold
<1>3. CASE speaking # is_speaking
  <2>1. speaking_rx' = Append(speaking_rx, speaking)
    BY <1>3 DEF SetSpeaking
  <2>2. speaking_rx' \in Seq(BOOLEAN) /\ Last(<<announced'>> \o speaking_rx') = speaking
    BY <2>1, ToldAppend DEF TellInv
  <2> QED BY <1>1, <2>2, Zenon DEF TellInv, SpeakingIsTold
<1> QED BY <1>2, <1>3

LEMMA TellInit == SpeakInit => TellInv
<1> SUFFICES ASSUME SpeakInit PROVE TellInv
  OBVIOUS
<1>1. speaking_rx \in Seq(BOOLEAN) /\ ~is_speaking
  BY DEF SpeakInit
<1> QED BY <1>1 DEF TellInv, SpeakingIsTold

LEMMA TellStep == TellInv /\ [SpeakNext]_speakVars => TellInv'
<1> SUFFICES ASSUME TellInv, [SpeakNext]_speakVars PROVE TellInv'
  OBVIOUS
<1>1. ASSUME NEW speaking \in BOOLEAN, SetSpeaking(speaking) PROVE TellInv'
  BY <1>1, SetSpeakingTells
<1>2. CASE LookTimescale \/ LookOpus \/ FilterSends
  BY <1>1, <1>2, Zenon DEF LookTimescale, LookOpus, FilterSends
<1>3. ASSUME NEW b \in BOOLEAN, LookPcm(b) \/ LookQuiet(b) PROVE TellInv'
  BY <1>1, <1>3, Zenon DEF LookPcm, LookQuiet
<1>4. ASSUME UNCHANGED <<is_speaking, speaking_rx, announced>> PROVE TellInv'
  BY <1>4, Zenon DEF TellInv, SpeakingIsTold
<1>5. CASE \/ BeginTick \/ EndByItself \/ (\E b \in BOOLEAN : FilterTakes(b))
           \/ Transmit \/ EndTick \/ SendFails \/ Cancel \/ Forget \/ UNCHANGED speakVars
  <2>1. UNCHANGED <<is_speaking, speaking_rx, announced>>
    BY <1>5 DEF BeginTick, EndByItself, FilterTakes, Transmit, EndTick, SendFails, Cancel,
       Forget, speakVars, speakerVars, tellVars
  <2> QED BY <2>1, <1>4
<1>6. CASE PassOn
  <2>1. /\ speaking_rx # <<>> /\ is_speaking' = is_speaking
        /\ announced' = Head(speaking_rx) /\ speaking_rx' = Tail(speaking_rx)
    BY <1>6 DEF PassOn, speakerVars
  <2>2. /\ speaking_rx' \in Seq(BOOLEAN)
        /\ Last(<<announced'>> \o speaking_rx') = Last(<<announced>> \o speaking_rx)
    BY <2>1, ToldTail DEF TellInv
  <2> QED BY <2>1, <2>2, Zenon DEF TellInv, SpeakingIsTold
<1>7. CASE StartVoice
  <2>1. is_speaking' = FALSE /\ speaking_rx' \in {<<>>, speaking_rx}
    BY <1>7, Zenon DEF StartVoice
  <2>2. <<>> \in Seq(BOOLEAN)
    OBVIOUS
  <2>3. speaking_rx' \in Seq(BOOLEAN)
    BY <2>1, <2>2, Zenon DEF TellInv
  <2> QED BY <2>1, <2>3, Zenon DEF TellInv, SpeakingIsTold
<1> QED BY <1>2, <1>3, <1>5, <1>6, <1>7 DEF SpeakNext

(* voice.rs and mod.rs: while a loop speaks, the last thing the voice      *)
(* server was told or is going to be told is that it speaks, wherever the  *)
(* loop before it was aborted.                                             *)
THEOREM SpeakingIsToldHolds == SpeakSpec => []SpeakingIsTold
<1>1. TellInv => SpeakingIsTold
  BY DEF TellInv
<1> QED BY TellInit, TellStep, <1>1, PTL DEF SpeakSpec

-----------------------------------------------------------------------------
(* Silence                                                                 *)

QuietInv == Quiescent /\ Owing /\ Saved

(* The frame of a tick: the audio or the silence that comes instead of it, *)
(* after the silence that was held off.                                    *)
LEMMA SendRawFrames ==
  ASSUME NEW frame \in Frames, SendRaw(frame)
  PROVE  /\ at' = "send"
         /\ outgoing' \in (IF frame = Audio THEN AudioFrames ELSE RestFrames)
         /\ frame # Audio => Len(outgoing') >= 1
BY DEF SendRaw, Frames, AudioFrames, RestFrames, Audio, Silence, Echo

LEMMA QuietInit == SpeakAssumption /\ SpeakInit => QuietInv
BY DEF SpeakAssumption, SpeakInit, QuietInv, Quiescent, Owing, Saved

LEMMA QuietStep == SpeakAssumption /\ QuietInv /\ [SpeakNext]_speakVars => QuietInv'
<1> SUFFICES ASSUME SpeakAssumption, QuietInv, [SpeakNext]_speakVars PROVE QuietInv'
  OBVIOUS
<1>0. MaxSilence \in Nat \ {0}
  BY DEF SpeakAssumption
<1> USE <1>0
<1>1. CASE BeginTick \/ EndByItself
  BY <1>1 DEF BeginTick, EndByItself, speakerVars, quietVars, rtpVars, QuietInv, Quiescent,
     Owing, Saved
<1>2. CASE LookTimescale
  <2>1. /\ is_speaking' /\ stretched' /\ at' = "send"
        /\ UNCHANGED <<active_silence, quiet>>
    BY <1>2 DEF LookTimescale, SetSpeaking, SendPcm, SendRaw
  <2> QED BY <2>1 DEF QuietInv, Quiescent, Owing, Saved
<1>3. CASE LookOpus
  <2>1. is_speaking' /\ active_silence' = MaxSilence /\ quiet' = quiet
    BY <1>3 DEF LookOpus, SetSpeaking, quietVars
  <2>2. at' = "send" /\ outgoing' \in AudioFrames
    BY <1>3, SendRawFrames DEF LookOpus, Frames
  <2> QED BY <2>1, <2>2 DEF QuietInv, Quiescent, Owing, Saved
<1>4. CASE LookPcm(TRUE)
  BY <1>4 DEF LookPcm, SetSpeaking, quietVars, QuietInv, Quiescent, Owing, Saved
<1>5. CASE LookPcm(FALSE)
  <2>1. /\ at = "look" /\ at' = "filter" /\ active_silence > 0
        /\ active_silence' = active_silence - 1 /\ ~has_input' /\ is_speaking'
        /\ quiet' = quiet /\ stretched' = stretched
    BY <1>5 DEF LookPcm, SetSpeaking, quietVars
  <2> QED BY <2>1 DEF QuietInv, Quiescent, Owing, Saved
<1>6. ASSUME NEW b \in BOOLEAN, LookQuiet(b) PROVE QuietInv'
  <2>1. /\ at' = "send" /\ ~is_speaking' /\ active_silence' = 0 /\ active_silence = 0
        /\ quiet' = quiet
    BY <1>6 DEF LookQuiet, SetSpeaking, quietVars
  <2> QED BY <2>1 DEF QuietInv, Quiescent, Owing, Saved
<1>7. CASE FilterSends
  <2>1. /\ at = "filter" /\ is_speaking' /\ UNCHANGED <<active_silence, quiet, stretched, has_input>>
    BY <1>7 DEF FilterSends, SetSpeaking, quietVars
  <2>2. \E frame \in Frames : SendRaw(frame) /\ (frame = Audio => has_input)
    BY <1>7 DEF FilterSends, SendPcm, Frames, Audio, Silence, Echo
  <2> QED BY <2>1, <2>2, SendRawFrames DEF QuietInv, Quiescent, Owing, Saved, Frames
<1>8. ASSUME NEW b \in BOOLEAN, FilterTakes(b) PROVE QuietInv'
  <2>1. /\ stretched' /\ at' \in {"look", "send"}
        /\ UNCHANGED <<active_silence, quiet, is_speaking>>
    BY <1>8 DEF FilterTakes, speakerVars
  <2> QED BY <2>1 DEF QuietInv, Quiescent, Owing, Saved
<1>9. CASE Transmit
  <2>1. /\ at = "send" /\ at' = "send" /\ outgoing # <<>> /\ outgoing' = Tail(outgoing)
        /\ quiet' = IF Head(outgoing) = Audio THEN 0 ELSE IF quiet < MaxSilence THEN quiet + 1 ELSE quiet
        /\ UNCHANGED <<active_silence, is_speaking, stretched>>
    BY <1>9 DEF Transmit, speakerVars
  <2>2. Quiescent' /\ Saved'
    BY <2>1 DEF QuietInv, Quiescent, Saved
  <2>3. CASE outgoing \in AudioFrames
    <3>1. Tail(<<Audio>>) = <<>> /\ Tail(<<Silence, Audio>>) = <<Audio>>
      OBVIOUS
    <3>2. outgoing' \in AudioFrames \cup {<<>>}
      BY <2>1, <2>3, <3>1 DEF AudioFrames
    <3>3. outgoing \notin RestFrames
      BY <2>3 DEF AudioFrames, RestFrames, Audio, Silence, Echo
    <3>4. is_speaking' /\ ~stretched' => active_silence' = MaxSilence
      BY <2>1, <2>3, <3>3 DEF QuietInv, Owing
    <3>5. quiet' \in 0 .. MaxSilence
      BY <2>2, Zenon DEF Quiescent
    <3>6. active_silence' + quiet' >= MaxSilence \/ active_silence' # MaxSilence
      BY <3>5
    <3> QED BY <2>1, <2>2, <3>2, <3>4, <3>6 DEF QuietInv, Owing
  <2>4. CASE outgoing \in RestFrames
    <3>1. Head(outgoing) # Audio
      BY <2>4 DEF RestFrames, Audio, Silence, Echo
    <3>2. outgoing \notin AudioFrames
      BY <2>4 DEF AudioFrames, RestFrames, Audio, Silence, Echo
    <3>3. CASE Len(outgoing) = 1
      <4>1. PICK frame \in {Silence, Echo} : outgoing = <<frame>>
        BY <2>4, <3>3 DEF RestFrames
      <4>2. outgoing' = <<>>
        BY <2>1, <4>1
      <4> QED BY <2>1, <2>2, <2>4, <3>1, <3>2, <3>3, <4>2 DEF QuietInv, Quiescent, Owing
    <3>4. CASE Len(outgoing) # 1
      <4>1. PICK frame \in {Silence, Echo} : outgoing = <<Silence, frame>>
        BY <2>4, <3>4 DEF RestFrames
      <4>2. outgoing' = <<frame>> /\ Len(outgoing) = 2 /\ Len(outgoing') = 1
        BY <2>1, <4>1
      <4>3. outgoing' \in RestFrames
        BY <4>1, <4>2 DEF RestFrames
      <4> QED BY <2>1, <2>2, <2>4, <3>1, <3>2, <4>2, <4>3 DEF QuietInv, Quiescent, Owing
    <3> QED BY <3>3, <3>4
  <2>5. CASE outgoing \notin AudioFrames \cup RestFrames
    BY <2>1, <2>2, <2>5 DEF QuietInv, Owing
  <2> QED BY <2>3, <2>4, <2>5
<1>10. CASE EndTick
  BY <1>10 DEF EndTick, speakerVars, quietVars, QuietInv, Quiescent, Owing, Saved,
     RestFrames, AudioFrames
<1>11. CASE SendFails
  BY <1>11 DEF SendFails, speakerVars, quietVars, QuietInv, Quiescent, Owing, Saved
<1>12. CASE PassOn \/ Cancel \/ Forget \/ UNCHANGED speakVars
  BY <1>12 DEF PassOn, Cancel, Forget, speakVars, speakerVars, tickVars, quietVars, rtpVars, QuietInv,
     Quiescent, Owing, Saved
<1>13. CASE StartVoice
  BY <1>13 DEF StartVoice, NewLoop, QuietInv, Quiescent, Owing, Saved
<1> QED BY <1>1, <1>2, <1>3, <1>4, <1>5, <1>6, <1>7, <1>8, <1>9, <1>10, <1>11, <1>12, <1>13 DEF SpeakNext

LEMMA QuietAct ==
  SpeakAssumption /\ QuietInv /\ [SpeakNext]_speakVars =>
    [/\ is_speaking /\ ~is_speaking' /\ at' = "send" /\ ~stretched => quiet = MaxSilence
     /\ at = "ended" /\ at' = "tick" /\ rtp_state # NoRtp => sequence' = sequence]_speakVars
<1> SUFFICES ASSUME SpeakAssumption, QuietInv, SpeakNext
             PROVE  /\ is_speaking /\ ~is_speaking' /\ at' = "send" /\ ~stretched => quiet = MaxSilence
                    /\ at = "ended" /\ at' = "tick" /\ rtp_state # NoRtp => sequence' = sequence
  OBVIOUS
<1>0. MaxSilence \in Nat \ {0}
  BY DEF SpeakAssumption
<1>1. ASSUME is_speaking, ~is_speaking', at' = "send", ~stretched PROVE quiet = MaxSilence
  <2>1. \E b \in BOOLEAN : LookQuiet(b)
    BY <1>1 DEF SpeakNext, BeginTick, EndByItself, LookTimescale, LookOpus, LookPcm, FilterTakes,
       FilterSends, Transmit, EndTick, SendFails, PassOn, Cancel, Forget, StartVoice, NewLoop,
       SetSpeaking, speakerVars
  <2>2. at = "look" /\ active_silence = 0
    BY <2>1 DEF LookQuiet
  <2> QED BY <1>0, <1>1, <2>2 DEF QuietInv, Quiescent, Owing
<1>2. ASSUME at = "ended", at' = "tick", rtp_state # NoRtp PROVE sequence' = sequence
  <2>1. StartVoice
    BY <1>2 DEF SpeakNext, BeginTick, EndByItself, LookTimescale, LookOpus, LookPcm, LookQuiet,
       FilterTakes, FilterSends, Transmit, EndTick, SendFails, PassOn, Cancel, Forget
  <2> QED BY <1>2, <2>1 DEF StartVoice, NewLoop, QuietInv, Saved
<1> QED BY <1>1, <1>2

(* voice.rs: a loop falls silent only after MAX_SILENCE_FRAMES packets in  *)
(* a row without input, however input, locks, filters and encoder errors   *)
(* follow one another, and a loop that ended by itself is continued by the *)
(* next with its RTP sequence number.                                      *)
THEOREM RestBeforeQuietHolds ==
  ASSUME SpeakAssumption PROVE SpeakSpec => RestBeforeQuiet
<1>1. SpeakInit => QuietInv
  BY QuietInit
<1>2. QuietInv /\ [SpeakNext]_speakVars => QuietInv'
  BY QuietStep
<1>3. QuietInv /\ [SpeakNext]_speakVars =>
        [/\ is_speaking /\ ~is_speaking' /\ at' = "send" /\ ~stretched => quiet = MaxSilence
         /\ at = "ended" /\ at' = "tick" /\ rtp_state # NoRtp => sequence' = sequence]_speakVars
  BY QuietAct
<1> QED BY <1>1, <1>2, <1>3, PTL DEF SpeakSpec, RestBeforeQuiet
=============================================================================
