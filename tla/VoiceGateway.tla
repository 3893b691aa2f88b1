---------------------------- MODULE VoiceGateway ----------------------------
(***************************************************************************)
(* One voice gateway task: VoiceGateway::run, which connects to the voice  *)
(* server again and again, the connection's handshake (identify or         *)
(* resume), the state a connection keeps (SessionState) and the state that *)
(* survives it (seq_ack, PersistentSessionState, the backoff), the task    *)
(* that speaks, and the close events the client is told of.                *)
(*                                                                         *)
(* The voice server is outside the repository.  It numbers the sessions it *)
(* opens; addresses, keys, ssrcs and sequence numbers are represented by   *)
(* the number of the session they belong to, and 0 stands for none.  The   *)
(* heartbeat is modelled on its own in VoiceHeartbeat: all that reaches    *)
(* this module is that it may cancel the connection.                       *)
(***************************************************************************)
EXTENDS Naturals, FiniteSets

CONSTANTS
  Codes,         \* the close codes the server uses in this instance
  MaxAttempts,   \* MAX_RECONNECT_ATTEMPTS
  MaxRetries,    \* FailurePolicy::max_retries
  MaxSessions    \* bound: sessions the server opens

GatewayAssumption ==
  /\ Codes \subseteq Nat \ {0}
  /\ MaxAttempts \in Nat \ {0}
  /\ MaxRetries \in Nat
  /\ MaxSessions \in Nat \ {0}

VARIABLES
  pc,          \* run: "connect" | "hello" | "loop" | "discover" | "backoff" | "ended"
  attempt,     \* Backoff::attempt
  is_resume,
  seq_ack,     \* the session whose message was numbered last
  persistent,  \* PersistentSessionState: ssrc; udp_addr and session_key, set together
  conn_token,  \* conn_token of the current connection is cancelled
  ssrc, udp_addr, speak_task,   \* SessionState of the current connection
  loops,       \* speak loops running: [id, ssrc, key]
  server_session, \* the server: number of the last session it opened
  selected,    \* the server: that session has had a SelectProtocol
  link,        \* the server: how far the current connection's handshake is
  told,        \* the last WebSocketClosed event: its code, and lost at that time
  ending,      \* why run returned
  lost,        \* history: connections lost since voice was last established
  dirty        \* history: a connection failed outright and nothing was reset since

gatewayVars == <<attempt, is_resume, seq_ack, persistent>>
connVars == <<conn_token, ssrc, udp_addr, speak_task, loops>>
remoteVars == <<server_session, selected, link>>
clientVars == <<told, ending>>
lostVars == <<lost, dirty>>
voiceVars == <<pc, gatewayVars, connVars, remoteVars, clientVars, lostVars>>

Session == 1 .. MaxSessions
LoopId == 1 .. 2
Link == {"opening", "identifying", "identified", "selecting", "described",
         "resuming", "replaying", "resumed"}

VoiceTypeOK ==
  /\ pc \in {"connect", "hello", "loop", "discover", "backoff", "ended"}
  /\ attempt \in 0 .. MaxAttempts
  /\ is_resume \in BOOLEAN
  /\ seq_ack \in Session \cup {0}
  /\ persistent \in [ssrc : Session \cup {0}, key : Session \cup {0}]
  /\ conn_token \in BOOLEAN
  /\ ssrc \in Session \cup {0}
  /\ udp_addr \in Session \cup {0}
  /\ speak_task \in LoopId \cup {0}
  /\ loops \subseteq [id : LoopId, ssrc : Session \cup {0}, key : Session]
  /\ server_session \in Session \cup {0}
  /\ selected \in BOOLEAN
  /\ link \in Link
  /\ told \in [code : Codes \cup {0}, lost : 0 .. MaxRetries]
  /\ ending \in {"none", "shutdown", "exhausted", "aborted"}
  /\ lost \in 0 .. MaxRetries
  /\ dirty \in BOOLEAN

NoState == [ssrc |-> 0, key |-> 0]

VoiceInit ==
  /\ pc = "connect"
  /\ attempt = 0 /\ is_resume = FALSE /\ seq_ack = 0 /\ persistent = NoState
  /\ conn_token = FALSE /\ ssrc = 0 /\ udp_addr = 0 /\ speak_task = 0 /\ loops = {}
  /\ server_session = 0 /\ selected = FALSE /\ link = "opening"
  /\ told = [code |-> 0, lost |-> 0] /\ ending = "none"
  /\ lost = 0 /\ dirty = FALSE

-----------------------------------------------------------------------------
(* Policy and backoff                                                      *)

Retryable == {1000, 1001, 1006, 4000, 4001, 4002, 4003, 4005, 4006, 4009, 4012,
              4015, 4016, 4020, 4900}

(* Mistake kept for checking: the authentication failure is retryable.     *)
RetryableAuth(code) == attempt < MaxRetries /\ code \in Retryable \cup {4004}

is_retryable(code) == attempt < MaxRetries /\ code \in Retryable

classify(code) ==
  IF code \in {4004, 4011, 4021, 4022} THEN "Shutdown"
  ELSE IF code \in {4006, 4009, 4014} THEN "Identify"
  ELSE "Reconnect"

(* Mistake kept for checking: one attempt too many.                        *)
exhausted_late == attempt > MaxAttempts

is_exhausted == attempt >= MaxAttempts

Lose == lost' = IF lost < MaxRetries THEN lost + 1 ELSE lost

-----------------------------------------------------------------------------
(* How a connection ends.                                                  *)

(* SessionState is dropped: its heartbeat and speak task are aborted.      *)
DropState ==
  /\ loops' = {l \in loops : l.id # speak_task}
  /\ speak_task' = 0
  /\ UNCHANGED <<ssrc, udp_addr>>

(* Mistake kept for checking: an Identify keeps what the last session left. *)
LeaveKeeping(outcome, seq) ==
  /\ conn_token' = TRUE
  /\ DropState
  /\ IF outcome = "Shutdown" \/ is_exhausted
       THEN /\ pc' = "ended"
            /\ ending' = IF outcome = "Shutdown" THEN "shutdown" ELSE "exhausted"
            /\ seq_ack' = seq
            /\ UNCHANGED <<attempt, is_resume, persistent, lostVars>>
       ELSE /\ pc' = "backoff"
            /\ attempt' = attempt + 1
            /\ is_resume' = (outcome = "Reconnect")
            /\ seq_ack' = seq
            /\ Lose
            /\ UNCHANGED <<ending, persistent, dirty>>

(* connect returns an outcome and run acts on it: it stops, or backs off,  *)
(* and forgets the session unless the next connection is to resume it.     *)
(* seq is the session of the message numbered last.                        *)
LeaveAt(outcome, seq) ==
  /\ conn_token' = TRUE
  /\ DropState
  /\ IF outcome = "Shutdown" \/ is_exhausted
       THEN /\ pc' = "ended"
            /\ ending' = IF outcome = "Shutdown" THEN "shutdown" ELSE "exhausted"
            /\ seq_ack' = seq
            /\ UNCHANGED <<attempt, is_resume, persistent, lostVars>>
       ELSE /\ pc' = "backoff"
            /\ attempt' = attempt + 1
            /\ is_resume' = (outcome = "Reconnect")
            /\ Lose
            /\ IF outcome = "Reconnect"
                 THEN seq_ack' = seq /\ UNCHANGED <<persistent, dirty>>
                 ELSE seq_ack' = 0 /\ persistent' = NoState /\ dirty' = FALSE
            /\ UNCHANGED ending

Leave(outcome) == LeaveAt(outcome, seq_ack)

(* A close frame, at hello or in the loop.                                 *)
Close(code) ==
  /\ pc = "hello" \/ (pc = "loop" /\ ~conn_token)
  /\ told' = IF is_retryable(code) THEN told ELSE [code |-> code, lost |-> lost]
  /\ Leave(classify(code))
  /\ UNCHANGED remoteVars

(* The stream fails or ends, or the first message is no Hello.             *)
Disconnect ==
  /\ pc = "hello" \/ (pc = "loop" /\ ~conn_token)
  /\ Leave("Reconnect")
  /\ UNCHANGED <<remoteVars, told>>

(* The heartbeat task or the speak loop has cancelled the connection.      *)
SeeCancelled ==
  /\ pc = "loop" /\ conn_token
  /\ Leave("Reconnect")
  /\ UNCHANGED <<remoteVars, told>>

HeartbeatTimeout ==
  /\ pc \in {"loop", "discover"}
  /\ ~conn_token
  /\ conn_token' = TRUE
  /\ UNCHANGED <<pc, gatewayVars, ssrc, udp_addr, speak_task, loops, remoteVars,
                 clientVars, lostVars>>

(* The player drops the gateway: the task is aborted at an await.          *)
Abort ==
  /\ pc # "ended"
  /\ pc' = "ended" /\ ending' = "aborted"
  /\ DropState
  /\ UNCHANGED <<gatewayVars, conn_token, remoteVars, told, lostVars>>

-----------------------------------------------------------------------------
(* Connecting                                                              *)

(* Mistake kept for checking: a failure to connect is not counted.         *)
ConnectFailsFree ==
  /\ pc = "connect"
  /\ IF is_exhausted
       THEN pc' = "ended" /\ ending' = "exhausted" /\ UNCHANGED <<gatewayVars, lostVars>>
       ELSE /\ pc' = "backoff"
            /\ is_resume' = FALSE
            /\ dirty' = (dirty \/ persistent # NoState \/ seq_ack # 0)
            /\ Lose
            /\ UNCHANGED <<attempt, ending, seq_ack, persistent>>
  /\ UNCHANGED <<connVars, remoteVars, told>>

(* connect returns an error: the WebSocket or the UDP socket could not be  *)
(* opened.  The next connection identifies, and nothing is forgotten.      *)
ConnectFails ==
  /\ pc = "connect"
  /\ IF is_exhausted
       THEN pc' = "ended" /\ ending' = "exhausted" /\ UNCHANGED <<gatewayVars, lostVars>>
       ELSE /\ pc' = "backoff"
            /\ attempt' = attempt + 1
            /\ is_resume' = FALSE
            /\ dirty' = (dirty \/ persistent # NoState \/ seq_ack # 0)
            /\ Lose
            /\ UNCHANGED <<ending, seq_ack, persistent>>
  /\ UNCHANGED <<connVars, remoteVars, told>>

Connected ==
  /\ pc = "connect"
  /\ pc' = "hello"
  /\ conn_token' = FALSE /\ ssrc' = 0 /\ udp_addr' = 0 /\ speak_task' = 0
  /\ link' = "opening"
  /\ UNCHANGED <<gatewayVars, loops, server_session, selected, clientVars, lostVars>>

Retry ==
  /\ pc = "backoff"
  /\ pc' = "connect"
  /\ UNCHANGED <<gatewayVars, connVars, remoteVars, clientVars, lostVars>>

(* The first message is a Hello: the heartbeat starts, the handshake goes. *)
Hello ==
  /\ pc = "hello"
  /\ pc' = "loop"
  /\ link' = IF is_resume THEN "resuming" ELSE "identifying"
  /\ UNCHANGED <<gatewayVars, connVars, server_session, selected, clientVars, lostVars>>

(* A Hello in the middle of a connection.                                  *)
HelloAgain ==
  /\ pc = "loop" /\ ~conn_token
  /\ Leave("Identify")
  /\ UNCHANGED <<remoteVars, told>>

-----------------------------------------------------------------------------
(* The server takes the handshake: it opens a session, or resumes the last *)
(* one.  It may answer with a close code instead.                          *)

TakeIdentify ==
  /\ link = "identifying" /\ server_session < MaxSessions
  /\ server_session' = server_session + 1 /\ selected' = FALSE /\ link' = "identified"
  /\ UNCHANGED <<pc, gatewayVars, connVars, clientVars, lostVars>>

TakeResume ==
  /\ link = "resuming" /\ server_session > 0
  /\ link' = "replaying"
  /\ UNCHANGED <<pc, gatewayVars, connVars, server_session, selected, clientVars, lostVars>>

-----------------------------------------------------------------------------
(* Messages in the loop.  A session's messages are numbered; a resumed     *)
(* session sends again what the last connection missed.                    *)

Reading == pc = "loop" /\ ~conn_token
Served == link \in {"identified", "selecting", "described", "replaying", "resumed"}

Established == attempt' = 0 /\ lost' = 0

(* Client connects, speaking updates, DAVE messages.                       *)
OtherMessage ==
  /\ Reading /\ Served
  /\ seq_ack' = server_session
  /\ UNCHANGED <<pc, attempt, is_resume, persistent, connVars, remoteVars, clientVars,
                 lostVars>>

(* A Ready or SessionDescription that does not parse, or a description to  *)
(* a connection that has no address; handle_text has stored its number.    *)
Malformed ==
  /\ Reading /\ Served
  /\ LeaveAt("Reconnect", server_session)
  /\ UNCHANGED <<remoteVars, told>>

(* on_ready, up to the await of discover_ip.                               *)
Ready ==
  /\ Reading
  /\ link = "identified" \/ (link = "replaying" /\ ~selected)
  /\ seq_ack' = server_session
  /\ ssrc' = server_session /\ udp_addr' = server_session
  /\ persistent' = [persistent EXCEPT !.ssrc = server_session]
  /\ pc' = "discover"
  /\ UNCHANGED <<attempt, is_resume, conn_token, speak_task, loops, remoteVars, clientVars,
                 lostVars>>

(* The address is known: SelectProtocol is sent and the backoff reset.     *)
Discovered ==
  /\ pc = "discover"
  /\ pc' = "loop"
  /\ selected' = TRUE
  /\ link' = IF link = "replaying" THEN link ELSE "selecting"
  /\ Established
  /\ UNCHANGED <<is_resume, seq_ack, persistent, connVars, server_session, clientVars, dirty>>

DiscoveryFails ==
  /\ pc = "discover"
  /\ Leave("Reconnect")
  /\ UNCHANGED <<remoteVars, told>>

FreshId == CHOOSE i \in LoopId : \A l \in loops : l.id # i

(* Mistake kept for checking: the loop that runs is not aborted.           *)
start_voice_over(key, as) ==
  /\ loops' = loops \cup {[id |-> FreshId, ssrc |-> as, key |-> key]}
  /\ speak_task' = FreshId

(* start_voice: the loop that runs is aborted and a new one spawned.       *)
start_voice(key, as) ==
  /\ loops' = {l \in loops : l.id # speak_task}
                 \cup {[id |-> FreshId, ssrc |-> as, key |-> key]}
  /\ speak_task' = FreshId

(* on_session_description.                                                 *)
SessionDescription ==
  /\ Reading
  /\ selected /\ link \in {"selecting", "described", "replaying"}
  /\ udp_addr # 0
  /\ seq_ack' = server_session
  /\ persistent' = [ssrc |-> ssrc, key |-> server_session]
  /\ start_voice(server_session, ssrc)
  /\ link' = IF link = "replaying" THEN link ELSE "described"
  /\ Established
  /\ dirty' = FALSE
  /\ UNCHANGED <<pc, is_resume, conn_token, ssrc, udp_addr, server_session, selected, clientVars>>

(* on_resumed: the state that survived is taken over, and a loop started   *)
(* unless one runs; without it the connection is given up.                 *)
Resumed ==
  /\ Reading
  /\ link = "replaying"
  /\ IF persistent.key = 0
       THEN Leave("Identify") /\ UNCHANGED <<remoteVars, told>>
       ELSE /\ udp_addr' = persistent.key
            /\ ssrc' = persistent.ssrc
            /\ IF speak_task # 0
                 THEN UNCHANGED <<loops, speak_task>>
                 ELSE start_voice(persistent.key, persistent.ssrc)
            /\ link' = "resumed"
            /\ lost' = 0
            /\ UNCHANGED <<pc, gatewayVars, conn_token, server_session, selected, clientVars, dirty>>

-----------------------------------------------------------------------------
(* The speak loop                                                          *)

(* Mistake kept for checking: the failure is logged and that is all.       *)
SpeakFailsQuietly(l) ==
  /\ loops' = loops \ {l}
  /\ UNCHANGED <<pc, gatewayVars, conn_token, ssrc, udp_addr, speak_task, remoteVars,
                 clientVars, lostVars>>

(* A packet cannot be encrypted or sent: the connection is cancelled.      *)
SpeakFails(l) ==
  /\ loops' = loops \ {l}
  /\ conn_token' = TRUE
  /\ UNCHANGED <<pc, gatewayVars, ssrc, udp_addr, speak_task, remoteVars, clientVars,
                 lostVars>>

(* The loop sees the cancelled token at its next frame.                    *)
SpeakEnds(l) ==
  /\ conn_token
  /\ loops' = loops \ {l}
  /\ UNCHANGED <<pc, gatewayVars, conn_token, ssrc, udp_addr, speak_task, remoteVars,
                 clientVars, lostVars>>

-----------------------------------------------------------------------------
VoiceNext ==
  \/ Connected \/ ConnectFails \/ Retry \/ Abort
  \/ Hello \/ HelloAgain \/ Disconnect \/ \E code \in Codes : Close(code)
  \/ TakeIdentify \/ TakeResume
  \/ OtherMessage \/ Malformed \/ Ready \/ SessionDescription \/ Resumed
  \/ Discovered \/ DiscoveryFails
  \/ HeartbeatTimeout \/ SeeCancelled
  \/ \E l \in loops : SpeakFails(l) \/ SpeakEnds(l)

VoiceSpec == VoiceInit /\ [][VoiceNext]_voiceVars

(* The task and its timers run: a connect returns, a sleep ends, discovery *)
(* has a deadline, a cancelled connection is left.  Nothing is assumed of  *)
(* the server.                                                             *)
VoiceFairSpec ==
  /\ VoiceSpec
  /\ WF_voiceVars(Connected \/ ConnectFails)
  /\ WF_voiceVars(Retry)
  /\ WF_voiceVars(Discovered \/ DiscoveryFails)
  /\ WF_voiceVars(SeeCancelled)

-----------------------------------------------------------------------------
(* A speak loop that runs is the one the current connection holds: none    *)
(* survives its connection, its replacement or the gateway.                *)
VoiceIsOwned ==
  \A l \in loops : l.id = speak_task /\ pc \in {"loop", "discover"}

(* A connection whose voice was described or resumed has a loop speaking,  *)
(* or is about to be left.                                                 *)
VoiceRuns ==
  pc = "loop" /\ link \in {"described", "resumed"} /\ ~conn_token =>
    \E l \in loops : l.id = speak_task

(* What outlives a connection, and what its loop speaks with, belongs to   *)
(* the session the server is on, unless a connection failed outright since *)
(* the state was last made good: only then is anything left of a session   *)
(* that has been replaced.                                                 *)
StateIsOfSession ==
  ~dirty =>
    /\ {seq_ack, persistent.ssrc, persistent.key} \subseteq {0, server_session}
    /\ \A l \in loops : l.key = server_session /\ l.ssrc \in {0, server_session}

(* Whenever the server's close code ends the gateway, the client has been  *)
(* told that code: no code is both suppressed and final.                   *)
ShutdownIsTold == ending = "shutdown" => classify(told.code) = "Shutdown"

(* The gateway does not retry for ever without voice: if it backs off      *)
(* again and again, its backoff is reset again and again.                  *)
RetriesAreBounded == []<>(pc = "backoff") => []<><<attempt' < attempt>>_voiceVars

(* policy.rs:13-16: a retryable code is suppressed during the initial      *)
(* retry phase, the first failures since voice was last established.       *)
QuietWhileRecovering == told.code \in Retryable => told.lost >= MaxRetries
=============================================================================
