------------------------------ MODULE MCGateway ------------------------------
(* The parts of a voice gateway in one run: the connections with their     *)
(* handshakes, and what runs beside a connection's main loop: heartbeat,   *)
(* group key exchange, and the loop that speaks.  Each is looked at by     *)
(* itself, the others staying as they are.                                 *)
EXTENDS VoiceHeartbeat, VoiceGateway, DaveHandler, SpeakLoop

VARIABLES part

ASSUME GatewayAssumption /\ DaveAssumption /\ SpeakAssumption

allVars == <<part, vars, voiceVars, daveVars, speakVars>>

(* Enough nonces that a tick always finds one nobody refers to.            *)
Clock == 1 .. 6

(* One close code of each kind the two tables of FailurePolicy tell apart: *)
(* 4015 retried and resumed, 4006 retried with a new session, 1002 told    *)
(* and resumed, 4014 told with a new session, 4004 final.                  *)
CloseCodes == {4015, 4006, 1002, 4014, 4004}

GatewayInit ==
  /\ part \in {"heartbeat", "voice", "dave", "speak"}
  /\ Init /\ VoiceInit /\ DaveInit /\ SpeakInit

Beats(A) == part = "heartbeat" /\ A /\ UNCHANGED <<part, voiceVars, daveVars, speakVars>>
Connects(A) == part = "voice" /\ A /\ UNCHANGED <<part, vars, daveVars, speakVars>>
Exchanges == part = "dave" /\ DaveNext /\ UNCHANGED <<part, vars, voiceVars, speakVars>>
Speaks == part = "speak" /\ SpeakNext /\ UNCHANGED <<part, vars, voiceVars, daveVars>>

(* The fairness of the parts' own specifications.                          *)
GatewaySpec ==
  /\ GatewayInit /\ [][Beats(Next) \/ Connects(VoiceNext) \/ Exchanges \/ Speaks]_allVars
  /\ WF_allVars(Beats(Tick)) /\ WF_allVars(Beats(StoreNonce)) /\ WF_allVars(Beats(SendHeartbeat))
  /\ WF_allVars(Beats(BeatFails)) /\ SF_allVars(Beats(LeaveBroken))
  /\ WF_allVars(Beats(ClearMissed)) /\ WF_allVars(Beats(EndDiscovery))
  /\ WF_allVars(Beats(LeaveCancelled))
  /\ WF_allVars(Connects(Connected \/ ConnectFails))
  /\ WF_allVars(Connects(Retry))
  /\ WF_allVars(Connects(Discovered \/ DiscoveryFails))
  /\ WF_allVars(Connects(SeeCancelled))

-----------------------------------------------------------------------------
(* heartbeat.rs: where it runs, a server that has gone quiet is left.      *)
(* backoff.rs and mod.rs: the gateway does not retry for ever without      *)
(* voice.                                                                  *)
GatewayMovesOn ==
  /\ part = "heartbeat" => QuietServerIsLeft
  /\ RetriesAreBounded
=============================================================================
