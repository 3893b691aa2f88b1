------------------------------ MODULE SpeakLoop ------------------------------
(***************************************************************************)
(* speak_loop: every 20 ms a frame is taken from the mixer, put through    *)
(* the filters, encoded and sent, and the gateway is told when the loop    *)
(* begins and stops to speak, which it passes on to the voice server.  The *)
(* loop waits for locks and for the socket in the middle of a tick, where  *)
(* start_voice and the end of the connection may abort it.  A new loop     *)
(* starts from the RtpState that was saved last.                           *)
(*                                                                         *)
(* What the mixer and the filters have for the loop, and whether it gets   *)
(* their locks in ten attempts, is left open at every look.                *)
(***************************************************************************)
EXTENDS Naturals, Sequences, SequencesExt

CONSTANTS
  MaxSilence,    \* MAX_SILENCE_FRAMES
  MaxLooks,      \* the rounds of one tick, ten
  SaveEvery,     \* RtpState is saved when frames_sent is a multiple of 100
  SeqWidth,      \* 2^16: the RTP sequence number wraps
  MaxTold        \* bound: announcements the gateway has not yet passed on

SpeakAssumption ==
  /\ MaxSilence \in Nat \ {0} /\ MaxLooks \in Nat \ {0}
  /\ SaveEvery \in Nat \ {0} /\ SeqWidth \in Nat \ {0} /\ MaxTold \in Nat \ {0}

VARIABLES
  at,             \* "tick" | "look" | "filter" | "send" | "ended" | "failed"
  conn_cancelled,
  is_speaking, speaking_holdoff, active_silence,   \* VoiceSession
  loop_count, has_input,
  outgoing,       \* the frames still to be sent in this tick
  sequence,       \* RtpState of the loop
  rtp_state,      \* PersistentSessionState::rtp_state
  frames_sent,    \* modulo SaveEvery
  speaking_rx,    \* announcements on their way to the gateway
  announced,      \* the server's view: what it was told last
  quiet,          \* history: packets without input since the last with input
  stretched       \* history: the timescale filter had a part in this loop

speakerVars == <<is_speaking, speaking_holdoff, active_silence>>
tickVars == <<loop_count, has_input, outgoing>>
rtpVars == <<sequence, rtp_state>>
tellVars == <<speaking_rx, announced>>
quietVars == <<quiet, stretched>>
speakVars == <<at, conn_cancelled, speakerVars, tickVars, rtpVars, frames_sent, tellVars,
          quietVars>>

NoRtp == SeqWidth
Numbers == 0 .. SeqWidth - 1

(* A packet is SILENCE_FRAME, a frame of input, or what the filters make   *)
(* of a frame of zeros: an echo or a reverb sounds on for a while, the     *)
(* crackle of a phonograph for ever.                                       *)
Silence == "silence"
Audio == "audio"
Echo == "echo"

SpeakInit ==
  /\ at = "tick" /\ conn_cancelled = FALSE
  /\ is_speaking = FALSE /\ speaking_holdoff = FALSE /\ active_silence = 0
  /\ loop_count = 0 /\ has_input = FALSE /\ outgoing = <<>>
  /\ sequence = 0 /\ rtp_state = NoRtp /\ frames_sent = 0
  /\ speaking_rx = <<>> /\ announced = FALSE
  /\ quiet = 0 /\ stretched = FALSE

-----------------------------------------------------------------------------
(* The tick begins unless the connection is over: then the loop saves its  *)
(* RtpState and ends.                                                      *)
BeginTick ==
  /\ at = "tick" /\ ~conn_cancelled
  /\ at' = "look" /\ loop_count' = 1
  /\ UNCHANGED <<conn_cancelled, speakerVars, has_input, outgoing, rtpVars, frames_sent,
                 tellVars, quietVars>>

(* Mistake kept for checking: only the hundredth frame saves.              *)
EndUnsaved ==
  /\ at = "tick" /\ conn_cancelled
  /\ at' = "ended"
  /\ UNCHANGED <<conn_cancelled, speakerVars, tickVars, rtpVars, frames_sent, tellVars,
                 quietVars>>

EndByItself ==
  /\ at = "tick" /\ conn_cancelled
  /\ rtp_state' = sequence /\ at' = "ended"
  /\ UNCHANGED <<conn_cancelled, speakerVars, tickVars, sequence, frames_sent, tellVars,
                 quietVars>>

(* set_speaking: a change is announced, and what is spoken next is held    *)
(* off by one frame of silence.                                            *)
SetSpeaking(speaking) ==
  /\ is_speaking' = speaking
  /\ IF speaking = is_speaking
       THEN UNCHANGED speaking_rx
       ELSE Len(speaking_rx) < MaxTold /\ speaking_rx' = Append(speaking_rx, speaking)
  /\ UNCHANGED announced

HeldOff == speaking_holdoff \/ ~is_speaking

(* The frame is counted and sent, with the silence that was held off.      *)
SendRaw(frame) ==
  /\ outgoing' = IF HeldOff THEN <<Silence, frame>> ELSE <<frame>>
  /\ speaking_holdoff' = FALSE
  /\ at' = "send"

Counted == frames_sent' = (frames_sent + 1) % SaveEvery

(* send_pcm: what cannot be encoded is replaced by silence.                *)
SendPcm(frame) == SendRaw(frame) \/ SendRaw(Silence)

-----------------------------------------------------------------------------
(* One round of the tick                                                   *)

LookTimescale ==
  /\ at = "look"
  /\ SetSpeaking(TRUE) /\ SendPcm(Audio) /\ Counted
  /\ stretched' = TRUE
  /\ UNCHANGED <<conn_cancelled, active_silence, loop_count, has_input, rtpVars, quiet>>

(* Mistake kept for checking: a frame that is passed through does not set  *)
(* the silence that is to follow it.                                       *)
LookOpusUntimed ==
  /\ at = "look"
  /\ SetSpeaking(TRUE) /\ SendRaw(Audio) /\ Counted
  /\ UNCHANGED <<conn_cancelled, active_silence, loop_count, has_input, rtpVars, quietVars>>

(* An encoded frame is passed through.                                     *)
LookOpus ==
  /\ at = "look"
  /\ active_silence' = MaxSilence
  /\ SetSpeaking(TRUE) /\ SendRaw(Audio) /\ Counted
  /\ UNCHANGED <<conn_cancelled, loop_count, has_input, rtpVars, quietVars>>

(* Samples from the mixer; or, without them or without its lock, a frame   *)
(* of silence for a while yet.                                             *)
LookPcm(input) ==
  /\ at = "look"
  /\ input \/ active_silence > 0
  /\ active_silence' = IF input THEN MaxSilence ELSE active_silence - 1
  /\ has_input' = input
  /\ SetSpeaking(TRUE) /\ speaking_holdoff' = HeldOff
  /\ at' = "filter"
  /\ UNCHANGED <<conn_cancelled, loop_count, outgoing, rtpVars, frames_sent, quietVars>>

(* Silent for long enough: all that is sent is a frame every five seconds, *)
(* when one is due.                                                        *)
LookQuiet(keepalive) ==
  /\ at = "look" /\ active_silence = 0
  /\ SetSpeaking(FALSE)
  /\ outgoing' = IF keepalive THEN <<Silence>> ELSE <<>>
  /\ at' = "send"
  /\ UNCHANGED <<conn_cancelled, speaking_holdoff, active_silence, loop_count, has_input, rtpVars,
                 frames_sent, quietVars>>

(* Without a timescale filter, or its lock, the frame is sent, whatever    *)
(* the other filters have made of it.                                      *)
FilterSends ==
  /\ at = "filter"
  /\ SetSpeaking(TRUE)
  /\ IF has_input THEN SendPcm(Audio) /\ Counted ELSE SendPcm(Echo) /\ UNCHANGED frames_sent
  /\ UNCHANGED <<conn_cancelled, active_silence, loop_count, has_input, rtpVars, quietVars>>

(* The timescale filter takes the frame.  There is another round if more   *)
(* input may come, or the filter has filled a frame from the silence.      *)
FilterTakes(filled) ==
  /\ at = "filter"
  /\ stretched' = TRUE
  /\ IF (has_input \/ filled) /\ loop_count < MaxLooks
       THEN at' = "look" /\ loop_count' = loop_count + 1
       ELSE at' = "send" /\ UNCHANGED loop_count
  /\ UNCHANGED <<conn_cancelled, speakerVars, has_input, outgoing, rtpVars, frames_sent,
                 tellVars, quiet>>

-----------------------------------------------------------------------------
(* transmit_opus: the numbers move on before the packet is sent.           *)
Transmit ==
  /\ at = "send" /\ outgoing # <<>>
  /\ sequence' = (sequence + 1) % SeqWidth
  /\ quiet' = IF Head(outgoing) = Audio THEN 0 ELSE IF quiet < MaxSilence THEN quiet + 1 ELSE quiet
  /\ outgoing' = Tail(outgoing)
  /\ UNCHANGED <<at, conn_cancelled, speakerVars, loop_count, has_input, rtp_state, frames_sent,
                 tellVars, stretched>>

EndTick ==
  /\ at = "send" /\ outgoing = <<>>
  /\ at' = "tick"
  /\ rtp_state' = IF frames_sent = 0 THEN sequence ELSE rtp_state
  /\ UNCHANGED <<conn_cancelled, speakerVars, tickVars, sequence, frames_sent, tellVars,
                 quietVars>>

(* A frame that cannot be encrypted, or sent, ends the loop and with it    *)
(* the connection; RtpState is not saved.                                  *)
SendFails ==
  /\ at = "send" /\ outgoing # <<>>
  /\ sequence' \in {sequence, (sequence + 1) % SeqWidth}
  /\ at' = "failed" /\ conn_cancelled' = TRUE /\ outgoing' = <<>>
  /\ UNCHANGED <<speakerVars, loop_count, has_input, rtp_state, frames_sent, tellVars,
                 quietVars>>

-----------------------------------------------------------------------------
(* The gateway                                                             *)

(* notify_speaking                                                         *)
PassOn ==
  /\ speaking_rx # <<>> /\ ~conn_cancelled
  /\ announced' = Head(speaking_rx) /\ speaking_rx' = Tail(speaking_rx)
  /\ UNCHANGED <<at, conn_cancelled, speakerVars, tickVars, rtpVars, frames_sent, quietVars>>

Cancel ==
  /\ ~conn_cancelled
  /\ conn_cancelled' = TRUE
  /\ UNCHANGED <<at, speakerVars, tickVars, rtpVars, frames_sent, tellVars, quietVars>>

(* The connection that follows is not to resume the session.               *)
Forget ==
  /\ conn_cancelled
  /\ rtp_state' = NoRtp
  /\ UNCHANGED <<at, conn_cancelled, speakerVars, tickVars, sequence, frames_sent, tellVars,
                 quietVars>>

NewLoop ==
  /\ at' = "tick"
  /\ speaking_holdoff' = FALSE /\ active_silence' = 0
  /\ loop_count' = 0 /\ has_input' = FALSE /\ outgoing' = <<>>
  /\ sequence' \in IF rtp_state = NoRtp THEN Numbers ELSE {rtp_state}
  /\ announced' = FALSE
  /\ quiet' = 0 /\ stretched' = FALSE
  /\ UNCHANGED <<rtp_state, frames_sent>>

(* Mistake kept for checking: the new loop believes that it is speaking    *)
(* still.                                                                  *)
StartVoiceSpeaking ==
  /\ NewLoop
  /\ UNCHANGED is_speaking
  /\ conn_cancelled' = FALSE
  /\ speaking_rx' = IF conn_cancelled THEN <<>> ELSE speaking_rx

(* start_voice on this connection aborts the loop wherever it is and tells *)
(* the server that it is silent; on the next one, where the loop has been  *)
(* aborted or has ended, the announcements of the last are gone.           *)
StartVoice ==
  /\ NewLoop
  /\ is_speaking' = FALSE
  /\ conn_cancelled' = FALSE
  /\ speaking_rx' = IF conn_cancelled THEN <<>> ELSE speaking_rx

-----------------------------------------------------------------------------
SpeakNext ==
  \/ BeginTick \/ EndByItself
  \/ LookTimescale \/ LookOpus
  \/ \E b \in BOOLEAN : LookPcm(b) \/ LookQuiet(b) \/ FilterTakes(b)
  \/ FilterSends
  \/ Transmit \/ EndTick \/ SendFails
  \/ PassOn \/ Cancel \/ Forget \/ StartVoice

SpeakSpec == SpeakInit /\ [][SpeakNext]_speakVars

-----------------------------------------------------------------------------
(* Whichever loop it was that spoke last, and however far the gateway is   *)
(* with the announcements: while the loop speaks the server has been told  *)
(* so last, or will have been.                                             *)
SpeakingIsTold == is_speaking => Last(<<announced>> \o speaking_rx)

(* The loop stops to speak only after MAX_SILENCE_FRAMES packets in a row  *)
(* that hold no input (silence, or what the filters still sound: the tail  *)
(* of an echo is not cut off before that), unless the timescale filter,    *)
(* which swallows such frames like any other, had a part in it.            *)
(* And a loop that follows one that ended by itself goes on with the next  *)
(* RTP sequence number of the same session.                                *)
RestBeforeQuiet ==
  [][/\ is_speaking /\ ~is_speaking' /\ at' = "send" /\ ~stretched => quiet = MaxSilence
     /\ at = "ended" /\ at' = "tick" /\ rtp_state # NoRtp => sequence' = sequence]_speakVars
=============================================================================
