---------------------------- MODULE TrackPlayback ----------------------------
(***************************************************************************)
(* One track on its way from the decoder to the mixer: the decoder thread, *)
(* the bounded channel of frames, the mixer, which takes one frame every   *)
(* 20 ms, the atomics of the TrackHandle that requests and the mixer both  *)
(* write, the monitor, and, for YouTube, the task that stands between the  *)
(* handle and the decoder and falls back on another client.                *)
(*                                                                         *)
(* Sources: src/audio/processor.rs, src/audio/flow/controller.rs,          *)
(* src/audio/mix/mixer.rs, src/audio/effects/tape.rs,                      *)
(* src/audio/playback/handle.rs, src/player/manager/monitor.rs,            *)
(* src/sources/http/mod.rs, src/sources/youtube/track.rs. A packet decodes *)
(* to one frame, so the leftovers in pending_pcm and MixerTrack.pending    *)
(* are always empty. A frame is the position it counts as: the one that    *)
(* the last seek obeyed had asked for, and the frames since. Where in the  *)
(* stream the reader has really gone is another matter (left).             *)
(* Not modelled: tracks that pass on the frames of an HttpTrack through a  *)
(* second channel (Qobuz, Bandcamp, Yandex Music and others).              *)
(***************************************************************************)
EXTENDS Naturals, Sequences

CONSTANTS
  Length,     \* frames of the track
  Buffer,     \* capacity of the frame channel: buffer_duration_ms / 20
  Capacity,   \* capacity of the channels of commands: 8
  Clients,    \* YouTube clients in the order they are tried
  Ramp,       \* frames of a tape ramp: tape_stop_duration_ms
  MaxSeeks,   \* bound: seeks asked for after the start
  MaxRequests \* bound: seeks, pauses and resumptions together

TrackPlaybackAssumption ==
  /\ Length \in Nat \ {0} /\ Buffer \in Nat \ {0} /\ Capacity \in Nat \ {0} /\ Clients \in Nat \ {0} /\ Ramp \in Nat
  /\ MaxSeeks \in Nat /\ MaxRequests \in Nat

VARIABLES
  service,      \* "direct": the decoder has the handle's commands; "youtube"
  tape_stop,    \* TrackHandle.tape_stop_enabled
  state,        \* the atomic state of the track
  position,     \* the atomic position, in frames
  is_buffering, \* the atomic
  paused,       \* PlayerContext.paused
  handle,       \* whether anybody still holds the TrackHandle
  asking,       \* the seek that a request waits to send, under the player's lock
  commands,     \* the channel of the handle: positions to seek to
  inner,        \* youtube: the channel of the decoder
  frames,       \* the frame channel
  error,        \* whether the error channel, of capacity 1, is full
  decoder,      \* where the decoder thread is
  next,         \* the position that the packet it decodes next counts as
  left,         \* the packets from where the reader is to the end of the stream
  task,         \* youtube: where the task is
  client,       \* current_client_index
  current_seek, \* current_seek_ms
  mixed,        \* whether the track is in Mixer.tracks
  finished,     \* MixerTrack.finished
  mix,          \* the state the mix under way has loaded, or "idle"
  pulled,       \* whether it has got a frame
  rate, target, ramp, ramp_completed, \* TapeEffect
  monitor,      \* "watching", the reason it has reported, or "aborted"
  heard,        \* the position that the end of the last frame mixed counts as
  honest,       \* nothing was skipped, faded by the tape, or refused so far
  late,         \* while honest, the packets decoded before the last seek reached the decoder
  failed,       \* the last decoder failed, other than in AudioProcessor::new of a direct
                \* source, and no other took over
  seeks, requests

fixed == <<service, tape_stop>>
atomics == <<state, position, is_buffering>>
control == <<paused, handle, asking, seeks, requests>>
decoding == <<decoder, next, left, inner, failed>>
relaying == <<task, client, current_seek>>
mixing == <<mixed, finished, mix, pulled, rate, target, ramp, ramp_completed, heard>>
history == <<honest, late>>
vars == <<fixed, atomics, control, commands, decoding, frames, error, relaying, mixing, monitor,
          history>>

(* What happens keeps the track honest, or does not.                       *)
Keeps(ok) ==
  /\ honest' = (honest /\ ok)
  /\ late' = IF honest' THEN late ELSE 0

(* The empty frame that a seek sends stands for the position it goes to.   *)
Furthest == 2 * Length
Flush(p) == Furthest + 1 + p
IsFlush(f) == f > Furthest
Ended == {"finished", "loadFailed", "aborted"}

TypeOK ==
  /\ service \in {"direct", "youtube"} /\ tape_stop \in BOOLEAN
  /\ state \in {"Playing", "Paused", "Stopped", "Stopping", "Starting"}
  /\ position \in Nat /\ is_buffering \in BOOLEAN
  /\ paused \in BOOLEAN /\ handle \in BOOLEAN /\ error \in BOOLEAN
  /\ commands \in Seq(0..Length) /\ inner \in Seq(0..Length) /\ Len(inner) <= Capacity
  /\ asking \in {<<>>} \cup {<<p>> : p \in 0..Length}
  /\ frames \in Seq(0..Flush(Length)) /\ Len(frames) <= Buffer
  /\ decoder \in {"none", "opening", "check", "seeked", "flush", "push", "tell", "unopened",
                 "failed", "done"}
  /\ left \in 0..Length /\ next + left \in 0..Furthest /\ next \in 0..Furthest /\ heard \in 0..Furthest
  /\ task \in {"none", "resolving", "playing", "relaying", "telling", "gone"}
  /\ client \in 1..Clients + 1 /\ current_seek \in 0..Length
  /\ mixed \in BOOLEAN /\ finished \in BOOLEAN /\ pulled \in BOOLEAN
  /\ mix \in {"idle", "Playing", "Stopping", "Starting"}
  /\ rate \in {"normal", "low", "ramp"} /\ target \in {"normal", "low"}
  /\ ramp \in 0..Ramp /\ ramp_completed \in BOOLEAN
  /\ monitor \in {"watching"} \cup Ended
  /\ honest \in BOOLEAN /\ failed \in BOOLEAN /\ late \in Nat
  /\ seeks \in 0..MaxSeeks /\ requests \in 0..MaxRequests + 1

(* start_playback: the decoder is started, the track is added to the       *)
(* mixer, a seek goes to where it is to start, and a monitor watches it.   *)
Init ==
  /\ service \in {"direct", "youtube"} /\ tape_stop \in BOOLEAN
  /\ state = "Playing" /\ is_buffering = FALSE
  /\ position \in {0, Length - 1} /\ commands = (IF position = 0 THEN <<>> ELSE <<position>>)
  /\ asking = <<>> /\ paused = FALSE /\ handle = TRUE /\ seeks = 0
  /\ requests = IF position = 0 THEN 0 ELSE 1
  /\ inner = <<>> /\ frames = <<>> /\ error = FALSE
  /\ decoder = IF service = "direct" THEN "opening" ELSE "none"
  /\ task = IF service = "direct" THEN "none" ELSE "resolving"
  /\ next = 0 /\ left = Length /\ client = 1 /\ current_seek = 0
  /\ mixed = TRUE /\ finished = FALSE /\ mix = "idle" /\ pulled = FALSE
  /\ rate = "normal" /\ target = "normal" /\ ramp = 0 /\ ramp_completed = FALSE
  /\ monitor = "watching" /\ heard = 0 /\ honest = TRUE /\ failed = FALSE /\ late = 0

(* Whoever receives the handle's commands is still there, and, for         *)
(* YouTube, whoever holds a sender of frames.                              *)
Connected == IF service = "direct" THEN decoder \notin {"unopened", "done"} ELSE task # "gone"
FramesMayCome == Connected \/ decoder \notin {"none", "unopened", "failed", "done"}

-----------------------------------------------------------------------------
(* Requests, one at a time under the player's lock                         *)

(* PlayerContext.set_paused with TrackHandle.pause and play.               *)
SetPaused ==
  /\ monitor = "watching" /\ asking = <<>> /\ requests < MaxRequests
  /\ paused' = ~paused /\ requests' = requests + 1
  /\ state' = IF paused' THEN IF tape_stop THEN "Stopping" ELSE "Paused"
                         ELSE IF tape_stop THEN "Starting" ELSE "Playing"
  /\ UNCHANGED <<fixed, position, is_buffering, handle, asking, seeks, commands, decoding, frames,
                 error, relaying, mixing, monitor, history>>

(* TrackHandle.seek: the position is told at once, the decoder asked. The  *)
(* channel of YouTube, like that of Tidal, is bounded, and the send then   *)
(* waits for room as a thread waits; those of the others are not.          *)
Accepts(queue) == service = "youtube" => Len(queue) < Capacity
Send(p) ==
  /\ commands' = IF Connected THEN Append(commands, p) ELSE commands
  /\ honest' = (honest /\ Connected)
Seek(p) ==
  /\ monitor = "watching" /\ asking = <<>> /\ seeks < MaxSeeks /\ requests < MaxRequests
  /\ position' = p /\ seeks' = seeks + 1 /\ requests' = requests + 1 /\ late' = 0
  /\ IF Connected /\ ~Accepts(commands)
       THEN asking' = <<p>> /\ UNCHANGED <<commands, honest>>
       ELSE Send(p) /\ UNCHANGED asking
  /\ UNCHANGED <<fixed, state, is_buffering, paused, handle, decoding, frames, error,
                 relaying, mixing, monitor>>

SeekSent ==
  /\ asking # <<>> /\ (Connected => Accepts(commands))
  /\ Send(asking[1]) /\ asking' = <<>>
  /\ late' = IF honest' THEN late ELSE 0
  /\ UNCHANGED <<fixed, atomics, paused, handle, seeks, requests, decoding, frames, error, relaying,
                 mixing, monitor>>

(* The track is replaced or its player destroyed: the handle is stopped    *)
(* and dropped, the monitor aborted, and Mixer.stop_all, which waits for   *)
(* the mix under way, drops the track and with it the frame channel.       *)
StopAll ==
  /\ monitor = "watching" /\ asking = <<>> /\ mix = "idle"
  /\ state' = "Stopped" /\ handle' = FALSE /\ monitor' = "aborted"
  /\ mixed' = FALSE /\ frames' = <<>>
  /\ UNCHANGED <<fixed, position, is_buffering, paused, asking, seeks, requests, commands, decoding,
                 error, relaying, finished, mix, pulled, rate, target, ramp, ramp_completed, heard,
                 history>>

-----------------------------------------------------------------------------
(* The decoder thread: AudioProcessor.run                                  *)

InDecoder == UNCHANGED <<fixed, atomics, control, relaying, mixing, monitor>>

(* The reader and the processor are set up.                                *)
Opens ==
  /\ decoder = "opening" /\ decoder' = "check"
  /\ InDecoder /\ UNCHANGED <<next, left, inner, failed, commands, frames, error, history>>

(* Or they cannot be. A YouTube decoder only fails, and its task falls     *)
(* back. A direct source tells of a reader it could not make and is gone;  *)
(* a processor that cannot be set up has dropped its channels before the   *)
(* source tells of it; and a source that knows no URL may tell nothing     *)
(* (Deezer, Gaana).                                                        *)
OpenFails ==
  /\ decoder = "opening"
  /\ \/ decoder' = (IF service = "direct" THEN "tell" ELSE "failed") /\ failed' = TRUE
     \/ service = "direct" /\ decoder' \in {"unopened", "done"} /\ UNCHANGED failed
  /\ InDecoder /\ UNCHANGED <<next, left, inner, commands, frames, error, history>>

(* The channel that the decoder receives its commands from.                *)
Queue == IF service = "direct" THEN commands ELSE inner

(* Mistake kept for checking: the seek sends no empty frame.               *)
SeeksUnmarked ==
  /\ decoder = "check" /\ Queue # <<>>
  /\ IF service = "direct" THEN commands' = Tail(commands) /\ UNCHANGED inner
                           ELSE inner' = Tail(inner) /\ UNCHANGED commands
  /\ decoder' = "seeked" /\ next' = Head(Queue) /\ left' \in 0..Length
  /\ InDecoder /\ UNCHANGED <<failed, frames, error, history>>

(* check_commands takes one command per packet. A seek is coarse: it goes  *)
(* somewhere in the stream, and what is decoded there counts as what was   *)
(* asked for. It has an empty frame sent; one that fails has not, and      *)
(* leaves the position told wrong.                                         *)
CheckSeeks ==
  /\ decoder = "check" /\ Queue # <<>>
  /\ IF service = "direct" THEN commands' = Tail(commands) /\ UNCHANGED inner
                           ELSE inner' = Tail(inner) /\ UNCHANGED commands
  /\ \/ decoder' = "flush" /\ next' = Head(Queue) /\ left' \in 0..Length /\ UNCHANGED history
     \/ decoder' = "seeked" /\ Keeps(FALSE) /\ UNCHANGED <<next, left>>
  /\ InDecoder /\ UNCHANGED <<failed, frames, error>>

CheckStops ==
  /\ decoder = "check" /\ Queue = <<>>
  /\ IF service = "direct" THEN ~handle ELSE task = "gone"
  /\ decoder' = "done"
  /\ InDecoder /\ UNCHANGED <<next, left, inner, failed, commands, frames, error, history>>

(* A send waits for room, and fails when the mixer has dropped the track.  *)
Room == Len(frames) < Buffer
PushFlush ==
  /\ decoder = "flush" /\ decoder' = "seeked"
  /\ IF mixed THEN Room /\ frames' = Append(frames, Flush(next)) ELSE UNCHANGED frames
  /\ InDecoder /\ UNCHANGED <<next, left, inner, failed, commands, error, history>>

(* A seek that has yet to be passed on to the decoder, by YouTube's task or *)
(* by the request that waits to send it.                                   *)
OnItsWay == asking # <<>> \/ commands # <<>> \/ task = "relaying"

Reading == decoder = "seeked" \/ (decoder = "check" /\ Queue = <<>>)
Decode ==
  /\ Reading /\ left > 0 /\ decoder' = "push"
  /\ late' = IF honest /\ decoder = "check" /\ OnItsWay THEN late + 1 ELSE late
  /\ InDecoder /\ UNCHANGED <<next, left, inner, failed, commands, frames, error, honest>>

(* A decode error costs a packet, any other error ends the thread.         *)
DecodeSkips ==
  /\ Reading /\ left > 0
  /\ next' = next + 1 /\ left' = left - 1 /\ decoder' = "check" /\ Keeps(FALSE)
  /\ InDecoder /\ UNCHANGED <<inner, failed, commands, frames, error>>

DecodeFails ==
  /\ Reading /\ decoder' = "tell" /\ failed' = TRUE
  /\ InDecoder /\ UNCHANGED <<next, left, inner, commands, frames, error, history>>

EndOfFile ==
  /\ Reading /\ left = 0 /\ decoder' = "done"
  /\ InDecoder /\ UNCHANGED <<next, left, inner, failed, commands, frames, error, history>>

(* Mistake kept for checking: the mixer keeps the channel of a track it    *)
(* has dropped.                                                            *)
PushKept ==
  /\ decoder = "push" /\ Room /\ decoder' = "check"
  /\ frames' = Append(frames, next) /\ next' = next + 1 /\ left' = left - 1
  /\ InDecoder /\ UNCHANGED <<inner, failed, commands, error, history>>

Push ==
  /\ decoder = "push"
  /\ IF mixed THEN /\ Room /\ decoder' = "check"
                   /\ frames' = Append(frames, next) /\ next' = next + 1 /\ left' = left - 1
              ELSE decoder' = "done" /\ UNCHANGED <<frames, next, left>>
  /\ InDecoder /\ UNCHANGED <<inner, failed, commands, error, history>>

(* send_error on a channel of capacity 1, which the monitor reads when the *)
(* track has stopped: it waits while another error is in the way.          *)
ErrorTaken == error' = (monitor = "watching") /\ (monitor = "watching" => ~error)
TellError ==
  /\ decoder \in {"tell", "unopened"} /\ ErrorTaken
  /\ decoder' = IF service = "direct" THEN "done" ELSE "failed"
  /\ InDecoder /\ UNCHANGED <<next, left, inner, failed, commands, frames, history>>

-----------------------------------------------------------------------------
(* The task of YoutubeTrack.start_decoding                                 *)

InTask == UNCHANGED <<fixed, atomics, control, frames, mixing, monitor>>

(* The clients from the current one on are asked for a URL; the reader and *)
(* the decoder thread start, at the last position that was seeked to.      *)
Resolves ==
  /\ task = "resolving"
  /\ \E c \in client..Clients : client' = c
  /\ task' = "playing" /\ decoder' = "opening" /\ failed' = FALSE
  /\ next' = 0 /\ left' = Length
  /\ inner' = IF current_seek > 0 THEN <<current_seek>> ELSE <<>>
  /\ Keeps(decoder = "none")
  /\ InTask /\ UNCHANGED <<commands, error, current_seek>>

(* No client has a URL, or the reader cannot be made.                      *)
ResolveFails ==
  /\ task = "resolving" /\ task' = "telling" /\ failed' = TRUE
  /\ InTask /\ UNCHANGED <<decoder, next, left, inner, commands, error, client, current_seek, history>>

(* A command is passed on. The send waits, and the task with it, for room  *)
(* in the decoder's channel or for the end of the decoder.                 *)
Over == decoder \in {"done", "failed"}
InnerTakes == Len(inner) < Capacity \/ Over
ToInner(p) ==
  /\ inner' = IF Over THEN inner ELSE Append(inner, p)
  /\ Keeps(~Over)
Relay ==
  /\ task = "playing" /\ commands # <<>>
  /\ current_seek' = Head(commands) /\ commands' = Tail(commands)
  /\ IF InnerTakes THEN ToInner(Head(commands)) /\ UNCHANGED task
                   ELSE task' = "relaying" /\ UNCHANGED <<inner, history>>
  /\ InTask /\ UNCHANGED <<decoder, next, left, failed, error, client>>

RelaySent ==
  /\ task = "relaying" /\ InnerTakes
  /\ ToInner(current_seek) /\ task' = "playing"
  /\ InTask /\ UNCHANGED <<decoder, next, left, failed, commands, error, client, current_seek>>

RelayStop ==
  /\ task = "playing" /\ commands = <<>> /\ ~handle /\ InnerTakes
  /\ task' = "gone"
  /\ InTask /\ UNCHANGED <<decoding, commands, error, client, current_seek, history>>

(* Mistake kept for checking: no error is told when the clients are used   *)
(* up.                                                                     *)
DoneUntold ==
  /\ task = "playing" /\ decoder \in {"done", "failed"} /\ client' = client + 1
  /\ task' = IF decoder = "failed" /\ client < Clients THEN "resolving" ELSE "gone"
  /\ InTask /\ UNCHANGED <<decoding, commands, error, current_seek, history>>

(* The decoder ended well, or failed: then the next client is asked.       *)
DecoderDone ==
  /\ task = "playing"
  /\ \/ decoder = "done" /\ task' = "gone" /\ UNCHANGED client
     \/ /\ decoder = "failed" /\ client' = client + 1
        /\ task' = IF client < Clients THEN "resolving" ELSE "telling"
  /\ InTask /\ UNCHANGED <<decoding, commands, error, current_seek, history>>

TaskTells ==
  /\ task = "telling" /\ ErrorTaken /\ task' = "gone"
  /\ InTask /\ UNCHANGED <<decoding, commands, client, current_seek, history>>

-----------------------------------------------------------------------------
(* Mixer.mix, which holds the mixer but not the atomics                    *)

InMixer == UNCHANGED <<fixed, control, commands, decoding, error, relaying, monitor>>

(* TapeEffect.tape_to; with no duration the rate jumps and nothing is      *)
(* reported as completed.                                                  *)
TapeTo(to) ==
  IF Ramp = 0 THEN rate' = to /\ UNCHANGED <<target, ramp, ramp_completed>>
              ELSE rate' = "ramp" /\ target' = to /\ ramp' = Ramp /\ ramp_completed' = FALSE

(* A stopped track is dropped, a paused one passed over. A ramp begins     *)
(* unless one is under way, whichever way that one goes.                   *)
MixDrop ==
  /\ mix = "idle" /\ mixed /\ state = "Stopped"
  /\ mixed' = FALSE /\ frames' = <<>>
  /\ InMixer /\ UNCHANGED <<atomics, finished, mix, pulled, rate, target, ramp, ramp_completed,
                            heard, history>>

MixLoad ==
  /\ mix = "idle" /\ mixed /\ state \notin {"Stopped", "Paused"}
  /\ mix' = state /\ pulled' = FALSE
  /\ IF state \in {"Stopping", "Starting"} /\ rate # "ramp"
       THEN TapeTo(IF state = "Stopping" THEN "low" ELSE "normal")
       ELSE UNCHANGED <<rate, target, ramp, ramp_completed>>
  /\ InMixer /\ UNCHANGED <<atomics, frames, mixed, finished, heard, history>>

(* FlowController.try_pop_frame and process_frame: frames are taken until  *)
(* one is not empty. Only frames move the tape.                            *)
Pops(n) == n \in 1..Len(frames) /\ ~IsFlush(frames[n]) /\ \A i \in 1..n - 1 : IsFlush(frames[i])
Pull(n) ==
  /\ mix # "idle" /\ ~pulled /\ ~finished /\ Pops(n)
  /\ pulled' = TRUE /\ heard' = frames[n] + 1
  /\ frames' = SubSeq(frames, n + 1, Len(frames))
  /\ Keeps(rate = "normal")
  /\ IF rate = "ramp"
       THEN /\ ramp' = ramp - 1
            /\ rate' = (IF ramp = 1 THEN target ELSE "ramp")
            /\ ramp_completed' = (ramp = 1)
       ELSE UNCHANGED <<rate, ramp, ramp_completed>>
  /\ InMixer /\ UNCHANGED <<atomics, mixed, finished, mix, target>>

(* What is stored at the end depends on the state loaded at the beginning. *)
Completes ==
  CASE ramp_completed /\ mix = "Stopping" -> "Paused"
    [] ramp_completed /\ mix = "Starting" -> "Playing"
    [] OTHER -> state
MixFilled ==
  /\ mix # "idle" /\ pulled
  /\ position' = position + 1 /\ is_buffering' = FALSE
  /\ state' = Completes
  /\ mix' = "idle" /\ pulled' = FALSE /\ ramp_completed' = FALSE
  /\ InMixer /\ UNCHANGED <<frames, mixed, finished, rate, target, ramp, heard, history>>

(* There is no frame: the decoder is late or, when nobody holds a sender,  *)
(* has finished. A tape that is not back at its rate keeps the track.      *)
MixEmpty ==
  /\ mix # "idle" /\ ~pulled /\ (finished \/ \A i \in 1..Len(frames) : IsFlush(frames[i]))
  /\ frames' = IF finished THEN frames ELSE <<>>
  /\ heard' = IF frames' = frames THEN heard ELSE frames[Len(frames)] - Flush(0)
  /\ finished' = (finished \/ ~FramesMayCome)
  /\ is_buffering' = (is_buffering \/ ~finished')
  /\ state' = IF finished' /\ rate = "normal" THEN "Stopped" ELSE state
  /\ mix' = "idle"
  /\ InMixer /\ UNCHANGED <<position, mixed, pulled, rate, target, ramp, ramp_completed, history>>

-----------------------------------------------------------------------------
(* The monitor                                                             *)

InMonitor == UNCHANGED <<fixed, position, is_buffering, paused, asking, seeks, requests, commands, decoding,
                         frames, relaying, mixing, history>>

(* get_state and handle_playback_stopped: a handle whose commands nobody   *)
(* receives counts as stopped, whatever is left in the channel. The report *)
(* waits for the player's lock, which clear_player_state takes.            *)
Report ==
  /\ monitor = "watching" /\ asking = <<>> /\ (state = "Stopped" \/ ~Connected)
  /\ state' = "Stopped" /\ handle' = FALSE
  /\ monitor' = IF error THEN "loadFailed" ELSE "finished"
  /\ error' = FALSE
  /\ InMonitor

(* check_stuck: nothing has moved for stuck_threshold_ms while playing.    *)
Stuck ==
  /\ monitor = "watching" /\ state = "Playing" /\ Connected
  /\ mixed => is_buffering \/ finished
  /\ state' = "Stopped"
  /\ InMonitor /\ UNCHANGED <<handle, monitor, error>>

-----------------------------------------------------------------------------
Request == SetPaused \/ (\E p \in 0..Length - 1 : Seek(p)) \/ StopAll
Decoder ==
  \/ Opens \/ OpenFails \/ CheckSeeks \/ CheckStops \/ PushFlush \/ Decode \/ DecodeSkips
  \/ DecodeFails \/ EndOfFile \/ Push \/ TellError
Task == Resolves \/ ResolveFails \/ Relay \/ RelaySent \/ RelayStop \/ DecoderDone \/ TaskTells
Sending == SeekSent
Mixing == MixDrop \/ MixLoad \/ (\E n \in 1..Buffer : Pull(n)) \/ MixFilled \/ MixEmpty
Monitor == Report \/ Stuck

Next == Request \/ Sending \/ Decoder \/ Task \/ Mixing \/ Monitor

(* The threads and tasks run on, and a source that can be read is read.    *)
Spec ==
  /\ Init /\ [][Next]_vars
  /\ WF_vars(Sending) /\ WF_vars(Decoder) /\ WF_vars(Task) /\ WF_vars(Mixing) /\ WF_vars(Monitor)

-----------------------------------------------------------------------------
(* Properties                                                              *)

(* No seek is on its way.                                                  *)
Settled ==
  /\ asking = <<>> /\ commands = <<>> /\ inner = <<>>
  /\ task # "relaying" /\ decoder # "flush"
  /\ \A i \in 1..Len(frames) : ~IsFlush(frames[i])

(* handle.rs, seek, and mixer.rs, mix: the position told to the client is  *)
(* ahead of what is heard by no more than was on its way when the seek     *)
(* came, one frame more for every seek before it that the decoder has not  *)
(* obeyed yet, that of the start included, and those that were decoded     *)
(* before the seek was passed on to the decoder; it is never behind. What  *)
(* is heard counts from the position that was asked for: how far from it a *)
(* coarse seek has gone nobody learns, and the next seek forgets.          *)
PositionNearHeard ==
  honest /\ Settled /\ mixed /\ ~pulled => position \in heard..heard + Buffer + 2 + seeks + late

(* monitor.rs, handle_playback_stopped: when a decoder is gone, a failure  *)
(* that nobody made good is not reported as finished, unless a source that *)
(* is not YouTube could not set the processor up, or had no URL; and a     *)
(* track that is reported as finished while the mixer has it was heard up  *)
(* to what the channel holds, wherever its seeks had gone.                 *)
EndIsTrue ==
  [][Report /\ ~Connected =>
       /\ failed => monitor' = "loadFailed"
       /\ honest /\ Settled /\ mixed => next <= heard + Buffer]_vars

(* A track does not play on without an end: its decoder ends, or it is     *)
(* stuck and stopped, even when a decoder waits to tell its error. Once it *)
(* is over no thread is left; a tape stop may leave one, because the mixer *)
(* then stores over Stopped.                                               *)
AtRest ==
  /\ state # "Playing" \/ monitor # "watching"
  /\ monitor # "watching" /\ ~tape_stop => decoder \in {"none", "failed", "done"}
PlayingEnds == []<>AtRest

(* handle.rs, seek: a request that seeks comes back and gives up the       *)
(* player's lock.                                                          *)
SeekReturns == asking # <<>> ~> asking = <<>>

(* A track that is not paused is heard: no tape stop stays behind.         *)
PlayingIsHeard == state = "Playing" /\ mixed => rate # "low"

(* A track that another client has played to its end did not fail to load. *)
LoadFailedMeansFailed == service = "youtube" /\ monitor = "loadFailed" => failed
=============================================================================
