--------------------------- MODULE PlayerLifecycle ---------------------------
(***************************************************************************)
(* One player and the tracks it plays, one after the other: requests that  *)
(* start, stop, pause and destroy under the player's write lock, the       *)
(* decoder of each track, and the monitor task of each track, which looks  *)
(* at its atomics every 500 ms without that lock and tells the client how  *)
(* the track ended.                                                        *)
(*                                                                         *)
(* Sources: src/player/manager/{start,monitor,error}.rs,                   *)
(* src/player/context.rs, src/rest/routes/player/{update,destroy}.rs,      *)
(* src/protocol/opcodes.rs, src/audio/playback/handle.rs. The tape-stop    *)
(* effect is off: pause stores Paused and play stores Playing.             *)
(***************************************************************************)
EXTENDS Naturals

CONSTANTS
  Patch,      \* PATCH requests
  Ws,         \* WebSocket connections of the session
  Deleter,    \* DELETE requests, each one sent at most once
  MaxTracks,  \* bound: tracks ever started
  Decodable,  \* tracks given as an encoded track, not as an identifier
  Troubled,   \* tracks that may get stuck, fail, or be given an end time
  NoTrack, Nobody

Track == 1..MaxTracks
Actor == Patch \cup Ws \cup Deleter

ASSUME TrackAssumption ==
  /\ MaxTracks \in Nat /\ NoTrack \notin Track
  /\ Decodable \subseteq Track /\ Troubled \subseteq Track
ASSUME ActorAssumption ==
  /\ Nobody \notin Actor
  /\ Patch \cap Ws = {} /\ Deleter \cap (Patch \cup Ws) = {}

VARIABLES
  present,      \* whether the player is in Session.players
  track, track_info, track_handle, track_task, \* fields of PlayerContext
  paused,       \* PlayerContext.paused
  started,      \* tracks started so far: the last one's stop_signal is the player's
  state,        \* the atomic of each TrackHandle
  decoding,     \* tracks whose decoder still holds its command channel
  stop_signal,  \* stop_signal of each track
  end_marker,   \* tracks whose monitor was given an end time
  monitor,      \* where each monitor task is
  reason,       \* the reason each monitor will report
  aborted,      \* monitor tasks that have been aborted and have not ended yet
  at,           \* where each actor is outside the write lock
  op,           \* who holds the write lock, and how far it has come
  events,       \* what the client has been told of each track
  dropped,      \* tracks stopped by stop_track, over when they were replaced, or
                \* stopped by a PATCH that went away before it told so
  cut           \* tracks a PATCH stopped while their monitor saw them running

playerFields == <<present, track, track_info, track_handle, track_task, paused, started>>
trackFields == <<state, decoding, stop_signal, end_marker>>
monitorFields == <<monitor, reason, aborted>>
vars == <<playerFields, trackFields, monitorFields, at, op, events, dropped, cut>>

EndReason == {"finished", "loadFailed", "stopped", "replaced", "cleanup"}
EventKind == EndReason \cup {"start", "exception", "stuck"}
Released  == [by |-> Nobody, at |-> "free", replaced |-> FALSE]

TypeOK ==
  /\ present \in BOOLEAN /\ paused \in BOOLEAN
  /\ track \in Track \cup {NoTrack} /\ track_info \in Track \cup {NoTrack}
  /\ track_handle \in Track \cup {NoTrack} /\ track_task \in Track \cup {NoTrack}
  /\ started \in 0..MaxTracks
  /\ state \in [Track -> {"Playing", "Paused", "Stopped"}]
  /\ decoding \subseteq Track /\ end_marker \subseteq Track
  /\ stop_signal \in [Track -> BOOLEAN]
  /\ monitor \in [Track -> {"none", "tick", "state", "recheck", "clear", "wait", "report", "done"}]
  /\ reason \in [Track -> {"finished", "loadFailed"}]
  /\ aborted \subseteq Track /\ dropped \subseteq Track /\ cut \subseteq Track
  /\ at \in [Actor -> {"idle", "asked", "told", "removed", "done"}]
  /\ op \in [by : Actor \cup {Nobody},
             at : {"free", "replacing", "silencing", "resolving", "added", "stopping", "silenced"},
             replaced : BOOLEAN]
  /\ events \in [Track -> SUBSET EventKind]

Init ==
  /\ present = TRUE /\ paused = FALSE /\ started = 0
  /\ track = NoTrack /\ track_info = NoTrack /\ track_handle = NoTrack /\ track_task = NoTrack
  /\ state = [t \in Track |-> "Stopped"]
  /\ decoding = {} /\ end_marker = {}
  /\ stop_signal = [t \in Track |-> FALSE]
  /\ monitor = [t \in Track |-> "none"]
  /\ reason = [t \in Track |-> "finished"]
  /\ aborted = {} /\ dropped = {} /\ cut = {}
  /\ at = [a \in Actor |-> "idle"]
  /\ op = Released
  /\ events = [t \in Track |-> {}]

Free == op.at = "free"

(* TrackHandle.get_state: a decoder that is gone counts as stopped.        *)
Stopped(t) == state[t] = "Stopped" \/ t \notin decoding
Audible(t) == ~Stopped(t)

Tell(t, kinds) == events' = [events EXCEPT ![t] = @ \cup kinds]

HasEnd(t) == events[t] \cap EndReason # {}
Announced(t) == "start" \in events[t]

(* The monitor of t is sure to report: it is past everything that could    *)
(* still stop it, or nothing has tried to.                                 *)
Reporting(t) ==
  \/ monitor[t] = "report"
  \/ monitor[t] \in {"tick", "state", "recheck"} /\ t \notin aborted /\ ~stop_signal[t]
  \/ monitor[t] = "clear" /\ (t \notin aborted \/ ~present)
  \/ monitor[t] = "wait" /\ t \notin aborted

-----------------------------------------------------------------------------
(* Requests                                                                *)

(* The player's Arc is cloned from the map; the lock is asked for next.    *)
Ask(a) ==
  /\ a \in Patch \cup Ws /\ at[a] = "idle" /\ present
  /\ at' = [at EXCEPT ![a] = "asked"]
  /\ UNCHANGED <<playerFields, trackFields, monitorFields, op, events, dropped, cut>>

Finish(a) == at' = [at EXCEPT ![a] = "idle"] /\ op' = Released

(* PlayerContext.set_paused returns early when nothing changes. What it    *)
(* stores for a track whose decoder is gone, get_state overwrites.         *)
SetPaused(b) ==
  /\ paused' = b
  /\ state' = IF paused = b \/ track_handle \notin decoding THEN state
              ELSE [state EXCEPT ![track_handle] = IF b THEN "Paused" ELSE "Playing"]

(* A PATCH that only pauses or resumes.                                    *)
PatchPaused(p, b) ==
  /\ at[p] = "asked" /\ Free
  /\ SetPaused(b)
  /\ Finish(p)
  /\ UNCHANGED <<present, track, track_info, track_handle, track_task, started,
                 decoding, stop_signal, end_marker, monitorFields, events, dropped, cut>>

(* A track update that starts nothing, because noReplace was given and the *)
(* player has a track, or because it only carries user data. The paused    *)
(* field is overwritten all the same, past set_paused.                     *)
PatchNoStart(p, b) ==
  /\ at[p] = "asked" /\ Free
  /\ paused' = b
  /\ Finish(p)
  /\ UNCHANGED <<present, track, track_info, track_handle, track_task, started,
                 trackFields, monitorFields, events, dropped, cut>>

-----------------------------------------------------------------------------
(* start_playback                                                          *)

(* Mistake kept for checking: only a track that is not paused is looked at. *)
BeginUnlessPaused(a) ==
  /\ started < MaxTracks
  /\ at[a] = "asked" /\ Free
  /\ op' = [by |-> a, at |-> "replacing",
            replaced |-> track_handle # NoTrack /\ track_info # NoTrack
                         /\ Audible(track_handle) /\ state[track_handle] = "Playing"]
  /\ dropped' = dropped \cup {t \in {track_handle} \ {NoTrack} : Stopped(t)}

(* stop_current_track looks at the running track, then awaits its data.    *)
Begin(a) ==
  /\ started < MaxTracks
  /\ at[a] = "asked" /\ Free
  /\ op' = [by |-> a, at |-> "replacing",
            replaced |-> track_handle # NoTrack /\ track_info # NoTrack /\ Audible(track_handle)]
  /\ dropped' = dropped \cup {t \in {track_handle} \ {NoTrack} : Stopped(t)}

PatchStart(p, noReplace, b) ==
  /\ p \in Patch
  /\ noReplace => track = NoTrack
  /\ Begin(p)
  /\ paused' = b
  /\ UNCHANGED <<present, track, track_info, track_handle, track_task, started,
                 trackFields, monitorFields, at, events, cut>>

WsPlay(w) ==
  /\ w \in Ws
  /\ Begin(w)
  /\ UNCHANGED <<playerFields, trackFields, monitorFields, at, events, cut>>

(* Mixer.stop_all reaches every track the mixer still has.                 *)
StopNothing == state
MixerStopAll == [t \in Track |-> "Stopped"]

(* Aborting a task that has ended does nothing.                            *)
AbortTask == aborted \cup {t \in {track_task} \ {NoTrack} : monitor[t] # "done"}

HandleStop == [t \in Track |-> IF t = track_handle THEN "Stopped" ELSE state[t]]

(* The rest of stop_current_track, as far as it waits for the mixer ...    *)
StopCurrent(a) ==
  /\ op.at = "replacing" /\ op.by = a
  /\ IF op.replaced THEN Tell(track_handle, {"replaced"}) ELSE UNCHANGED events
  /\ stop_signal' = [t \in Track |-> stop_signal[t] \/ t = started]
  /\ aborted' = AbortTask
  /\ state' = HandleStop
  /\ track' = NoTrack /\ track_info' = NoTrack
  /\ track_handle' = NoTrack /\ track_task' = NoTrack
  /\ op' = [op EXCEPT !.at = "silencing"]
  /\ UNCHANGED <<present, paused, started, decoding, end_marker, monitor, reason, at,
                 dropped, cut>>

(* ... and the fields of the new track.                                    *)
Replace(a) ==
  LET new == started + 1 IN
  /\ op.at = "silencing" /\ op.by = a
  /\ state' = MixerStopAll
  /\ track' = new
  /\ track_info' = IF new \in Decodable THEN new ELSE NoTrack
  /\ started' = new
  /\ op' = [op EXCEPT !.at = "resolving"]
  /\ UNCHANGED <<present, paused, track_handle, track_task, decoding, stop_signal, end_marker,
                 monitorFields, at, events, dropped, cut>>

(* The sources do not resolve the track, or take longer than 30 s: the     *)
(* player keeps it as its track, without a handle.                         *)
ResolveFails(a) ==
  /\ op.at = "resolving" /\ op.by = a
  /\ IF track_info = NoTrack THEN UNCHANGED events
                             ELSE Tell(track, {"exception", "loadFailed"})
  /\ Finish(a)
  /\ UNCHANGED <<playerFields, trackFields, monitorFields, dropped, cut>>

Resolved(a) ==
  /\ op.at = "resolving" /\ op.by = a
  /\ decoding' = decoding \cup {track}
  /\ state' = [state EXCEPT ![track] = IF paused THEN "Paused" ELSE "Playing"]
  /\ track_handle' = track
  /\ op' = [op EXCEPT !.at = "added"]
  /\ UNCHANGED <<present, track, track_info, track_task, paused, started, stop_signal,
                 end_marker, monitorFields, at, events, dropped, cut>>

(* TrackStart, and the monitor is spawned; without track_info there is no  *)
(* response to build, and start_playback returns before both. Only a PATCH *)
(* can have given an end time.                                             *)
Announce(a, end) ==
  /\ end => a \in Patch /\ track \in Troubled
  /\ op.at = "added" /\ op.by = a
  /\ IF track_info = NoTrack
       THEN UNCHANGED <<monitor, track_task, end_marker, events>>
       ELSE /\ Tell(track, {"start"})
            /\ monitor' = [monitor EXCEPT ![track] = "tick"]
            /\ end_marker' = IF end THEN end_marker \cup {track} ELSE end_marker
            /\ track_task' = track
  /\ Finish(a)
  /\ UNCHANGED <<present, track, track_info, track_handle, paused, started, state,
                 decoding, stop_signal, reason, aborted, dropped, cut>>

(* The HTTP client of a PATCH goes away: axum drops the handler where it   *)
(* waits, and the lock with it. A track it has stopped without having told *)
(* so is the player's as before, and its monitor has been sent away.       *)
Disconnect(p) ==
  /\ p \in Patch /\ op.by = p
  /\ \/ op.at \in {"silencing", "resolving", "added", "silenced"}
     \/ op.at = "replacing" /\ op.replaced
  /\ dropped' = IF op.at = "silenced" THEN dropped \cup ({track_handle} \ {NoTrack})
                                      ELSE dropped
  /\ Finish(p)
  /\ UNCHANGED <<playerFields, trackFields, monitorFields, events, cut>>

-----------------------------------------------------------------------------
(* stop_player, of a PATCH with a null track                               *)

(* The signal comes first, for a track that has a handle ...               *)
StopSignal(p, b) ==
  /\ p \in Patch /\ at[p] = "asked" /\ Free
  /\ paused' = b
  /\ op' = [Released EXCEPT !.by = p, !.at = "stopping"]
  /\ stop_signal' = [t \in Track |-> stop_signal[t] \/ t = track_handle]
  /\ cut' = cut \cup {t \in {track_handle} \ {NoTrack} :
                        Audible(t) /\ monitor[t] \in {"tick", "state"}}
  /\ UNCHANGED <<present, track, track_info, track_handle, track_task, started, state,
                 decoding, end_marker, monitorFields, at, events, dropped>>

(* ... then the handle is stopped ...                                      *)
StopHandle(p) ==
  /\ op.at = "stopping" /\ op.by = p
  /\ state' = HandleStop
  /\ op' = [op EXCEPT !.at = "silenced"]
  /\ UNCHANGED <<playerFields, decoding, stop_signal, end_marker, monitorFields, at,
                 events, dropped, cut>>

(* ... and the mixer, when its lock is free, and the client is told.       *)
(* track_info and track_task stay.                                         *)
StopTold(p) ==
  /\ op.at = "silenced" /\ op.by = p
  /\ state' = MixerStopAll
  /\ track' = NoTrack /\ track_handle' = NoTrack
  /\ IF track = NoTrack THEN UNCHANGED events ELSE Tell(track, {"stopped"})
  /\ Finish(p)
  /\ UNCHANGED <<present, track_info, track_task, paused, started, decoding,
                 stop_signal, end_marker, monitorFields, dropped, cut>>

-----------------------------------------------------------------------------
(* stop_track, of the stop operation and of destroy: no event              *)

StopTrack ==
  /\ track' = NoTrack /\ track_info' = NoTrack
  /\ track_handle' = NoTrack /\ track_task' = NoTrack
  /\ aborted' = AbortTask
  /\ stop_signal' = [t \in Track |-> stop_signal[t] \/ t = started]
  /\ dropped' = dropped \cup ({track_handle} \ {NoTrack})

WsStop(w) ==
  /\ w \in Ws /\ at[w] = "asked" /\ Free
  /\ StopTrack
  /\ state' = HandleStop
  /\ Finish(w)
  /\ UNCHANGED <<present, paused, started, decoding, end_marker, monitor,
                 reason, events, cut>>

(* DELETE reads the player and tells the client, then destroys it.         *)
TellCleanup(d) ==
  /\ d \in Deleter /\ at[d] = "idle" /\ present /\ Free
  /\ IF track # NoTrack /\ track_info # NoTrack THEN Tell(track_info, {"cleanup"})
                                               ELSE UNCHANGED events
  /\ at' = [at EXCEPT ![d] = "told"]
  /\ UNCHANGED <<playerFields, trackFields, monitorFields, op, dropped, cut>>

(* destroy_player: whoever finds the player in the map takes it out ...    *)
Remove(a) ==
  /\ \/ a \in Ws /\ at[a] = "idle" /\ present
     \/ a \in Deleter /\ at[a] = "told"
  /\ at' = [at EXCEPT ![a] = IF present THEN "removed" ELSE "done"]
  /\ present' = FALSE
  /\ UNCHANGED <<track, track_info, track_handle, track_task, paused, started,
                 trackFields, monitorFields, op, events, dropped, cut>>

(* ... and waits for the lock.                                             *)
Destroy(a) ==
  /\ at[a] = "removed" /\ Free
  /\ StopTrack
  /\ state' = MixerStopAll
  /\ at' = [at EXCEPT ![a] = "done"]
  /\ UNCHANGED <<present, paused, started, decoding, end_marker, monitor,
                 reason, op, events, cut>>

(* The HTTP client of a DELETE goes away while it waits for the player's   *)
(* lock, or for the mixer's: the player has left the map all the same.     *)
DeleteDropped(d) ==
  /\ d \in Deleter /\ at[d] = "removed"
  /\ \/ UNCHANGED <<track, track_info, track_handle, track_task, aborted, stop_signal,
                    dropped, state>>
     \/ Free /\ StopTrack /\ state' = HandleStop
  /\ at' = [at EXCEPT ![d] = "done"]
  /\ UNCHANGED <<present, paused, started, decoding, end_marker, monitor, reason, op,
                 events, cut>>

-----------------------------------------------------------------------------
(* The decoder ends, because its input does or because the mixer no longer *)
(* takes its frames; the mixer, or get_state, then stores Stopped.         *)

DecoderEnds(t) ==
  /\ t \in decoding
  /\ decoding' = decoding \ {t}
  /\ state' = [state EXCEPT ![t] = "Stopped"]
  /\ UNCHANGED <<playerFields, stop_signal, end_marker, monitorFields, at, op, events,
                 dropped, cut>>

-----------------------------------------------------------------------------
(* monitor_loop of track t                                                 *)

MonGoto(t, from, to) ==
  /\ monitor[t] = from /\ monitor' = [monitor EXCEPT ![t] = to]
  /\ aborted' = IF to = "done" THEN aborted \ {t} ELSE aborted

MonTick(t) ==
  /\ t \notin aborted
  /\ MonGoto(t, "tick", IF stop_signal[t] THEN "done" ELSE "state")
  /\ UNCHANGED <<playerFields, trackFields, reason, at, op, events, dropped, cut>>

MonState(t) ==
  /\ MonGoto(t, "state", IF Stopped(t) THEN "recheck" ELSE "tick")
  /\ UNCHANGED <<playerFields, trackFields, reason, at, op, events, dropped, cut>>

(* The end time is reached.                                                *)
MonMarker(t) ==
  /\ t \in end_marker /\ t \in decoding /\ state[t] = "Playing"
  /\ MonGoto(t, "state", "clear")
  /\ stop_signal' = [stop_signal EXCEPT ![t] = TRUE]
  /\ state' = [state EXCEPT ![t] = "Stopped"]
  /\ UNCHANGED <<playerFields, decoding, end_marker, reason, at, op,
                 events, dropped, cut>>

(* The position has not moved for too long. Bound: once per track.         *)
MonStuck(t) ==
  /\ t \in decoding \cap Troubled /\ state[t] = "Playing"
  /\ "stuck" \notin events[t]
  /\ MonGoto(t, "state", "tick")
  /\ Tell(t, {"stuck"})
  /\ state' = [state EXCEPT ![t] = "Stopped"]
  /\ UNCHANGED <<playerFields, decoding, stop_signal, end_marker, reason,
                 at, op, dropped, cut>>

(* handle_playback_stopped looks at the signal again, then for an error     *)
(* the decoder has sent before it ended.                                   *)
Report(t, error) ==
  /\ error => t \in Troubled \ decoding
  /\ reason' = [reason EXCEPT ![t] = IF error THEN "loadFailed" ELSE "finished"]
  /\ IF error THEN Tell(t, {"exception"}) ELSE UNCHANGED events

(* Mistake kept for checking: the second look is left out.                 *)
MonRecheckNot(t, error) ==
  /\ MonGoto(t, "recheck", "clear")
  /\ Report(t, error)
  /\ UNCHANGED <<playerFields, state, decoding, stop_signal, end_marker, at, op,
                 dropped, cut>>

MonRecheck(t, error) ==
  /\ MonGoto(t, "recheck", IF stop_signal[t] THEN "done" ELSE "clear")
  /\ IF stop_signal[t] THEN UNCHANGED <<reason, events>> ELSE Report(t, error)
  /\ UNCHANGED <<playerFields, state, decoding, stop_signal, end_marker, at, op,
                 dropped, cut>>

(* Mistake kept for checking: without a player there is nothing to report. *)
MonLookupOnly(t) ==
  /\ MonGoto(t, "clear", IF present THEN "wait" ELSE "done")
  /\ UNCHANGED <<playerFields, trackFields, reason, at, op, events, dropped, cut>>

(* clear_player_state: a player no longer in the map has nothing to clear. *)
MonLookup(t) ==
  /\ MonGoto(t, "clear", IF present THEN "wait" ELSE "report")
  /\ UNCHANGED <<playerFields, trackFields, reason, at, op, events, dropped, cut>>

MonClear(t) ==
  /\ t \notin aborted /\ Free
  /\ MonGoto(t, "wait", "report")
  /\ IF track_handle = t
       THEN track' = NoTrack /\ track_info' = NoTrack /\ track_handle' = NoTrack
       ELSE UNCHANGED <<track, track_info, track_handle>>
  /\ UNCHANGED <<present, track_task, paused, started, trackFields, reason, at,
                 op, events, dropped, cut>>

(* Mistake kept for checking: the loop goes on after the report.           *)
MonReportOn(t) ==
  /\ MonGoto(t, "report", "tick")
  /\ Tell(t, {reason[t]})
  /\ reason' = [reason EXCEPT ![t] = "finished"]
  /\ UNCHANGED <<playerFields, trackFields, at, op, dropped, cut>>

MonReport(t) ==
  /\ MonGoto(t, "report", "done")
  /\ Tell(t, {reason[t]})
  /\ reason' = [reason EXCEPT ![t] = "finished"]
  /\ UNCHANGED <<playerFields, trackFields, at, op, dropped, cut>>

(* An aborted task ends where it waits, and only there.                    *)
MonAborted(t) ==
  /\ t \in aborted /\ monitor[t] \in {"tick", "wait"}
  /\ MonGoto(t, monitor[t], "done")
  /\ UNCHANGED <<playerFields, trackFields, reason, at, op, events, dropped, cut>>

-----------------------------------------------------------------------------
Holder(a) == \/ StopCurrent(a) \/ Replace(a) \/ ResolveFails(a) \/ Resolved(a)
             \/ StopHandle(a) \/ StopTold(a)
             \/ \E end \in BOOLEAN : Announce(a, end)

MonStep(t) == \/ MonState(t) \/ MonLookup(t) \/ MonReport(t) \/ MonAborted(t)
              \/ \E error \in BOOLEAN : MonRecheck(t, error)

Next ==
  \/ \E a \in Actor : Ask(a) \/ Holder(a) \/ Remove(a) \/ Destroy(a)
  \/ \E p \in Patch :
       \/ Disconnect(p)
       \/ \E b \in BOOLEAN : PatchPaused(p, b) \/ PatchNoStart(p, b) \/ StopSignal(p, b)
       \/ \E n, b \in BOOLEAN : PatchStart(p, n, b)
  \/ \E w \in Ws : WsPlay(w) \/ WsStop(w)
  \/ \E d \in Deleter : TellCleanup(d) \/ DeleteDropped(d)
  \/ \E t \in Track :
       \/ MonStep(t) \/ MonTick(t) \/ MonClear(t) \/ MonMarker(t) \/ MonStuck(t)
       \/ DecoderEnds(t)

Spec == Init /\ [][Next]_vars

(* The lock's holder and the monitors run on: resolving is limited to 30 s *)
(* and the interval ticks. Tokio's RwLock serves its waiters in turn.      *)
FairSpec ==
  /\ Spec
  /\ \A a \in Patch \cup Ws : WF_vars(Holder(a))
  /\ \A t \in Track : WF_vars(MonStep(t)) /\ WF_vars(MonTick(t)) /\ SF_vars(MonClear(t))

-----------------------------------------------------------------------------
(* Properties                                                              *)

(* At most one track of a player is audible: stop_all silences also what   *)
(* the player no longer has a handle of.                                   *)
OneVoice == \A t, u \in Track : Audible(t) /\ Audible(u) => t = u

(* Somebody will still tell how t ended: its monitor, or the request that  *)
(* has stopped it.                                                         *)
Telling(t) ==
  \/ Reporting(t)
  \/ op.at \in {"stopping", "silenced"} /\ track = t

(* A track announced with TrackStart gets its TrackEnd, or somebody is     *)
(* still about to send it: unless stop_track took it (the stop operation,  *)
(* a destroyed player), it was already over when the next one began, or    *)
(* the PATCH that stopped it lost its client before it could tell.         *)
EndNotForgotten ==
  \A t \in Track : Announced(t) => HasEnd(t) \/ Telling(t) \/ t \in dropped

(* The second look at stop_signal is enough for a track that was running   *)
(* when a PATCH stopped it: the monitor does not say that it finished. (A  *)
(* track with an end time may reach it between the signal and the stop.)   *)
CutNotFinished ==
  \A t \in cut \ end_marker : {"finished", "loadFailed"} \cap events[t] = {}

(* Every announced track is told to have ended, and as it did.             *)
EndsAreKept == EndNotForgotten /\ CutNotFinished

(* A monitor that ends clears only its own track: while a track is audible *)
(* and watched, requests can reach it through the player.                  *)
WatchedIsReachable ==
  \A t \in Track :
    Audible(t) /\ monitor[t] \in {"tick", "state"} /\ t \notin aborted /\ ~stop_signal[t]
      => track_handle = t /\ track = t

(* An announced track whose decoder has ended is reported, or was dropped: *)
(* once so, it stays so, and it is so in the end.                          *)
EndsAreReported ==
  \A t \in Track : Announced(t) /\ t \notin decoding => HasEnd(t) \/ t \in dropped

(* "sent by the server to the client whenever a track finishes playing, is *)
(* stopped, or is replaced", says the page on TrackEndEvent.               *)
EndTold == \A t \in Track : Announced(t) => HasEnd(t) \/ Telling(t)

(* "Whether the player is paused", says the API of paused.                 *)
PausedIsShown ==
  Free /\ track_handle # NoTrack /\ Audible(track_handle) =>
    (paused <=> state[track_handle] = "Paused")

(* "whenever a track begins playback", says the page on TrackStartEvent.   *)
AudibleAnnounced == \A t \in Track : Free /\ Audible(t) => Announced(t)
=============================================================================
