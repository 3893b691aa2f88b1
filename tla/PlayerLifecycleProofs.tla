------------------------ MODULE PlayerLifecycleProofs ------------------------
(***************************************************************************)
(* Proofs about PlayerLifecycle, for any requests and any number of tracks:*)
(* only the last track started can be heard, a track that is watched is    *)
(* the player's, and the end of an announced track is kept by somebody at  *)
(* every moment.                                                           *)
(***************************************************************************)
EXTENDS PlayerLifecycle, TLAPS

(* What the player points to is the last track that was started.           *)
Current ==
  /\ track \in {NoTrack, started} /\ track_info \in {NoTrack, started}
  /\ track_handle \in {NoTrack, started} /\ track_task \in {NoTrack, started}
  /\ track_handle # NoTrack => track = track_handle
  /\ op.at \in {"replacing", "silencing"} => started < MaxTracks
  /\ op.at = "silencing" => /\ track = NoTrack /\ track_info = NoTrack
                           /\ track_handle = NoTrack /\ track_task = NoTrack
  /\ op.at \in {"resolving", "added"} => track = started /\ track \in Track
  /\ op.at = "added" => track_handle = started

LastIsHeard == \A t \in Track : Audible(t) => t = started

VoiceInv == TypeOK /\ Current /\ LastIsHeard /\ WatchedIsReachable

-----------------------------------------------------------------------------
Ops == [by : Actor \cup {Nobody},
        at : {"free", "replacing", "silencing", "resolving", "added", "stopping", "silenced"},
        replaced : BOOLEAN]

LEMMA ReleasedOp == Released \in Ops /\ Released.at = "free"
BY DEF Released, Ops

LEMMA StoppingOp ==
  ASSUME NEW p \in Patch
  PROVE  LET new == [Released EXCEPT !.by = p, !.at = "stopping"]
         IN  new \in Ops /\ new.at = "stopping"
BY DEF Released, Ops, Actor

LEMMA BaseInit == Init => TypeOK /\ Current
<1> SUFFICES ASSUME Init PROVE TypeOK /\ Current
  OBVIOUS
<1>1. op \in Ops /\ op.at = "free"
  BY ReleasedOp DEF Init
<1>2. events \in [Track -> SUBSET EventKind]
  BY DEF Init
<1>3. started \in 0 .. MaxTracks
  BY TrackAssumption DEF Init
<1> QED BY <1>1, <1>2, <1>3 DEF Init, TypeOK, Current, Ops

LEMMA BaseStep == TypeOK /\ Current /\ [Next]_vars => TypeOK' /\ Current'
<1> SUFFICES ASSUME TypeOK, Current, [Next]_vars PROVE TypeOK' /\ Current'
  OBVIOUS
<1> USE TrackAssumption DEF TypeOK, Current, playerFields, trackFields, monitorFields
<1>1. CASE \E a \in Actor : Ask(a)
  BY <1>1 DEF Ask
<1>2. CASE \E a \in Actor : Replace(a)
  <2>1. PICK a \in Actor : Replace(a)
    BY <1>2
  <2>2. started' \in Track /\ started' \in 0 .. MaxTracks
    BY <2>1 DEF Replace, Track
  <2>3. /\ track' = started' /\ track_info' \in {NoTrack, started'}
        /\ op' = [op EXCEPT !.at = "resolving"]
    BY <2>1 DEF Replace
  <2>4. state' \in [Track -> {"Playing", "Paused", "Stopped"}]
    BY <2>1 DEF Replace, MixerStopAll
  <2>5. UNCHANGED <<track_handle, track_task>> /\ track_handle = NoTrack /\ track_task = NoTrack
    BY <2>1 DEF Replace
  <2> QED BY <2>1, <2>2, <2>3, <2>4, <2>5 DEF Replace
<1>22. CASE \E a \in Actor : StopCurrent(a)
  <2>1. PICK a \in Actor : StopCurrent(a)
    BY <1>22
  <2>2. /\ track' = NoTrack /\ track_info' = NoTrack
        /\ track_handle' = NoTrack /\ track_task' = NoTrack
        /\ op' = [op EXCEPT !.at = "silencing"]
    BY <2>1 DEF StopCurrent
  <2>3. state' \in [Track -> {"Playing", "Paused", "Stopped"}]
    BY <2>1 DEF StopCurrent, HandleStop
  <2>4. stop_signal' \in [Track -> BOOLEAN]
    BY <2>1 DEF StopCurrent
  <2>5. events' \in [Track -> SUBSET EventKind]
    BY <2>1 DEF StopCurrent, Tell, EventKind, EndReason
  <2>6. aborted' \subseteq Track
    BY <2>1 DEF StopCurrent, AbortTask
  <2> QED BY <2>1, <2>2, <2>3, <2>4, <2>5, <2>6 DEF StopCurrent
<1>3. CASE \E a \in Actor : ResolveFails(a)
  BY <1>3 DEF ResolveFails, Finish, Released, Tell, EventKind, EndReason
<1>4. CASE \E a \in Actor : Resolved(a)
  BY <1>4 DEF Resolved
<1>5. CASE \E a \in Actor : StopTold(a)
  BY <1>5 DEF StopTold, Finish, Released, Tell, MixerStopAll, EventKind, EndReason
<1>23. CASE \E a \in Actor : StopHandle(a)
  BY <1>23 DEF StopHandle, HandleStop
<1>6. CASE \E a \in Actor : \E end \in BOOLEAN : Announce(a, end)
  BY <1>6 DEF Announce, Finish, Released, Tell, EventKind, EndReason
<1>7. CASE \E a \in Actor : Remove(a)
  <2>1. PICK a \in Actor : Remove(a)
    BY <1>7
  <2>2. at' = [at EXCEPT ![a] = "removed"] \/ at' = [at EXCEPT ![a] = "done"]
    <3>1. CASE present
      BY <2>1, <3>1 DEF Remove
    <3>2. CASE ~present
      BY <2>1, <3>2 DEF Remove
    <3> QED BY <3>1, <3>2
  <2>3. at' \in [Actor -> {"idle", "asked", "told", "removed", "done"}]
    BY <2>2
  <2>4. present' \in BOOLEAN
    BY <2>1 DEF Remove
  <2>5. UNCHANGED <<track, track_info, track_handle, track_task, paused, started, trackFields,
                    monitorFields, op, events, dropped, cut>>
    BY <2>1 DEF Remove
  <2> QED BY <2>3, <2>4, <2>5
<1>8. CASE \E a \in Actor : Destroy(a)
  BY <1>8 DEF Destroy, StopTrack, AbortTask, MixerStopAll, Free
<1>9. CASE \E p \in Patch : Disconnect(p)
  BY <1>9 DEF Disconnect, Finish, Released, Actor
<1>10. CASE \E p \in Patch : \E b \in BOOLEAN : PatchPaused(p, b) \/ PatchNoStart(p, b)
  <2>1. PICK p \in Patch, b \in BOOLEAN : PatchPaused(p, b) \/ PatchNoStart(p, b)
    BY <1>10
  <2>2. op' \in Ops /\ op'.at = "free"
    BY <2>1, ReleasedOp DEF PatchPaused, PatchNoStart, Finish
  <2>3. at' \in [Actor -> {"idle", "asked", "told", "removed", "done"}]
    BY <2>1 DEF PatchPaused, PatchNoStart, Finish
  <2>4. state' \in [Track -> {"Playing", "Paused", "Stopped"}]
    BY <2>1 DEF PatchPaused, PatchNoStart, SetPaused
  <2> QED
    BY <2>1, <2>2, <2>3, <2>4 DEF PatchPaused, PatchNoStart, SetPaused, Ops
<1>11. CASE \E p \in Patch : \E b \in BOOLEAN : StopSignal(p, b)
  <2>1. PICK p \in Patch, b \in BOOLEAN : StopSignal(p, b)
    BY <1>11
  <2>2. op' \in Ops /\ op'.at = "stopping"
    BY <2>1, StoppingOp DEF StopSignal
  <2>3. cut' \subseteq Track
    BY <2>1 DEF StopSignal
  <2>4. stop_signal' \in [Track -> BOOLEAN]
    BY <2>1 DEF StopSignal
  <2> QED BY <2>1, <2>2, <2>3, <2>4 DEF StopSignal, Ops
<1>12. CASE \E p \in Patch : \E n, b \in BOOLEAN : PatchStart(p, n, b)
  BY <1>12 DEF PatchStart, Begin, Actor, Free
<1>13. CASE \E w \in Ws : WsPlay(w)
  BY <1>13 DEF WsPlay, Begin, Actor, Free
<1>14. CASE \E w \in Ws : WsStop(w)
  BY <1>14 DEF WsStop, StopTrack, HandleStop, AbortTask, Finish, Released, Actor, Free
<1>15. CASE \E d \in Deleter : TellCleanup(d)
  BY <1>15 DEF TellCleanup, Tell, EventKind, EndReason, Actor, Free
<1>24. CASE \E d \in Deleter : DeleteDropped(d)
  <2>1. PICK d \in Deleter : DeleteDropped(d)
    BY <1>24
  <2>2. state' \in [Track -> {"Playing", "Paused", "Stopped"}]
    BY <2>1 DEF DeleteDropped, HandleStop
  <2>3. at' \in [Actor -> {"idle", "asked", "told", "removed", "done"}]
    BY <2>1 DEF DeleteDropped
  <2>4. UNCHANGED <<present, paused, started, decoding, end_marker, monitor, reason, op, events, cut>>
    BY <2>1 DEF DeleteDropped
  <2>5. CASE UNCHANGED <<track, track_info, track_handle, track_task, aborted, stop_signal, dropped>>
    BY <2>2, <2>3, <2>4, <2>5
  <2>6. CASE Free /\ StopTrack
    <3>1. stop_signal' \in [Track -> BOOLEAN] /\ aborted' \subseteq Track
      BY <2>6 DEF StopTrack, AbortTask
    <3> QED BY <2>2, <2>3, <2>4, <2>6, <3>1 DEF StopTrack, Free
  <2> QED BY <2>1, <2>5, <2>6 DEF DeleteDropped
<1>16. CASE \E t \in Track : MonState(t) \/ MonLookup(t) \/ MonAborted(t) \/ MonTick(t)
  BY <1>16 DEF MonState, MonLookup, MonAborted, MonTick, MonGoto
<1>17. CASE \E t \in Track : MonReport(t) \/ MonStuck(t) \/ MonMarker(t)
  <2>1. PICK t \in Track : MonReport(t) \/ MonStuck(t) \/ MonMarker(t)
    BY <1>17
  <2>2. events' \in [Track -> SUBSET EventKind]
    BY <2>1 DEF MonReport, MonStuck, MonMarker, Tell, EventKind, EndReason
  <2>3. CASE MonReport(t)
    BY <2>2, <2>3 DEF MonReport, MonGoto
  <2>4. CASE MonStuck(t)
    BY <2>2, <2>4 DEF MonStuck, MonGoto
  <2>5. CASE MonMarker(t)
    BY <2>2, <2>5 DEF MonMarker, MonGoto
  <2> QED BY <2>1, <2>3, <2>4, <2>5
<1>18. CASE \E t \in Track : \E error \in BOOLEAN : MonRecheck(t, error)
  BY <1>18 DEF MonRecheck, MonGoto, Report, Tell, EventKind, EndReason
<1>19. CASE \E t \in Track : MonClear(t)
  BY <1>19 DEF MonClear, MonGoto, Free
<1>20. CASE \E t \in Track : DecoderEnds(t)
  BY <1>20 DEF DecoderEnds
<1>21. CASE UNCHANGED vars
  BY <1>21 DEF vars
<1> QED
  BY <1>1, <1>2, <1>3, <1>4, <1>5, <1>6, <1>7, <1>8, <1>9, <1>10, <1>11, <1>12, <1>13,
     <1>14, <1>15, <1>16, <1>17, <1>18, <1>19, <1>20, <1>21, <1>22, <1>23, <1>24
  DEF Next, Holder, MonStep
-----------------------------------------------------------------------------
(* Who can be heard, and reached                                           *)

LEMMA VoiceStep == VoiceInv /\ [Next]_vars => VoiceInv'
<1> SUFFICES ASSUME VoiceInv, [Next]_vars PROVE LastIsHeard' /\ WatchedIsReachable'
  BY BaseStep DEF VoiceInv
<1> USE TrackAssumption
    DEF VoiceInv, Current, LastIsHeard, WatchedIsReachable, Audible, Stopped,
        playerFields, trackFields, monitorFields
<1>0. TypeOK'
  BY BaseStep
<1>1. CASE \E a \in Actor : Ask(a) \/ Remove(a) \/ ResolveFails(a)
  BY <1>1 DEF Ask, Remove, ResolveFails
<1>2. CASE \E a \in Actor : Replace(a) \/ StopTold(a) \/ Destroy(a)
  <2>1. \A t \in Track : state'[t] = "Stopped"
    BY <1>2 DEF Replace, StopTold, Destroy, MixerStopAll
  <2> QED BY <2>1
<1>16. CASE \E a \in Actor : StopCurrent(a) \/ StopHandle(a)
  <2>1. PICK a \in Actor : StopCurrent(a) \/ StopHandle(a)
    BY <1>16
  <2>2. UNCHANGED <<decoding, monitor, started>>
    BY <2>1 DEF StopCurrent, StopHandle
  <2>3. \A t \in Track : Audible(t)' => Audible(t) /\ t # track_handle
    BY <2>1, <2>2 DEF StopCurrent, StopHandle, HandleStop
  <2>4. \A t \in Track : t # started => (stop_signal[t] => stop_signal'[t])
    BY <2>1 DEF StopCurrent, StopHandle
  <2>5. CASE StopCurrent(a)
    <3>1. \A t \in Track : t = started => stop_signal'[t]
      BY <2>5 DEF StopCurrent
    <3> QED BY <2>2, <2>3, <3>1
  <2>6. CASE StopHandle(a)
    <3>1. UNCHANGED <<track, track_handle, stop_signal, aborted>>
      BY <2>6 DEF StopHandle
    <3> QED BY <2>2, <2>3, <3>1
  <2> QED BY <2>1, <2>5, <2>6
<1>17. CASE \E d \in Deleter : DeleteDropped(d)
  <2>1. UNCHANGED <<decoding, monitor, started>>
    BY <1>17 DEF DeleteDropped
  <2>2. CASE UNCHANGED <<track, track_handle, stop_signal, aborted, state>>
    BY <2>1, <2>2
  <2>3. CASE StopTrack /\ state' = HandleStop
    <3>1. \A t \in Track : Audible(t)' => Audible(t) /\ t = started
      BY <2>1, <2>3 DEF HandleStop
    <3>2. \A t \in Track : t = started => stop_signal'[t]
      BY <2>3 DEF StopTrack
    <3> QED BY <2>1, <3>1, <3>2
  <2> QED BY <1>17, <2>2, <2>3 DEF DeleteDropped
<1>3. CASE \E a \in Actor : Resolved(a)
  BY <1>3 DEF Resolved, TypeOK
<1>4. CASE \E a \in Actor : \E end \in BOOLEAN : Announce(a, end)
  BY <1>4 DEF Announce, TypeOK
<1>5. CASE \E p \in Patch : Disconnect(p) \/ \E b \in BOOLEAN : PatchNoStart(p, b)
  BY <1>5 DEF Disconnect, PatchNoStart
<1>6. CASE \E p \in Patch : \E b \in BOOLEAN : PatchPaused(p, b)
  BY <1>6 DEF PatchPaused, SetPaused, TypeOK
<1>7. CASE \E p \in Patch : \E b \in BOOLEAN : StopSignal(p, b)
  BY <1>7 DEF StopSignal
<1>8. CASE \/ \E p \in Patch : \E n, b \in BOOLEAN : PatchStart(p, n, b)
           \/ \E w \in Ws : WsPlay(w)
           \/ \E d \in Deleter : TellCleanup(d)
  BY <1>8 DEF PatchStart, WsPlay, Begin, TellCleanup
<1>9. CASE \E w \in Ws : WsStop(w)
  BY <1>9 DEF WsStop, StopTrack, HandleStop
<1>10. CASE \E t \in Track : MonState(t) \/ MonLookup(t) \/ MonAborted(t) \/ MonTick(t)
  BY <1>10 DEF MonState, MonLookup, MonAborted, MonTick, MonGoto, TypeOK
<1>11. CASE \E t \in Track : MonReport(t) \/ MonStuck(t) \/ MonMarker(t)
  BY <1>11 DEF MonReport, MonStuck, MonMarker, MonGoto, TypeOK
<1>12. CASE \E t \in Track : \E error \in BOOLEAN : MonRecheck(t, error)
  BY <1>12 DEF MonRecheck, MonGoto, TypeOK
<1>13. CASE \E t \in Track : MonClear(t)
  BY <1>13 DEF MonClear, MonGoto, TypeOK
<1>14. CASE \E t \in Track : DecoderEnds(t)
  BY <1>14 DEF DecoderEnds, TypeOK
<1>15. CASE UNCHANGED vars
  BY <1>15 DEF vars
<1> QED
  BY <1>1, <1>2, <1>3, <1>4, <1>5, <1>6, <1>7, <1>8, <1>9, <1>10, <1>11, <1>12, <1>13,
     <1>14, <1>15, <1>16, <1>17 DEF Next, Holder, MonStep

LEMMA VoiceInvHolds == Spec => []VoiceInv
<1>1. Init => VoiceInv
  BY BaseInit DEF Init, VoiceInv, LastIsHeard, WatchedIsReachable, Audible, Stopped
<1> QED BY <1>1, VoiceStep, PTL DEF Spec

(* context.rs and start.rs: the player's fields are a track that was given *)
(* or nothing, and every monitor is somewhere in its loop.                 *)
THEOREM TypeCorrect == Spec => []TypeOK
<1>1. VoiceInv => TypeOK
  BY DEF VoiceInv
<1> QED BY <1>1, VoiceInvHolds, PTL

(* start.rs, stop_current_track: whatever is started, replaced, paused and *)
(* stopped, and by whom, no two tracks of a player are audible.            *)
THEOREM OneVoiceHolds == Spec => []OneVoice
<1>1. VoiceInv => OneVoice
  BY DEF VoiceInv, LastIsHeard, OneVoice
<1> QED BY <1>1, VoiceInvHolds, PTL

(* monitor.rs, clear_player_state: a monitor never takes the player from a *)
(* track that is audible and watched.                                      *)
THEOREM WatchedIsReachableHolds == Spec => []WatchedIsReachable
<1>1. VoiceInv => WatchedIsReachable
  BY DEF VoiceInv
<1> QED BY <1>1, VoiceInvHolds, PTL
-----------------------------------------------------------------------------
(* What has been told of a track                                           *)

(* A track that has not been announced has no monitor and no end, and      *)
(* nothing has tried to stop it.                                           *)
Fresh(t) == monitor[t] = "none" /\ events[t] = {} /\ ~stop_signal[t] /\ t \notin aborted
Untold ==
  /\ \A t \in Track : t > started => Fresh(t)
  /\ op.at \in {"resolving", "added"} => Fresh(started)
  /\ \A t \in Track : monitor[t] = "none" => ~Announced(t)

LEMMA UntoldInit == Init => Untold
BY TrackAssumption DEF Init, Untold, Fresh, Announced, Released

LEMMA UntoldStep ==
  TypeOK /\ Current /\ Untold /\ [Next]_vars => Untold'
<1> SUFFICES ASSUME TypeOK, Current, Untold, [Next]_vars PROVE Untold'
  OBVIOUS
<1>0. TypeOK' /\ Current'
  BY BaseStep
<1> USE TrackAssumption
    DEF TypeOK, Current, Untold, Fresh, Announced, playerFields, trackFields, monitorFields
<1>1. CASE \E a \in Actor : Ask(a) \/ Remove(a)
  BY <1>1 DEF Ask, Remove
<1>2. CASE \E a \in Actor : Replace(a)
  <2>1. PICK a \in Actor : Replace(a)
    BY <1>2
  <2>2. UNCHANGED <<events, stop_signal, monitor, aborted>> /\ op'.at = "resolving"
    BY <2>1 DEF Replace
  <2>3. started' \in Track /\ started' = started + 1
    BY <2>1 DEF Replace, Track
  <2>4. \A t \in Track : t >= started' => t > started
    BY <2>3 DEF Track
  <2>5. \A t \in Track : t > started' => t > started
    BY <2>3 DEF Track
  <2> QED BY <2>2, <2>3, <2>4, <2>5 DEF Track
<1>16. CASE \E a \in Actor : StopCurrent(a)
  <2>1. PICK a \in Actor : StopCurrent(a)
    BY <1>16
  <2>2. \A t \in Track : t > started =>
          events'[t] = events[t] /\ stop_signal'[t] = stop_signal[t] /\ (t \in aborted' => t \in aborted)
    BY <2>1 DEF StopCurrent, Tell, AbortTask, Track
  <2>3. \A t \in Track : Announced(t)' => Announced(t)
    BY <2>1 DEF StopCurrent, Tell
  <2>4. op'.at = "silencing" /\ UNCHANGED <<started, monitor>>
    BY <2>1 DEF StopCurrent
  <2> QED BY <2>2, <2>3, <2>4
<1>3. CASE \E a \in Actor : ResolveFails(a)
  <2>1. PICK a \in Actor : ResolveFails(a)
    BY <1>3
  <2>2. \A t \in Track : t > started => events'[t] = events[t]
    BY <2>1 DEF ResolveFails, Tell, Track
  <2>3. \A t \in Track : Announced(t)' => Announced(t)
    BY <2>1 DEF ResolveFails, Tell
  <2>4. op'.at = "free"
    BY <2>1, ReleasedOp DEF ResolveFails, Finish
  <2> QED BY <2>1, <2>2, <2>3, <2>4 DEF ResolveFails
<1>4. CASE \E a \in Actor : Resolved(a)
  BY <1>4 DEF Resolved
<1>5. CASE \E a \in Actor : StopTold(a)
  <2>1. PICK a \in Actor : StopTold(a)
    BY <1>5
  <2>2. \A t \in Track : t > started => events'[t] = events[t]
    BY <2>1 DEF StopTold, Tell, Track
  <2>3. \A t \in Track : Announced(t)' => Announced(t)
    BY <2>1 DEF StopTold, Tell
  <2>4. op'.at = "free"
    BY <2>1, ReleasedOp DEF StopTold, Finish
  <2> QED BY <2>1, <2>2, <2>3, <2>4 DEF StopTold
<1>17. CASE \E a \in Actor : StopHandle(a)
  BY <1>17 DEF StopHandle
<1>18. CASE \E d \in Deleter : DeleteDropped(d)
  <2>1. \A t \in Track : t > started =>
          (stop_signal'[t] => stop_signal[t]) /\ (t \in aborted' => t \in aborted)
    BY <1>18 DEF DeleteDropped, StopTrack, AbortTask, Track
  <2>2. UNCHANGED <<monitor, started, op, events>>
    BY <1>18 DEF DeleteDropped
  <2>3. op.at \in {"resolving", "added"} => UNCHANGED <<stop_signal, aborted>>
    BY <1>18 DEF DeleteDropped, Free
  <2> QED BY <2>1, <2>2, <2>3
<1>6. CASE \E a \in Actor : \E end \in BOOLEAN : Announce(a, end)
  <2>1. PICK a \in Actor, end \in BOOLEAN : Announce(a, end)
    BY <1>6
  <2>2. op'.at = "free"
    BY <2>1, ReleasedOp DEF Announce, Finish
  <2>3. \A t \in Track : t # started => monitor'[t] = monitor[t] /\ events'[t] = events[t]
    BY <2>1 DEF Announce, Tell
  <2>4. monitor'[started] = "tick" \/ UNCHANGED <<monitor, events>>
    BY <2>1 DEF Announce
  <2> QED BY <2>1, <2>2, <2>3, <2>4 DEF Announce, Track
<1>7. CASE \E a \in Actor : Destroy(a)
  <2>1. \A t \in Track : t > started => ~stop_signal'[t] /\ t \notin aborted'
    BY <1>7 DEF Destroy, StopTrack, AbortTask, Track
  <2> QED BY <1>7, <2>1 DEF Destroy, Free
<1>8. CASE \E p \in Patch : Disconnect(p) \/ \E b \in BOOLEAN : PatchPaused(p, b) \/ PatchNoStart(p, b)
  BY <1>8, ReleasedOp DEF Disconnect, PatchPaused, PatchNoStart, Finish
<1>9. CASE \E p \in Patch : \E b \in BOOLEAN : StopSignal(p, b)
  <2>1. PICK p \in Patch, b \in BOOLEAN : StopSignal(p, b)
    BY <1>9
  <2>2. \A t \in Track : t > started => ~stop_signal'[t]
    BY <2>1 DEF StopSignal, Track
  <2>3. op'.at = "stopping"
    BY <2>1, StoppingOp DEF StopSignal
  <2> QED BY <2>1, <2>2, <2>3 DEF StopSignal
<1>10. CASE \/ \E p \in Patch : \E n, b \in BOOLEAN : PatchStart(p, n, b)
            \/ \E w \in Ws : WsPlay(w)
  BY <1>10 DEF PatchStart, WsPlay, Begin
<1>11. CASE \E w \in Ws : WsStop(w)
  <2>1. \A t \in Track : t > started => ~stop_signal'[t] /\ t \notin aborted'
    BY <1>11 DEF WsStop, StopTrack, AbortTask, Track
  <2> QED BY <1>11, <2>1, ReleasedOp DEF WsStop, Finish
<1>12. CASE \E d \in Deleter : TellCleanup(d)
  <2>1. \A t \in Track : t > started => events'[t] = events[t]
    BY <1>12 DEF TellCleanup, Tell, Track
  <2>2. \A t \in Track : Announced(t)' => Announced(t)
    BY <1>12 DEF TellCleanup, Tell
  <2> QED BY <1>12, <2>1, <2>2 DEF TellCleanup, Free
<1>13. CASE \E t \in Track : \/ MonStep(t) \/ MonTick(t) \/ MonClear(t)
                            \/ MonMarker(t) \/ MonStuck(t)
  <2>1. PICK t \in Track : \/ MonStep(t) \/ MonTick(t) \/ MonClear(t)
                          \/ MonMarker(t) \/ MonStuck(t)
    BY <1>13
  <2>2. UNCHANGED <<started, op>> /\ monitor[t] # "none" /\ monitor'[t] # "none"
    <3>1. CASE MonStep(t)
      BY <3>1 DEF MonStep, MonState, MonLookup, MonReport, MonAborted, MonRecheck, MonGoto
    <3>2. CASE ~MonStep(t)
      BY <2>1, <3>2 DEF MonTick, MonClear, MonMarker, MonStuck, MonGoto
    <3> QED BY <3>1, <3>2
  <2>3. \A u \in Track \ {t} :
          /\ monitor'[u] = monitor[u] /\ events'[u] = events[u]
          /\ (stop_signal'[u] => stop_signal[u]) /\ (u \in aborted' => u \in aborted)
    <3>1. CASE MonStep(t)
      BY <3>1 DEF MonStep, MonState, MonLookup, MonReport, MonAborted, MonRecheck, MonGoto,
                  Report, Tell
    <3>2. CASE ~MonStep(t)
      BY <2>1, <3>2 DEF MonTick, MonClear, MonMarker, MonStuck, MonGoto, Tell
    <3> QED BY <3>1, <3>2
  <2>4. ~(t > started) /\ (op.at \in {"resolving", "added"} => t # started)
    BY <2>2
  <2>5. \A u \in Track : u > started => Fresh(u)'
    BY <2>3, <2>4
  <2>6. op'.at \in {"resolving", "added"} => Fresh(started)'
    BY <2>2, <2>3, <2>4
  <2>7. \A u \in Track : monitor'[u] = "none" => ~Announced(u)'
    BY <2>2, <2>3
  <2> QED BY <2>2, <2>5, <2>6, <2>7
<1>14. CASE \E t \in Track : DecoderEnds(t)
  BY <1>14 DEF DecoderEnds
<1>15. CASE UNCHANGED vars
  BY <1>15 DEF vars
<1> QED
  BY <1>1, <1>2, <1>3, <1>4, <1>5, <1>6, <1>7, <1>8, <1>9, <1>10, <1>11, <1>12, <1>13,
     <1>14, <1>15, <1>16, <1>17, <1>18 DEF Next, Holder
-----------------------------------------------------------------------------
(* A track that was cut off is not said to have finished                   *)

(* A monitor that has reported is done. One whose track was cut off has    *)
(* seen the signal or will see it, unless the track has an end time.       *)
Ended(t) == {"finished", "loadFailed"} \cap events[t] # {}
CutInv ==
  /\ \A t \in Track : Ended(t) => monitor[t] \in {"none", "done"}
  /\ \A t \in cut \ end_marker :
       stop_signal[t] /\ monitor[t] \in {"tick", "state", "recheck", "done"} /\ ~Ended(t)

LEMMA CutStep ==
  TypeOK /\ Current /\ Untold /\ CutInv /\ [Next]_vars => CutInv'
<1> SUFFICES ASSUME TypeOK, Current, Untold, CutInv, [Next]_vars PROVE CutInv'
  OBVIOUS
<1> USE TrackAssumption
    DEF TypeOK, Current, CutInv, Ended, playerFields, trackFields, monitorFields
<1>1. CASE \E a \in Actor : Ask(a) \/ Remove(a) \/ Resolved(a) \/ Replace(a) \/ StopHandle(a)
  BY <1>1 DEF Ask, Remove, Resolved, Replace, StopHandle
<1>2. CASE \E a \in Actor : StopCurrent(a) \/ StopTold(a)
  <2>1. PICK a \in Actor : StopCurrent(a) \/ StopTold(a)
    BY <1>2
  <2>2. \A t \in Track : (Ended(t)' => Ended(t)) /\ (stop_signal[t] => stop_signal'[t])
    BY <2>1 DEF StopCurrent, StopTold, Tell
  <2> QED BY <2>1, <2>2 DEF StopCurrent, StopTold
<1>3. CASE \E a \in Actor : ResolveFails(a)
  <2>1. PICK a \in Actor : ResolveFails(a)
    BY <1>3
  <2>2. track \in Track /\ monitor[track] = "none"
    BY <2>1 DEF ResolveFails, Untold, Fresh
  <2>3. \A t \in Track \ {track} : Ended(t)' => Ended(t)
    BY <2>1 DEF ResolveFails, Tell
  <2> QED BY <2>1, <2>2, <2>3 DEF ResolveFails
<1>4. CASE \E a \in Actor : \E end \in BOOLEAN : Announce(a, end)
  <2>1. PICK a \in Actor, end \in BOOLEAN : Announce(a, end)
    BY <1>4
  <2>2. track \in Track /\ monitor[track] = "none" /\ events[track] = {}
    BY <2>1 DEF Announce, Untold, Fresh
  <2>3. track \notin cut \ end_marker
    BY <2>2
  <2>4. \A t \in Track : Ended(t)' => Ended(t) /\ t # track
    BY <2>1, <2>2 DEF Announce, Tell
  <2>5. \A t \in Track \ {track} : monitor'[t] = monitor[t]
    BY <2>1 DEF Announce
  <2>6. end_marker \subseteq end_marker' /\ UNCHANGED <<cut, stop_signal>>
    BY <2>1 DEF Announce
  <2> QED BY <2>3, <2>4, <2>5, <2>6
<1>5. CASE \/ \E a \in Actor : Destroy(a)
           \/ \E w \in Ws : WsStop(w)
           \/ \E d \in Deleter : DeleteDropped(d)
  <2>1. \A t \in Track : stop_signal[t] => stop_signal'[t]
    BY <1>5 DEF Destroy, WsStop, DeleteDropped, StopTrack
  <2> QED BY <1>5, <2>1 DEF Destroy, WsStop, DeleteDropped
<1>6. CASE \/ \E p \in Patch : Disconnect(p) \/ \E b \in BOOLEAN : PatchPaused(p, b) \/ PatchNoStart(p, b)
           \/ \E p \in Patch : \E n, b \in BOOLEAN : PatchStart(p, n, b)
           \/ \E w \in Ws : WsPlay(w)
  BY <1>6 DEF Disconnect, PatchPaused, PatchNoStart, PatchStart, WsPlay, Begin
<1>7. CASE \E p \in Patch : \E b \in BOOLEAN : StopSignal(p, b)
  <2>1. PICK p \in Patch, b \in BOOLEAN : StopSignal(p, b)
    BY <1>7
  <2>2. \A t \in Track : stop_signal[t] \/ t = track_handle => stop_signal'[t]
    BY <2>1 DEF StopSignal
  <2>3. \A t \in cut' \ cut : t = track_handle /\ t \in Track /\ monitor[t] \in {"tick", "state"}
    BY <2>1 DEF StopSignal
  <2> QED BY <2>1, <2>2, <2>3 DEF StopSignal
<1>8. CASE \E d \in Deleter : TellCleanup(d)
  <2>1. \A t \in Track : Ended(t)' => Ended(t)
    BY <1>8 DEF TellCleanup, Tell
  <2> QED BY <1>8, <2>1 DEF TellCleanup
<1>9. CASE \E t \in Track : MonState(t) \/ MonLookup(t) \/ MonAborted(t) \/ MonTick(t) \/ MonClear(t)
  BY <1>9 DEF MonState, MonLookup, MonAborted, MonTick, MonClear, MonGoto
<1>10. CASE \E t \in Track : MonReport(t)
  BY <1>10 DEF MonReport, MonGoto, Tell
<1>11. CASE \E t \in Track : MonStuck(t) \/ MonMarker(t)
  <2>1. PICK t \in Track : MonStuck(t) \/ MonMarker(t)
    BY <1>11
  <2>2. \A u \in Track : (Ended(u)' => Ended(u)) /\ (stop_signal[u] => stop_signal'[u])
    BY <2>1 DEF MonStuck, MonMarker, Tell
  <2> QED BY <2>1, <2>2 DEF MonStuck, MonMarker, MonGoto
<1>12. CASE \E t \in Track : \E error \in BOOLEAN : MonRecheck(t, error)
  <2>1. PICK t \in Track, error \in BOOLEAN : MonRecheck(t, error)
    BY <1>12
  <2>2. \A u \in Track : Ended(u)' => Ended(u)
    BY <2>1 DEF MonRecheck, Report, Tell
  <2>3. t \in cut \ end_marker => monitor'[t] = "done"
    BY <2>1 DEF MonRecheck, MonGoto
  <2> QED BY <2>1, <2>2, <2>3 DEF MonRecheck, MonGoto
<1>13. CASE \E t \in Track : DecoderEnds(t)
  BY <1>13 DEF DecoderEnds
<1>14. CASE UNCHANGED vars
  BY <1>14 DEF vars
<1> QED
  BY <1>1, <1>2, <1>3, <1>4, <1>5, <1>6, <1>7, <1>8, <1>9, <1>10, <1>11, <1>12, <1>13,
     <1>14 DEF Next, Holder, MonStep
-----------------------------------------------------------------------------
(* The end of a track is kept                                              *)

(* The player lets go of an announced track only when its end was told, is *)
(* about to be told, or was dropped.                                       *)
LetGo(t) == HasEnd(t) \/ t \in dropped \/ monitor[t] = "report"
Handled(t) == track_handle = t /\ Announced(t)
EndInv ==
  /\ EndNotForgotten
  /\ \A t \in Track : t = started /\ Announced(t) /\ track_handle = NoTrack => LetGo(t)
  /\ \A t \in Track : op.at = "replacing" /\ Handled(t) => op.replaced \/ t \in dropped
  /\ \A t \in Track : Handled(t) => track_info = t
  /\ op.at = "replacing" /\ op.replaced => track_handle # NoTrack

(* Whatever is stopped is the last track that was started. If its end is   *)
(* kept without its monitor, the others' are kept as before.               *)
LEMMA StopKeeps ==
  ASSUME TypeOK, Current, EndInv,
         UNCHANGED <<started, monitor>>, present' => present,
         \A t \in Track : events[t] \subseteq events'[t],
         \A t \in Track : Announced(t)' => Announced(t),
         dropped \subseteq dropped',
         \A t \in Track \ {started} :
           (stop_signal'[t] => stop_signal[t]) /\ (t \in aborted' => t \in aborted),
         \A t \in Track : t = started /\ Announced(t) => LetGo(t)'
  PROVE  EndNotForgotten'
<1> SUFFICES ASSUME NEW t \in Track, Announced(t)'
             PROVE  HasEnd(t)' \/ Telling(t)' \/ t \in dropped'
  BY DEF EndNotForgotten
<1>1. CASE t = started
  BY <1>1 DEF LetGo, Telling, Reporting
<1>2. CASE t # started
  <2>1. HasEnd(t) \/ Telling(t) \/ t \in dropped
    BY DEF EndInv, EndNotForgotten
  <2>2. HasEnd(t) => HasEnd(t)'
    BY DEF HasEnd
  <2>3. track_handle # t /\ track # t
    BY <1>2, TrackAssumption DEF Current
  <2>4. Reporting(t) => Reporting(t)'
    BY <1>2 DEF Reporting
  <2> QED BY <2>1, <2>2, <2>3, <2>4 DEF Telling
<1> QED BY <1>1, <1>2

LEMMA EndStep ==
  TypeOK /\ Current /\ Untold /\ EndInv /\ [Next]_vars => EndInv'
<1> SUFFICES ASSUME TypeOK, Current, Untold, EndInv, [Next]_vars PROVE EndInv'
  OBVIOUS
<1> USE TrackAssumption
    DEF Current, EndInv, Handled, playerFields, trackFields, monitorFields
<1>0. TypeOK' /\ Current'
  BY BaseStep
<1>1. CASE \E a \in Actor : Ask(a) \/ Remove(a)
  <2>1. PICK a \in Actor : Ask(a) \/ Remove(a)
    BY <1>1
  <2>2. UNCHANGED <<track, track_info, track_handle, started, stop_signal, monitor, aborted,
                    op, events, dropped>> /\ (present' => present)
    BY <2>1 DEF Ask, Remove
  <2> QED
    BY <2>2 DEF EndNotForgotten, Telling, Reporting, LetGo, HasEnd, Announced
<1>2. CASE \E a \in Actor : Replace(a)
  <2>1. PICK a \in Actor : Replace(a)
    BY <1>2
  <2>2. /\ op.at = "silencing" /\ op'.at = "resolving"
        /\ track = NoTrack /\ track_handle = NoTrack /\ track_handle' = NoTrack
        /\ UNCHANGED <<present, stop_signal, monitor, aborted, events, dropped>>
    BY <2>1 DEF Replace, TypeOK
  <2>3. ~Announced(started') /\ started' \in Track
    <3>1. started' \in Track /\ started' > started
      BY <2>1 DEF Replace, Track, TypeOK
    <3> QED BY <2>2, <3>1 DEF TypeOK, Untold, Fresh, Announced
  <2>4. EndNotForgotten'
    BY <2>2 DEF EndNotForgotten, Telling, Reporting, Announced, HasEnd
  <2> QED BY <2>2, <2>3, <2>4 DEF Announced
<1>15. CASE \E a \in Actor : StopCurrent(a)
  <2>1. PICK a \in Actor : StopCurrent(a)
    BY <1>15
  <2>2. \A t \in Track : Announced(t)' => Announced(t)
    BY <2>1 DEF StopCurrent, Tell, Announced, TypeOK
  <2>3. \A t \in Track : events[t] \subseteq events'[t]
    BY <2>1 DEF StopCurrent, Tell, TypeOK
  <2>4. track_handle' = NoTrack /\ op'.at = "silencing" /\ UNCHANGED started
    BY <2>1 DEF StopCurrent, TypeOK
  <2>5. \A t \in Track : t = started /\ Announced(t) => LetGo(t)'
    <3> SUFFICES ASSUME NEW t \in Track, t = started, Announced(t) PROVE LetGo(t)'
      OBVIOUS
    <3>1. CASE op.replaced
      <4>1. t = track_handle
        BY <2>1, <3>1 DEF StopCurrent
      <4>2. "replaced" \in events'[t]
        BY <2>1, <3>1, <4>1 DEF StopCurrent, Tell, TypeOK
      <4> QED BY <4>2 DEF LetGo, HasEnd, EndReason
    <3>2. CASE ~op.replaced
      <4>1. UNCHANGED <<events, dropped, monitor>>
        BY <2>1, <3>2 DEF StopCurrent
      <4>2. LetGo(t)
        BY <2>1, <3>2 DEF StopCurrent, LetGo
      <4> QED BY <4>1, <4>2 DEF LetGo, HasEnd
    <3> QED BY <3>1, <3>2
  <2>6. \A t \in Track \ {started} :
          (stop_signal'[t] => stop_signal[t]) /\ (t \in aborted' => t \in aborted)
    BY <2>1 DEF StopCurrent, AbortTask, TypeOK
  <2>7. EndNotForgotten'
    <3>1. UNCHANGED <<monitor, present, dropped>>
      BY <2>1 DEF StopCurrent
    <3> SUFFICES ASSUME NEW t \in Track, Announced(t)'
                 PROVE  HasEnd(t)' \/ Telling(t)' \/ t \in dropped'
      BY DEF EndNotForgotten
    <3>2. CASE t = started
      BY <2>2, <2>5, <3>1, <3>2 DEF LetGo, Telling, Reporting
    <3>3. CASE t # started
      <4>1. HasEnd(t) \/ Telling(t) \/ t \in dropped
        BY <2>2 DEF EndNotForgotten
      <4>2. HasEnd(t) => HasEnd(t)'
        BY <2>3 DEF HasEnd
      <4>3. Telling(t) => Reporting(t)
        BY <2>1, <3>3 DEF Telling, StopCurrent
      <4> QED BY <2>6, <3>1, <3>3, <4>1, <4>2, <4>3 DEF Telling, Reporting
    <3> QED BY <3>2, <3>3
  <2> QED BY <2>2, <2>4, <2>5, <2>7
<1>3. CASE \E a \in Actor : ResolveFails(a)
  <2>1. PICK a \in Actor : ResolveFails(a)
    BY <1>3
  <2>2. op'.at = "free"
    BY <2>1, ReleasedOp DEF ResolveFails, Finish
  <2>3. \A t \in Track : (Announced(t)' => Announced(t)) /\ (HasEnd(t) => HasEnd(t)')
    BY <2>1 DEF ResolveFails, Tell, Announced, HasEnd, TypeOK
  <2>4. op.at = "resolving" /\ UNCHANGED <<playerFields, trackFields, monitorFields, dropped>>
    BY <2>1 DEF ResolveFails
  <2> QED BY <2>2, <2>3, <2>4 DEF EndNotForgotten, Telling, Reporting, LetGo
<1>4. CASE \E a \in Actor : Resolved(a)
  <2>1. PICK a \in Actor : Resolved(a)
    BY <1>4
  <2>2. ~Announced(track_handle') /\ track_handle' = started /\ started \in Track
    BY <2>1 DEF Resolved, Untold, Fresh, Announced
  <2>3. /\ op.at = "resolving" /\ op'.at = "added"
        /\ UNCHANGED <<present, track_info, started, stop_signal, monitor, aborted, events, dropped>>
    BY <2>1 DEF Resolved, TypeOK
  <2> QED BY <2>2, <2>3 DEF EndNotForgotten, Telling, Reporting, LetGo, Announced, HasEnd
<1>5. CASE \E a \in Actor : StopTold(a)
  <2>1. PICK a \in Actor : StopTold(a)
    BY <1>5
  <2>2. op'.at = "free"
    BY <2>1, ReleasedOp DEF StopTold, Finish
  <2>3. \A t \in Track : (Announced(t)' => Announced(t)) /\ (HasEnd(t) => HasEnd(t)')
    BY <2>1 DEF StopTold, Tell, Announced, HasEnd, TypeOK
  <2>4. \A t \in Track : t = track => HasEnd(t)'
    <3>1. \A t \in Track : t = track => "stopped" \in events'[t]
      BY <2>1 DEF StopTold, Tell, TypeOK
    <3> QED BY <3>1 DEF HasEnd, EndReason
  <2>5. /\ op.at = "silenced" /\ track_handle' = NoTrack
        /\ UNCHANGED <<present, started, stop_signal, monitorFields, dropped>>
    BY <2>1 DEF StopTold
  <2>6. EndNotForgotten'
    BY <2>3, <2>4, <2>5 DEF EndNotForgotten, Telling, Reporting
  <2>7. \A t \in Track : t = started /\ Announced(t)' => LetGo(t)'
    BY <2>3, <2>4, <2>5 DEF LetGo
  <2> QED BY <2>2, <2>5, <2>6, <2>7
<1>16. CASE \E a \in Actor : StopHandle(a)
  <2>1. PICK a \in Actor : StopHandle(a)
    BY <1>16
  <2>2. op.at = "stopping" /\ op'.at = "silenced"
    BY <2>1 DEF StopHandle, TypeOK
  <2>3. UNCHANGED <<present, track, track_info, track_handle, started, stop_signal, monitor,
                    aborted, events, dropped>>
    BY <2>1 DEF StopHandle
  <2> QED
    BY <2>2, <2>3 DEF EndNotForgotten, Telling, Reporting, LetGo, Announced, HasEnd
<1>17. CASE \E d \in Deleter : DeleteDropped(d)
  <2>1. UNCHANGED <<present, started, monitor, events, op>>
    BY <1>17 DEF DeleteDropped
  <2>2. CASE UNCHANGED <<track, track_info, track_handle, track_task, aborted, stop_signal, dropped>>
    BY <2>1, <2>2 DEF EndNotForgotten, Telling, Reporting, LetGo, Announced, HasEnd
  <2>3. CASE Free /\ StopTrack
    <3>1. \A t \in Track : t = started /\ Announced(t) => LetGo(t)'
      BY <2>1, <2>3 DEF StopTrack, LetGo, HasEnd
    <3>2. \A t \in Track \ {started} :
            (stop_signal'[t] => stop_signal[t]) /\ (t \in aborted' => t \in aborted)
      BY <2>3 DEF StopTrack, AbortTask, TypeOK
    <3>3. EndNotForgotten'
      BY <2>1, <2>3, <3>1, <3>2, StopKeeps DEF StopTrack, Announced
    <3> QED BY <2>1, <2>3, <3>1, <3>3 DEF StopTrack, Announced, Free
  <2> QED BY <1>17, <2>2, <2>3 DEF DeleteDropped
<1>6. CASE \E a \in Actor : \E end \in BOOLEAN : Announce(a, end)
  <2>1. PICK a \in Actor, end \in BOOLEAN : Announce(a, end)
    BY <1>6
  <2>2. op.at = "added" /\ op'.at = "free"
    BY <2>1, ReleasedOp DEF Announce, Finish
  <2>3. /\ track \in Track /\ track = started /\ track_handle = started
        /\ UNCHANGED <<present, track_info, track_handle, started, stop_signal, aborted, dropped>>
    BY <2>1 DEF Announce
  <2>4. CASE track_info = NoTrack
    <3>1. UNCHANGED <<monitor, events>>
      BY <2>1, <2>4 DEF Announce
    <3> QED
      BY <2>2, <2>3, <3>1 DEF EndNotForgotten, Telling, Reporting, LetGo, Announced, HasEnd
  <2>5. CASE track_info # NoTrack
    <3>1. \A t \in Track \ {track} : monitor'[t] = monitor[t] /\ events'[t] = events[t]
      BY <2>1, <2>5 DEF Announce, Tell, TypeOK
    <3>2. \A t \in Track : t = started => Reporting(t)'
      <4>1. \A t \in Track : t = started => monitor'[t] = "tick"
        BY <2>1, <2>3, <2>5 DEF Announce, TypeOK
      <4>2. \A t \in Track : t = started => ~stop_signal[t] /\ t \notin aborted
        BY <2>2, <2>3 DEF Untold, Fresh
      <4> QED BY <2>3, <4>1, <4>2 DEF Reporting
    <3>3. EndNotForgotten'
      BY <2>2, <2>3, <3>1, <3>2 DEF EndNotForgotten, Telling, Reporting, Announced, HasEnd
    <3> QED BY <2>2, <2>3, <2>5, <3>1, <3>3 DEF Announced
  <2> QED BY <2>4, <2>5
<1>7. CASE \/ \E a \in Actor : Destroy(a)
           \/ \E w \in Ws : WsStop(w)
  <2>1. StopTrack /\ Free /\ UNCHANGED <<present, started, monitor, events>>
    BY <1>7 DEF Destroy, WsStop
  <2>2. op'.at = "free"
    BY <1>7, ReleasedOp DEF Destroy, WsStop, Finish, Free
  <2>3. \A t \in Track : t = started /\ Announced(t) => LetGo(t)'
    BY <2>1 DEF StopTrack, LetGo, HasEnd
  <2>4. \A t \in Track \ {started} :
          (stop_signal'[t] => stop_signal[t]) /\ (t \in aborted' => t \in aborted)
    BY <2>1 DEF StopTrack, AbortTask, TypeOK
  <2>5. EndNotForgotten'
    BY <2>1, <2>3, <2>4, StopKeeps DEF StopTrack, Announced
  <2> QED BY <2>1, <2>2, <2>3, <2>5 DEF StopTrack, Announced
<1>8. CASE \E p \in Patch : Disconnect(p) \/ \E b \in BOOLEAN : PatchPaused(p, b) \/ PatchNoStart(p, b)
  <2>1. op'.at = "free"
    BY <1>8, ReleasedOp DEF Disconnect, PatchPaused, PatchNoStart, Finish, Free
  <2>2. UNCHANGED <<present, track, track_info, track_handle, started, stop_signal, monitor,
                    aborted, events>> /\ dropped \subseteq dropped'
    BY <1>8 DEF Disconnect, PatchPaused, PatchNoStart
  <2>3. \A t \in Track : Announced(t) /\ Telling(t) => Telling(t)' \/ t \in dropped' \/ HasEnd(t)
    <3>1. CASE \E p \in Patch : \E b \in BOOLEAN : PatchPaused(p, b) \/ PatchNoStart(p, b)
      BY <2>1, <2>2, <3>1 DEF PatchPaused, PatchNoStart, Free, Telling, Reporting
    <3>2. CASE \E p \in Patch : Disconnect(p)
      <4>1. PICK p \in Patch : Disconnect(p)
        BY <3>2
      <4>2. CASE op.at \in {"silencing", "resolving", "added"}
        BY <2>1, <2>2, <4>2 DEF Telling, Reporting
      <4>3. CASE op.at = "replacing" /\ op.replaced
        BY <2>1, <2>2, <4>3 DEF Telling, Reporting
      <4>4. CASE op.at = "silenced"
        <5> SUFFICES ASSUME NEW t \in Track, Announced(t), Telling(t)
                     PROVE  Telling(t)' \/ t \in dropped' \/ HasEnd(t)
          OBVIOUS
        <5>1. CASE Reporting(t)
          BY <2>2, <5>1 DEF Telling, Reporting
        <5>2. CASE track = t /\ track_handle = NoTrack
          <6>1. t = started
            BY <5>2
          <6>2. LetGo(t)
            BY <5>2, <6>1
          <6> QED BY <2>2, <6>2 DEF LetGo, Telling, Reporting
        <5>3. CASE track = t /\ track_handle # NoTrack
          BY <4>1, <4>4, <5>3 DEF Disconnect
        <5> QED BY <5>1, <5>2, <5>3 DEF Telling
      <4> QED BY <4>1, <4>2, <4>3, <4>4 DEF Disconnect
    <3> QED BY <1>8, <3>1, <3>2
  <2>4. EndNotForgotten'
    BY <2>2, <2>3 DEF EndNotForgotten, Announced, HasEnd
  <2> QED BY <2>1, <2>2, <2>4 DEF LetGo, Announced, HasEnd
<1>9. CASE \E p \in Patch : \E b \in BOOLEAN : StopSignal(p, b)
  <2>1. PICK p \in Patch, b \in BOOLEAN : StopSignal(p, b)
    BY <1>9
  <2>2. op'.at = "stopping" /\ op.at = "free"
    BY <2>1, StoppingOp DEF StopSignal, Free
  <2>3. UNCHANGED <<present, track, track_info, track_handle, started, monitor, aborted,
                    events, dropped>>
    BY <2>1 DEF StopSignal
  <2>4. \A t \in Track \ {track_handle} : stop_signal'[t] => stop_signal[t]
    BY <2>1 DEF StopSignal, TypeOK
  <2>5. EndNotForgotten'
    BY <2>2, <2>3, <2>4 DEF EndNotForgotten, Telling, Reporting, Announced, HasEnd
  <2> QED BY <2>2, <2>3, <2>5 DEF LetGo, Announced, HasEnd
<1>10. CASE \/ \E p \in Patch : \E n, b \in BOOLEAN : PatchStart(p, n, b)
            \/ \E w \in Ws : WsPlay(w)
  <2>1. PICK a \in Patch \cup Ws : Begin(a)
    BY <1>10 DEF PatchStart, WsPlay
  <2>2. UNCHANGED <<present, track, track_info, track_handle, started, stop_signal, monitor,
                    aborted, events>>
    BY <1>10 DEF PatchStart, WsPlay
  <2>3. /\ op.at = "free" /\ dropped \subseteq dropped'
        /\ op'.replaced <=> track_handle # NoTrack /\ track_info # NoTrack /\ Audible(track_handle)
        /\ \A t \in Track : t = track_handle /\ ~Audible(t) => t \in dropped'
    BY <2>1 DEF Begin, Free, Audible
  <2>4. EndNotForgotten'
    BY <2>2, <2>3 DEF EndNotForgotten, Telling, Reporting, Announced, HasEnd
  <2> QED BY <2>2, <2>3, <2>4 DEF LetGo, Announced, HasEnd
<1>11. CASE \E d \in Deleter : TellCleanup(d)
  <2>1. \A t \in Track : (Announced(t)' => Announced(t)) /\ (HasEnd(t) => HasEnd(t)')
    BY <1>11 DEF TellCleanup, Tell, Announced, HasEnd, TypeOK
  <2>2. UNCHANGED <<playerFields, trackFields, monitorFields, op, dropped>>
    BY <1>11 DEF TellCleanup
  <2> QED BY <2>1, <2>2 DEF EndNotForgotten, Telling, Reporting, LetGo
<1>12. CASE \E t \in Track : \/ MonStep(t) \/ MonTick(t) \/ MonClear(t)
                            \/ MonMarker(t) \/ MonStuck(t)
  <2>1. PICK t \in Track : \/ MonStep(t) \/ MonTick(t) \/ MonClear(t)
                          \/ MonMarker(t) \/ MonStuck(t)
    BY <1>12
  <2> USE DEF MonStep, MonState, MonLookup, MonReport, MonAborted, MonRecheck, MonTick,
              MonClear, MonMarker, MonStuck, MonGoto
  <2>2. UNCHANGED <<present, started, op, dropped>>
    BY <2>1
  <2>3. \A u \in Track \ {t} :
          /\ monitor'[u] = monitor[u] /\ events'[u] = events[u]
          /\ (stop_signal'[u] => stop_signal[u]) /\ (u \in aborted' => u \in aborted)
    <3>1. CASE MonStep(t)
      BY <3>1 DEF Report, Tell, TypeOK
    <3>2. CASE ~MonStep(t)
      BY <2>1, <3>2 DEF Tell, TypeOK
    <3> QED BY <3>1, <3>2
  <2>4. (HasEnd(t) => HasEnd(t)') /\ (Announced(t)' => Announced(t))
    <3>1. events[t] \subseteq events'[t] /\ ("start" \in events'[t] => "start" \in events[t])
      <4>1. CASE MonStep(t)
        BY <4>1 DEF Report, Tell, TypeOK
      <4>2. CASE ~MonStep(t)
        BY <2>1, <4>2 DEF Tell, TypeOK
      <4> QED BY <4>1, <4>2
    <3> QED BY <3>1 DEF HasEnd, Announced
  <2>5. \/ UNCHANGED <<track, track_info, track_handle>>
        \/ /\ op.at = "free" /\ track_handle = t /\ track_handle' = NoTrack
           /\ monitor'[t] = "report"
    BY <2>1 DEF Free, TypeOK
  <2>6. monitor[t] = "report" => HasEnd(t)'
    <3>1. monitor[t] = "report" => reason[t] \in events'[t]
      BY <2>1 DEF Tell, TypeOK
    <3> QED BY <3>1 DEF HasEnd, EndReason, TypeOK
  <2>7. Reporting(t) => Reporting(t)' \/ HasEnd(t)'
    <3>1. CASE MonStep(t)
      BY <2>2, <2>6, <3>1 DEF Reporting, TypeOK
    <3>2. CASE ~MonStep(t)
      BY <2>1, <2>2, <3>2 DEF Reporting, TypeOK
    <3> QED BY <3>1, <3>2
  <2> HIDE DEF MonStep, MonState, MonLookup, MonReport, MonAborted, MonRecheck, MonTick,
              MonClear, MonMarker, MonStuck, MonGoto
  <2>8. EndNotForgotten'
    <3> SUFFICES ASSUME NEW u \in Track, Announced(u)'
                 PROVE  HasEnd(u)' \/ Telling(u)' \/ u \in dropped'
      BY DEF EndNotForgotten
    <3>1. HasEnd(u) \/ Telling(u) \/ u \in dropped
      BY <2>3, <2>4 DEF EndNotForgotten, Announced
    <3>2. HasEnd(u) => HasEnd(u)'
      BY <2>3, <2>4 DEF HasEnd
    <3>3. Reporting(u) => Reporting(u)' \/ HasEnd(u)'
      BY <2>2, <2>3, <2>7 DEF Reporting
    <3> QED BY <2>2, <2>5, <3>1, <3>2, <3>3 DEF Telling
  <2>9. \A u \in Track : LetGo(u) => LetGo(u)'
    BY <2>2, <2>3, <2>4, <2>6 DEF LetGo, HasEnd
  <2>10. \A u \in Track : Announced(u)' => Announced(u)
    BY <2>3, <2>4 DEF Announced
  <2>11. CASE UNCHANGED <<track, track_info, track_handle>>
    BY <2>2, <2>8, <2>9, <2>10, <2>11
  <2>12. CASE ~UNCHANGED <<track, track_info, track_handle>>
    BY <2>2, <2>5, <2>8, <2>9, <2>10, <2>12 DEF LetGo
  <2> QED BY <2>11, <2>12
<1>13. CASE \E t \in Track : DecoderEnds(t)
  BY <1>13 DEF DecoderEnds, EndNotForgotten, Telling, Reporting, LetGo, Announced, HasEnd
<1>14. CASE UNCHANGED vars
  BY <1>14 DEF vars, EndNotForgotten, Telling, Reporting, LetGo, Announced, HasEnd
<1> QED
  BY <1>1, <1>2, <1>3, <1>4, <1>5, <1>6, <1>7, <1>8, <1>9, <1>10, <1>11, <1>12, <1>13,
     <1>14, <1>15, <1>16, <1>17 DEF Next, Holder

-----------------------------------------------------------------------------
(* update.rs, stop_current_track and monitor_loop: every announced track   *)
(* is told to have ended, by whoever ended it, unless it was dropped; and  *)
(* one that a request cut off is not said to have finished.                *)
THEOREM EndsAreKeptHolds == Spec => []EndsAreKept
<1> DEFINE Inv == TypeOK /\ Current /\ Untold /\ CutInv /\ EndInv
<1>1. Init => Inv
  <2>1. Init => CutInv
    BY DEF Init, CutInv, Ended
  <2>2. Init => EndInv
    BY DEF Init, EndInv, EndNotForgotten, Announced, Handled, Released
  <2> QED BY <2>1, <2>2, BaseInit, UntoldInit
<1>2. Inv /\ [Next]_vars => Inv'
  BY BaseStep, UntoldStep, CutStep, EndStep
<1>3. Inv => EndsAreKept
  BY DEF CutInv, Ended, EndInv, EndsAreKept, CutNotFinished, TypeOK
<1> QED BY <1>1, <1>2, <1>3, PTL DEF Spec
=============================================================================
