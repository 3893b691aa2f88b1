------------------------ MODULE SessionPlayersProofs ------------------------
(***************************************************************************)
(* Proofs about SessionPlayers, for any number of sessions, connections,   *)
(* requests, guilds, players and tasks: its steps are steps of the         *)
(* registry, so that what was proved of the registry holds here too, and a *)
(* shutdown leaves nothing of its session behind.  What may still add to a *)
(* session holds a guard on it or runs inside its connection, and either   *)
(* keeps it in the map, from which a shutdown has taken it.                *)
(***************************************************************************)
EXTENDS SessionPlayers, SessionRegistryProofs

(* A request with a Ref keeps the session in the map.                      *)
GuardHolds == \A r \in Request : guard[r] \in SessionId => guard[r] \in sessions

(* A request's job ends with its Ref, a connection's with its operation.   *)
RequestBusy(r) ==
  /\ job[r].at \in {"idle", "asked", "locked", "replacing"}
  /\ job[r].at # "idle" => guard[r] \in SessionId
  /\ job[r].at = "replacing" => job[r].task \in Task
ConnBusy(c) ==
  /\ job[c].at \in {"idle", "asked", "connecting", "connected", "removed", "destroying"}
  /\ job[c].at # "idle" => pc[c] = "op"
  /\ job[c].at = "connected" => job[c].task \in Task

(* A task that was spawned and is not registered yet is in the hands of    *)
(* the one who spawned it.                                                 *)
InHand(t, s) ==
  \/ \E r \in Request : job[r].at = "replacing" /\ job[r].task = t /\ guard[r] = s
  \/ \E c \in Conn : job[c].at = "connected" /\ job[c].task = t /\ sess[c] = s
Registered ==
  \A t \in running : home[t] \in SessionId /\ (t \in task_handles[home[t]] \/ InHand(t, home[t]))

(* From stop_all_players on, no task of the session runs, and the players  *)
(* left are those that were collected.                                     *)
Stopped(s) ==
  stage[s] # "none" =>
    /\ s \in shut
    /\ \A t \in running : home[t] # s
    /\ \A g \in Guild : players[s][g] # NoPlayer => g \in doomed[s]
    /\ stage[s] = "done" => doomed[s] = {}

PlayersInv ==
  /\ IInv /\ PlayersTypeOK /\ GuardHolds
  /\ \A r \in Request : RequestBusy(r)
  /\ \A c \in Conn : ConnBusy(c)
  /\ Registered
  /\ \A s \in SessionId : Stopped(s)

USE NullAssumption, BoundAssumption, NoneAssumption, ActorAssumption
    DEF Resuming, Serving, Closing, Attached, PC, InMap, Player, Task, Actor

-----------------------------------------------------------------------------
(* The registry inside                                                     *)

(* A step of the players is a step of the registry or leaves it alone.     *)
LEMMA RegistryStep == [Next]_vars => [RegNext]_regVars
<1> SUFFICES ASSUME [Next]_vars PROVE [RegNext]_regVars
  OBVIOUS
<1>1. CASE Registry
  BY <1>1 DEF Registry, RegNext
<1>2. ASSUME NEW r \in Request, PatchStep(r) PROVE [RegNext]_regVars
  BY <1>2 DEF PatchStep, PatchLock, PatchConnect, PatchVoice, PatchOther, RegNext
<1>3. ASSUME NEW r \in Request, NEW s \in SessionId, NEW g \in Guild, PatchStart(r, s, g)
      PROVE  [RegNext]_regVars
  BY <1>3 DEF PatchStart, RegNext
<1>4. ASSUME NEW c \in Conn, OpStep(c) PROVE [RegNext]_regVars
  BY <1>4 DEF OpStep, OpTakeOld, OpConnect, OpStore, OpNothing, RegNext, ConnStep
<1>5. ASSUME NEW c \in Conn, NEW g \in Guild, OpVoice(c, g) \/ OpDestroy(c, g)
      PROVE  [RegNext]_regVars
  BY <1>5 DEF OpVoice, OpDestroy, RegNext
<1>6. ASSUME NEW d \in Deleter, NEW s \in SessionId, NEW g \in Guild, Delete(d, s, g)
      PROVE  UNCHANGED regVars
  BY <1>6 DEF Delete
<1>7. ASSUME NEW a \in Actor \ Request, DestroyStep(a) PROVE [RegNext]_regVars
  BY <1>7 DEF DestroyStep, DestroyLock, DestroyEnd, RegNext, ConnStep
<1>8. ASSUME NEW s \in SessionId, ShutdownStep(s) PROVE UNCHANGED regVars
  BY <1>8 DEF ShutdownStep, StopAllPlayers, ShutdownDestroy, ShutdownEnd
<1>9. CASE UNCHANGED vars
  BY <1>9 DEF vars
<1> QED BY <1>1, <1>2, <1>3, <1>4, <1>5, <1>6, <1>7, <1>8, <1>9 DEF Next

(* session.rs and update.rs: with their players, the sessions still are    *)
(* the registry's: everything proved of the registry holds of them.        *)
THEOREM RunsTheRegistry == Spec => RegSpec
<1>1. Init => RegInit
  BY DEF Init
<1> QED BY <1>1, RegistryStep, PTL DEF Spec, RegSpec

(* DashMap waits for the Refs of a shard before it writes there.           *)
LEMMA GuardStep ==
  ASSUME IInv, GuardHolds, [RegNext]_regVars
  PROVE  GuardHolds'
<1> USE DEF GuardHolds
<1>1. ASSUME NEW c \in Conn, RemoveLive(c) \/ DropSession(c) PROVE GuardHolds'
  BY <1>1 DEF RemoveLive, DropSession, Writable
<1>2. ASSUME NEW c \in Conn, ConnStep(c) \/ BeginOp(c) \/ LeaveLoop(c) \/ FireTimer(c)
      PROVE  GuardHolds'
  <2>1. CASE RemoveLive(c) \/ DropSession(c)
    BY <1>1, <2>1
  <2>2. CASE ~RemoveLive(c) /\ ~DropSession(c)
    <3>1. sessions \subseteq sessions' /\ guard' = guard
      BY <1>2, <2>2 DEF ConnStep, Unpause, SwapSender, InsertResumed, SendInitialState, BeginOp, EndOp,
         LeaveLoop, ReadResumable, CheckChannel, EvictTwin, Park, ArmTimer, FireTimer
    <3> QED BY <3>1
  <2> QED BY <2>1, <2>2
<1>3. ASSUME NEW c \in Conn, NEW s \in SessionId, OpenNew(c, s) \/ TakeResumable(c, s)
      PROVE  GuardHolds'
  BY <1>3 DEF OpenNew, TakeResumable
<1>4. ASSUME NEW r \in Request, NEW s \in SessionId, TakeGuard(r, s) PROVE GuardHolds'
  BY <1>4 DEF TakeGuard, IInv, TypeOK
<1>5. ASSUME NEW r \in Request, DropGuard(r) PROVE GuardHolds'
  BY <1>5 DEF DropGuard, IInv, TypeOK
<1>6. CASE Tick \/ UNCHANGED regVars
  BY <1>6 DEF Tick, regVars
<1>7. ASSUME NEW s \in SessionId, NEW b \in BOOLEAN, NEW t \in Timeouts, UpdateSession(s, b, t)
      PROVE GuardHolds'
  BY <1>7 DEF UpdateSession
<1> QED BY <1>2, <1>3, <1>4, <1>5, <1>6, <1>7 DEF RegNext

(* Nothing that is still at work belongs to a session that was shut down.  *)
LEMMA NobodyLeft ==
  ASSUME PlayersInv
  PROVE  /\ \A r \in Request : guard[r] \in SessionId => guard[r] \in sessions /\ guard[r] \notin shut
         /\ \A c \in Conn : pc[c] = "op" => sess[c] \in sessions /\ sess[c] \notin shut
         /\ \A s \in sessions : s \in SessionId /\ s \notin shut
BY DEF PlayersInv, IInv, TypeOK, GuardHolds, ConnKnows, ConnMap, Placed

-----------------------------------------------------------------------------
(* The steps                                                               *)

JobAt ==
  {"idle", "asked", "locked", "replacing", "connecting", "connected", "removed", "destroying"}

(* What is left to show of a step: the registry's part goes by itself.     *)
PlayersPart ==
  /\ PlayersTypeOK
  /\ \A r \in Request : RequestBusy(r)
  /\ \A c \in Conn : ConnBusy(c)
  /\ Registered
  /\ \A s \in SessionId : Stopped(s)

(* The parts of a job that a step writes.                                  *)
LEMMA JobTypes ==
  ASSUME job \in [Actor -> Job], NEW a \in Actor
  PROVE  /\ [job EXCEPT ![a] = Idle] \in [Actor -> Job]
         /\ \A at \in JobAt, p \in Player :
              [job EXCEPT ![a] = [Idle EXCEPT !.at = at, !.player = p]] \in [Actor -> Job]
         /\ \A at \in JobAt : [job EXCEPT ![a].at = at] \in [Actor -> Job]
         /\ \A at \in JobAt, t \in Task :
              [job EXCEPT ![a].at = at, ![a].task = t] \in [Actor -> Job]
<1>1. Idle \in Job /\ \A at \in JobAt, p \in Player : [Idle EXCEPT !.at = at, !.player = p] \in Job
  BY DEF Idle, Job, JobAt
<1>2. \A at \in JobAt : [job[a] EXCEPT !.at = at] \in Job
  BY DEF Job, JobAt
<1>3. \A at \in JobAt, t \in Task : [[job[a] EXCEPT !.at = at] EXCEPT !.task = t] \in Job
  BY <1>2 DEF Job
<1> QED BY <1>1, <1>2, <1>3

(* Steps of the registry alone move no guard and no connection in "op".    *)
LEMMA RegistryKeeps ==
  ASSUME PlayersInv, IInv', Registry
  PROVE  PlayersPart'
<1>1. UNCHANGED playerVars /\ guard' = guard /\ shut \subseteq shut'
  BY DEF Registry, ConnStep, Unpause, SwapSender, InsertResumed, SendInitialState, EndOp,
     LeaveLoop, ReadResumable, CheckChannel, RemoveLive, EvictTwin, Park, ArmTimer, DropSession,
     FireTimer, OpenNew, TakeResumable, UpdateSession, Tick
<1>2. \A c \in Conn : pc[c] = "op" => pc'[c] = "op" /\ sess'[c] = sess[c]
  <2>1. ASSUME NEW c \in Conn, ConnStep(c), pc[c] # "op"
        PROVE  \A d \in Conn : pc[d] = "op" => pc'[d] = "op" /\ sess'[d] = sess[d]
    BY <2>1 DEF ConnStep, Unpause, SwapSender, InsertResumed, SendInitialState, EndOp,
       ReadResumable, CheckChannel, RemoveLive, EvictTwin, Park, ArmTimer, DropSession, Goto,
       PlayersInv, IInv, TypeOK
  <2>2. ASSUME NEW c \in Conn, LeaveLoop(c) \/ FireTimer(c)
                 \/ \E s \in SessionId : OpenNew(c, s) \/ TakeResumable(c, s)
        PROVE  \A d \in Conn : pc[d] = "op" => pc'[d] = "op" /\ sess'[d] = sess[d]
    BY <2>2 DEF LeaveLoop, FireTimer, OpenNew, TakeResumable, Goto, PlayersInv, IInv, TypeOK
  <2>3. Tick \/ (\E s \in SessionId, b \in BOOLEAN, t \in Timeouts : UpdateSession(s, b, t)) =>
          UNCHANGED <<pc, sess>>
    BY DEF Tick, UpdateSession
  <2> QED BY <2>1, <2>2, <2>3 DEF Registry
<1> USE DEF PlayersInv, PlayersPart
<1>3. PlayersTypeOK'
  BY <1>1 DEF PlayersTypeOK, playerVars, IInv
<1>4. (\A r \in Request : RequestBusy(r)') /\ (\A c \in Conn : ConnBusy(c)')
  BY <1>1, <1>2 DEF RequestBusy, ConnBusy, playerVars
<1>5. Registered'
  BY <1>1, <1>2 DEF Registered, InHand, ConnBusy, playerVars
<1>6. \A s \in SessionId : Stopped(s)'
  BY <1>1 DEF Stopped, playerVars
<1> QED BY <1>3, <1>4, <1>5, <1>6

(* A player is asked for by somebody whose session is in the map.          *)
LEMMA GetOrCreateKeeps ==
  ASSUME PlayersInv, IInv', NEW a \in Actor, NEW s \in sessions, NEW g \in Guild,
         GetOrCreate(a, s, g), shut' = shut,
         \/ a \in Request /\ TakeGuard(a, s)
         \/ a \in Conn /\ s = sess[a] /\ BeginOp(a)
  PROVE  PlayersPart'
<1> USE DEF PlayersInv, PlayersPart
<1>1. s \in SessionId /\ s \notin shut /\ stage[s] = "none"
  BY NobodyLeft DEF Stopped
<1>2. job[a].at = "idle" /\ UNCHANGED <<gateway_task, spawned, running, task_handles, home, doomed, stage>>
  BY DEF GetOrCreate, Idle
<1>3. /\ \E p \in Player : job' = [job EXCEPT ![a] = [Idle EXCEPT !.at = "asked", !.player = p]]
      /\ players' \in [SessionId -> [Guild -> Player \cup {NoPlayer}]] /\ made' \in 0 .. MaxPlayers
  <2>1. CASE players[s][g] # NoPlayer
    <3>1. players[s][g] \in Player
      BY <1>1, <2>1 DEF PlayersTypeOK
    <3>2. /\ job' = [job EXCEPT ![a] = [Idle EXCEPT !.at = "asked", !.player = players[s][g]]]
          /\ UNCHANGED <<players, made>>
      BY <2>1 DEF GetOrCreate
    <3> QED BY <3>1, <3>2 DEF PlayersTypeOK
  <2>2. CASE players[s][g] = NoPlayer
    <3>1. made' \in Player /\ made' \in 0 .. MaxPlayers
      BY <2>2 DEF GetOrCreate, PlayersTypeOK
    <3>2. players' = [players EXCEPT ![s][g] = made']
      BY <2>2 DEF GetOrCreate
    <3>3. players' \in [SessionId -> [Guild -> Player \cup {NoPlayer}]]
      BY <1>1, <3>1, <3>2 DEF PlayersTypeOK
    <3> QED BY <2>2, <3>1, <3>3 DEF GetOrCreate
  <2> QED BY <2>1, <2>2
<1>4. job'[a].at = "asked" /\ \A b \in Actor : b # a => job'[b] = job[b]
  BY <1>3 DEF PlayersTypeOK, Idle
<1>5. job' \in [Actor -> Job]
  <2>1. "asked" \in JobAt /\ job \in [Actor -> Job]
    BY DEF JobAt, PlayersTypeOK
  <2>2. \A p \in Player : [job EXCEPT ![a] = [Idle EXCEPT !.at = "asked", !.player = p]] \in [Actor -> Job]
    BY <2>1, JobTypes
  <2> QED BY ZenonT(60), <1>3, <2>2
<1>6. \A t \in SessionId : t # s => players'[t] = players[t]
  BY DEF GetOrCreate, PlayersTypeOK
<1>7. PlayersTypeOK'
  BY <1>2, <1>3, <1>5 DEF PlayersTypeOK, IInv
<1>8. \A r \in Request : r # a => guard'[r] = guard[r]
  BY DEF TakeGuard, BeginOp, IInv, TypeOK
<1>9. \A c \in Conn : c # a => pc'[c] = pc[c]
  BY DEF TakeGuard, BeginOp, Goto, IInv, TypeOK
<1>10. sess' = sess /\ (a \in Request => guard'[a] \in SessionId) /\ (a \in Conn => pc'[a] = "op")
  BY <1>1 DEF TakeGuard, BeginOp, Goto, IInv, TypeOK
<1>11. (\A r \in Request : RequestBusy(r)') /\ (\A c \in Conn : ConnBusy(c)')
  BY <1>4, <1>8, <1>9, <1>10 DEF RequestBusy, ConnBusy
<1>12. Registered'
  BY <1>2, <1>4, <1>8, <1>10 DEF Registered, InHand
<1>13. \A t \in SessionId : Stopped(t)'
  BY <1>1, <1>2, <1>6 DEF Stopped
<1> QED BY <1>7, <1>11, <1>12, <1>13

(* A new task works for a session that is in the map.                      *)
LEMMA ConnectKeeps ==
  ASSUME PlayersInv, IInv', NEW a \in Actor, NEW s \in sessions, UNCHANGED regVars,
         NEW to \in {"replacing", "connected"}, Connect(a, s, to),
         UNCHANGED <<players, made, gateway_task, task_handles, doomed, stage>>,
         \/ a \in Request /\ s = guard[a] /\ to = "replacing" /\ job[a].at = "locked"
         \/ a \in Conn /\ s = sess[a] /\ to = "connected" /\ job[a].at = "connecting"
  PROVE  PlayersPart'
<1> USE DEF PlayersInv, PlayersPart
<1>1. s \in SessionId /\ s \notin shut /\ stage[s] = "none"
  BY NobodyLeft DEF Stopped
<1>2. PICK new \in Task :
        /\ new = spawned + 1 /\ new \notin running
        /\ spawned' = new /\ running' = running \cup {new}
        /\ home' = [home EXCEPT ![new] = s]
        /\ job' = [job EXCEPT ![a].at = to, ![a].task = new]
  <2>1. spawned + 1 \in Task /\ spawned + 1 \notin running
    BY DEF Connect, PlayersTypeOK
  <2> QED BY <2>1 DEF Connect
<1>3. job' \in [Actor -> Job]
  <2>1. to \in JobAt /\ job \in [Actor -> Job]
    BY DEF JobAt, PlayersTypeOK
  <2> QED BY <1>2, <2>1, JobTypes
<1>4. /\ job'[a].at = to /\ job'[a].task = new
      /\ \A b \in Actor : b # a => job'[b] = job[b]
  BY <1>2 DEF PlayersTypeOK, Job
<1>5. running' \subseteq 1 .. spawned'
  BY <1>2 DEF PlayersTypeOK
<1>6. home' \in [Task -> SessionId \cup {NoSession}] /\ home'[new] = s
      /\ \A t \in Task : t # new => home'[t] = home[t]
  BY <1>1, <1>2 DEF PlayersTypeOK
<1>7. PlayersTypeOK'
  <2>1. TypeOK' /\ spawned' \in 0 .. MaxTasks
    BY <1>2 DEF IInv
  <2> QED BY <1>3, <1>5, <1>6, <2>1 DEF PlayersTypeOK
<1>8. (\A r \in Request : RequestBusy(r)') /\ (\A c \in Conn : ConnBusy(c)')
  BY <1>4 DEF RequestBusy, ConnBusy, regVars
<1>9. running \subseteq Task
  BY DEF PlayersTypeOK
<1>10. Registered'
  <2>1. InHand(new, s)'
    BY <1>4 DEF InHand, regVars
  <2>2. ASSUME NEW t \in running, InHand(t, home[t]) PROVE InHand(t, home[t])'
    <3>1. home'[t] = home[t]
      BY <1>2, <1>6, <1>9
    <3> QED BY <1>4, <2>2, <3>1 DEF InHand, regVars
  <2>3. \A t \in running : home'[t] = home[t]
    BY <1>2, <1>6, <1>9
  <2>4. \A t \in running' : home'[t] \in SessionId /\ (t \in task_handles[home'[t]] \/ InHand(t, home[t])')
    BY <1>1, <1>2, <1>6, <2>1, <2>2, <2>3 DEF Registered
  <2> QED BY <2>4 DEF Registered
<1>11. \A t \in SessionId : Stopped(t)'
  <2>1. \A t \in running : home'[t] = home[t]
    BY <1>2, <1>6, <1>9
  <2> QED BY <1>1, <1>2, <1>6, <2>1 DEF Stopped, regVars
<1> QED BY <1>7, <1>8, <1>10, <1>11

(* A task that is registered before its spawner lets go of it.             *)
LEMMA RegisterKeeps ==
  ASSUME PlayersInv, IInv', NEW a \in Actor, NEW s \in SessionId, shut' = shut, sess' = sess,
         Register(s, job[a].task), job' = [job EXCEPT ![a] = Idle],
         running' \subseteq running, gateway_task' = [gateway_task EXCEPT ![job[a].player] = job[a].task],
         UNCHANGED <<players, made, spawned, home, doomed, stage>>,
         \/ a \in Request /\ s = guard[a] /\ job[a].at = "replacing" /\ DropGuard(a)
         \/ a \in Conn /\ s = sess[a] /\ job[a].at = "connected" /\ EndOp(a)
  PROVE  PlayersPart'
<1> USE DEF PlayersInv, PlayersPart
<1>1. job[a].task \in Task
  BY DEF RequestBusy, ConnBusy
<1>2. job' \in [Actor -> Job]
  BY JobTypes DEF PlayersTypeOK
<1>3. job'[a].at = "idle" /\ \A b \in Actor : b # a => job'[b] = job[b]
  BY DEF PlayersTypeOK, Idle
<1>4. /\ task_handles' \in [SessionId -> SUBSET Task] /\ job[a].task \in task_handles'[s]
      /\ \A t \in SessionId : task_handles[t] \subseteq task_handles'[t]
  BY <1>1 DEF Register, PlayersTypeOK
<1>5. gateway_task' \in [Player -> Task \cup {NoTask}]
  BY <1>1 DEF PlayersTypeOK
<1>6. PlayersTypeOK'
  <2>1. TypeOK'
    BY DEF IInv
  <2> QED BY <1>2, <1>4, <1>5, <2>1 DEF PlayersTypeOK
<1>7. \A r \in Request : r # a => guard'[r] = guard[r]
  BY DEF DropGuard, EndOp, IInv, TypeOK
<1>8. \A c \in Conn : c # a => pc'[c] = pc[c]
  BY DEF DropGuard, EndOp, Goto, IInv, TypeOK
<1>9. (\A r \in Request : RequestBusy(r)') /\ (\A c \in Conn : ConnBusy(c)')
  BY <1>3, <1>7, <1>8 DEF RequestBusy, ConnBusy
<1>10. Registered'
  <2>1. ASSUME NEW t \in running, InHand(t, home[t]), ~InHand(t, home[t])'
        PROVE  t \in task_handles'[home[t]]
    BY <1>3, <1>4, <1>7, <2>1 DEF InHand
  <2>2. ASSUME NEW t \in running PROVE home[t] \in SessionId /\ (t \in task_handles'[home[t]] \/ InHand(t, home[t])')
    BY <1>4, <2>1, <2>2 DEF Registered
  <2> QED BY <2>2 DEF Registered
<1>11. \A t \in SessionId : Stopped(t)'
  BY DEF Stopped
<1> QED BY <1>6, <1>9, <1>10, <1>11

(* A job that ends and adds nothing.                                       *)
LEMMA EndKeeps ==
  ASSUME PlayersInv, IInv', NEW a \in Actor, shut' = shut, sess' = sess,
         job[a].at \notin {"replacing", "connected"}, job' = [job EXCEPT ![a] = Idle],
         running' \subseteq running, gateway_task' \in [Player -> Task \cup {NoTask}],
         UNCHANGED <<players, made, spawned, task_handles, home, doomed, stage>>,
         \/ a \in Request /\ DropGuard(a)
         \/ a \in Conn /\ EndOp(a)
         \/ a \notin Request \cup Conn /\ UNCHANGED regVars
  PROVE  PlayersPart'
<1> USE DEF PlayersInv, PlayersPart
<1>1. job' \in [Actor -> Job]
  BY JobTypes DEF PlayersTypeOK
<1>2. job'[a].at = "idle" /\ \A b \in Actor : b # a => job'[b] = job[b]
  BY DEF PlayersTypeOK, Idle
<1>3. PlayersTypeOK'
  <2>1. TypeOK'
    BY DEF IInv
  <2> QED BY <1>1, <2>1 DEF PlayersTypeOK
<1>4. \A r \in Request : r # a => guard'[r] = guard[r]
  BY DEF DropGuard, EndOp, IInv, TypeOK, regVars
<1>5. \A c \in Conn : c # a => pc'[c] = pc[c]
  BY DEF DropGuard, EndOp, Goto, IInv, TypeOK, regVars
<1>6. (\A r \in Request : RequestBusy(r)') /\ (\A c \in Conn : ConnBusy(c)')
  BY <1>2, <1>4, <1>5 DEF RequestBusy, ConnBusy
<1>7. Registered'
  <2>1. ASSUME NEW t \in running, InHand(t, home[t]) PROVE InHand(t, home[t])'
    BY <1>2, <1>4, <2>1 DEF InHand
  <2>2. \A t \in running : home[t] \in SessionId /\ (t \in task_handles'[home[t]] \/ InHand(t, home[t])')
    BY <2>1 DEF Registered
  <2> QED BY <2>2 DEF Registered
<1>8. \A t \in SessionId : Stopped(t)'
  BY DEF Stopped
<1> QED BY <1>3, <1>6, <1>7, <1>8

(* A job that goes on, having taken the player's lock.                     *)
LEMMA MoveKeeps ==
  ASSUME PlayersInv, IInv', NEW a \in Actor, NEW to \in JobAt, UNCHANGED regVars,
         job' = [job EXCEPT ![a].at = to],
         running' \subseteq running, gateway_task' \in [Player -> Task \cup {NoTask}],
         UNCHANGED <<players, made, spawned, task_handles, home, doomed, stage>>,
         \/ a \in Request /\ job[a].at = "asked" /\ to = "locked"
         \/ a \in Conn /\ job[a].at = "asked" /\ to = "connecting"
         \/ a \notin Request /\ job[a].at = "removed" /\ to = "destroying"
  PROVE  PlayersPart'
<1> USE DEF PlayersInv, PlayersPart
<1>1. job' \in [Actor -> Job]
  BY JobTypes DEF PlayersTypeOK
<1>2. job'[a].at = to /\ \A b \in Actor : b # a => job'[b] = job[b]
  BY DEF PlayersTypeOK, Job
<1>3. PlayersTypeOK'
  <2>1. TypeOK'
    BY DEF IInv
  <2> QED BY <1>1, <2>1 DEF PlayersTypeOK
<1>4. (\A r \in Request : RequestBusy(r)') /\ (\A c \in Conn : ConnBusy(c)')
  BY <1>2 DEF RequestBusy, ConnBusy, regVars
<1>5. Registered'
  <2>1. ASSUME NEW t \in running, InHand(t, home[t]) PROVE InHand(t, home[t])'
    BY <1>2, <2>1 DEF InHand, regVars
  <2>2. \A t \in running : home[t] \in SessionId /\ (t \in task_handles'[home[t]] \/ InHand(t, home[t])')
    BY <2>1 DEF Registered
  <2> QED BY <2>2 DEF Registered
<1>6. \A t \in SessionId : Stopped(t)'
  BY DEF Stopped, regVars
<1> QED BY <1>3, <1>4, <1>5, <1>6

(* A player that is taken out of its session's map, by whomever.           *)
LEMMA RemoveKeeps ==
  ASSUME PlayersInv, IInv', NEW a \in Actor, NEW s \in SessionId, NEW g \in Guild,
         RemovePlayer(a, s, g), stage' = stage, doomed' \in [SessionId -> SUBSET Guild],
         \A t \in SessionId : doomed'[t] = doomed[t] \/ (t = s /\ doomed'[t] = doomed[t] \ {g}),
         \/ a \in Conn /\ BeginOp(a)
         \/ a \notin Request \cup Conn /\ UNCHANGED regVars
  PROVE  PlayersPart'
<1> USE DEF PlayersInv, PlayersPart
<1>1. UNCHANGED <<guard, sess, shut, made, gateway_task, spawned, running, task_handles, home>>
  BY DEF RemovePlayer, BeginOp, regVars
<1>2. job[a].at = "idle" /\ players[s][g] \in Player
  BY DEF RemovePlayer, Idle, PlayersTypeOK
<1>3. job' = [job EXCEPT ![a] = [Idle EXCEPT !.at = "removed", !.player = players[s][g]]]
  BY DEF RemovePlayer
<1>4. job' \in [Actor -> Job]
  <2>1. "removed" \in JobAt /\ job \in [Actor -> Job]
    BY DEF JobAt, PlayersTypeOK
  <2>2. \A p \in Player : [job EXCEPT ![a] = [Idle EXCEPT !.at = "removed", !.player = p]] \in [Actor -> Job]
    BY <2>1, JobTypes
  <2> QED BY <1>2, <1>3, <2>2
<1>5. job'[a].at = "removed" /\ \A b \in Actor : b # a => job'[b] = job[b]
  BY <1>3 DEF PlayersTypeOK, Idle
<1>6. /\ players' \in [SessionId -> [Guild -> Player \cup {NoPlayer}]]
      /\ \A t \in SessionId, h \in Guild :
           players'[t][h] # NoPlayer => players'[t][h] = players[t][h] /\ ~(t = s /\ h = g)
  BY DEF RemovePlayer, PlayersTypeOK
<1>7. PlayersTypeOK'
  <2>1. TypeOK'
    BY DEF IInv
  <2> QED BY <1>1, <1>4, <1>6, <2>1 DEF PlayersTypeOK
<1>8. \A c \in Conn : c = a \/ pc'[c] = pc[c]
  BY DEF BeginOp, Goto, IInv, TypeOK, regVars
<1>9. a \in Conn => pc'[a] = "op"
  BY DEF BeginOp, Goto, IInv, TypeOK
<1>10. (\A r \in Request : RequestBusy(r)') /\ (\A c \in Conn : ConnBusy(c)')
  BY <1>1, <1>5, <1>8, <1>9 DEF RequestBusy, ConnBusy
<1>11. Registered'
  <2>1. ASSUME NEW t \in running, InHand(t, home[t]) PROVE InHand(t, home[t])'
    BY <1>1, <1>2, <1>5, <2>1 DEF InHand
  <2>2. \A t \in running : home[t] \in SessionId /\ (t \in task_handles'[home[t]] \/ InHand(t, home[t])')
    BY <1>1, <2>1 DEF Registered
  <2> QED BY <1>1, <2>2 DEF Registered
<1>12. \A t \in SessionId : Stopped(t)'
  BY <1>1, <1>6 DEF Stopped
<1> QED BY <1>7, <1>10, <1>11, <1>12

(* stop_all_players: what runs for the session is registered by now.       *)
LEMMA StopKeeps ==
  ASSUME PlayersInv, IInv', NEW s \in SessionId, StopAllPlayers(s)
  PROVE  PlayersPart'
<1> USE DEF PlayersInv, PlayersPart
<1>1. s \in shut /\ UNCHANGED regVars /\ UNCHANGED <<players, made, gateway_task, spawned, home, job>>
  BY DEF StopAllPlayers
<1>2. /\ running' = running \ task_handles[s]
      /\ task_handles' = [task_handles EXCEPT ![s] = {}]
      /\ stage' = [stage EXCEPT ![s] = "destroying"]
      /\ doomed' = [doomed EXCEPT ![s] = {g \in Guild : players[s][g] # NoPlayer}]
  BY DEF StopAllPlayers
<1>3. PlayersTypeOK'
  <2>1. TypeOK'
    BY DEF IInv
  <2>2. task_handles' \in [SessionId -> SUBSET Task] /\ running' \subseteq 1 .. spawned'
    BY <1>1, <1>2 DEF PlayersTypeOK
  <2>3. doomed' \in [SessionId -> SUBSET Guild]
    BY <1>2 DEF PlayersTypeOK
  <2>4. stage' \in [SessionId -> {"none", "destroying", "done"}]
    BY <1>2 DEF PlayersTypeOK
  <2> QED BY <1>1, <2>1, <2>2, <2>3, <2>4 DEF PlayersTypeOK
<1>4. (\A r \in Request : RequestBusy(r)') /\ (\A c \in Conn : ConnBusy(c)')
  BY <1>1 DEF RequestBusy, ConnBusy, regVars
<1>5. \A t : ~InHand(t, s)
  BY <1>1, NobodyLeft DEF InHand, RequestBusy, ConnBusy
<1>6. \A t \in running' : home[t] # s
  BY <1>2, <1>5 DEF Registered
<1>7. Registered'
  <2>1. ASSUME NEW t \in running, InHand(t, home[t]) PROVE InHand(t, home[t])'
    BY <1>1, <2>1 DEF InHand, regVars
  <2>2. \A t \in running' : home[t] \in SessionId /\ (t \in task_handles'[home[t]] \/ InHand(t, home[t])')
    BY <1>2, <1>6, <2>1 DEF Registered, PlayersTypeOK
  <2> QED BY <1>1, <2>2 DEF Registered
<1>8. Stopped(s)'
  BY <1>1, <1>2, <1>6 DEF Stopped, PlayersTypeOK, regVars
<1>9. \A t \in SessionId : t # s => Stopped(t)'
  BY <1>1, <1>2 DEF Stopped, PlayersTypeOK, regVars
<1> QED BY <1>3, <1>4, <1>7, <1>8, <1>9

(* The steps of a shutdown.                                                *)
LEMMA ShutdownKeeps ==
  ASSUME PlayersInv, IInv', NEW s \in SessionId, ShutdownStep(s)
  PROVE  PlayersPart'
<1> USE DEF PlayersInv, PlayersPart
<1>1. CASE StopAllPlayers(s)
  BY <1>1, StopKeeps
<1>2. CASE ShutdownEnd(s)
  <2>1. UNCHANGED regVars /\ UNCHANGED <<players, made, gateway_task, spawned, running, task_handles, home, job, doomed>>
    BY <1>2 DEF ShutdownEnd
  <2>2. stage[s] = "destroying" /\ doomed[s] = {} /\ stage' = [stage EXCEPT ![s] = "done"]
    BY <1>2 DEF ShutdownEnd
  <2>3. PlayersTypeOK'
    BY <2>1, <2>2 DEF PlayersTypeOK, IInv
  <2>4. (\A r \in Request : RequestBusy(r)') /\ (\A c \in Conn : ConnBusy(c)') /\ Registered'
    BY <2>1 DEF RequestBusy, ConnBusy, Registered, InHand, regVars
  <2>5. \A t \in SessionId : Stopped(t)'
    BY <2>1, <2>2 DEF Stopped, PlayersTypeOK, regVars
  <2> QED BY <2>3, <2>4, <2>5
<1>3. ASSUME NEW g \in Guild, ShutdownDestroy(s, g), players[s][g] # NoPlayer PROVE PlayersPart'
  <2>1. RemovePlayer(s, s, g) /\ UNCHANGED regVars /\ stage' = stage
    BY <1>3 DEF ShutdownDestroy
  <2>2. doomed' \in [SessionId -> SUBSET Guild] /\ doomed'[s] = doomed[s] \ {g}
          /\ \A t \in SessionId : t # s => doomed'[t] = doomed[t]
    BY <1>3 DEF ShutdownDestroy, PlayersTypeOK
  <2> QED BY <2>1, <2>2, RemoveKeeps
<1>4. ASSUME NEW g \in Guild, ShutdownDestroy(s, g), players[s][g] = NoPlayer PROVE PlayersPart'
  <2>1. UNCHANGED regVars /\ UNCHANGED <<job, players, made, gateway_task, spawned, running, task_handles, home, stage>>
    BY <1>4 DEF ShutdownDestroy
  <2>2. doomed' \in [SessionId -> SUBSET Guild] /\ doomed'[s] = doomed[s] \ {g}
          /\ \A t \in SessionId : t # s => doomed'[t] = doomed[t]
    BY <1>4 DEF ShutdownDestroy, PlayersTypeOK
  <2>3. PlayersTypeOK'
    BY <2>1, <2>2 DEF PlayersTypeOK, IInv
  <2>4. (\A r \in Request : RequestBusy(r)') /\ (\A c \in Conn : ConnBusy(c)') /\ Registered'
    BY <2>1 DEF RequestBusy, ConnBusy, Registered, InHand, regVars
  <2>5. \A t \in SessionId : Stopped(t)'
    BY ZenonT(60), <1>4, <2>1, <2>2 DEF Stopped, PlayersTypeOK, regVars
  <2> QED BY <2>3, <2>4, <2>5
<1> QED BY <1>1, <1>2, <1>3, <1>4 DEF ShutdownStep

-----------------------------------------------------------------------------
(* The invariant                                                           *)

LEMMA PlayersInit == Init => PlayersInv
<1> SUFFICES ASSUME Init PROVE PlayersInv
  OBVIOUS
<1> USE DEF Init
<1>1. IInv
  BY InvInit
<1>2. Idle \in Job
  BY DEF Idle, Job
<1>3. PlayersTypeOK
  BY <1>1, <1>2 DEF PlayersTypeOK, IInv
<1>4. GuardHolds /\ Registered /\ \A s \in SessionId : Stopped(s)
  BY DEF RegInit, GuardHolds, Registered, Stopped
<1>5. (\A r \in Request : RequestBusy(r)) /\ (\A c \in Conn : ConnBusy(c))
  BY DEF RequestBusy, ConnBusy, Idle
<1> QED BY <1>1, <1>3, <1>4, <1>5 DEF PlayersInv

LEMMA PlayersStep == PlayersInv /\ [Next]_vars => PlayersInv'
<1> SUFFICES ASSUME PlayersInv, [Next]_vars PROVE PlayersInv'
  OBVIOUS
<1>1. IInv' /\ GuardHolds'
  BY RegistryStep, InvStep, GuardStep DEF PlayersInv
<1>2. SUFFICES PlayersPart'
  BY <1>1 DEF PlayersInv, PlayersPart
<1>3. gateway_task \in [Player -> Task \cup {NoTask}]
  BY DEF PlayersInv, PlayersTypeOK
<1>4. \A r \in Request : guard[r] \in SessionId => guard[r] \in sessions
  BY NobodyLeft
<1>5. CASE Registry
  BY <1>1, <1>5, RegistryKeeps
<1>6. ASSUME NEW r \in Request, NEW s \in SessionId, NEW g \in Guild, PatchStart(r, s, g)
      PROVE  PlayersPart'
  BY <1>1, <1>6, GetOrCreateKeeps DEF PatchStart, TakeGuard
<1>7. ASSUME NEW r \in Request, PatchLock(r) PROVE PlayersPart'
  BY <1>1, <1>3, <1>7, MoveKeeps DEF PatchLock, Lock, Step, JobAt
<1>8. ASSUME NEW r \in Request, PatchConnect(r) PROVE PlayersPart'
  <2>1. guard[r] \in sessions
    BY <1>4, <1>8 DEF PatchConnect, PlayersInv, RequestBusy
  <2> QED BY <1>1, <1>8, <2>1, ConnectKeeps DEF PatchConnect
<1>9. ASSUME NEW r \in Request, PatchVoice(r) PROVE PlayersPart'
  <2>1. guard[r] \in SessionId
    BY <1>9 DEF PatchVoice, DropGuard
  <2> QED BY <1>1, <1>9, <2>1, RegisterKeeps DEF PatchVoice, DropGuard
<1>10. ASSUME NEW r \in Request, PatchOther(r) PROVE PlayersPart'
  BY <1>1, <1>3, <1>10, EndKeeps DEF PatchOther, DropGuard
<1>11. ASSUME NEW c \in Conn, NEW g \in Guild, OpVoice(c, g) PROVE PlayersPart'
  BY <1>1, <1>11, GetOrCreateKeeps DEF OpVoice, BeginOp
<1>12. ASSUME NEW c \in Conn, OpTakeOld(c) PROVE PlayersPart'
  <2>1. gateway_task' \in [Player -> Task \cup {NoTask}] /\ running' \subseteq running
    BY <1>3, <1>12 DEF OpTakeOld
  <2> QED BY <1>1, <1>12, <2>1, MoveKeeps DEF OpTakeOld, Lock, Step, JobAt
<1>13. ASSUME NEW c \in Conn, OpConnect(c) PROVE PlayersPart'
  <2>1. sess[c] \in sessions
    BY <1>13, NobodyLeft DEF OpConnect, PlayersInv, ConnBusy
  <2> QED BY <1>1, <1>13, <2>1, ConnectKeeps DEF OpConnect
<1>14. ASSUME NEW c \in Conn, OpStore(c) PROVE PlayersPart'
  <2>1. sess[c] \in SessionId
    BY <1>14, NobodyLeft DEF OpStore, EndOp, Goto
  <2> QED BY <1>1, <1>14, <2>1, RegisterKeeps DEF OpStore, EndOp
<1>15. ASSUME NEW c \in Conn, OpNothing(c) PROVE PlayersPart'
  BY <1>1, <1>3, <1>15, EndKeeps DEF OpNothing, EndOp
<1>16. ASSUME NEW c \in Conn, NEW g \in Guild, OpDestroy(c, g) PROVE PlayersPart'
  <2>1. sess[c] \in SessionId /\ doomed \in [SessionId -> SUBSET Guild]
    BY <1>16, NobodyLeft DEF OpDestroy, BeginOp, PlayersInv, PlayersTypeOK
  <2> QED BY <1>1, <1>16, <2>1, RemoveKeeps DEF OpDestroy
<1>17. ASSUME NEW d \in Deleter, NEW s \in SessionId, NEW g \in Guild, Delete(d, s, g)
       PROVE  PlayersPart'
  <2>1. d \notin Request \cup Conn /\ doomed \in [SessionId -> SUBSET Guild]
    BY DEF PlayersInv, PlayersTypeOK
  <2> QED BY <1>1, <1>17, <2>1, RemoveKeeps DEF Delete
<1>18. ASSUME NEW a \in Actor \ Request, DestroyLock(a) PROVE PlayersPart'
  BY <1>1, <1>3, <1>18, MoveKeeps DEF DestroyLock, Lock, Step, JobAt
<1>19. ASSUME NEW a \in Actor \ Request, DestroyEnd(a) PROVE PlayersPart'
  <2>1. gateway_task' \in [Player -> Task \cup {NoTask}] /\ running' \subseteq running
    BY <1>3, <1>19 DEF DestroyEnd
  <2>2. shut' = shut /\ sess' = sess
    BY <1>19 DEF DestroyEnd, EndOp, regVars
  <2> QED BY <1>1, <1>19, <2>1, <2>2, EndKeeps DEF DestroyEnd
<1>20. ASSUME NEW s \in SessionId, ShutdownStep(s) PROVE PlayersPart'
  BY <1>1, <1>20, ShutdownKeeps
<1>21. CASE UNCHANGED vars
  BY <1>1, <1>21 DEF vars, playerVars, regVars, PlayersInv, PlayersPart, PlayersTypeOK, IInv,
     RequestBusy, ConnBusy, Registered, InHand, Stopped
<1> QED BY <1>5, <1>6, <1>7, <1>8, <1>9, <1>10, <1>11, <1>12, <1>13, <1>14, <1>15, <1>16, <1>17,
     <1>18, <1>19, <1>20, <1>21 DEF Next, PatchStep, OpStep, DestroyStep

LEMMA PlayersHold == Spec => []PlayersInv
BY PlayersInit, PlayersStep, PTL DEF Spec

(* session.rs: the maps of players and tasks keep their types.             *)
THEOREM PlayersTypeCorrect == Spec => []PlayersTypeOK
<1>1. PlayersInv => PlayersTypeOK
  BY DEF PlayersInv
<1> QED BY <1>1, PlayersHold, PTL

(* session.rs, shutdown: when it returns, no gateway task of the session   *)
(* runs and its map of players is empty, whatever requests and operations  *)
(* overlapped it.                                                          *)
THEOREM ShutdownStopsEverythingHolds == Spec => []ShutdownStopsEverything
<1>1. PlayersInv => ShutdownStopsEverything
  BY DEF PlayersInv, Stopped, ShutdownStopsEverything
<1> QED BY <1>1, PlayersHold, PTL
=============================================================================
