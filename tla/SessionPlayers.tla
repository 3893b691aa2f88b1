--------------------------- MODULE SessionPlayers ---------------------------
(***************************************************************************)
(* The players of a session and their voice gateway tasks: who creates     *)
(* them, who may still be using one while it is destroyed, and how a       *)
(* session's shutdown finds everything it has to stop. Composed with       *)
(* SessionRegistry, whose steps it takes together with its own: PATCH      *)
(* requests keep a guard on the session, voice operations of the WebSocket *)
(* run inside the connection's loop, DELETE requests only keep a clone of  *)
(* the session's Arc.                                                      *)
(*                                                                         *)
(* Sources: src/server/session.rs, src/protocol/opcodes.rs,                *)
(* src/rest/routes/player/{update,destroy}.rs, src/player/context.rs.      *)
(***************************************************************************)
EXTENDS SessionRegistry

CONSTANTS
  Guild,
  Deleter,      \* DELETE requests that may run at the same time
  MaxPlayers,   \* bound: player objects ever created
  MaxTasks,     \* bound: gateway tasks ever spawned
  NoPlayer, NoTask

Player == 1..MaxPlayers
Task   == 1..MaxTasks
Actor  == Request \cup Conn \cup Deleter \cup SessionId

ASSUME BoundAssumption == MaxPlayers \in Nat /\ MaxTasks \in Nat
ASSUME NoneAssumption == NoPlayer \notin Player /\ NoTask \notin Task
ASSUME ActorAssumption ==
  /\ Request \cap (Conn \cup Deleter \cup SessionId) = {}
  /\ Conn \cap (Deleter \cup SessionId) = {} /\ Deleter \cap SessionId = {}

VARIABLES
  players,      \* Session.players: the player object of each guild
  made,         \* number of player objects created so far
  gateway_task, \* PlayerContext.gateway_task, per player object
  spawned,      \* number of gateway tasks spawned so far
  running,      \* gateway tasks neither finished nor aborted
  task_handles, \* Session.task_handles
  home,         \* the session each spawned task works for
  job,          \* what each actor is doing, to which player, with which task
  doomed,       \* guilds a shutdown has collected and not destroyed yet
  stage         \* how far shutdown has come, per session

playerVars == <<players, made, gateway_task, spawned, running, task_handles,
                home, job, doomed, stage>>
vars == <<regVars, playerVars>>

Idle == [at |-> "idle", player |-> NoPlayer, task |-> NoTask]
Job  == [at : {"idle", "asked", "locked", "replacing", "connecting",
               "connected", "removed", "destroying"},
         player : Player \cup {NoPlayer}, task : Task \cup {NoTask}]

PlayersTypeOK ==
  /\ TypeOK
  /\ players \in [SessionId -> [Guild -> Player \cup {NoPlayer}]]
  /\ made \in 0..MaxPlayers /\ spawned \in 0..MaxTasks
  /\ gateway_task \in [Player -> Task \cup {NoTask}]
  /\ running \subseteq 1..spawned
  /\ task_handles \in [SessionId -> SUBSET Task]
  /\ home \in [Task -> SessionId \cup {NoSession}]
  /\ job \in [Actor -> Job]
  /\ doomed \in [SessionId -> SUBSET Guild]
  /\ stage \in [SessionId -> {"none", "destroying", "done"}]

Init ==
  /\ RegInit
  /\ players = [s \in SessionId |-> [g \in Guild |-> NoPlayer]]
  /\ made = 0 /\ spawned = 0
  /\ gateway_task = [p \in Player |-> NoTask]
  /\ running = {}
  /\ task_handles = [s \in SessionId |-> {}]
  /\ home = [t \in Task |-> NoSession]
  /\ job = [a \in Actor |-> Idle]
  /\ doomed = [s \in SessionId |-> {}]
  /\ stage = [s \in SessionId |-> "none"]

(* The write lock of a player object.                                      *)
Locked(p) ==
  \E a \in Actor : job[a].player = p /\ job[a].at \in {"locked", "replacing", "destroying"}

Step(a, from, to) == job[a].at = from /\ job' = [job EXCEPT ![a].at = to]

Lock(a, from, to) == Step(a, from, to) /\ ~Locked(job[a].player)

-----------------------------------------------------------------------------
(* get_or_create_player                                                    *)
GetOrCreate(a, s, g) ==
  /\ job[a] = Idle
  /\ IF players[s][g] # NoPlayer
       THEN /\ job' = [job EXCEPT ![a] = [Idle EXCEPT !.at = "asked", !.player = players[s][g]]]
            /\ UNCHANGED <<players, made>>
       ELSE /\ made < MaxPlayers
            /\ made' = made + 1
            /\ players' = [players EXCEPT ![s][g] = made']
            /\ job' = [job EXCEPT ![a] = [Idle EXCEPT !.at = "asked", !.player = made']]
  /\ UNCHANGED <<gateway_task, spawned, running, task_handles, home, doomed, stage>>

(* connect_voice spawns the gateway's task.                                *)
Connect(a, s, to) ==
  /\ spawned < MaxTasks
  /\ spawned' = spawned + 1
  /\ running' = running \cup {spawned'}
  /\ home' = [home EXCEPT ![spawned'] = s]
  /\ job' = [job EXCEPT ![a].at = to, ![a].task = spawned']

Register(s, t) == task_handles' = [task_handles EXCEPT ![s] = @ \cup {t}]

-----------------------------------------------------------------------------
(* PATCH /players: one write lock and one guard for the whole request.     *)

PatchStart(r, s, g) == TakeGuard(r, s) /\ GetOrCreate(r, s, g)

PatchLock(r) ==
  /\ Lock(r, "asked", "locked")
  /\ UNCHANGED <<regVars, players, made, gateway_task, spawned, running,
                 task_handles, home, doomed, stage>>

PatchConnect(r) ==
  /\ job[r].at = "locked"
  /\ Connect(r, guard[r], "replacing")
  /\ UNCHANGED <<regVars, players, made, gateway_task, task_handles, doomed, stage>>

(* Mistake kept for checking: register_task forgotten.                     *)
PatchVoiceUnregistered(r) ==
  LET p == job[r].player IN
  /\ job[r].at = "replacing"
  /\ running' = running \ {gateway_task[p]}
  /\ gateway_task' = [gateway_task EXCEPT ![p] = job[r].task]
  /\ job' = [job EXCEPT ![r] = Idle]
  /\ DropGuard(r)
  /\ UNCHANGED <<players, made, spawned, task_handles, home, doomed, stage>>

(* register_task, then gateway_task.replace, and the old task is aborted.  *)
PatchVoice(r) ==
  LET p == job[r].player IN
  /\ job[r].at = "replacing"
  /\ Register(guard[r], job[r].task)
  /\ running' = running \ {gateway_task[p]}
  /\ gateway_task' = [gateway_task EXCEPT ![p] = job[r].task]
  /\ job' = [job EXCEPT ![r] = Idle]
  /\ DropGuard(r)
  /\ UNCHANGED <<players, made, spawned, home, doomed, stage>>

(* A request without a voice state.                                        *)
PatchOther(r) ==
  /\ job[r].at = "locked"
  /\ job' = [job EXCEPT ![r] = Idle]
  /\ DropGuard(r)
  /\ UNCHANGED <<players, made, gateway_task, spawned, running, task_handles,
                 home, doomed, stage>>

-----------------------------------------------------------------------------
(* The voiceUpdate operation: the lock is released while it connects.      *)

OpVoice(c, g) == BeginOp(c) /\ GetOrCreate(c, sess[c], g)

OpTakeOld(c) ==
  LET p == job[c].player IN
  /\ Lock(c, "asked", "connecting")
  /\ running' = running \ {gateway_task[p]}
  /\ gateway_task' = [gateway_task EXCEPT ![p] = NoTask]
  /\ UNCHANGED <<regVars, players, made, spawned, task_handles, home, doomed, stage>>

OpConnect(c) ==
  /\ job[c].at = "connecting"
  /\ Connect(c, sess[c], "connected")
  /\ UNCHANGED <<regVars, players, made, gateway_task, task_handles, doomed, stage>>

(* A gateway task another request stored meanwhile is dropped, not aborted. *)
OpStore(c) ==
  LET p == job[c].player IN
  /\ job[c].at = "connected" /\ ~Locked(p)
  /\ Register(sess[c], job[c].task)
  /\ gateway_task' = [gateway_task EXCEPT ![p] = job[c].task]
  /\ job' = [job EXCEPT ![c] = Idle]
  /\ EndOp(c)
  /\ UNCHANGED <<players, made, spawned, running, home, doomed, stage>>

(* The same voice state again while a task is stored, or no user id.       *)
OpNothing(c) ==
  /\ job[c].at = "asked" /\ ~Locked(job[c].player)
  /\ job' = [job EXCEPT ![c] = Idle]
  /\ EndOp(c)
  /\ UNCHANGED <<players, made, gateway_task, spawned, running, task_handles,
                 home, doomed, stage>>

-----------------------------------------------------------------------------
(* Session.destroy_player: players.remove, then the write lock, then       *)
(* PlayerContext.destroy.                                                  *)

RemovePlayer(a, s, g) ==
  /\ job[a] = Idle /\ players[s][g] # NoPlayer
  /\ job' = [job EXCEPT ![a] = [Idle EXCEPT !.at = "removed", !.player = players[s][g]]]
  /\ players' = [players EXCEPT ![s][g] = NoPlayer]
  /\ UNCHANGED <<made, gateway_task, spawned, running, task_handles, home>>

DestroyLock(a) ==
  /\ Lock(a, "removed", "destroying")
  /\ UNCHANGED <<regVars, players, made, gateway_task, spawned, running,
                 task_handles, home, doomed, stage>>

(* Mistake kept for checking: destroy waits for a gateway task to stop.     *)
DestroyEndWaiting(a) ==
  LET p == job[a].player IN
  /\ job[a].at = "destroying" /\ gateway_task[p] # NoTask
  /\ running' = running \ {gateway_task[p]}
  /\ gateway_task' = [gateway_task EXCEPT ![p] = NoTask]
  /\ job' = [job EXCEPT ![a] = Idle]
  /\ IF a \in Conn THEN EndOp(a) ELSE UNCHANGED regVars
  /\ UNCHANGED <<players, made, spawned, task_handles, home, doomed, stage>>

DestroyEnd(a) ==
  LET p == job[a].player IN
  /\ job[a].at = "destroying"
  /\ running' = running \ {gateway_task[p]}
  /\ gateway_task' = [gateway_task EXCEPT ![p] = NoTask]
  /\ job' = [job EXCEPT ![a] = Idle]
  /\ IF a \in Conn THEN EndOp(a) ELSE UNCHANGED regVars
  /\ UNCHANGED <<players, made, spawned, task_handles, home, doomed, stage>>

(* The destroy operation of the WebSocket.                                 *)
OpDestroy(c, g) ==
  /\ BeginOp(c)
  /\ RemovePlayer(c, sess[c], g)
  /\ UNCHANGED <<doomed, stage>>

(* DELETE /players. The session is looked up first and its clone outlives  *)
(* the lookup, so the removal may come after the session has left the map. *)
Delete(d, s, g) ==
  /\ s \in born
  /\ RemovePlayer(d, s, g)
  /\ UNCHANGED <<regVars, doomed, stage>>

-----------------------------------------------------------------------------
(* Session.shutdown, run by whoever took the session out of the maps.      *)

(* stop_all_players, and the keys of `players' are collected.              *)
StopAllPlayers(s) ==
  /\ s \in shut /\ stage[s] = "none"
  /\ stage' = [stage EXCEPT ![s] = "destroying"]
  /\ running' = running \ task_handles[s]
  /\ task_handles' = [task_handles EXCEPT ![s] = {}]
  /\ doomed' = [doomed EXCEPT ![s] = {g \in Guild : players[s][g] # NoPlayer}]
  /\ UNCHANGED <<regVars, players, made, gateway_task, spawned, home, job>>

ShutdownDestroy(s, g) ==
  /\ stage[s] = "destroying" /\ g \in doomed[s] /\ job[s] = Idle
  /\ doomed' = [doomed EXCEPT ![s] = @ \ {g}]
  /\ IF players[s][g] # NoPlayer
       THEN RemovePlayer(s, s, g)
       ELSE UNCHANGED <<job, players, made, gateway_task, spawned, running,
                        task_handles, home>>
  /\ UNCHANGED <<regVars, stage>>

ShutdownEnd(s) ==
  /\ stage[s] = "destroying" /\ doomed[s] = {} /\ job[s] = Idle
  /\ stage' = [stage EXCEPT ![s] = "done"]
  /\ UNCHANGED <<regVars, players, made, gateway_task, spawned, running,
                 task_handles, home, job, doomed>>

-----------------------------------------------------------------------------
(* Steps of the registry that leave the players alone. The guard of a      *)
(* request and the operation of a connection end with their job.           *)
Registry ==
  /\ \/ \E c \in Conn : \/ ConnStep(c) /\ pc[c] # "op"
                        \/ LeaveLoop(c)
                        \/ FireTimer(c)
                        \/ \E s \in SessionId : OpenNew(c, s) \/ TakeResumable(c, s)
     \/ \E s \in SessionId, b \in BOOLEAN, t \in Timeouts : UpdateSession(s, b, t)
     \/ Tick
  /\ UNCHANGED playerVars

PatchStep(r) == PatchLock(r) \/ PatchConnect(r) \/ PatchVoice(r) \/ PatchOther(r)
OpStep(c) == OpTakeOld(c) \/ OpConnect(c) \/ OpStore(c) \/ OpNothing(c)
DestroyStep(a) == DestroyLock(a) \/ DestroyEnd(a)
ShutdownStep(s) ==
  \/ StopAllPlayers(s) \/ ShutdownEnd(s)
  \/ \E g \in Guild : ShutdownDestroy(s, g)

Next ==
  \/ Registry
  \/ \E r \in Request : PatchStep(r) \/ \E s \in SessionId, g \in Guild : PatchStart(r, s, g)
  \/ \E c \in Conn : OpStep(c) \/ \E g \in Guild : OpVoice(c, g) \/ OpDestroy(c, g)
  \/ \E d \in Deleter, s \in SessionId, g \in Guild : Delete(d, s, g)
  \/ \E a \in Actor \ Request : DestroyStep(a)
  \/ \E s \in SessionId : ShutdownStep(s)

Spec == Init /\ [][Next]_vars

FairSpec ==
  /\ Spec
  /\ \A r \in Request : WF_vars(PatchStep(r))
  /\ \A c \in Conn : WF_vars(OpStep(c))
  /\ \A a \in Actor \ Request : WF_vars(DestroyStep(a))
  /\ \A s \in SessionId : WF_vars(ShutdownStep(s))

-----------------------------------------------------------------------------
(* Properties                                                              *)

(* When shutdown returns, no gateway task of the session is left running   *)
(* and no player is left in its map, though players are destroyed, created *)
(* again and given new tasks by requests that overlap: the handles in      *)
(* task_handles reach the tasks that no player knows any more.             *)
ShutdownStopsEverything ==
  \A s \in SessionId : stage[s] = "done" =>
    /\ \A t \in running : home[t] # s
    /\ \A g \in Guild : players[s][g] = NoPlayer

(* A shutdown that has begun completes.                                    *)
ShutdownCompletes == \A s \in SessionId : s \in shut ~> stage[s] = "done"

=============================================================================
