-------------------------- MODULE SessionRegistry --------------------------
(***************************************************************************)
(* The life of client sessions: the two concurrent maps of AppState        *)
(* (`sessions' and `resumable_sessions'), the WebSocket connection tasks   *)
(* that move a session between them (src/ws/handler.rs), the resume timers *)
(* a closing connection leaves behind, and the REST requests that hold a   *)
(* DashMap guard on the `sessions' map while they run.                     *)
(*                                                                         *)
(* Every access to a map, an atomic or the sender lock is one step, so two *)
(* tasks interleave wherever the multi-threaded runtime lets them.         *)
(***************************************************************************)
EXTENDS Naturals, FiniteSets

CONSTANTS
  SessionId,    \* identifiers SessionId::generate may return, each used once
  Conn,         \* WebSocket connections, each one opened at most once
  Request,      \* PATCH /players requests, each one sent at most once
  Shard,        \* shards of the `sessions' DashMap
  ShardOf,      \* the shard a session identifier hashes to
  Timeouts,     \* values a client gives to resume_timeout
  DefaultTimeout, \* Session::new's resume_timeout
  NoConn, NoSession,
  Off,          \* a timer that is not running
  Answered      \* where the Ref of a request was, once it has answered

ASSUME ShardAssumption == ShardOf \in [SessionId -> Shard]
ASSUME TimeoutAssumption == Timeouts \subseteq Nat /\ DefaultTimeout \in Nat
ASSUME NullAssumption ==
  /\ NoConn \notin Conn /\ NoSession \notin SessionId /\ Answered \notin SessionId
  /\ Off \notin Nat

VARIABLES
  sessions,           \* keys of AppState.sessions
  resumable_sessions, \* keys of AppState.resumable_sessions
  resumable,          \* Session.resumable, per session
  resume_timeout,     \* Session.resume_timeout
  paused,             \* Session.paused
  sender,             \* the connection whose channel Session.sender feeds
  shut,               \* sessions on which shutdown has been called
  pc,                 \* where each connection task is
  sess,               \* the session each connection task works for
  timer,              \* ticks left on the resume timer a connection spawned
  guard               \* the session each request holds a Ref of

regVars == <<sessions, resumable_sessions, resumable, resume_timeout, paused,
             sender, shut, pc, sess, timer, guard>>

(* A connection task between resolve_session and the moment it gives the   *)
(* session away: into resumable_sessions, or out of `sessions' for good.   *)
Resuming == {"taken", "unpaused", "swapped"}
Serving  == {"initial", "loop", "op"}
Closing  == {"left", "paused", "owner", "removed", "evicted", "dropping"}
Attached == Resuming \cup Serving \cup Closing
PC       == Attached \cup {"idle", "parked", "replaced", "done"}

born == {s \in SessionId : sender[s] # NoConn}

TypeOK ==
  /\ sessions \subseteq SessionId
  /\ resumable_sessions \subseteq SessionId
  /\ resumable \in [SessionId -> BOOLEAN]
  /\ resume_timeout \in [SessionId -> Timeouts \cup {DefaultTimeout}]
  /\ paused \in [SessionId -> BOOLEAN]
  /\ sender \in [SessionId -> Conn \cup {NoConn}]
  /\ shut \subseteq SessionId
  /\ pc \in [Conn -> PC]
  /\ sess \in [Conn -> SessionId \cup {NoSession}]
  /\ timer \in [Conn -> Nat \cup {Off}]
  /\ guard \in [Request -> SessionId \cup {NoSession, Answered}]

RegInit ==
  /\ sessions = {} /\ resumable_sessions = {} /\ shut = {}
  /\ resumable = [s \in SessionId |-> FALSE]
  /\ resume_timeout = [s \in SessionId |-> DefaultTimeout]
  /\ paused = [s \in SessionId |-> FALSE]
  /\ sender = [s \in SessionId |-> NoConn]
  /\ pc = [c \in Conn |-> "idle"]
  /\ sess = [c \in Conn |-> NoSession]
  /\ timer = [c \in Conn |-> Off]
  /\ guard = [r \in Request |-> NoSession]

Goto(c, from, to) == pc[c] = from /\ pc' = [pc EXCEPT ![c] = to]

(* DashMap::insert and remove lock the shard for writing: they wait for    *)
(* every Ref on a key of that shard.                                       *)
Writable(s) ==
  \A r \in Request : guard[r] \in SessionId => ShardOf[guard[r]] # ShardOf[s]

-----------------------------------------------------------------------------
(* Mistakes the properties below are meant to notice; no behaviour of the  *)
(* specification uses them.                                                *)

(* The session is looked up, not removed.                                  *)
TakeResumableKept(c, s) ==
  /\ s \in resumable_sessions
  /\ Goto(c, "idle", "taken")
  /\ sess' = [sess EXCEPT ![c] = s]
  /\ UNCHANGED <<sessions, resumable_sessions, resumable, resume_timeout,
                 paused, sender, shut, timer, guard>>

(* A client may take over a session that is still connected.               *)
TakeAnySession(c, s) ==
  /\ s \in resumable_sessions \cup sessions
  /\ Goto(c, "idle", "taken")
  /\ sess' = [sess EXCEPT ![c] = s]
  /\ resumable_sessions' = resumable_sessions \ {s}
  /\ UNCHANGED <<sessions, resumable, resume_timeout, paused, sender, shut,
                 timer, guard>>

UnpauseForgotten(c) ==
  /\ Goto(c, "taken", "unpaused")
  /\ UNCHANGED <<sessions, resumable_sessions, resumable, resume_timeout,
                 paused, sender, shut, sess, timer, guard>>

InsertResumedForgotten(c) ==
  /\ Goto(c, "swapped", "initial")
  /\ UNCHANGED <<sessions, resumable_sessions, resumable, resume_timeout,
                 paused, sender, shut, sess, timer, guard>>

(* An operation no longer holds up its connection.                         *)
LeaveLoopDuringOp(c) ==
  /\ Goto(c, IF pc[c] = "op" THEN "op" ELSE "loop", "left")
  /\ UNCHANGED <<sessions, resumable_sessions, resumable, resume_timeout,
                 paused, sender, shut, sess, timer, guard>>

(* No new timer while an older one of the session runs.                    *)
ArmTimerOnce(c) ==
  /\ Goto(c, "parked", "done")
  /\ timer' = IF \E d \in Conn : sess[d] = sess[c] /\ timer[d] # Off THEN timer
              ELSE [timer EXCEPT ![c] = resume_timeout[sess[c]]]
  /\ UNCHANGED <<sessions, resumable_sessions, resumable, resume_timeout,
                 paused, sender, shut, sess, guard>>

ArmTimerForgotten(c) ==
  /\ Goto(c, "parked", "done")
  /\ UNCHANGED <<sessions, resumable_sessions, resumable, resume_timeout,
                 paused, sender, shut, sess, timer, guard>>

(* The map is written without waiting for the guards.                      *)
DropSessionUnguarded(c) ==
  /\ Goto(c, "dropping", "done")
  /\ sessions' = sessions \ {sess[c]}
  /\ shut' = IF sess[c] \in sessions THEN shut \cup {sess[c]} ELSE shut
  /\ UNCHANGED <<resumable_sessions, resumable, resume_timeout, paused, sender,
                 sess, timer, guard>>

(* The session is shut down but stays in the map.                          *)
FireTimerKept(c) ==
  /\ timer[c] = 0
  /\ timer' = [timer EXCEPT ![c] = Off]
  /\ shut' = IF sess[c] \in resumable_sessions THEN shut \cup {sess[c]} ELSE shut
  /\ UNCHANGED <<sessions, resumable_sessions, resumable, resume_timeout,
                 paused, sender, pc, sess, guard>>

(* A Ref that is never dropped.                                            *)
DropGuardNever(r) ==
  /\ guard[r] \in SessionId
  /\ UNCHANGED regVars

-----------------------------------------------------------------------------
(* resolve_session                                                         *)

(* No session to resume: a new one, with a fresh identifier.               *)
OpenNew(c, s) ==
  /\ s \notin born /\ Writable(s)
  /\ Goto(c, "idle", "initial")
  /\ sess' = [sess EXCEPT ![c] = s]
  /\ sender' = [sender EXCEPT ![s] = c]
  /\ sessions' = sessions \cup {s}
  /\ UNCHANGED <<resumable_sessions, resumable, resume_timeout, paused, shut,
                 timer, guard>>

(* resumable_sessions.remove(sid) returned the session.                    *)
TakeResumable(c, s) ==
  /\ s \in resumable_sessions
  /\ Goto(c, "idle", "taken")
  /\ sess' = [sess EXCEPT ![c] = s]
  /\ resumable_sessions' = resumable_sessions \ {s}
  /\ UNCHANGED <<sessions, resumable, resume_timeout, paused, sender, shut,
                 timer, guard>>

Unpause(c) ==
  /\ Goto(c, "taken", "unpaused")
  /\ paused' = [paused EXCEPT ![sess[c]] = FALSE]
  /\ UNCHANGED <<sessions, resumable_sessions, resumable, resume_timeout,
                 sender, shut, sess, timer, guard>>

SwapSender(c) ==
  /\ Goto(c, "unpaused", "swapped")
  /\ sender' = [sender EXCEPT ![sess[c]] = c]
  /\ UNCHANGED <<sessions, resumable_sessions, resumable, resume_timeout,
                 paused, shut, sess, timer, guard>>

InsertResumed(c) ==
  /\ Goto(c, "swapped", "initial")
  /\ Writable(sess[c])
  /\ sessions' = sessions \cup {sess[c]}
  /\ UNCHANGED <<resumable_sessions, resumable, resume_timeout, paused, sender,
                 shut, sess, timer, guard>>

-----------------------------------------------------------------------------
(* The connection while it is served                                       *)

(* send_initial_state is over: Ready, the queued events and the player     *)
(* updates have been written.                                              *)
SendInitialState(c) ==
  /\ Goto(c, "initial", "loop")
  /\ UNCHANGED <<sessions, resumable_sessions, resumable, resume_timeout,
                 paused, sender, shut, sess, timer, guard>>

(* handle_op runs inside the select loop: nothing else of this connection  *)
(* proceeds until it returns.                                              *)
BeginOp(c) ==
  /\ sess[c] \in sessions
  /\ Goto(c, "loop", "op")
  /\ UNCHANGED <<sessions, resumable_sessions, resumable, resume_timeout,
                 paused, sender, shut, sess, timer, guard>>

EndOp(c) ==
  /\ Goto(c, "op", "loop")
  /\ UNCHANGED <<sessions, resumable_sessions, resumable, resume_timeout,
                 paused, sender, shut, sess, timer, guard>>

(* The select loop ends: client gone, socket error, pong timeout, or the   *)
(* writer closed. The task then waits up to 500 ms for its writer.         *)
LeaveLoop(c) ==
  /\ Goto(c, "loop", "left")
  /\ UNCHANGED <<sessions, resumable_sessions, resumable, resume_timeout,
                 paused, sender, shut, sess, timer, guard>>

-----------------------------------------------------------------------------
(* handle_session_close                                                    *)

ReadResumable(c) ==
  /\ Goto(c, "left", IF resumable[sess[c]] THEN "paused" ELSE "dropping")
  /\ paused' = IF resumable[sess[c]] THEN [paused EXCEPT ![sess[c]] = TRUE]
                                     ELSE paused
  /\ UNCHANGED <<sessions, resumable_sessions, resumable, resume_timeout,
                 sender, shut, sess, timer, guard>>

CheckChannel(c) ==
  /\ Goto(c, "paused", IF sender[sess[c]] = c THEN "owner" ELSE "replaced")
  /\ UNCHANGED <<sessions, resumable_sessions, resumable, resume_timeout,
                 paused, sender, shut, sess, timer, guard>>

RemoveLive(c) ==
  /\ Goto(c, "owner", "removed")
  /\ Writable(sess[c])
  /\ sessions' = sessions \ {sess[c]}
  /\ UNCHANGED <<resumable_sessions, resumable, resume_timeout, paused, sender,
                 shut, sess, timer, guard>>

(* A session of the same identifier already waiting would be shut down.    *)
EvictTwin(c) ==
  /\ Goto(c, "removed", "evicted")
  /\ resumable_sessions' = resumable_sessions \ {sess[c]}
  /\ shut' = IF sess[c] \in resumable_sessions THEN shut \cup {sess[c]} ELSE shut
  /\ UNCHANGED <<sessions, resumable, resume_timeout, paused, sender, sess,
                 timer, guard>>

Park(c) ==
  /\ Goto(c, "evicted", "parked")
  /\ resumable_sessions' = resumable_sessions \cup {sess[c]}
  /\ UNCHANGED <<sessions, resumable, resume_timeout, paused, sender, shut,
                 sess, timer, guard>>

ArmTimer(c) ==
  /\ Goto(c, "parked", "done")
  /\ timer' = [timer EXCEPT ![c] = resume_timeout[sess[c]]]
  /\ UNCHANGED <<sessions, resumable_sessions, resumable, resume_timeout,
                 paused, sender, shut, sess, guard>>

(* Not resumable: shut down whatever sessions.remove returned.             *)
DropSession(c) ==
  /\ Goto(c, "dropping", "done")
  /\ Writable(sess[c])
  /\ sessions' = sessions \ {sess[c]}
  /\ shut' = IF sess[c] \in sessions THEN shut \cup {sess[c]} ELSE shut
  /\ UNCHANGED <<resumable_sessions, resumable, resume_timeout, paused, sender,
                 sess, timer, guard>>

-----------------------------------------------------------------------------
(* Resume timers. No code cancels one: a timer outlives the disconnection  *)
(* it was armed for.                                                       *)

Tick ==
  /\ \E c \in Conn : timer[c] \in Nat \ {0}
  /\ timer' = [c \in Conn |-> IF timer[c] \in Nat \ {0} THEN timer[c] - 1
                                                         ELSE timer[c]]
  /\ UNCHANGED <<sessions, resumable_sessions, resumable, resume_timeout,
                 paused, sender, shut, pc, sess, guard>>

FireTimer(c) ==
  /\ timer[c] = 0
  /\ timer' = [timer EXCEPT ![c] = Off]
  /\ resumable_sessions' = resumable_sessions \ {sess[c]}
  /\ shut' = IF sess[c] \in resumable_sessions THEN shut \cup {sess[c]} ELSE shut
  /\ UNCHANGED <<sessions, resumable, resume_timeout, paused, sender, pc, sess,
                 guard>>

-----------------------------------------------------------------------------
(* REST requests                                                           *)

(* update_player finds the session and keeps the Ref until it answers.     *)
TakeGuard(r, s) ==
  /\ guard[r] = NoSession /\ s \in sessions
  /\ guard' = [guard EXCEPT ![r] = s]
  /\ UNCHANGED <<sessions, resumable_sessions, resumable, resume_timeout,
                 paused, sender, shut, pc, sess, timer>>

DropGuard(r) ==
  /\ guard[r] \in SessionId
  /\ guard' = [guard EXCEPT ![r] = Answered]
  /\ UNCHANGED <<sessions, resumable_sessions, resumable, resume_timeout,
                 paused, sender, shut, pc, sess, timer>>

(* PATCH /v4/sessions/{sessionId}: both fields are optional, so the new    *)
(* values may equal the old ones.                                          *)
UpdateSession(s, resuming, timeout) ==
  /\ s \in sessions
  /\ resumable' = [resumable EXCEPT ![s] = resuming]
  /\ resume_timeout' = [resume_timeout EXCEPT ![s] = timeout]
  /\ UNCHANGED <<sessions, resumable_sessions, paused, sender, shut, pc, sess,
                 timer, guard>>

-----------------------------------------------------------------------------
ConnStep(c) ==
  \/ Unpause(c) \/ SwapSender(c) \/ InsertResumed(c)
  \/ SendInitialState(c) \/ EndOp(c)
  \/ ReadResumable(c) \/ CheckChannel(c) \/ RemoveLive(c) \/ EvictTwin(c)
  \/ Park(c) \/ ArmTimer(c) \/ DropSession(c)

RegNext ==
  \/ \E c \in Conn :
       \/ ConnStep(c) \/ BeginOp(c) \/ LeaveLoop(c) \/ FireTimer(c)
       \/ \E s \in SessionId : OpenNew(c, s) \/ TakeResumable(c, s)
  \/ \E r \in Request : DropGuard(r) \/ \E s \in SessionId : TakeGuard(r, s)
  \/ \E s \in SessionId, b \in BOOLEAN, t \in Timeouts : UpdateSession(s, b, t)
  \/ Tick

RegSpec == RegInit /\ [][RegNext]_regVars

(* Tasks are scheduled, timers fire and requests are answered. BeginOp,    *)
(* LeaveLoop, OpenNew, TakeResumable, TakeGuard and UpdateSession are the  *)
(* clients' choices and get no fairness.                                   *)
RegFairness ==
  /\ \A c \in Conn : WF_regVars(ConnStep(c)) /\ WF_regVars(FireTimer(c))
  /\ \A r \in Request : WF_regVars(DropGuard(r))
  /\ WF_regVars(Tick)

RegFairSpec == RegSpec /\ RegFairness

-----------------------------------------------------------------------------
(* Properties                                                              *)

OwnedBy(c, s) == sess[c] = s /\ pc[c] \in Attached

(* A session is worked on by at most one connection task, that task is the *)
(* one its sender feeds once the sender is swapped, and while it works the *)
(* session waits in resumable_sessions for nobody else. So the `replaced   *)
(* by a new connection' and `shares an ID' branches of                     *)
(* handle_session_close are never taken.                                   *)
SoleOwner ==
  /\ \A c, d \in Conn : pc[c] \in Attached /\ OwnedBy(d, sess[c]) => c = d
  /\ \A c \in Conn :
       /\ pc[c] \in Serving \cup Closing => sender[sess[c]] = c
       /\ pc[c] \in Attached => sess[c] \notin resumable_sessions
       /\ pc[c] # "replaced"

(* The flag send_json trusts: a session that waits to be resumed is        *)
(* paused, and a session whose connection is being served is not.          *)
PausedWhileHeld ==
  /\ \A s \in resumable_sessions : paused[s]
  /\ \A c \in Conn : pc[c] \in Serving => ~paused[sess[c]]

(* No session waits for ever: the connection that closed it last has its   *)
(* timer running, or is about to start it, whatever older timers did.      *)
HeldHasTimer ==
  \A s \in resumable_sessions :
    LET c == sender[s]
    IN  sess[c] = s /\ (pc[c] = "parked" \/ (pc[c] = "done" /\ timer[c] # Off))

(* No session leaks: one that was opened and not shut down is in a map or  *)
(* in the hands of a connection task. Shutting one down is final: it is in *)
(* no map and no task that could put it back has it.                       *)
NoLeakNoRevival ==
  \A s \in born :
    IF s \in shut
      THEN /\ s \notin sessions \cup resumable_sessions
           /\ \A c \in Conn : ~OwnedBy(c, s)
      ELSE s \in resumable_sessions \/ \E c \in Conn : OwnedBy(c, s)

(* REST requests find exactly the sessions that are being served: from     *)
(* sessions.insert of resolve_session to sessions.remove of the close.     *)
FindableWhileServed ==
  sessions = {sess[c] : c \in {d \in Conn : pc[d] \in
                Serving \cup {"left", "paused", "owner", "dropping"}}}

(* A disconnected session stays resumable for its resume timeout: when it  *)
(* expires, the timer armed by its last disconnection has run out. The log *)
(* line of handle_session_close promises it.                               *)
ResumableUntilTimeout ==
  [][\A s \in resumable_sessions :
       s \in shut' => timer[sender[s]] = 0]_regVars

(* A session waiting to be resumed is resumed or shut down in the end.     *)
HeldEnds == \A s \in SessionId : s \in resumable_sessions ~> s \notin resumable_sessions

(* A connection that left its loop finishes its close, whatever requests   *)
(* hold guards on the map it must write.                                   *)
CloseFinishes == \A c \in Conn : pc[c] \in Closing \cup {"parked"} ~> pc[c] = "done"

(* Neither a session nor a connection waits for ever.                      *)
NothingWaitsForEver == HeldEnds /\ CloseFinishes

-----------------------------------------------------------------------------
(* What a client may count on, whatever happens inside: SessionLease.      *)

LeaseStatus == [s \in SessionId |-> IF s \in shut THEN "gone"
                                    ELSE IF s \in resumable_sessions THEN "held"
                                    ELSE IF s \in born THEN "live" ELSE "none"]

LeaseClients == [s \in SessionId |-> {c \in Conn : OwnedBy(c, s)}]

Lease == INSTANCE SessionLease WITH status <- LeaseStatus, clients <- LeaseClients

LeaseSpec == Lease!Spec
=============================================================================
