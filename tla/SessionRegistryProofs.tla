----------------------- MODULE SessionRegistryProofs -----------------------
(***************************************************************************)
(* Proofs about SessionRegistry for any number of sessions, connections,   *)
(* requests and shards: the type invariant, the invariants the runs check, *)
(* and that the registry implements SessionLease.                          *)
(***************************************************************************)
EXTENDS SessionRegistry, TLAPS

(* What a connection that has begun knows of its session.                  *)
ConnKnows(c) ==
  /\ pc[c] # "idle" => sess[c] \in SessionId /\ sender[sess[c]] # NoConn
  /\ pc[c] \in Attached =>
       /\ sess[c] \notin resumable_sessions
       /\ sess[c] \notin shut
  /\ pc[c] \in Serving \cup Closing \cup {"swapped"} => sender[sess[c]] = c
  /\ pc[c] # "replaced"
  /\ timer[c] # Off => pc[c] = "done"

(* Which of its connection's steps a session is in the map for.            *)
InMap == Serving \cup {"left", "paused", "owner", "dropping"}

ConnMap(c) ==
  /\ pc[c] \in InMap => sess[c] \in sessions /\ (pc[c] \in Serving => ~paused[sess[c]])
  /\ pc[c] \in Attached \ InMap => sess[c] \notin sessions
  /\ pc[c] = "unpaused" \/ pc[c] = "swapped" => ~paused[sess[c]]
  /\ pc[c] \in {"paused", "owner", "removed", "evicted"} => paused[sess[c]]

Alone(c, d) == pc[c] \in Attached /\ pc[d] \in Attached /\ sess[c] = sess[d] => c = d

(* A session that waits, and one that has been shut down.                  *)
HeldKnows(s) ==
  /\ s \notin sessions /\ s \notin shut /\ paused[s]
  /\ sender[s] \in Conn /\ sess[sender[s]] = s
  /\ pc[sender[s]] = "parked" \/ (pc[sender[s]] = "done" /\ timer[sender[s]] # Off)

Placed(s) ==
  /\ sender[s] = NoConn => ~paused[s]
  /\ s \in shut => s \notin sessions /\ sender[s] # NoConn
  /\ s \in sessions => \E c \in Conn : sess[c] = s /\ pc[c] \in InMap
  /\ sender[s] # NoConn /\ s \notin shut /\ s \notin resumable_sessions =>
       \E c \in Conn : OwnedBy(c, s)

IInv ==
  /\ TypeOK
  /\ \A c \in Conn : ConnKnows(c) /\ ConnMap(c)
  /\ \A c, d \in Conn : Alone(c, d)
  /\ \A s \in resumable_sessions : HeldKnows(s)
  /\ \A s \in SessionId : Placed(s)

USE NullAssumption DEF Resuming, Serving, Closing, Attached, PC, InMap

(* Unpause preserves the invariant.                                      *)
LEMMA UnpauseInv ==
  ASSUME IInv, NEW c \in Conn, Unpause(c)
  PROVE  IInv'
<1> USE DEF IInv, TypeOK, Unpause, Goto
<1>1. TypeOK'
  BY DEF ConnKnows
<1>2. \A d \in Conn : (ConnKnows(d) /\ ConnMap(d))'
  BY DEF ConnKnows, ConnMap, Alone, HeldKnows
<1>3. \A d, e \in Conn : Alone(d, e)'
  BY DEF Alone, ConnKnows, ConnMap, HeldKnows
<1>4. \A t \in resumable_sessions' : HeldKnows(t)'
  BY DEF HeldKnows, ConnKnows, ConnMap
<1>5. \A t \in SessionId : Placed(t)'
  BY DEF Placed, OwnedBy, ConnKnows, ConnMap, Alone, HeldKnows
<1> QED
  BY <1>1, <1>2, <1>3, <1>4, <1>5

(* SwapSender preserves the invariant.                                   *)
LEMMA SwapSenderInv ==
  ASSUME IInv, NEW c \in Conn, SwapSender(c)
  PROVE  IInv'
<1> USE DEF IInv, TypeOK, SwapSender, Goto
<1>1. TypeOK'
  BY DEF ConnKnows
<1>2. \A d \in Conn : (ConnKnows(d) /\ ConnMap(d))'
  BY DEF ConnKnows, ConnMap, Alone, HeldKnows
<1>3. \A d, e \in Conn : Alone(d, e)'
  BY DEF Alone, ConnKnows, ConnMap, HeldKnows
<1>4. \A t \in resumable_sessions' : HeldKnows(t)'
  BY DEF HeldKnows, ConnKnows, ConnMap
<1>5. \A t \in SessionId : Placed(t)'
  BY DEF Placed, OwnedBy, ConnKnows, ConnMap, Alone, HeldKnows
<1> QED
  BY <1>1, <1>2, <1>3, <1>4, <1>5

(* InsertResumed preserves the invariant.                                *)
LEMMA InsertResumedInv ==
  ASSUME IInv, NEW c \in Conn, InsertResumed(c)
  PROVE  IInv'
<1> USE DEF IInv, TypeOK, InsertResumed, Goto
<1>1. TypeOK'
  BY DEF ConnKnows
<1>2. \A d \in Conn : (ConnKnows(d) /\ ConnMap(d))'
  BY DEF ConnKnows, ConnMap, Alone, HeldKnows
<1>3. \A d, e \in Conn : Alone(d, e)'
  BY DEF Alone, ConnKnows, ConnMap, HeldKnows
<1>4. \A t \in resumable_sessions' : HeldKnows(t)'
  BY DEF HeldKnows, ConnKnows, ConnMap
<1>5. \A t \in SessionId : Placed(t)'
  BY DEF Placed, OwnedBy, ConnKnows, ConnMap, Alone, HeldKnows
<1> QED
  BY <1>1, <1>2, <1>3, <1>4, <1>5

(* SendInitialState preserves the invariant.                             *)
LEMMA SendInitialStateInv ==
  ASSUME IInv, NEW c \in Conn, SendInitialState(c)
  PROVE  IInv'
<1> USE DEF IInv, TypeOK, SendInitialState, Goto
<1>1. TypeOK'
  BY DEF ConnKnows
<1>2. \A d \in Conn : (ConnKnows(d) /\ ConnMap(d))'
  BY DEF ConnKnows, ConnMap, Alone, HeldKnows
<1>3. \A d, e \in Conn : Alone(d, e)'
  BY DEF Alone, ConnKnows, ConnMap, HeldKnows
<1>4. \A t \in resumable_sessions' : HeldKnows(t)'
  BY DEF HeldKnows, ConnKnows, ConnMap
<1>5. \A t \in SessionId : Placed(t)'
  BY DEF Placed, OwnedBy, ConnKnows, ConnMap, Alone, HeldKnows
<1> QED
  BY <1>1, <1>2, <1>3, <1>4, <1>5

(* EndOp preserves the invariant.                                        *)
LEMMA EndOpInv ==
  ASSUME IInv, NEW c \in Conn, EndOp(c)
  PROVE  IInv'
<1> USE DEF IInv, TypeOK, EndOp, Goto
<1>1. TypeOK'
  BY DEF ConnKnows
<1>2. \A d \in Conn : (ConnKnows(d) /\ ConnMap(d))'
  BY DEF ConnKnows, ConnMap, Alone, HeldKnows
<1>3. \A d, e \in Conn : Alone(d, e)'
  BY DEF Alone, ConnKnows, ConnMap, HeldKnows
<1>4. \A t \in resumable_sessions' : HeldKnows(t)'
  BY DEF HeldKnows, ConnKnows, ConnMap
<1>5. \A t \in SessionId : Placed(t)'
  BY DEF Placed, OwnedBy, ConnKnows, ConnMap, Alone, HeldKnows
<1> QED
  BY <1>1, <1>2, <1>3, <1>4, <1>5

(* BeginOp preserves the invariant.                                      *)
LEMMA BeginOpInv ==
  ASSUME IInv, NEW c \in Conn, BeginOp(c)
  PROVE  IInv'
<1> USE DEF IInv, TypeOK, BeginOp, Goto
<1>1. TypeOK'
  BY DEF ConnKnows
<1>2. \A d \in Conn : (ConnKnows(d) /\ ConnMap(d))'
  BY DEF ConnKnows, ConnMap, Alone, HeldKnows
<1>3. \A d, e \in Conn : Alone(d, e)'
  BY DEF Alone, ConnKnows, ConnMap, HeldKnows
<1>4. \A t \in resumable_sessions' : HeldKnows(t)'
  BY DEF HeldKnows, ConnKnows, ConnMap
<1>5. \A t \in SessionId : Placed(t)'
  BY DEF Placed, OwnedBy, ConnKnows, ConnMap, Alone, HeldKnows
<1> QED
  BY <1>1, <1>2, <1>3, <1>4, <1>5

(* LeaveLoop preserves the invariant.                                    *)
LEMMA LeaveLoopInv ==
  ASSUME IInv, NEW c \in Conn, LeaveLoop(c)
  PROVE  IInv'
<1> USE DEF IInv, TypeOK, LeaveLoop, Goto
<1>1. TypeOK'
  BY DEF ConnKnows
<1>2. \A d \in Conn : (ConnKnows(d) /\ ConnMap(d))'
  BY DEF ConnKnows, ConnMap, Alone, HeldKnows
<1>3. \A d, e \in Conn : Alone(d, e)'
  BY DEF Alone, ConnKnows, ConnMap, HeldKnows
<1>4. \A t \in resumable_sessions' : HeldKnows(t)'
  BY DEF HeldKnows, ConnKnows, ConnMap
<1>5. \A t \in SessionId : Placed(t)'
  BY DEF Placed, OwnedBy, ConnKnows, ConnMap, Alone, HeldKnows
<1> QED
  BY <1>1, <1>2, <1>3, <1>4, <1>5

(* ReadResumable preserves the invariant.                                *)
LEMMA ReadResumableInv ==
  ASSUME IInv, NEW c \in Conn, ReadResumable(c)
  PROVE  IInv'
<1> USE DEF IInv, TypeOK, ReadResumable, Goto
<1>1. TypeOK'
  BY DEF ConnKnows
<1>2. \A d \in Conn : (ConnKnows(d) /\ ConnMap(d))'
  BY DEF ConnKnows, ConnMap, Alone, HeldKnows
<1>3. \A d, e \in Conn : Alone(d, e)'
  BY DEF Alone, ConnKnows, ConnMap, HeldKnows
<1>4. \A t \in resumable_sessions' : HeldKnows(t)'
  BY DEF HeldKnows, ConnKnows, ConnMap
<1>5. \A t \in SessionId : Placed(t)'
  BY DEF Placed, OwnedBy, ConnKnows, ConnMap, Alone, HeldKnows
<1> QED
  BY <1>1, <1>2, <1>3, <1>4, <1>5

(* CheckChannel preserves the invariant.                                 *)
LEMMA CheckChannelInv ==
  ASSUME IInv, NEW c \in Conn, CheckChannel(c)
  PROVE  IInv'
<1> USE DEF IInv, TypeOK, CheckChannel, Goto
<1>1. TypeOK'
  BY DEF ConnKnows
<1>2. \A d \in Conn : (ConnKnows(d) /\ ConnMap(d))'
  BY DEF ConnKnows, ConnMap, Alone, HeldKnows
<1>3. \A d, e \in Conn : Alone(d, e)'
  BY DEF Alone, ConnKnows, ConnMap, HeldKnows
<1>4. \A t \in resumable_sessions' : HeldKnows(t)'
  BY DEF HeldKnows, ConnKnows, ConnMap
<1>5. \A t \in SessionId : Placed(t)'
  BY DEF Placed, OwnedBy, ConnKnows, ConnMap, Alone, HeldKnows
<1> QED
  BY <1>1, <1>2, <1>3, <1>4, <1>5

(* RemoveLive preserves the invariant.                                   *)
LEMMA RemoveLiveInv ==
  ASSUME IInv, NEW c \in Conn, RemoveLive(c)
  PROVE  IInv'
<1> USE DEF IInv, TypeOK, RemoveLive, Goto
<1>1. TypeOK'
  BY DEF ConnKnows
<1>2. \A d \in Conn : (ConnKnows(d) /\ ConnMap(d))'
  BY DEF ConnKnows, ConnMap, Alone, HeldKnows
<1>3. \A d, e \in Conn : Alone(d, e)'
  BY DEF Alone, ConnKnows, ConnMap, HeldKnows
<1>4. \A t \in resumable_sessions' : HeldKnows(t)'
  BY DEF HeldKnows, ConnKnows, ConnMap
<1>5. \A t \in SessionId : Placed(t)'
  BY DEF Placed, OwnedBy, ConnKnows, ConnMap, Alone, HeldKnows
<1> QED
  BY <1>1, <1>2, <1>3, <1>4, <1>5

(* EvictTwin preserves the invariant.                                    *)
LEMMA EvictTwinInv ==
  ASSUME IInv, NEW c \in Conn, EvictTwin(c)
  PROVE  IInv'
<1> USE DEF IInv, TypeOK, EvictTwin, Goto
<1>1. TypeOK'
  BY DEF ConnKnows
<1>2. \A d \in Conn : (ConnKnows(d) /\ ConnMap(d))'
  BY DEF ConnKnows, ConnMap, Alone, HeldKnows
<1>3. \A d, e \in Conn : Alone(d, e)'
  BY DEF Alone, ConnKnows, ConnMap, HeldKnows
<1>4. \A t \in resumable_sessions' : HeldKnows(t)'
  BY DEF HeldKnows, ConnKnows, ConnMap
<1>5. \A t \in SessionId : Placed(t)'
  BY DEF Placed, OwnedBy, ConnKnows, ConnMap, Alone, HeldKnows
<1> QED
  BY <1>1, <1>2, <1>3, <1>4, <1>5

(* Park preserves the invariant.                                         *)
LEMMA ParkInv ==
  ASSUME IInv, NEW c \in Conn, Park(c)
  PROVE  IInv'
<1> USE DEF IInv, TypeOK, Park, Goto
<1>1. TypeOK'
  BY DEF ConnKnows
<1>2. \A d \in Conn : (ConnKnows(d) /\ ConnMap(d))'
  BY DEF ConnKnows, ConnMap, Alone, HeldKnows
<1>3. \A d, e \in Conn : Alone(d, e)'
  BY DEF Alone, ConnKnows, ConnMap, HeldKnows
<1>4. \A t \in resumable_sessions' : HeldKnows(t)'
  BY DEF HeldKnows, ConnKnows, ConnMap
<1>5. \A t \in SessionId : Placed(t)'
  BY DEF Placed, OwnedBy, ConnKnows, ConnMap, Alone, HeldKnows
<1> QED
  BY <1>1, <1>2, <1>3, <1>4, <1>5

(* DropSession preserves the invariant.                                  *)
LEMMA DropSessionInv ==
  ASSUME IInv, NEW c \in Conn, DropSession(c)
  PROVE  IInv'
<1> USE DEF IInv, TypeOK, DropSession, Goto
<1>1. TypeOK'
  BY DEF ConnKnows
<1>2. \A d \in Conn : (ConnKnows(d) /\ ConnMap(d))'
  BY DEF ConnKnows, ConnMap, Alone, HeldKnows
<1>3. \A d, e \in Conn : Alone(d, e)'
  BY DEF Alone, ConnKnows, ConnMap, HeldKnows
<1>4. \A t \in resumable_sessions' : HeldKnows(t)'
  BY DEF HeldKnows, ConnKnows, ConnMap
<1>5. \A t \in SessionId : Placed(t)'
  BY DEF Placed, OwnedBy, ConnKnows, ConnMap, Alone, HeldKnows
<1> QED
  BY <1>1, <1>2, <1>3, <1>4, <1>5

(* FireTimer preserves the invariant.                                    *)
LEMMA FireTimerInv ==
  ASSUME IInv, NEW c \in Conn, FireTimer(c)
  PROVE  IInv'
<1> USE DEF IInv, TypeOK, FireTimer, Goto
<1>1. TypeOK'
  BY DEF ConnKnows
<1>2. \A d \in Conn : (ConnKnows(d) /\ ConnMap(d))'
  BY DEF ConnKnows, ConnMap, Alone, HeldKnows
<1>3. \A d, e \in Conn : Alone(d, e)'
  BY DEF Alone, ConnKnows, ConnMap, HeldKnows
<1>4. \A t \in resumable_sessions' : HeldKnows(t)'
  BY DEF HeldKnows, ConnKnows, ConnMap
<1>5. \A t \in SessionId : Placed(t)'
  BY DEF Placed, OwnedBy, ConnKnows, ConnMap, Alone, HeldKnows
<1> QED
  BY <1>1, <1>2, <1>3, <1>4, <1>5

(* ArmTimer preserves the invariant.                                     *)
LEMMA ArmTimerInv ==
  ASSUME IInv, NEW c \in Conn, ArmTimer(c)
  PROVE  IInv'
<1> USE DEF IInv, TypeOK, ArmTimer, Goto
<1>a. resume_timeout[sess[c]] \in Timeouts \cup {DefaultTimeout}
  BY DEF ConnKnows
<1>0. resume_timeout[sess[c]] \in Nat /\ resume_timeout[sess[c]] # Off
  BY <1>a, TimeoutAssumption
<1>1. TypeOK'
  BY <1>0 DEF ConnKnows
<1>2. \A d \in Conn : (ConnKnows(d) /\ ConnMap(d))'
  BY <1>0 DEF ConnKnows, ConnMap, Alone, HeldKnows
<1>3. \A d, e \in Conn : Alone(d, e)'
  BY <1>0 DEF Alone, ConnKnows, ConnMap, HeldKnows
<1>4. \A t \in resumable_sessions' : HeldKnows(t)'
  BY <1>0 DEF HeldKnows, ConnKnows, ConnMap
<1>5. \A t \in SessionId : Placed(t)'
  BY <1>0 DEF Placed, OwnedBy, ConnKnows, ConnMap, Alone, HeldKnows
<1> QED
  BY <1>1, <1>2, <1>3, <1>4, <1>5

(* TakeResumable preserves the invariant.                                *)
LEMMA TakeResumableInv ==
  ASSUME IInv, NEW c \in Conn, NEW s \in SessionId, TakeResumable(c, s)
  PROVE  IInv'
<1> USE DEF IInv, TypeOK, TakeResumable, Goto
<1>1. TypeOK'
  BY DEF ConnKnows
<1>2. \A d \in Conn : (ConnKnows(d) /\ ConnMap(d))'
  BY DEF ConnKnows, ConnMap, Alone, HeldKnows
<1>3. \A d, e \in Conn : Alone(d, e)'
  BY DEF Alone, ConnKnows, ConnMap, HeldKnows
<1>4. \A t \in resumable_sessions' : HeldKnows(t)'
  BY DEF HeldKnows, ConnKnows, ConnMap
<1>5. \A t \in SessionId : Placed(t)'
  BY DEF Placed, OwnedBy, ConnKnows, ConnMap, Alone, HeldKnows
<1> QED
  BY <1>1, <1>2, <1>3, <1>4, <1>5

(* OpenNew preserves the invariant.                                      *)
LEMMA OpenNewInv ==
  ASSUME IInv, NEW c \in Conn, NEW s \in SessionId, OpenNew(c, s)
  PROVE  IInv'
<1> USE DEF IInv, TypeOK, OpenNew, Goto, born
<1>0. \A d \in Conn : pc[d] # "idle" => sess[d] # s
  BY DEF ConnKnows
<1>00. s \notin sessions /\ s \notin resumable_sessions /\ s \notin shut /\ s \in SessionId /\ ~paused[s]
  BY NullAssumption DEF HeldKnows, Placed, ConnKnows
<1>1. TypeOK'
  BY DEF ConnKnows
<1>2. \A d \in Conn : (ConnKnows(d) /\ ConnMap(d))'
  BY <1>0, <1>00 DEF ConnKnows, ConnMap
<1>3. \A d, e \in Conn : Alone(d, e)'
  BY DEF Alone, ConnKnows, ConnMap, HeldKnows
<1>4. \A t \in resumable_sessions' : HeldKnows(t)'
  BY DEF HeldKnows, ConnKnows, ConnMap
<1>5. \A t \in SessionId : Placed(t)'
  BY DEF Placed, OwnedBy, ConnKnows, ConnMap, Alone, HeldKnows
<1> QED
  BY <1>1, <1>2, <1>3, <1>4, <1>5

(* Tick preserves the invariant.                                         *)
LEMMA TickInv ==
  ASSUME IInv, Tick
  PROVE  IInv'
<1> USE DEF IInv, TypeOK, Tick
<1>1. TypeOK'
  OBVIOUS
<1>2. \A d \in Conn : (ConnKnows(d) /\ ConnMap(d))'
  BY DEF ConnKnows, ConnMap
<1>3. \A d, e \in Conn : Alone(d, e)'
  BY DEF Alone
<1>4. \A t \in resumable_sessions' : HeldKnows(t)'
  BY DEF HeldKnows
<1>5. \A t \in SessionId : Placed(t)'
  BY DEF Placed, OwnedBy
<1> QED
  BY <1>1, <1>2, <1>3, <1>4, <1>5

(* The invariant holds at start-up, when there is no session.              *)
THEOREM InvInit == RegInit => IInv
BY DEF RegInit, IInv, TypeOK, ConnKnows, ConnMap, Alone, HeldKnows, Placed, OwnedBy

(* Every step of a connection, a timer or a request preserves it.          *)
THEOREM InvStep == IInv /\ [RegNext]_regVars => IInv'
<1> SUFFICES ASSUME IInv, [RegNext]_regVars PROVE IInv'
  OBVIOUS
<1>1. CASE UNCHANGED regVars
  BY <1>1 DEF regVars, IInv, TypeOK, ConnKnows, ConnMap, Alone, HeldKnows, Placed, OwnedBy
<1>2. ASSUME NEW c \in Conn, ConnStep(c) PROVE IInv'
  BY <1>2, UnpauseInv, SwapSenderInv, InsertResumedInv, SendInitialStateInv, EndOpInv,
     ReadResumableInv, CheckChannelInv, RemoveLiveInv, EvictTwinInv, ParkInv, ArmTimerInv,
     DropSessionInv DEF ConnStep
<1>3. ASSUME NEW c \in Conn, BeginOp(c) \/ LeaveLoop(c) \/ FireTimer(c) PROVE IInv'
  BY <1>3, BeginOpInv, LeaveLoopInv, FireTimerInv
<1>4. ASSUME NEW c \in Conn, NEW s \in SessionId, OpenNew(c, s) \/ TakeResumable(c, s) PROVE IInv'
  BY <1>4, OpenNewInv, TakeResumableInv
<1>5. ASSUME NEW r \in Request, DropGuard(r) PROVE IInv'
  BY <1>5 DEF DropGuard, IInv, TypeOK, ConnKnows, ConnMap, Alone, HeldKnows, Placed, OwnedBy
<1>6. ASSUME NEW r \in Request, NEW s \in SessionId, TakeGuard(r, s) PROVE IInv'
  BY <1>6 DEF TakeGuard, IInv, TypeOK, ConnKnows, ConnMap, Alone, HeldKnows, Placed, OwnedBy
<1>7. ASSUME NEW s \in SessionId, NEW b \in BOOLEAN, NEW t \in Timeouts, UpdateSession(s, b, t) PROVE IInv'
  BY <1>7 DEF UpdateSession, IInv, TypeOK, ConnKnows, ConnMap, Alone, HeldKnows, Placed, OwnedBy
<1>8. CASE Tick
  BY <1>8, TickInv
<1> QED
  BY <1>1, <1>2, <1>3, <1>4, <1>5, <1>6, <1>7, <1>8 DEF RegNext

(* So it holds in every reachable state.                                   *)
THEOREM InvHolds == RegSpec => []IInv
BY InvInit, InvStep, PTL DEF RegSpec

-----------------------------------------------------------------------------
(* The invariants the runs check follow from IInv.                         *)

(* The maps, the atomics and the program counters keep their types.        *)
THEOREM TypeCorrect == RegSpec => []TypeOK
<1>1. IInv => TypeOK
  BY DEF IInv
<1> QED
  BY <1>1, InvHolds, PTL

(* No two connection tasks ever work for one session, and the branches for *)
(* a replaced connection are dead.                                         *)
THEOREM SoleOwnerHolds == RegSpec => []SoleOwner
<1>1. IInv => SoleOwner
  BY DEF IInv, ConnKnows, Alone, SoleOwner, OwnedBy
<1> QED
  BY <1>1, InvHolds, PTL

(* paused agrees with where the session is.                                *)
THEOREM PausedWhileHeldHolds == RegSpec => []PausedWhileHeld
<1>1. IInv => PausedWhileHeld
  BY DEF IInv, HeldKnows, ConnMap, PausedWhileHeld
<1> QED
  BY <1>1, InvHolds, PTL

(* Every session that waits has the timer of its last connection.          *)
THEOREM HeldHasTimerHolds == RegSpec => []HeldHasTimer
<1>1. IInv => HeldHasTimer
  BY DEF IInv, HeldKnows, HeldHasTimer
<1> QED
  BY <1>1, InvHolds, PTL

(* Sessions neither leak nor come back.                                    *)
THEOREM NoLeakNoRevivalHolds == RegSpec => []NoLeakNoRevival
<1>1. IInv => NoLeakNoRevival
  BY DEF IInv, HeldKnows, ConnKnows, Placed, NoLeakNoRevival, OwnedBy, born
<1> QED
  BY <1>1, InvHolds, PTL

(* REST requests find exactly the sessions that are being served.          *)
THEOREM FindableWhileServedHolds == RegSpec => []FindableWhileServed
<1>1. IInv => FindableWhileServed
  BY DEF IInv, TypeOK, ConnMap, Placed, FindableWhileServed
<1> QED
  BY <1>1, InvHolds, PTL

-----------------------------------------------------------------------------
(* The registry implements SessionLease.                                   *)

(* Steps that change neither the status nor the clients of any session.    *)
LEMMA LeaseStutter ==
  ASSUME UNCHANGED <<shut, resumable_sessions>>, born' = born,
         \A c \in Conn, s \in SessionId : OwnedBy(c, s)' <=> OwnedBy(c, s)
  PROVE  UNCHANGED <<LeaseStatus, LeaseClients>>
BY DEF LeaseStatus, LeaseClients

(* At start-up there is no lease.                                          *)
LEMMA LeaseInit == RegInit => Lease!Init
BY DEF RegInit, Lease!Init, LeaseStatus, LeaseClients, OwnedBy, born

(* A connection attaches to a session that has no client.                  *)
LEMMA AttachMaps ==
  ASSUME IInv, NEW c \in Conn, NEW s \in SessionId, OpenNew(c, s) \/ TakeResumable(c, s)
  PROVE  Lease!Attach(s, c)
<1> USE DEF IInv, TypeOK, OpenNew, TakeResumable, Goto
<1>1. \A d \in Conn : ~OwnedBy(d, s)
  BY DEF ConnKnows, OwnedBy, born
<1>2. LeaseStatus[s] \in {"none", "held"} /\ LeaseClients[s] = {}
  BY <1>1 DEF LeaseStatus, LeaseClients, HeldKnows, Placed, born
<1>3. \A t \in SessionId : c \notin LeaseClients[t]
  BY DEF LeaseClients, OwnedBy
<1>4. \A d \in Conn, t \in SessionId : OwnedBy(d, t)' <=> (OwnedBy(d, t) \/ (d = c /\ t = s))
  BY DEF OwnedBy
<1>5. LeaseClients' = [LeaseClients EXCEPT ![s] = {c}]
  <2>1. \A t \in SessionId : {d \in Conn : OwnedBy(d, t)'} =
                               IF t = s THEN {c} ELSE {d \in Conn : OwnedBy(d, t)}
    BY <1>1, <1>4
  <2> QED
    BY ZenonT(60), <2>1 DEF LeaseClients
<1>6. s \notin shut /\ s \notin resumable_sessions' /\ sender'[s] # NoConn
  BY DEF HeldKnows, Placed, born
<1>7. LeaseStatus' = [LeaseStatus EXCEPT ![s] = "live"]
  <2>1. shut' = shut /\ resumable_sessions' = resumable_sessions \ {s} /\ born' = born \cup {s}
    BY NullAssumption DEF born, HeldKnows, Placed
  <2> HIDE DEF IInv, TypeOK, OpenNew, TakeResumable, Goto
  <2> QED
    BY <1>6, <2>1 DEF LeaseStatus
<1> QED
  BY <1>2, <1>3, <1>5, <1>7 DEF Lease!Attach, Lease!Free

(* The connection that parks a session was its only client.                *)
LEMMA HoldMaps ==
  ASSUME IInv, NEW c \in Conn, Park(c)
  PROVE  Lease!Hold(sess[c])
<1> USE DEF IInv, TypeOK, Park, Goto
<1>1. sess[c] \in SessionId /\ sess[c] \notin shut /\ sess[c] \notin resumable_sessions /\ sender[sess[c]] # NoConn
  BY DEF ConnKnows
<1>2. LeaseStatus[sess[c]] = "live"
  BY <1>1 DEF LeaseStatus, born
<1>3. LeaseStatus' = [LeaseStatus EXCEPT ![sess[c]] = "held"]
  BY <1>1 DEF LeaseStatus, born
<1>4. \A d \in Conn, t \in SessionId : OwnedBy(d, t)' <=> (OwnedBy(d, t) /\ t # sess[c])
  BY DEF OwnedBy, Alone
<1>5. LeaseClients' = [LeaseClients EXCEPT ![sess[c]] = {}]
  <2>1. \A t \in SessionId : {d \in Conn : OwnedBy(d, t)'} =
                               IF t = sess[c] THEN {} ELSE {d \in Conn : OwnedBy(d, t)}
    BY <1>4
  <2> HIDE DEF IInv, TypeOK, Park, Goto
  <2> QED
    BY <1>1, <2>1 DEF LeaseClients
<1> QED
  BY <1>2, <1>3, <1>5 DEF Lease!Hold

(* A session that is not resumable ends with its connection.               *)
LEMMA EndMaps ==
  ASSUME IInv, NEW c \in Conn, DropSession(c)
  PROVE  Lease!End(sess[c])
<1> USE DEF IInv, TypeOK, DropSession, Goto
<1>1. sess[c] \in SessionId /\ sess[c] \notin shut /\ sess[c] \notin resumable_sessions /\ sender[sess[c]] # NoConn /\ sess[c] \in sessions
  BY DEF ConnKnows, ConnMap
<1>2. LeaseStatus[sess[c]] = "live"
  BY <1>1 DEF LeaseStatus, born
<1>3. LeaseStatus' = [LeaseStatus EXCEPT ![sess[c]] = "gone"]
  BY <1>1 DEF LeaseStatus, born
<1>4. \A d \in Conn, t \in SessionId : OwnedBy(d, t)' <=> (OwnedBy(d, t) /\ t # sess[c])
  BY DEF OwnedBy, Alone
<1>5. LeaseClients' = [LeaseClients EXCEPT ![sess[c]] = {}]
  BY ZenonT(60), <1>1, <1>4 DEF LeaseClients
<1> QED
  BY <1>2, <1>3, <1>5 DEF Lease!End

(* A timer ends the session it finds waiting, whoever armed it.            *)
LEMMA ExpiryMaps ==
  ASSUME IInv, NEW c \in Conn, FireTimer(c)
  PROVE  Lease!End(sess[c]) \/ UNCHANGED <<LeaseStatus, LeaseClients>>
<1> USE DEF IInv, TypeOK, FireTimer
<1>1. \A d \in Conn, t \in SessionId : OwnedBy(d, t)' <=> OwnedBy(d, t)
  BY DEF OwnedBy
<1>2. born' = born
  BY DEF born
<1>3. CASE sess[c] \notin resumable_sessions
  <2>1. UNCHANGED <<shut, resumable_sessions>>
    BY <1>3
  <2> QED
    BY <2>1, <1>1, <1>2, LeaseStutter
<1>4. CASE sess[c] \in resumable_sessions
  <2>1. sess[c] \in SessionId /\ sess[c] \notin shut
    BY <1>4 DEF HeldKnows
  <2>2. \A d \in Conn : ~OwnedBy(d, sess[c])
    BY <1>4 DEF ConnKnows, OwnedBy
  <2>3. LeaseStatus[sess[c]] = "held"
    BY <1>4, <2>1 DEF LeaseStatus
  <2>4. LeaseStatus' = [LeaseStatus EXCEPT ![sess[c]] = "gone"]
    BY <1>2, <1>4, <2>1 DEF LeaseStatus
  <2>5. LeaseClients' = [LeaseClients EXCEPT ![sess[c]] = {}]
    <3>1. LeaseClients' = LeaseClients /\ LeaseClients[sess[c]] = {}
      BY <1>1, <2>1, <2>2 DEF LeaseClients
    <3> QED
      BY <3>1, <2>1 DEF LeaseClients
  <2> QED
    BY <2>3, <2>4, <2>5 DEF Lease!End
<1> QED
  BY <1>3, <1>4

(* What a connection does between attaching and letting go.                *)
LEMMA ConnStutters ==
  ASSUME IInv, NEW c \in Conn, ~Park(c), ~DropSession(c), ConnStep(c) \/ BeginOp(c) \/ LeaveLoop(c)
  PROVE  UNCHANGED <<LeaseStatus, LeaseClients>>
<1> USE DEF IInv, TypeOK, ConnStep, Unpause, SwapSender, InsertResumed, SendInitialState, BeginOp,
            EndOp, LeaveLoop, ReadResumable, CheckChannel, RemoveLive, EvictTwin, ArmTimer, Goto
<1>1. UNCHANGED <<shut, resumable_sessions>>
  <2>1. CASE EvictTwin(c)
    BY <2>1 DEF ConnKnows
  <2>2. CASE ~EvictTwin(c)
    BY <2>2
  <2> QED
    BY <2>1, <2>2
<1>2. born' = born
  BY DEF born, ConnKnows
<1>3. \A d \in Conn, t \in SessionId : OwnedBy(d, t)' <=> OwnedBy(d, t)
  BY DEF OwnedBy, ConnKnows
<1> QED
  BY <1>1, <1>2, <1>3, LeaseStutter

(* Every step of the registry is one step of the lease, or none.           *)
THEOREM LeaseStep == IInv /\ [RegNext]_regVars => [Lease!Next]_<<LeaseStatus, LeaseClients>>
<1> SUFFICES ASSUME IInv, [RegNext]_regVars
             PROVE  Lease!Next \/ UNCHANGED <<LeaseStatus, LeaseClients>>
  OBVIOUS
<1>1. CASE UNCHANGED regVars
  BY <1>1 DEF regVars, LeaseStatus, LeaseClients, OwnedBy, born
<1>2. ASSUME NEW c \in Conn, ConnStep(c) \/ BeginOp(c) \/ LeaveLoop(c)
      PROVE  Lease!Next \/ UNCHANGED <<LeaseStatus, LeaseClients>>
  <2>1. Park(c) \/ DropSession(c) => sess[c] \in SessionId
    BY DEF IInv, ConnKnows, Park, DropSession, Goto
  <2> QED
    BY <1>2, <2>1, HoldMaps, EndMaps, ConnStutters DEF Lease!Next
<1>3. ASSUME NEW c \in Conn, FireTimer(c)
      PROVE  Lease!Next \/ UNCHANGED <<LeaseStatus, LeaseClients>>
  <2>1. sess[c] \in SessionId
    BY <1>3 DEF IInv, TypeOK, ConnKnows, FireTimer
  <2> QED
    BY <1>3, <2>1, ExpiryMaps DEF Lease!Next
<1>4. ASSUME NEW c \in Conn, NEW s \in SessionId, OpenNew(c, s) \/ TakeResumable(c, s)
      PROVE  Lease!Next
  BY <1>4, AttachMaps DEF Lease!Next
<1>5. ASSUME NEW r \in Request, NEW s \in SessionId, TakeGuard(r, s)
      PROVE  UNCHANGED <<LeaseStatus, LeaseClients>>
  BY <1>5 DEF TakeGuard, LeaseStatus, LeaseClients, OwnedBy, born
<1>8. ASSUME NEW s \in SessionId, NEW b \in BOOLEAN, NEW t \in Timeouts, UpdateSession(s, b, t)
      PROVE  UNCHANGED <<LeaseStatus, LeaseClients>>
  BY <1>8 DEF UpdateSession, LeaseStatus, LeaseClients, OwnedBy, born
<1>6. CASE Tick
  BY <1>6 DEF Tick, LeaseStatus, LeaseClients, OwnedBy, born
<1>7. ASSUME NEW r \in Request, DropGuard(r)
      PROVE  UNCHANGED <<LeaseStatus, LeaseClients>>
  BY <1>7 DEF DropGuard, LeaseStatus, LeaseClients, OwnedBy, born
<1> QED
  BY <1>1, <1>2, <1>3, <1>4, <1>5, <1>6, <1>7, <1>8 DEF RegNext

(* Every behaviour of the registry is one of the lease: a session has one  *)
(* client at a time, ends once, and is only resumed while it is held.      *)
THEOREM ImplementsLease == RegSpec => LeaseSpec
<1>1. RegSpec => [][Lease!Next]_<<LeaseStatus, LeaseClients>>
  BY InvHolds, LeaseStep, PTL DEF RegSpec
<1> QED
  BY <1>1, LeaseInit, PTL DEF RegSpec, LeaseSpec, Lease!Spec, Lease!leaseVars
=============================================================================
