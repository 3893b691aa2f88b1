---------------------------- MODULE SessionLease ----------------------------
(***************************************************************************)
(* What the server promises about one client session, without maps, flags  *)
(* or timers: a session is opened for one connection, is held while nobody *)
(* is connected, may be resumed by one connection at a time, and once it   *)
(* has ended it never comes back.                                          *)
(***************************************************************************)
CONSTANTS SessionId, Conn

VARIABLES
  status,   \* "none", "live", "held" or "gone"
  clients   \* the connections that act for the session

leaseVars == <<status, clients>>

Init ==
  /\ status = [s \in SessionId |-> "none"]
  /\ clients = [s \in SessionId |-> {}]

Free(c) == \A s \in SessionId : c \notin clients[s]

(* A connection opens a new session or resumes one that is held.           *)
Attach(s, c) ==
  /\ status[s] \in {"none", "held"}
  /\ clients[s] = {} /\ Free(c)
  /\ status' = [status EXCEPT ![s] = "live"]
  /\ clients' = [clients EXCEPT ![s] = {c}]

(* The connection closes and the session waits to be resumed.              *)
Hold(s) ==
  /\ status[s] = "live"
  /\ status' = [status EXCEPT ![s] = "held"]
  /\ clients' = [clients EXCEPT ![s] = {}]

(* The connection closes a session that is not resumable, or nobody        *)
(* resumed it in time.                                                     *)
End(s) ==
  /\ status[s] \in {"live", "held"}
  /\ status' = [status EXCEPT ![s] = "gone"]
  /\ clients' = [clients EXCEPT ![s] = {}]

Next ==
  \E s \in SessionId :
    \/ Hold(s)
    \/ End(s)
    \/ \E c \in Conn : Attach(s, c)

Spec == Init /\ [][Next]_leaseVars
=============================================================================
