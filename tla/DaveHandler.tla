----------------------------- MODULE DaveHandler -----------------------------
(***************************************************************************)
(* DaveHandler: the client's side of the group key exchange for encrypted  *)
(* voice, driven by the messages of the voice server.  The handler belongs *)
(* to the gateway and outlives its connections; connected_users belongs to *)
(* the connection.  The cryptography (davey) is external: of a session it  *)
(* is known which setup it comes from, and every call on it may fail.      *)
(* Proposals and handshakes (commits and welcomes) that come before the    *)
(* external sender are kept for it.                                        *)
(***************************************************************************)
EXTENDS Naturals, Sequences, FiniteSets, Functions

CONSTANTS
  Users, Self,        \* the users of the channel, and the bot
  Transitions,        \* transition ids, 0 among them: the one that needs no answer
  MaxPending,         \* MAX_PENDING_PROPOSALS
  MaxSetups           \* bound: sessions set up

DaveAssumption ==
  /\ Self \in Users /\ IsFiniteSet(Users)
  /\ 0 \in Transitions /\ Transitions \subseteq Nat
  /\ MaxPending \in Nat /\ MaxSetups \in Nat \ {0}

VARIABLES
  session,              \* the setup the session comes from, or 0: there is none
  protocol_version,     \* 0: plaintext, or 1
  pending_transitions,
  external_sender_set, saved_external_sender,
  pending_proposals,    \* of each, the setup it was received in
  pending_handshake,    \* of each, its transition and the setup it was received in
  recognized_users, cached_user_ids,
  connected_users,      \* SessionState's, of the current connection
  setups,               \* history: sessions set up or reset so far
  crossed               \* history: a session was given a message of another's

groupVars == <<session, protocol_version, pending_transitions, external_sender_set,
               saved_external_sender, pending_proposals, pending_handshake>>
userVars == <<recognized_users, cached_user_ids, connected_users>>
setupVars == <<setups, crossed>>
daveVars == <<groupVars, userVars, setupVars>>

None == 0
Versions == {0, 1}
NoTransitions == [t \in {} |-> 0]
PutTransition(pending, tid, version) ==
  [t \in DOMAIN pending \cup {tid} |-> IF t = tid THEN version ELSE pending[t]]

DaveInit ==
  /\ session = None /\ protocol_version = 0 /\ pending_transitions = NoTransitions
  /\ external_sender_set = FALSE /\ saved_external_sender = FALSE
  /\ pending_proposals = <<>> /\ pending_handshake = <<>>
  /\ recognized_users = {Self} /\ cached_user_ids = {Self} /\ connected_users = {Self}
  /\ setups = 0 /\ crossed = FALSE

-----------------------------------------------------------------------------
(* Users                                                                   *)

(* A new connection knows the bot only; the handler is not told.  Of the   *)
(* bot's own leaving the server says nothing on this connection.           *)
Connect ==
  /\ connected_users' = {Self}
  /\ UNCHANGED <<groupVars, recognized_users, cached_user_ids, setupVars>>

(* Mistake kept for checking: the cache is not refreshed.                  *)
add_users_uncached(uids) ==
  /\ connected_users' = connected_users \cup uids
  /\ recognized_users' = recognized_users \cup uids
  /\ UNCHANGED <<groupVars, cached_user_ids, setupVars>>

add_users(uids) ==
  /\ connected_users' = connected_users \cup uids
  /\ recognized_users' = recognized_users \cup uids
  /\ cached_user_ids' = recognized_users \cup uids
  /\ UNCHANGED <<groupVars, setupVars>>

remove_user(uid) ==
  /\ connected_users' = connected_users \ {uid}
  /\ recognized_users' = recognized_users \ {uid}
  /\ cached_user_ids' = IF uid \in recognized_users THEN recognized_users \ {uid}
                                                    ELSE cached_user_ids
  /\ UNCHANGED <<groupVars, setupVars>>

-----------------------------------------------------------------------------
(* Setting a session up                                                    *)

(* Mistake kept for checking: what was kept for the session before is kept *)
(* for this one.                                                           *)
SetUpOver(version, sender) ==
  /\ setups < MaxSetups
  /\ setups' = setups + 1
  /\ session' = setups + 1 /\ protocol_version' = version
  /\ UNCHANGED <<pending_proposals, pending_handshake>>
  /\ external_sender_set' = (saved_external_sender /\ sender)
  /\ saved_external_sender' = (saved_external_sender /\ sender)

(* setup_session that succeeds; a saved external sender is set again, or   *)
(* forgotten if the session refuses it.                                    *)
SetUp(version, sender) ==
  /\ setups < MaxSetups
  /\ setups' = setups + 1
  /\ session' = setups + 1 /\ protocol_version' = version
  /\ pending_proposals' = <<>> /\ pending_handshake' = <<>>
  /\ external_sender_set' = (saved_external_sender /\ sender)
  /\ saved_external_sender' = (saved_external_sender /\ sender)

(* The session is made and no key package comes of it.                     *)
SetUpHalf(version) ==
  /\ setups < MaxSetups
  /\ setups' = setups + 1
  /\ session' = setups + 1 /\ protocol_version' = version
  /\ pending_proposals' = <<>> /\ pending_handshake' = <<>>
  /\ external_sender_set' = FALSE
  /\ UNCHANGED saved_external_sender

(* davey refuses to make or to restart one.                                *)
SetUpRefused(version) ==
  /\ protocol_version' = version
  /\ UNCHANGED <<setups, session, pending_proposals, pending_handshake, external_sender_set,
                 saved_external_sender>>

ResetTo(version) ==
  /\ protocol_version' = version /\ session' = None
  /\ pending_transitions' = NoTransitions
  /\ external_sender_set' = FALSE /\ saved_external_sender' = FALSE
  /\ pending_proposals' = <<>> /\ pending_handshake' = <<>>

(* on_ready and on_session_description, with the version the server wants. *)
Describe(version) ==
  /\ IF version = 0
       THEN ResetTo(0) /\ UNCHANGED setups
       ELSE /\ \/ \E sender \in BOOLEAN : SetUp(version, sender)
               \/ SetUpHalf(version) \/ SetUpRefused(version)
            /\ UNCHANGED pending_transitions
  /\ UNCHANGED <<userVars, crossed>>

(* prepare_epoch: a refusal leaves the version as it was.                  *)
PrepareEpoch(version) ==
  /\ IF version = 0
       THEN ResetTo(0) /\ UNCHANGED setups
       ELSE /\ \/ \E sender \in BOOLEAN : SetUp(version, sender)
               \/ SetUpHalf(version) \/ SetUpRefused(protocol_version)
            /\ UNCHANGED pending_transitions
  /\ UNCHANGED <<userVars, crossed>>

(* reset_dave_locked: everything is forgotten and a session set up anew,   *)
(* if it can be.                                                           *)
Restart ==
  /\ pending_transitions' = NoTransitions
  /\ pending_proposals' = <<>> /\ pending_handshake' = <<>>
  /\ external_sender_set' = FALSE /\ saved_external_sender' = FALSE
  /\ \/ /\ setups < MaxSetups
        /\ setups' = setups + 1 /\ session' = setups + 1 /\ protocol_version' = 1
     \/ setups' = setups /\ session' = None /\ protocol_version' = 0

InvalidCommitWelcome == Restart /\ UNCHANGED <<userVars, crossed>>

-----------------------------------------------------------------------------
(* Transitions                                                             *)

PrepareTransition(tid, version) ==
  /\ IF tid = 0
       THEN /\ protocol_version' = version
            /\ pending_transitions' = Restrict(pending_transitions, DOMAIN pending_transitions \ {0})
       ELSE /\ pending_transitions' = PutTransition(pending_transitions, tid, version)
            /\ UNCHANGED protocol_version
  /\ UNCHANGED <<session, external_sender_set, saved_external_sender, pending_proposals,
                 pending_handshake, userVars, setupVars>>

ExecuteTransition(tid) ==
  /\ tid \in DOMAIN pending_transitions
  /\ protocol_version' = pending_transitions[tid]
  /\ pending_transitions' = Restrict(pending_transitions, DOMAIN pending_transitions \ {tid})
  /\ UNCHANGED <<session, external_sender_set, saved_external_sender, pending_proposals,
                 pending_handshake, userVars, setupVars>>

-----------------------------------------------------------------------------
(* Binary messages                                                         *)

Crossing(kept) == \E i \in DOMAIN kept : kept[i].of # session

(* The sender is set, and what was kept for it is processed, the proposals *)
(* first; of the handshakes those that davey accepts (good) are noted.     *)
ExternalSender ==
  /\ session # None
  /\ external_sender_set' = TRUE /\ saved_external_sender' = TRUE
  /\ \E good \in SUBSET DOMAIN pending_handshake :
       LET tids == {pending_handshake[i].tid : i \in good} \ {0}
       IN pending_transitions' =
            [t \in DOMAIN pending_transitions \cup tids |->
               IF t \in tids THEN protocol_version ELSE pending_transitions[t]]
  /\ crossed' = (crossed \/ Crossing(pending_proposals) \/ Crossing(pending_handshake))
  /\ pending_proposals' = <<>> /\ pending_handshake' = <<>>
  /\ UNCHANGED <<session, protocol_version, userVars, setups>>

Keep(kept, message) == IF Len(kept) < MaxPending THEN Append(kept, message) ELSE kept

(* Proposals without a sender are kept or, past the limit, dropped; the    *)
(* session answers with a commit or not, and if it fails all starts over.  *)
Proposals ==
  /\ \/ /\ ~external_sender_set
        /\ pending_proposals' = Keep(pending_proposals, [of |-> setups])
        /\ UNCHANGED <<session, protocol_version, pending_transitions, external_sender_set,
                       saved_external_sender, pending_handshake, setups>>
     \/ external_sender_set /\ Restart
  /\ UNCHANGED <<userVars, crossed>>

(* Commit or welcome.  One that is kept, or dropped, is answered as ready. *)
Handshake(tid) ==
  /\ \/ /\ ~external_sender_set
        /\ pending_handshake' = Keep(pending_handshake, [tid |-> tid, of |-> setups])
        /\ UNCHANGED <<pending_transitions, session, protocol_version, external_sender_set,
                       saved_external_sender, pending_proposals, setups>>
     \/ /\ external_sender_set /\ tid # 0
        /\ pending_transitions' = PutTransition(pending_transitions, tid, protocol_version)
        /\ UNCHANGED <<session, protocol_version, external_sender_set, saved_external_sender,
                       pending_proposals, pending_handshake, setups>>
     \/ external_sender_set /\ Restart
  /\ UNCHANGED <<userVars, crossed>>

-----------------------------------------------------------------------------
DaveNext ==
  \/ Connect
  \/ \E uid \in Users \ {Self} : add_users({uid}) \/ remove_user(uid)
  \/ \E version \in Versions : Describe(version) \/ PrepareEpoch(version)
  \/ InvalidCommitWelcome
  \/ \E tid \in Transitions, version \in Versions : PrepareTransition(tid, version)
  \/ \E tid \in Transitions : ExecuteTransition(tid) \/ Handshake(tid)
  \/ ExternalSender \/ Proposals

DaveSpec == DaveInit /\ [][DaveNext]_daveVars

-----------------------------------------------------------------------------
(* Whatever the order in which the server's messages come: what is kept is *)
(* kept only while the external sender is awaited, a sender belongs to a   *)
(* session, and what was kept for one session is never given to another.   *)
KeptForItsSession ==
  /\ external_sender_set => pending_proposals = <<>> /\ pending_handshake = <<>>
  /\ external_sender_set => session # None
  /\ ~crossed

(* Everyone who is connected is recognised in the proposals, also after a  *)
(* reconnection; the cached list is the set.                               *)
ConnectedAreRecognized ==
  connected_users \subseteq recognized_users /\ cached_user_ids = recognized_users
=============================================================================
