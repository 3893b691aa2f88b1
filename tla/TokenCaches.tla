------------------------------ MODULE TokenCaches ------------------------------
(***************************************************************************)
(* The tokens that the sources keep: a call looks in a cache, and asks the *)
(* service when the cache has none that is good.                           *)
(*                                                                         *)
(* Sources: src/sources/*/token.rs, tidal/oauth.rs, youtube/oauth.rs,      *)
(* youtube/cipher.rs, vkmusic/api.rs, amazonmusic/api.rs, lyrics/utils.rs. *)
(* The service's lives, refusals and delays are external: each token it    *)
(* grants is a new one.                                                    *)
(***************************************************************************)
EXTENDS Integers, Sequences, FiniteSets

CONSTANTS
  Callers,
  Accounts,  \* how many sessions deezer keeps
  Life,      \* how long a token is good
  Margin,    \* how long before its end it is no longer used
  Kept,      \* how long a token is kept if the service states no life
  MaxNow,    \* bound: the clock
  MaxCalls,  \* bound: the calls
  None

TokenCachesAssumption ==
  /\ None \notin Callers /\ None \notin [token : Nat, until : Int]
  /\ Accounts \in Nat \ {0} /\ Margin \in Nat /\ MaxNow \in Nat
  /\ MaxCalls \in Nat /\ Life \in Nat \ {0} /\ Kept \in Nat \ {0}

VARIABLES
  policy,   \* how this cache is kept
  now,      \* the clock
  granted,  \* the tokens the service granted, each with the end of its life
  reported, \* those that the cache was told are refused
  cache,    \* per account, None or a token and the end that the code gives it
  next,     \* deezer's counter of calls
  writer,   \* who holds the write lock
  readers,  \* the calls that hold youtube's expiry while they wait for its token
  made,     \* the calls made
  call      \* per caller

vars == <<policy, now, granted, reported, cache, next, writer, readers, made, call>>

-----------------------------------------------------------------------------
(* A policy. lock: "held" over the request, with a second look; "brief",   *)
(* for a look or a store only; "crossed", brief but two locks that are     *)
(* taken in one order to look and in the other to store. ends: a token's   *)
(* life is what the answer states, Kept ("fixed"), or without end; clock:  *)
(* the time is that of the call or that of the step; margin, early: how    *)
(* long before the end it is over, when looked at or when stored; refused: *)
(* what the user of a refused token does; rereads: what the cache has      *)
(* after the store is given; renews: whether the service can be asked for  *)
(* a token; accounts: the sessions that take turns.                        *)
Policy(lock, ends) ==
  [lock |-> lock, ends |-> ends, clock |-> "step", margin |-> 0, early |-> 0,
   refused |-> "nothing", rereads |-> FALSE, renews |-> TRUE, accounts |-> 1]

Qobuz == Policy("held", "never")
Pandora == [Policy("held", "fixed") EXCEPT !.refused = "forces"]
PlayerScript == Policy("held", "fixed")
LyricsToken == [Policy("held", "fixed") EXCEPT !.clock = "call"]
AppleMusic == [Policy("brief", "stated") EXCEPT !.margin = Margin]
SoundCloud == [Policy("brief", "fixed") EXCEPT !.refused = "outdates"]
Spotify == [Policy("brief", "stated") EXCEPT !.margin = Margin]
Deezer == [Policy("brief", "fixed") EXCEPT !.refused = "clears", !.accounts = Accounts]
TidalScraper == [Policy("brief", "fixed") EXCEPT !.margin = Margin]
TidalOauth == [Policy("brief", "never") EXCEPT !.rereads = TRUE]
Vk == [Policy("brief", "never") EXCEPT !.refused = "asks"]
VkWithoutCookie == [Policy("brief", "never") EXCEPT !.renews = FALSE]
AmazonMusic == [Policy("brief", "never") EXCEPT !.refused = "clears"]
YouTubeOAuth == [Policy("crossed", "stated") EXCEPT !.clock = "call", !.early = Margin]

Policies ==
  {Qobuz, Pandora, PlayerScript, LyricsToken, AppleMusic, SoundCloud, Spotify, Deezer,
   TidalScraper, TidalOauth, Vk, VkWithoutCookie, AmazonMusic, YouTubeOAuth}

(* SoundCloud's id and VK's token may be configured.                       *)
Configurable == policy \in {SoundCloud, Vk, VkWithoutCookie}

Forever == MaxNow + Life + Margin + 1
Idle == [at |-> "idle", account |-> 0, since |-> 0, again |-> FALSE, forced |-> FALSE,
         known |-> {}, token |-> 0, cached |-> FALSE, given |-> 0]

Init ==
  /\ policy \in Policies /\ now = 0 /\ reported = {}
  /\ \/ granted = <<>> /\ cache = [a \in 0 .. policy.accounts - 1 |-> None]
     \/ /\ Configurable
        /\ granted = <<Life>>
        /\ cache = [a \in {0} |->
             [token |-> 1, until |-> IF policy.ends = "never" THEN Forever ELSE Kept]]
  /\ next = 0 /\ writer = None /\ readers = {} /\ made = 0
  /\ call = [c \in Callers |-> Idle]

At(c, places) == call[c].at \in places
Go(c, place) == call' = [call EXCEPT ![c].at = place]
Clock(c) == IF policy.clock = "call" THEN call[c].since ELSE now
Entry(c) == cache[call[c].account]

(* is_valid, is_stale                                                      *)
Usable(c) == Entry(c) # None /\ Entry(c).until > Clock(c) + policy.margin

Give(c, token, cached) ==
  call' = [call EXCEPT ![c] = [@ EXCEPT !.at = "has", !.token = token, !.cached = cached,
             !.given = IF policy.ends = "stated" THEN now ELSE 0]]
GiveUp(c) == call' = [call EXCEPT ![c] = Idle]

-----------------------------------------------------------------------------
(* get_token: deezer's accounts take turns.                                *)
Call(c) ==
  /\ At(c, {"idle"}) /\ made < MaxCalls /\ made' = made + 1
  /\ call' = [call EXCEPT ![c] = [Idle EXCEPT !.at = "look", !.account = next, !.known = reported,
               !.since = IF policy.clock = "call" THEN now ELSE 0]]
  /\ next' = (next + 1) % policy.accounts
  /\ UNCHANGED <<policy, now, granted, reported, cache, writer, readers>>

(* Under the read lock. YouTube's has the end of the token's life, and     *)
(* the token needs a lock of its own.                                      *)
Look(c) ==
  /\ At(c, {"look"}) /\ (policy.lock = "held" => writer = None)
  /\ IF policy.lock = "crossed"
     THEN /\ readers' = readers \cup {c}
          /\ call' = [call EXCEPT ![c].at = "token", ![c].since = now]
     ELSE /\ IF Usable(c) THEN Give(c, Entry(c).token, TRUE)
             ELSE Go(c, IF policy.lock = "held" THEN "lock" ELSE "ask")
          /\ UNCHANGED readers
  /\ UNCHANGED <<policy, now, granted, reported, cache, next, writer, made>>

LookAtToken(c) ==
  /\ At(c, {"token"}) /\ writer = None
  /\ readers' = readers \ {c}
  /\ IF Usable(c) THEN Give(c, Entry(c).token, TRUE) ELSE Go(c, "ask")
  /\ UNCHANGED <<policy, now, granted, reported, cache, next, writer, made>>

(* refresh_tokens: the write lock, and a second look unless it is forced.  *)
Lock(c) ==
  /\ At(c, {"lock"}) /\ writer = None
  /\ IF Usable(c) /\ ~call[c].forced
     THEN Give(c, Entry(c).token, TRUE) /\ UNCHANGED writer
     ELSE writer' = c /\ Go(c, "ask")
  /\ UNCHANGED <<policy, now, granted, reported, cache, next, readers, made>>

(* The service grants a token, or the request fails; without its cookie    *)
(* VK's always does.                                                       *)
Granted(c) ==
  /\ At(c, {"ask"}) /\ policy.renews
  /\ granted' = Append(granted, now + Life)
  /\ call' = [call EXCEPT ![c].at = "store", ![c].token = Len(granted')]
  /\ UNCHANGED <<policy, now, reported, cache, next, writer, readers, made>>

(* What a forced request gives is not used: a look follows it.             *)
LookAgain(c) == call' = [call EXCEPT ![c].at = "look", ![c].forced = FALSE, ![c].token = 0]

Failed(c) ==
  /\ At(c, {"ask"})
  /\ IF call[c].forced THEN LookAgain(c) ELSE GiveUp(c)
  /\ writer' = IF writer = c THEN None ELSE writer
  /\ UNCHANGED <<policy, now, granted, reported, cache, next, readers, made>>

End(c) ==
  CASE policy.ends = "never" -> Forever
    [] policy.ends = "fixed" -> Clock(c) + Kept
    [] policy.ends = "stated" /\ policy.clock = "call" -> Clock(c) + Life - policy.early
    [] OTHER -> granted[call[c].token]

(* The write lock of the token, before that of the end of its life.        *)
LockToken(c) ==
  /\ At(c, {"store"}) /\ policy.lock = "crossed" /\ writer = None
  /\ writer' = c /\ Go(c, "end")
  /\ UNCHANGED <<policy, now, granted, reported, cache, next, readers, made>>

Store(c) ==
  /\ At(c, IF policy.lock = "crossed" THEN {"end"} ELSE {"store"}) /\ readers = {}
  /\ cache' = [cache EXCEPT ![call[c].account] = [token |-> call[c].token, until |-> End(c)]]
  /\ writer' = IF writer = c THEN None ELSE writer
  /\ IF policy.rereads THEN Go(c, "reread")
     ELSE IF call[c].forced THEN LookAgain(c) ELSE Give(c, call[c].token, FALSE)
  /\ UNCHANGED <<policy, now, granted, reported, next, readers, made>>

Reread(c) ==
  /\ At(c, {"reread"}) /\ Give(c, Entry(c).token, FALSE)
  /\ UNCHANGED <<policy, now, granted, reported, cache, next, writer, readers, made>>

-----------------------------------------------------------------------------
(* A plausible bug: the counter's account is told, not the token's.        *)
Forgotten_current(account) ==
  [cache EXCEPT ![next] = IF @ # None THEN [@ EXCEPT !.until = 0] ELSE @]

(* The cache without the token that its account has.                       *)
Forgotten(account) ==
  [cache EXCEPT ![account] =
     IF policy.refused = "outdates" /\ @ # None THEN [@ EXCEPT !.until = 0]
     ELSE IF policy.refused = "forces" THEN @ ELSE None]

(* A request with the token is refused: the cache is told, and VK and      *)
(* Pandora are asked once more, after a new token.                         *)
Refused(c) ==
  /\ At(c, {"has"}) /\ policy.refused # "nothing" /\ ~call[c].again
  /\ reported' = reported \cup {call[c].token}
  /\ cache' = Forgotten(call[c].account)
  /\ CASE policy.refused = "forces" ->
            call' = [call EXCEPT ![c].at = "lock", ![c].again = TRUE, ![c].forced = TRUE]
       [] policy.refused = "asks" ->
            call' = [call EXCEPT ![c].at = "ask", ![c].again = TRUE]
       [] OTHER -> GiveUp(c)
  /\ UNCHANGED <<policy, now, granted, next, writer, readers, made>>

(* The request is over, although it may have been refused: VK without a    *)
(* cookie, SoundCloud's searches, and Amazon's requests to several regions *)
(* do not tell the cache.                                                  *)
Done(c) ==
  /\ At(c, {"has"}) /\ GiveUp(c)
  /\ UNCHANGED <<policy, now, granted, reported, cache, next, writer, readers, made>>

(* A look takes no time unless it waits. Nobody looks at the clock for a   *)
(* token without end.                                                      *)
Tick ==
  /\ policy.ends # "never" /\ now < MaxNow /\ (readers # {} => writer # None) /\ now' = now + 1
  /\ UNCHANGED <<policy, granted, reported, cache, next, writer, readers, made, call>>

Proceeds(c) ==
  \/ Look(c) \/ LookAtToken(c) \/ Lock(c) \/ Granted(c) \/ Failed(c) \/ LockToken(c)
  \/ Store(c) \/ Reread(c) \/ Refused(c) \/ Done(c)

Next == Tick \/ \E c \in Callers : Call(c) \/ Proceeds(c)

(* A request is answered or fails in the end.                              *)
Spec == Init /\ [][Next]_vars /\ WF_vars(\E c \in Callers : Proceeds(c))

-----------------------------------------------------------------------------
Tokens == DOMAIN granted

TypeOK ==
  /\ policy \in Policies /\ now \in 0 .. MaxNow /\ reported \subseteq Tokens
  /\ \A a \in DOMAIN cache : cache[a] = None \/ cache[a].token \in Tokens
  /\ writer \in Callers \cup {None} /\ readers \subseteq Callers

(* The caches that hold their lock over the request ask for one token at a *)
(* time, and keep the newest.                                              *)
OneRequest ==
  policy.lock = "held" =>
    LET asking == {c \in Callers : At(c, {"ask", "store"})}
    IN Cardinality(asking) <= 1
         /\ (asking = {} /\ cache[0] # None => cache[0].token = Len(granted))

(* A token of which the cache was told that it was refused is not given to *)
(* a later call, whichever requests were on their way. (A forced request   *)
(* that fails leaves Pandora its token.)                                   *)
ToldNotGivenAgain ==
  policy.refused # "forces" => \A c \in Callers : At(c, {"has"}) => call[c].token \notin call[c].known

(* A token from the cache is alive for the service that stated its life.   *)
AliveWhenGiven ==
  policy.ends = "stated" =>
    \A c \in Callers :
      At(c, {"has"}) /\ call[c].cached => call[c].given < granted[call[c].token]

(* sources/*/token.rs: the promises of the caches.                         *)
TokensInOrder == OneRequest /\ ToldNotGivenAgain /\ AliveWhenGiven

(* Every call is answered. YouTube's two locks, which are taken in either  *)
(* order (oauth.rs:206-207, 225-226), break this.                          *)
Answered == \A c \in Callers : At(c, {"idle"})
AnsweredUnlessCrossed == policy.lock # "crossed" => Answered
=============================================================================
