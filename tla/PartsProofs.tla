------------------------------ MODULE PartsProofs ------------------------------
(***************************************************************************)
(* Proofs about the parts of MCParts: the order of YouTube's clients, the  *)
(* promises of the token caches, of the search for lyrics and of their     *)
(* telling, for any pools, formats and lyrics and any number of callers,   *)
(* accounts, providers, positions, seeks and subscriptions.                *)
(***************************************************************************)
EXTENDS MCParts, FiniteSetTheorems, SequenceTheorems, WellFoundedInduction, TLAPS

-----------------------------------------------------------------------------
(* The token caches                                                        *)

Places == {"idle", "look", "token", "lock", "ask", "store", "end", "reread", "has"}

CallRecord ==
  [at : Places, account : 0 .. policy.accounts - 1, since : Nat, again : BOOLEAN,
   forced : BOOLEAN, known : SUBSET reported, token : 0 .. Len(granted), cached : BOOLEAN,
   given : Nat]

(* Who has a token has one that was granted.                               *)
CacheTyped ==
  /\ policy \in Tokens!Policies /\ now \in Nat /\ granted \in Seq(Nat)
  /\ reported \subseteq 1 .. Len(granted)
  /\ next \in 0 .. policy.accounts - 1
  /\ DOMAIN cache = 0 .. policy.accounts - 1
  /\ \A a \in DOMAIN cache :
       cache[a] # None => cache[a] \in [token : 1 .. Len(granted), until : Int]
  /\ writer \in Callers \cup {None}
CallsTyped ==
  /\ call \in [Callers -> CallRecord]
  /\ \A c \in Callers :
       /\ Tokens!At(c, {"store", "end", "has"}) => call[c].token >= 1
       /\ Tokens!At(c, {"reread"}) => policy.rereads /\ Tokens!Entry(c) # None
       /\ Tokens!At(c, {"token", "end"}) => policy.lock = "crossed"
       /\ Tokens!At(c, {"lock"}) => policy.lock = "held"

(* The write lock is held over the request: the token that is newest is    *)
(* the one to be stored, or the one that is kept.                          *)
Newest ==
  policy.lock = "held" =>
    /\ \A c \in Callers : Tokens!At(c, {"ask", "store"}) => writer = c
    /\ \A c \in Callers : Tokens!At(c, {"store"}) => call[c].token = Len(granted)
    /\ (\A c \in Callers : ~Tokens!At(c, {"store"})) /\ cache[0] # None
         => cache[0].token = Len(granted)

(* A token that is to be stored is nobody else's, one that is kept is kept *)
(* for one account, and one that was refused is gone or out of date.       *)
Unreported ==
  /\ policy.refused = "nothing" => reported = {}
  /\ policy.refused \notin {"nothing", "forces"} =>
       /\ \A c \in Callers : Tokens!At(c, {"store"}) =>
            /\ call[c].token \notin reported
            /\ \A a \in DOMAIN cache : cache[a] # None => cache[a].token # call[c].token
            /\ \A d \in Callers : d # c /\ Tokens!At(d, {"store", "has"})
                 => call[d].token # call[c].token
       /\ \A a, b \in DOMAIN cache :
            cache[a] # None /\ cache[b] # None /\ cache[a].token = cache[b].token => a = b
       /\ \A c \in Callers : Tokens!At(c, {"has"}) =>
            /\ call[c].token \notin call[c].known
            /\ \A a \in DOMAIN cache :
                 cache[a] # None /\ cache[a].token = call[c].token => a = call[c].account
       /\ \A a \in DOMAIN cache :
            cache[a] # None /\ cache[a].token \in reported => cache[a].until <= 0

(* What is kept is over before its life is, and YouTube's two looks see    *)
(* the same time: a reader that waits keeps the writer it waits for.       *)
Living ==
  policy.ends = "stated" =>
    /\ \A a \in DOMAIN cache : cache[a] # None => cache[a].until <= granted[cache[a].token]
    /\ \A c \in Callers :
         /\ call[c].since <= now
         /\ Tokens!At(c, {"store", "end"}) => granted[call[c].token] >= call[c].since + Life
         /\ Tokens!At(c, {"has"}) /\ call[c].cached => call[c].given < granted[call[c].token]
         /\ Tokens!At(c, {"token"}) =>
              c \in readers /\ policy.lock = "crossed" /\ (writer = None => call[c].since = now)
         /\ writer = c /\ policy.lock = "crossed" => Tokens!At(c, {"end"})

TokensInv == CacheTyped /\ CallsTyped /\ Newest /\ Unreported /\ Living

-----------------------------------------------------------------------------
LEMMA PolicyFacts ==
  ASSUME policy \in Tokens!Policies
  PROVE  /\ policy.margin \in Nat /\ policy.early \in Nat /\ policy.accounts \in Nat \ {0}
         /\ policy.lock = "held" =>
              policy.accounts = 1 /\ policy.refused \in {"nothing", "forces"} /\ ~policy.rereads
         /\ policy.refused \notin {"nothing", "forces"} =>
              policy.lock = "brief" /\ ~policy.rereads
         /\ policy.refused \in {"outdates", "asks"} => policy.accounts = 1
         /\ policy.lock = "crossed" => policy.ends = "stated"
         /\ policy.clock = "call" => policy.lock # "brief"
         /\ policy.rereads => policy.refused = "nothing" /\ policy.lock = "brief"
         /\ policy.refused = "forces" => policy.lock = "held"
         /\ policy.ends = "stated" =>
              /\ policy.refused = "nothing" /\ ~policy.rereads
              /\ policy.lock \in {"brief", "crossed"}
              /\ policy.clock = "call" <=> policy.lock = "crossed"
<1> USE PartsAssumption DEF Tokens!TokenCachesAssumption, Tokens!Policy
<1>1. CASE policy = Tokens!Qobuz
  BY <1>1 DEF Tokens!Qobuz
<1>2. CASE policy = Tokens!Pandora
  BY <1>2 DEF Tokens!Pandora
<1>3. CASE policy = Tokens!PlayerScript
  BY <1>3 DEF Tokens!PlayerScript
<1>4. CASE policy = Tokens!LyricsToken
  BY <1>4 DEF Tokens!LyricsToken
<1>5. CASE policy = Tokens!AppleMusic
  BY <1>5 DEF Tokens!AppleMusic
<1>6. CASE policy = Tokens!Spotify
  BY <1>6 DEF Tokens!Spotify
<1>7. CASE policy = Tokens!YouTubeOAuth
  BY <1>7 DEF Tokens!YouTubeOAuth
<1>8. CASE policy = Tokens!SoundCloud
  BY <1>8 DEF Tokens!SoundCloud
<1>9. CASE policy = Tokens!Deezer
  BY <1>9 DEF Tokens!Deezer
<1>10. CASE policy = Tokens!Vk
  BY <1>10 DEF Tokens!Vk
<1>11. CASE policy = Tokens!AmazonMusic
  BY <1>11 DEF Tokens!AmazonMusic
<1>12. CASE policy = Tokens!TidalScraper
  BY <1>12 DEF Tokens!TidalScraper
<1>13. CASE policy = Tokens!TidalOauth
  BY <1>13 DEF Tokens!TidalOauth
<1>14. CASE policy = Tokens!VkWithoutCookie
  BY <1>14 DEF Tokens!VkWithoutCookie
<1> QED BY <1>1, <1>2, <1>3, <1>4, <1>5, <1>6, <1>7, <1>8, <1>9, <1>10, <1>11, <1>12, <1>13, <1>14
           DEF Tokens!Policies

LEMMA ConfigurableFacts ==
  ASSUME Tokens!Configurable
  PROVE  policy.accounts = 1 /\ policy.lock = "brief" /\ policy.ends # "stated"
<1>1. CASE policy = Tokens!SoundCloud
  BY <1>1 DEF Tokens!SoundCloud, Tokens!Policy
<1>2. CASE policy = Tokens!Vk
  BY <1>2 DEF Tokens!Vk, Tokens!Policy
<1>3. CASE policy = Tokens!VkWithoutCookie
  BY <1>3 DEF Tokens!VkWithoutCookie, Tokens!Policy
<1> QED BY <1>1, <1>2, <1>3 DEF Tokens!Configurable

-----------------------------------------------------------------------------
(* What becomes of a call                                                  *)

(* The call of c is another one, and those of the others are the same.     *)
Only(c) ==
  /\ DOMAIN call' = Callers /\ \A d \in Callers : d # c => call'[d] = call[d]
  /\ call' = [call EXCEPT ![c] = call'[c]]

LEMMA CallFields ==
  ASSUME CallsTyped, NEW c \in Callers
  PROVE  /\ call[c] \in CallRecord /\ DOMAIN call = Callers
         /\ DOMAIN call[c] = {"at", "account", "since", "again", "forced", "known", "token",
                              "cached", "given"}
         /\ call[c].account \in 0 .. policy.accounts - 1 /\ call[c].since \in Nat
         /\ call[c].token \in 0 .. Len(granted) /\ call[c].known \subseteq reported
         /\ call[c].given \in Nat /\ call[c].at \in Places /\ call[c].again \in BOOLEAN
         /\ call[c].forced \in BOOLEAN /\ call[c].cached \in BOOLEAN
BY DEF CallsTyped, CallRecord

LEMMA GoChange ==
  ASSUME CallsTyped, NEW c \in Callers, NEW place, Tokens!Go(c, place)
  PROVE  Only(c) /\ call'[c] = [call[c] EXCEPT !.at = place]
BY CallFields DEF Tokens!Go, Only

LEMMA GiveChange ==
  ASSUME CallsTyped, NEW c \in Callers, NEW token, NEW cached, Tokens!Give(c, token, cached)
  PROVE  /\ Only(c)
         /\ call'[c] = [call[c] EXCEPT !.at = "has", !.token = token, !.cached = cached,
                          !.given = IF policy.ends = "stated" THEN now ELSE 0]
BY CallFields DEF Tokens!Give, Only

LEMMA GiveUpChange ==
  ASSUME CallsTyped, NEW c \in Callers, Tokens!GiveUp(c)
  PROVE  Only(c) /\ call'[c] = Tokens!Idle
BY CallFields DEF Tokens!GiveUp, Only

LEMMA LookAgainChange ==
  ASSUME CallsTyped, NEW c \in Callers, Tokens!LookAgain(c)
  PROVE  Only(c) /\ call'[c] = [call[c] EXCEPT !.at = "look", !.forced = FALSE, !.token = 0]
<1>1. DOMAIN call = Callers
  BY CallFields
<1>2. call'[c] = [[[call[c] EXCEPT !.at = "look"] EXCEPT !.forced = FALSE] EXCEPT !.token = 0]
  BY <1>1 DEF Tokens!LookAgain
<1>3. Only(c)
  BY <1>1 DEF Tokens!LookAgain, Only
<1> QED BY <1>2, <1>3, CallFields

-----------------------------------------------------------------------------
(* Steps in which a call moves on and neither the cache nor the service    *)
(* changes: what has a token has it from the cache.                        *)
Moves(c) ==
  /\ Only(c) /\ call'[c] \in CallRecord
  /\ UNCHANGED <<policy, now, granted, reported, cache>>
  /\ next' \in 0 .. policy.accounts - 1
  /\ writer' = writer \/ (writer = None /\ writer' = c)
       \/ (writer = c /\ writer' = None /\ policy.lock # "crossed")
  /\ readers \ {c} \subseteq readers'
  /\ Tokens!At(c, {"store"}) => policy.lock = "crossed"
  /\ call'[c].since \in {0, call[c].since, now}
  /\ call'[c].at \notin {"store", "reread"}
  /\ call'[c].at = "lock" => policy.lock = "held"
  /\ call'[c].at = "ask" /\ policy.lock = "held" => writer' = c
  /\ call'[c].at = "end" =>
       /\ policy.lock = "crossed" /\ Tokens!At(c, {"store"})
       /\ call'[c].token = call[c].token /\ call'[c].since = call[c].since
  /\ writer' = c /\ policy.lock = "crossed" => call'[c].at = "end"
  /\ call'[c].at = "token" => c \in readers' /\ policy.lock = "crossed" /\ call'[c].since = now
  /\ call'[c].at = "has" =>
       /\ call'[c].account = call[c].account /\ call'[c].known = call[c].known
       /\ policy.ends = "stated" => call'[c].given = now
       /\ Tokens!Entry(c) # None /\ call'[c].token = Tokens!Entry(c).token
       /\ policy.rereads \/ Tokens!Usable(c)
       /\ policy.lock = "crossed" => call[c].since = now

LEMMA MovesInv ==
  ASSUME TokensInv, NEW c \in Callers, Moves(c)
  PROVE  TokensInv'
<1>0. /\ Only(c) /\ call'[c] \in CallRecord
      /\ UNCHANGED <<policy, now, granted, reported, cache>>
  BY DEF Moves
<1>p. policy \in Tokens!Policies /\ None \notin Callers
  BY PartsAssumption DEF TokensInv, CacheTyped, Tokens!TokenCachesAssumption
<1>d. \A d \in Callers : call'[d] \in CallRecord /\ call[d] \in CallRecord /\ (d # c
        => call'[d] = call[d])
  BY <1>0, CallFields DEF TokensInv, Only
<1>1. CacheTyped'
  <2>1. writer' \in Callers \cup {None} /\ next' \in 0 .. policy.accounts - 1
    BY DEF TokensInv, CacheTyped, Moves
  <2> QED BY <1>0, <2>1 DEF TokensInv, CacheTyped
<1>2. CallsTyped'
  <2>1. call' \in [Callers -> CallRecord]
    BY <1>0, <1>d DEF TokensInv, CallsTyped, Only
  <2>2. CallRecord' = CallRecord
    BY <1>0 DEF CallRecord
  <2>3. ASSUME NEW d \in Callers
        PROVE  /\ Tokens!At(d, {"store", "end", "has"})' => call'[d].token >= 1
               /\ Tokens!At(d, {"reread"})' => policy.rereads /\ cache[call'[d].account] # None
               /\ Tokens!At(d, {"token", "end"})' => policy.lock = "crossed"
               /\ Tokens!At(d, {"lock"})' => policy.lock = "held"
    <3>1. CASE d = c
      <4>1. /\ call'[c].at = "end" => Tokens!At(c, {"store"}) /\ call'[c].token = call[c].token
            /\ call'[c].at = "has" => Tokens!Entry(c) # None /\ call'[c].token = Tokens!Entry(c).token
            /\ call'[c].at \notin {"store", "reread"}
            /\ call'[c].at \in {"token", "end"} => policy.lock = "crossed"
            /\ call'[c].at = "lock" => policy.lock = "held"
        BY DEF Moves
      <4>2. Tokens!Entry(c) # None => Tokens!Entry(c).token >= 1
        <5>1. call[c].account \in DOMAIN cache
          BY CallFields DEF TokensInv, CacheTyped
        <5>2. Tokens!Entry(c) # None => Tokens!Entry(c).token \in 1 .. Len(granted)
          BY <5>1 DEF TokensInv, CacheTyped, Tokens!Entry
        <5> QED BY <5>2 DEF TokensInv, CacheTyped
      <4>3. Tokens!At(c, {"store"}) => call[c].token >= 1
        BY DEF TokensInv, CallsTyped, Tokens!At
      <4> QED BY <3>1, <4>1, <4>2, <4>3 DEF Tokens!At
    <3>2. CASE d # c
      BY <3>2, <1>d DEF TokensInv, CallsTyped, Tokens!At, Tokens!Entry
    <3> QED BY <3>1, <3>2
  <2> QED BY <1>0, <2>1, <2>2, <2>3 DEF CallsTyped, Tokens!Entry
<1>3. Newest'
  <2> SUFFICES ASSUME policy.lock = "held"
               PROVE  /\ \A d \in Callers : Tokens!At(d, {"ask", "store"})' => writer' = d
                      /\ \A d \in Callers : Tokens!At(d, {"store"})'
                           => call'[d].token = Len(granted)
                      /\ (\A d \in Callers : ~Tokens!At(d, {"store"})') /\ cache[0] # None
                           => cache[0].token = Len(granted)
    BY <1>0 DEF Newest
  <2>1. ~Tokens!At(c, {"store"}) /\ call'[c].at # "store"
    BY DEF Moves
  <2>2. \A d \in Callers : Tokens!At(d, {"store"})' <=> Tokens!At(d, {"store"})
    BY <1>d, <2>1 DEF Tokens!At
  <2>3. ASSUME NEW d \in Callers, Tokens!At(d, {"ask", "store"})' PROVE writer' = d
    <3>1. CASE d = c
      BY <2>1, <2>3, <3>1 DEF Moves, Tokens!At
    <3>2. CASE d # c
      <4>1. writer = d
        BY <1>d, <2>3, <3>2 DEF TokensInv, Newest, Tokens!At
      <4> QED BY <1>p, <3>2, <4>1 DEF Moves
    <3> QED BY <3>1, <3>2
  <2>4. ASSUME NEW d \in Callers, Tokens!At(d, {"store"})' PROVE call'[d].token = Len(granted)
    BY <1>d, <2>1, <2>2, <2>4 DEF TokensInv, Newest, Tokens!At
  <2> QED BY <2>2, <2>3, <2>4 DEF TokensInv, Newest
<1>4. Unreported'
  <2>1. policy.refused = "nothing" => reported' = {}
    BY <1>0 DEF TokensInv, Unreported
  <2> SUFFICES ASSUME policy.refused \notin {"nothing", "forces"} PROVE Unreported'
    BY <1>0, <2>1 DEF Unreported
  <2>2. policy.lock = "brief" /\ ~policy.rereads
    BY <1>p, PolicyFacts
  <2>3. ~Tokens!At(c, {"store"}) /\ call'[c].at # "store"
    BY <2>2 DEF Moves
  <2>4. \A d \in Callers : (Tokens!At(d, {"store"})'
          => Tokens!At(d, {"store"}) /\ d # c /\ call'[d] = call[d])
    BY <1>d, <2>3 DEF Tokens!At
  <2>5. ASSUME call'[c].at = "has"
        PROVE  /\ Tokens!Entry(c) # None /\ call'[c].token = Tokens!Entry(c).token /\ Tokens!Entry(c).token \notin reported
               /\ call'[c].account = call[c].account /\ call'[c].known = call[c].known
               /\ call[c].account \in DOMAIN cache /\ call[c].known \subseteq reported
    <3>1. Tokens!Usable(c)
      BY <2>2, <2>5 DEF Moves
    <3>2. call[c].account \in DOMAIN cache /\ call[c].known \subseteq reported
      BY CallFields DEF TokensInv, CacheTyped
    <3>3. Tokens!Clock(c) \in Nat /\ policy.margin \in Nat
      BY <1>p, PolicyFacts, CallFields DEF TokensInv, CacheTyped, Tokens!Clock
    <3>4. Tokens!Entry(c).until \in Int
      BY <3>1, <3>2 DEF TokensInv, CacheTyped, Tokens!Usable, Tokens!Entry
    <3>5. ~(Tokens!Entry(c).until <= 0)
      BY <3>1, <3>3, <3>4 DEF Tokens!Usable
    <3>6. Tokens!Entry(c).token \notin reported
      BY <3>1, <3>2, <3>5 DEF TokensInv, Unreported, Tokens!Usable, Tokens!Entry
    <3> QED BY <2>5, <3>2, <3>6 DEF Moves
  <2>6. ASSUME NEW d \in Callers, Tokens!At(d, {"store"})'
        PROVE  /\ call'[d].token \notin reported
               /\ \A a \in DOMAIN cache : cache[a] # None => cache[a].token # call'[d].token
               /\ \A e \in Callers : e # d /\ Tokens!At(e, {"store", "has"})'
                    => call'[e].token # call'[d].token
    <3>1. /\ Tokens!At(d, {"store"}) /\ d # c /\ call'[d] = call[d]
      BY <2>4, <2>6
    <3>2. /\ call[d].token \notin reported
          /\ \A a \in DOMAIN cache : cache[a] # None => cache[a].token # call[d].token
          /\ \A e \in Callers : e # d /\ Tokens!At(e, {"store", "has"})
               => call[e].token # call[d].token
      BY <3>1 DEF TokensInv, Unreported
    <3>3. ASSUME NEW e \in Callers, e # d, Tokens!At(e, {"store", "has"})'
          PROVE  call'[e].token # call[d].token
      <4>1. CASE e = c
        <5>1. call'[c].at = "has"
          BY <2>3, <3>3, <4>1 DEF Tokens!At
        <5> QED BY <2>5, <3>2, <4>1, <5>1 DEF Tokens!Entry
      <4>2. CASE e # c
        BY <1>d, <3>2, <3>3, <4>2 DEF Tokens!At
      <4> QED BY <4>1, <4>2
    <3> QED BY <3>1, <3>2, <3>3
  <2>7. ASSUME NEW d \in Callers, Tokens!At(d, {"has"})'
        PROVE  /\ call'[d].token \notin call'[d].known
               /\ \A a \in DOMAIN cache :
                    cache[a] # None /\ cache[a].token = call'[d].token => a = call'[d].account
    <3>1. CASE d = c
      <4>1. call'[c].at = "has"
        BY <2>7, <3>1 DEF Tokens!At
      <4>2. \A a \in DOMAIN cache : cache[a] # None /\ cache[a].token = Tokens!Entry(c).token
              => a = call[c].account
        BY <2>5, <4>1 DEF TokensInv, Unreported, Tokens!Entry
      <4> QED BY <2>5, <3>1, <4>1, <4>2
    <3>2. CASE d # c
      BY <1>d, <2>7, <3>2 DEF TokensInv, Unreported, Tokens!At
    <3> QED BY <3>1, <3>2
  <2> QED BY <1>0, <2>6, <2>7 DEF TokensInv, Unreported
<1>5. Living'
  <2> SUFFICES ASSUME policy.ends = "stated" PROVE Living'
    BY <1>0 DEF Living
  <2>1. /\ ~policy.rereads /\ policy.lock \in {"brief", "crossed"} /\ policy.margin \in Nat
        /\ policy.clock = "call" <=> policy.lock = "crossed"
    BY <1>p, PolicyFacts
  <2>2. \A a \in DOMAIN cache : cache[a] # None => cache[a].until <= granted[cache[a].token]
    BY DEF TokensInv, Living
  <2>3. ASSUME NEW d \in Callers
        PROVE  /\ call'[d].since <= now
               /\ Tokens!At(d, {"store", "end"})'
                    => granted[call'[d].token] >= call'[d].since + Life
               /\ Tokens!At(d, {"has"})' /\ call'[d].cached
                    => call'[d].given < granted[call'[d].token]
               /\ Tokens!At(d, {"token"})' =>
                    d \in readers' /\ policy.lock = "crossed" /\ (writer' = None
                      => call'[d].since = now)
               /\ writer' = d /\ policy.lock = "crossed" => Tokens!At(d, {"end"})'
    <3>1. /\ call[d].since <= now
          /\ Tokens!At(d, {"store", "end"}) => granted[call[d].token] >= call[d].since + Life
          /\ Tokens!At(d, {"has"}) /\ call[d].cached => call[d].given < granted[call[d].token]
          /\ Tokens!At(d, {"token"}) =>
               d \in readers /\ policy.lock = "crossed" /\ (writer = None => call[d].since = now)
          /\ writer = d /\ policy.lock = "crossed" => Tokens!At(d, {"end"})
      BY DEF TokensInv, Living
    <3>2. CASE d # c
      <4>1. call'[d] = call[d] /\ (Tokens!At(d, {"token"}) => d \in readers')
        BY <1>d, <3>1, <3>2 DEF Moves
      <4>2. policy.lock = "crossed" => (writer' = None => writer = None) /\ (writer' = d
              => writer = d)
        BY <3>2, <1>p DEF Moves
      <4>3. Tokens!At(d, {"token"}) /\ writer' = None => call[d].since = now
        BY <3>1, <4>2
      <4> QED BY <3>1, <4>1, <4>2, <4>3 DEF Tokens!At
    <3>3. CASE d = c
      <4>1. call'[c].since <= now
        BY <3>1, <3>3, CallFields DEF TokensInv, CacheTyped, Moves
      <4>2. Tokens!At(c, {"store", "end"})' => granted[call'[c].token] >= call'[c].since + Life
        BY <3>1, <3>3 DEF Moves, Tokens!At
      <4>3. ASSUME Tokens!At(c, {"has"})' PROVE call'[c].given < granted[call'[c].token]
        <5>1. /\ Tokens!Usable(c) /\ call'[c].given = now /\ Tokens!Entry(c) # None
              /\ call'[c].token = Tokens!Entry(c).token
              /\ policy.lock = "crossed" => call[c].since = now
          BY <2>1, <4>3 DEF Moves, Tokens!At
        <5>2. call[c].account \in DOMAIN cache
          BY CallFields DEF TokensInv, CacheTyped
        <5>3. Tokens!Entry(c).token \in DOMAIN granted /\ Tokens!Entry(c).until \in Int /\ now \in Nat /\ granted[Tokens!Entry(c).token] \in Nat
          BY SMTT(60), <5>1, <5>2 DEF TokensInv, CacheTyped, Tokens!Entry
        <5>4. Tokens!Entry(c).until <= granted[Tokens!Entry(c).token]
          BY <2>2, <5>1, <5>2 DEF Tokens!Entry
        <5>5. Tokens!Clock(c) = now
          BY <2>1, <5>1 DEF Tokens!Clock
        <5> QED BY <2>1, <5>1, <5>3, <5>4, <5>5 DEF Tokens!Usable
      <4>4. Tokens!At(c, {"token"})' => c \in readers' /\ policy.lock = "crossed" /\ call'[c].since = now
        BY DEF Moves, Tokens!At
      <4>5. writer' = c /\ policy.lock = "crossed" => Tokens!At(c, {"end"})'
        BY DEF Moves, Tokens!At
      <4> QED BY <3>3, <4>1, <4>2, <4>3, <4>4, <4>5
    <3> QED BY <3>2, <3>3
  <2> QED BY <1>0, <2>2, <2>3 DEF Living
<1> QED BY <1>1, <1>2, <1>3, <1>4, <1>5 DEF TokensInv
-----------------------------------------------------------------------------
(* The steps that move a call on                                           *)
LEMMA WriterEnds ==
  ASSUME TokensInv, NEW c \in Callers, policy.lock = "crossed", writer = c
  PROVE  Tokens!At(c, {"end"})
<1>1. policy \in Tokens!Policies
  BY DEF TokensInv, CacheTyped
<1>2. policy.ends = "stated"
  BY <1>1, PolicyFacts
<1> QED BY <1>2 DEF TokensInv, Living

LEMMA LooksAgain ==
  ASSUME NEW r \in CallRecord, NEW s,
         s = [r EXCEPT !.at = "look", !.forced = FALSE, !.token = 0]
  PROVE  0 \in 0 .. Len(granted) => s \in CallRecord /\ s.at = "look" /\ s.since = r.since
BY DEF CallRecord, Places

LEMMA IdleRecord ==
  ASSUME TokensInv
  PROVE  Tokens!Idle \in CallRecord /\ Tokens!Idle.at = "idle" /\ Tokens!Idle.since = 0 /\ 0 \in 0 .. Len(granted)
<1>1. policy \in Tokens!Policies /\ Len(granted) \in Nat
  BY DEF TokensInv, CacheTyped
<1>2. policy.accounts \in Nat \ {0}
  BY <1>1, PolicyFacts
<1>3. 0 \in 0 .. policy.accounts - 1 /\ 0 \in 0 .. Len(granted)
  BY <1>1, <1>2
<1> QED BY <1>3 DEF CallRecord, Tokens!Idle, Places

LEMMA CallMoves ==
  ASSUME TokensInv, NEW c \in Callers, Tokens!Call(c)
  PROVE  Moves(c)
<1>1. call'[c] = [Tokens!Idle EXCEPT !.at = "look", !.account = next, !.known = reported,
                    !.since = IF policy.clock = "call" THEN now ELSE 0]
  BY CallFields DEF TokensInv, Tokens!Call
<1>2. call'[c] = [at |-> "look", account |-> next, since |-> IF policy.clock = "call" THEN now ELSE 0,
                  again |-> FALSE, forced |-> FALSE, known |-> reported, token |-> 0,
                  cached |-> FALSE, given |-> 0]
  BY <1>1 DEF Tokens!Idle
<1>3. Only(c)
  BY CallFields DEF TokensInv, Tokens!Call, Only
<1>4. next \in 0 .. policy.accounts - 1 /\ now \in Nat /\ Len(granted) \in Nat /\ policy \in Tokens!Policies
  BY DEF TokensInv, CacheTyped
<1>5. call'[c] \in CallRecord
  BY <1>2, <1>4 DEF CallRecord, Places
<1>6. next' \in 0 .. policy.accounts - 1
  <2>1. policy.accounts \in Nat \ {0}
    BY <1>4, PolicyFacts
  <2> QED BY <1>4, <2>1 DEF Tokens!Call
<1>7. Tokens!At(c, {"idle"}) /\ ~Tokens!At(c, {"store"}) /\ ~Tokens!At(c, {"end"})
  BY DEF Tokens!Call, Tokens!At
<1>8. policy.lock = "crossed" => writer # c
  BY <1>7, WriterEnds
<1>9. UNCHANGED <<policy, now, granted, reported, cache, writer, readers>>
  BY DEF Tokens!Call
<1>10. call'[c].at = "look" /\ call'[c].since \in {0, now}
  BY <1>2
<1> QED BY <1>3, <1>5, <1>6, <1>7, <1>8, <1>9, <1>10 DEF Moves

(* What a look at the cache gives, or where it leaves the call.            *)
LEMMA GiveMoves ==
  ASSUME TokensInv, NEW c \in Callers, NEW cached \in BOOLEAN,
         Tokens!Give(c, Tokens!Entry(c).token, cached), Tokens!Entry(c) # None, policy.rereads \/ Tokens!Usable(c),
         policy.lock = "crossed" => call[c].since = now,
         Tokens!At(c, {"look", "token", "lock", "reread"}),
         UNCHANGED <<policy, now, granted, reported, cache, next, writer>>,
         readers \ {c} \subseteq readers'
  PROVE  Moves(c)
<1>1. PICK given \in Nat : given = IF policy.ends = "stated" THEN now ELSE 0
  BY DEF TokensInv, CacheTyped
<1>2. Tokens!Entry(c).token \in 0 .. Len(granted)
  <2>1. call[c].account \in DOMAIN cache
    BY CallFields DEF TokensInv, CacheTyped
  <2>2. Tokens!Entry(c).token \in 1 .. Len(granted)
    BY <2>1 DEF TokensInv, CacheTyped, Tokens!Entry
  <2> QED BY <2>2 DEF TokensInv, CacheTyped
<1>3. next \in 0 .. policy.accounts - 1
  BY DEF TokensInv, CacheTyped
<1>4. DOMAIN call = Callers /\ call[c] \in CallRecord
  BY CallFields DEF TokensInv
<1>10. call'[c] = [call[c] EXCEPT !.at = "has", !.token = Tokens!Entry(c).token, !.cached = cached, !.given = given]
  BY <1>1, <1>4 DEF Tokens!Give
<1>11. Only(c)
  BY <1>4 DEF Tokens!Give, Only
<1>5. /\ call'[c] \in CallRecord
      /\ call'[c].at = "has" /\ call'[c].since = call[c].since /\ call'[c].given = given
      /\ call'[c].account = call[c].account /\ call'[c].known = call[c].known
      /\ call'[c].token = Tokens!Entry(c).token
  <2> DEFINE r == call[c]  s == call'[c]  token == Tokens!Entry(c).token
  <2>1. r \in CallRecord /\ token \in 0 .. Len(granted)
    BY <1>2, <1>4
  <2>2. s = [r EXCEPT !.at = "has", !.token = token, !.cached = cached, !.given = given]
    BY <1>10
  <2> HIDE DEF r, s, token
  <2>3. /\ s \in CallRecord
        /\ s.at = "has" /\ s.since = r.since /\ s.token = token /\ s.cached = cached
        /\ s.given = given /\ s.account = r.account /\ s.known = r.known
    BY <2>1, <2>2 DEF CallRecord, Places
  <2> QED BY <2>3 DEF r, s, token
<1>6. ~Tokens!At(c, {"store"}) /\ ~Tokens!At(c, {"end"})
  BY DEF Tokens!At
<1>7. policy.lock = "crossed" => writer # c
  BY <1>6, WriterEnds
<1> QED BY <1>1, <1>3, <1>5, <1>6, <1>7, <1>11 DEF Moves

LEMMA GoMoves ==
  ASSUME TokensInv, NEW c \in Callers, NEW place \in {"ask", "lock"}, Tokens!Go(c, place),
         Tokens!At(c, {"look", "token", "lock"}),
         place = "lock" => policy.lock = "held",
         place = "ask" /\ policy.lock = "held" => writer' = c,
         writer' = writer \/ (writer = None /\ writer' = c /\ policy.lock # "crossed"),
         UNCHANGED <<policy, now, granted, reported, cache, next>>,
         readers \ {c} \subseteq readers'
  PROVE  Moves(c)
<1>1. Only(c) /\ call'[c] = [call[c] EXCEPT !.at = place]
  BY GoChange DEF TokensInv
<1>4. call[c] \in CallRecord
  BY CallFields DEF TokensInv
<1>5. call'[c] \in CallRecord
  BY <1>1, <1>4 DEF CallRecord, Places
<1>6. ~Tokens!At(c, {"store"}) /\ ~Tokens!At(c, {"end"})
  BY DEF Tokens!At
<1>7. policy.lock = "crossed" => writer # c
  BY <1>6, WriterEnds
<1>8. call'[c].at = place /\ call'[c].since = call[c].since
  BY <1>1, <1>4 DEF CallRecord
<1>9. next \in 0 .. policy.accounts - 1
  BY DEF TokensInv, CacheTyped
<1> QED BY <1>1, <1>5, <1>6, <1>7, <1>8, <1>9 DEF Moves

LEMMA LookMoves ==
  ASSUME TokensInv, NEW c \in Callers, Tokens!Look(c)
  PROVE  Moves(c)
<1>1. CASE policy.lock # "crossed" /\ Tokens!Usable(c)
  BY <1>1, GiveMoves DEF Tokens!Look, Tokens!Usable, Tokens!At
<1>2. CASE policy.lock # "crossed" /\ ~Tokens!Usable(c)
  <2>1. CASE policy.lock = "held"
    BY <1>2, <2>1, GoMoves DEF Tokens!Look, Tokens!At
  <2>2. CASE policy.lock # "held"
    BY <1>2, <2>2, GoMoves DEF Tokens!Look, Tokens!At
  <2> QED BY <2>1, <2>2
<1>3. CASE policy.lock = "crossed"
  <2>1. call' = [call EXCEPT ![c].at = "token", ![c].since = now]
    BY <1>3 DEF Tokens!Look
  <2>2. call[c] \in CallRecord /\ DOMAIN call = Callers
    BY CallFields DEF TokensInv
  <2>3. call'[c] = [[call[c] EXCEPT !.at = "token"] EXCEPT !.since = now]
    BY <2>1, <2>2
  <2>4. Only(c)
    BY <2>1, <2>2 DEF Only
  <2>5. now \in Nat /\ next \in 0 .. policy.accounts - 1
    BY DEF TokensInv, CacheTyped
  <2>6. call'[c] \in CallRecord
    BY <2>2, <2>3, <2>5 DEF CallRecord, Places
  <2>7. ~Tokens!At(c, {"store"}) /\ ~Tokens!At(c, {"end"})
    BY DEF Tokens!At, Tokens!Look
  <2>8. writer # c
    BY <1>3, <2>7, WriterEnds
  <2>9. call'[c].at = "token" /\ call'[c].since = now
    BY <2>2, <2>3 DEF CallRecord
  <2>10. readers' = readers \cup {c} /\ UNCHANGED <<policy, now, granted, reported, cache, next, writer>>
    BY <1>3 DEF Tokens!Look
  <2> QED BY <1>3, <2>4, <2>5, <2>6, <2>7, <2>8, <2>9, <2>10 DEF Moves
<1> QED BY <1>1, <1>2, <1>3

LEMMA LookAtTokenMoves ==
  ASSUME TokensInv, NEW c \in Callers, Tokens!LookAtToken(c)
  PROVE  Moves(c)
<1>1. policy.lock = "crossed" /\ policy \in Tokens!Policies
  BY DEF TokensInv, CallsTyped, CacheTyped, Tokens!LookAtToken, Tokens!At
<1>2. policy.ends = "stated"
  BY <1>1, PolicyFacts
<1>3. call[c].since = now
  BY <1>2 DEF TokensInv, Living, Tokens!LookAtToken
<1>4. CASE Tokens!Usable(c)
  BY <1>3, <1>4, GiveMoves DEF Tokens!LookAtToken, Tokens!Usable, Tokens!At
<1>5. CASE ~Tokens!Usable(c)
  BY <1>1, <1>5, GoMoves DEF Tokens!LookAtToken, Tokens!At
<1> QED BY <1>4, <1>5

LEMMA LockMoves ==
  ASSUME TokensInv, NEW c \in Callers, Tokens!Lock(c)
  PROVE  Moves(c)
<1>1. policy.lock = "held"
  BY DEF TokensInv, CallsTyped, Tokens!Lock, Tokens!At
<1>2. CASE Tokens!Usable(c) /\ ~call[c].forced
  BY <1>1, <1>2, GiveMoves DEF Tokens!Lock, Tokens!Usable, Tokens!At
<1>3. CASE ~(Tokens!Usable(c) /\ ~call[c].forced)
  BY <1>1, <1>3, GoMoves DEF Tokens!Lock, Tokens!At
<1> QED BY <1>2, <1>3

LEMMA RereadMoves ==
  ASSUME TokensInv, NEW c \in Callers, Tokens!Reread(c)
  PROVE  Moves(c)
<1>1. policy.rereads /\ Tokens!Entry(c) # None /\ policy \in Tokens!Policies
  BY DEF TokensInv, CallsTyped, CacheTyped, Tokens!Reread, Tokens!At
<1>2. policy.lock # "crossed"
  BY <1>1, PolicyFacts
<1> QED BY <1>1, <1>2, GiveMoves DEF Tokens!Reread, Tokens!At

(* Calls that are over, and a forced request that fails.                   *)
LEMMA OverMoves ==
  ASSUME TokensInv, NEW c \in Callers, Tokens!Done(c) \/ Tokens!Failed(c)
  PROVE  Moves(c)
<1>1. /\ UNCHANGED <<policy, now, granted, reported, cache, next, readers>>
      /\ writer' = writer \/ (writer = c /\ writer' = None)
      /\ ~Tokens!At(c, {"store"}) /\ ~Tokens!At(c, {"end"})
  BY DEF Tokens!Done, Tokens!Failed, Tokens!At
<1>2. Only(c) /\ (call'[c] = Tokens!Idle \/ call'[c] = [call[c] EXCEPT !.at = "look", !.forced = FALSE, !.token = 0])
  BY GiveUpChange, LookAgainChange DEF TokensInv, Tokens!Done, Tokens!Failed
<1>3. call[c] \in CallRecord /\ "look" \in Places /\ 0 \in 0 .. Len(granted)
  BY CallFields, IdleRecord DEF TokensInv, Places
<1>4. next \in 0 .. policy.accounts - 1
  BY DEF TokensInv, CacheTyped
<1>5. /\ call'[c] \in CallRecord
      /\ call'[c].at \in {"idle", "look"} /\ call'[c].since \in {0, call[c].since}
  <2>1. CASE call'[c] = Tokens!Idle
    BY <2>1, IdleRecord
  <2>2. CASE call'[c] = [call[c] EXCEPT !.at = "look", !.forced = FALSE, !.token = 0]
    BY <1>3, <2>2, LooksAgain
  <2> QED BY <1>2, <2>1, <2>2
<1>6. policy.lock = "crossed" => writer # c
  BY <1>1, WriterEnds
<1>8. None \notin Callers
  BY PartsAssumption DEF Tokens!TokenCachesAssumption
<1>9. writer' = c /\ policy.lock = "crossed" => FALSE
  BY <1>1, <1>6, <1>8
<1> QED BY <1>1, <1>2, <1>4, <1>5, <1>6, <1>9 DEF Moves

LEMMA LockTokenMoves ==
  ASSUME TokensInv, NEW c \in Callers, Tokens!LockToken(c)
  PROVE  Moves(c)
<1>1. Only(c) /\ call'[c] = [call[c] EXCEPT !.at = "end"]
  BY GoChange DEF TokensInv, Tokens!LockToken
<1>2. call[c] \in CallRecord
  BY CallFields DEF TokensInv
<1>3. call'[c] \in CallRecord
  BY <1>1, <1>2 DEF CallRecord, Places
<1>4. next \in 0 .. policy.accounts - 1
  BY DEF TokensInv, CacheTyped
<1>5. /\ call'[c].at = "end" /\ call'[c].token = call[c].token /\ call'[c].since = call[c].since
  BY <1>1, <1>2 DEF CallRecord
<1>6. /\ policy.lock = "crossed" /\ Tokens!At(c, {"store"}) /\ writer = None /\ writer' = c
      /\ UNCHANGED <<policy, now, granted, reported, cache, next, readers>>
  BY DEF Tokens!LockToken
<1> QED BY <1>1, <1>3, <1>4, <1>5, <1>6 DEF Moves

-----------------------------------------------------------------------------
(* The steps in which the service or the cache changes                     *)
LEMMA Records ==
  ASSUME TokensInv, reported \subseteq reported', Len(granted) <= Len(granted'),
         Len(granted') \in Nat, policy' = policy, NEW r \in CallRecord
  PROVE  r \in CallRecord'
<1>1. Len(granted) \in Nat
  BY DEF TokensInv, CacheTyped
<1>2. 0 .. Len(granted) \subseteq 0 .. Len(granted')
  BY <1>1
<1> QED BY <1>2 DEF CallRecord

LEMMA GrantedInv ==
  ASSUME TokensInv, NEW c \in Callers, Tokens!Granted(c)
  PROVE  TokensInv'
<1>0. /\ Tokens!At(c, {"ask"}) /\ granted' = Append(granted, now + Life)
      /\ call' = [call EXCEPT ![c].at = "store", ![c].token = Len(granted')]
      /\ UNCHANGED <<policy, now, reported, cache, next, writer, readers>>
  BY DEF Tokens!Granted
<1>p. policy \in Tokens!Policies /\ None \notin Callers /\ Life \in Nat
  BY PartsAssumption DEF TokensInv, CacheTyped, Tokens!TokenCachesAssumption
<1>a. /\ Len(granted) \in Nat /\ now + Life \in Nat /\ now \in Nat /\ granted \in Seq(Nat)
      /\ reported \subseteq 1 .. Len(granted)
  BY <1>p DEF TokensInv, CacheTyped
<1>b. /\ granted' \in Seq(Nat) /\ Len(granted') = Len(granted) + 1
      /\ granted'[Len(granted) + 1] = now + Life
      /\ \A t \in 1 .. Len(granted) : granted'[t] = granted[t]
  BY <1>0, <1>a
<1>c. /\ DOMAIN call' = Callers /\ \A d \in Callers : d # c => call'[d] = call[d]
      /\ call'[c] = [[call[c] EXCEPT !.at = "store"] EXCEPT !.token = Len(granted) + 1]
      /\ \A d \in Callers : call[d] \in CallRecord
  BY <1>0, <1>b, CallFields DEF TokensInv
<1>d. call'[c].at = "store" /\ call'[c].token = Len(granted) + 1 /\ call'[c].since = call[c].since
  BY <1>c DEF CallRecord
<1>1. CacheTyped'
  <2>1. 1 .. Len(granted) \subseteq 1 .. Len(granted')
    BY <1>a, <1>b
  <2>2. \A a \in DOMAIN cache :
          cache[a] # None => cache[a] \in [token : 1 .. Len(granted'), until : Int]
    BY <2>1 DEF TokensInv, CacheTyped
  <2>3. reported \subseteq 1 .. Len(granted')
    BY <2>1, <1>a
  <2> QED BY <1>0, <1>b, <2>2, <2>3 DEF TokensInv, CacheTyped
<1>2. CallsTyped'
  <2>1. \A d \in Callers : call[d] \in CallRecord'
    BY <1>0, <1>a, <1>b, <1>c, Records
  <2>2. call'[c] \in CallRecord'
    <3>1. call[c] \in CallRecord' /\ Len(granted) + 1 \in 0 .. Len(granted')
      BY <1>a, <1>b, <2>1
    <3> QED BY <1>c, <3>1 DEF CallRecord, Places
  <2>3. call' \in [Callers -> CallRecord']
    <3>1. call' = [d \in Callers |-> call'[d]]
      BY <1>0, CallFields DEF TokensInv
    <3>2. \A d \in Callers : call'[d] \in CallRecord'
      BY <1>c, <2>1, <2>2
    <3> QED BY <3>1, <3>2
  <2>4. ASSUME NEW d \in Callers
        PROVE  /\ Tokens!At(d, {"store", "end", "has"})' => call'[d].token >= 1
               /\ Tokens!At(d, {"reread"})' => policy.rereads /\ cache[call'[d].account] # None
               /\ Tokens!At(d, {"token", "end"})' => policy.lock = "crossed"
               /\ Tokens!At(d, {"lock"})' => policy.lock = "held"
    <3>1. CASE d = c
      BY <1>a, <1>d, <3>1 DEF Tokens!At
    <3>2. CASE d # c
      BY <1>c, <3>2 DEF TokensInv, CallsTyped, Tokens!At, Tokens!Entry
    <3> QED BY <3>1, <3>2
  <2> QED BY <1>0, <2>3, <2>4 DEF CallsTyped, Tokens!Entry
<1>3. Newest'
  <2> SUFFICES ASSUME policy.lock = "held" PROVE Newest'
    BY <1>0 DEF Newest
  <2>1. \A d \in Callers : Tokens!At(d, {"ask", "store"}) => writer = d
    BY DEF TokensInv, Newest
  <2>2. writer = c
    BY <1>0, <2>1 DEF Tokens!At
  <2>3. \A d \in Callers : Tokens!At(d, {"ask", "store"})' => d = c
    BY <1>c, <2>1, <2>2 DEF Tokens!At
  <2>4. \A d \in Callers : Tokens!At(d, {"store"})' => call'[d].token = Len(granted')
    BY <1>b, <1>d, <2>3 DEF Tokens!At
  <2>5. Tokens!At(c, {"store"})'
    BY <1>d DEF Tokens!At
  <2> QED BY <1>0, <2>2, <2>3, <2>4, <2>5 DEF Newest
<1>4. Unreported'
  <2>1. policy.refused = "nothing" => reported' = {}
    BY <1>0 DEF TokensInv, Unreported
  <2> SUFFICES ASSUME policy.refused \notin {"nothing", "forces"} PROVE Unreported'
    BY <1>0, <2>1 DEF Unreported
  <2>2. \A a \in DOMAIN cache : cache[a] # None => cache[a].token # Len(granted) + 1
    BY <1>a DEF TokensInv, CacheTyped
  <2>3. \A d \in Callers : call[d].token # Len(granted) + 1
    BY <1>a, CallFields DEF TokensInv
  <2>4. Len(granted) + 1 \notin reported
    BY <1>a
  <2>5. ASSUME NEW d \in Callers, Tokens!At(d, {"store"})'
        PROVE  /\ call'[d].token \notin reported
               /\ \A a \in DOMAIN cache : cache[a] # None => cache[a].token # call'[d].token
               /\ \A e \in Callers : e # d /\ Tokens!At(e, {"store", "has"})'
                    => call'[e].token # call'[d].token
    <3>1. CASE d = c
      BY <1>c, <1>d, <2>2, <2>3, <2>4, <3>1
    <3>2. CASE d # c
      <4>1. Tokens!At(d, {"store"}) /\ call'[d] = call[d] /\ call[d].token # Len(granted) + 1
        BY <1>c, <2>3, <2>5, <3>2 DEF Tokens!At
      <4>2. /\ call[d].token \notin reported
            /\ \A a \in DOMAIN cache : cache[a] # None => cache[a].token # call[d].token
            /\ \A e \in Callers : e # d /\ Tokens!At(e, {"store", "has"})
                 => call[e].token # call[d].token
        BY <4>1 DEF TokensInv, Unreported
      <4>3. ASSUME NEW e \in Callers, e # d, Tokens!At(e, {"store", "has"})'
            PROVE  call'[e].token # call[d].token
        <5>1. CASE e = c
          BY <1>d, <4>1, <5>1
        <5>2. CASE e # c
          BY <1>c, <4>2, <4>3, <5>2 DEF Tokens!At
        <5> QED BY <5>1, <5>2
      <4> QED BY <4>1, <4>2, <4>3
    <3> QED BY <3>1, <3>2
  <2>6. ASSUME NEW d \in Callers, Tokens!At(d, {"has"})'
        PROVE  Tokens!At(d, {"has"}) /\ call'[d] = call[d]
    BY <1>c, <1>d, <2>6 DEF Tokens!At
  <2>7. ASSUME NEW d \in Callers, Tokens!At(d, {"has"})'
        PROVE  /\ call'[d].token \notin call'[d].known
               /\ \A a \in DOMAIN cache :
                    cache[a] # None /\ cache[a].token = call'[d].token => a = call'[d].account
    BY <2>6, <2>7 DEF TokensInv, Unreported
  <2>8. /\ \A a, b \in DOMAIN cache :
             cache[a] # None /\ cache[b] # None /\ cache[a].token = cache[b].token => a = b
        /\ \A a \in DOMAIN cache :
             cache[a] # None /\ cache[a].token \in reported => cache[a].until <= 0
    BY DEF TokensInv, Unreported
  <2> QED BY ZenonT(60), <1>0, <2>5, <2>7, <2>8 DEF Unreported
<1>5. Living'
  <2> SUFFICES ASSUME policy.ends = "stated" PROVE Living'
    BY <1>0 DEF Living
  <2>1. ASSUME NEW a \in DOMAIN cache, cache[a] # None
        PROVE  cache[a].until <= granted'[cache[a].token]
    <3>1. cache[a].until <= granted[cache[a].token] /\ cache[a].token \in 1 .. Len(granted)
      BY <2>1 DEF TokensInv, CacheTyped, Living
    <3> QED BY <1>b, <3>1
  <2>2. ASSUME NEW d \in Callers
        PROVE  /\ call'[d].since <= now
               /\ Tokens!At(d, {"store", "end"})'
                    => granted'[call'[d].token] >= call'[d].since + Life
               /\ Tokens!At(d, {"has"})' /\ call'[d].cached
                    => call'[d].given < granted'[call'[d].token]
               /\ Tokens!At(d, {"token"})' =>
                    d \in readers /\ policy.lock = "crossed" /\ (writer = None
                      => call'[d].since = now)
               /\ writer = d /\ policy.lock = "crossed" => Tokens!At(d, {"end"})'
    <3>1. /\ call[d].since <= now
          /\ Tokens!At(d, {"store", "end"}) => granted[call[d].token] >= call[d].since + Life
          /\ Tokens!At(d, {"has"}) /\ call[d].cached => call[d].given < granted[call[d].token]
          /\ Tokens!At(d, {"token"}) =>
               d \in readers /\ policy.lock = "crossed" /\ (writer = None => call[d].since = now)
          /\ writer = d /\ policy.lock = "crossed" => Tokens!At(d, {"end"})
      BY DEF TokensInv, Living
    <3>2. CASE d = c
      <4>1. granted'[call'[c].token] >= call'[c].since + Life
        <5>1. call[c].since \in Nat
          BY CallFields DEF TokensInv
        <5> QED BY <1>a, <1>b, <1>d, <1>p, <3>1, <3>2, <5>1
      <4>2. ~(writer = c /\ policy.lock = "crossed")
        BY <1>0, <3>1, <3>2 DEF Tokens!At
      <4> QED BY <1>d, <3>1, <3>2, <4>1, <4>2 DEF Tokens!At
    <3>3. CASE d # c
      <4>1. call'[d] = call[d] /\ call[d].token \in 0 .. Len(granted)
        BY <1>c, <3>3, CallFields DEF TokensInv
      <4>2. Tokens!At(d, {"store", "end", "has"}) => call[d].token \in 1 .. Len(granted)
        BY <4>1, <1>a DEF TokensInv, CallsTyped
      <4>3. Tokens!At(d, {"store", "end", "has"})
              => granted'[call[d].token] = granted[call[d].token]
        BY <1>b, <4>2
      <4> QED BY <3>1, <4>1, <4>3 DEF Tokens!At
    <3> QED BY <3>2, <3>3
  <2> QED BY <1>0, <2>1, <2>2 DEF Living
<1> QED BY <1>1, <1>2, <1>3, <1>4, <1>5 DEF TokensInv

LEMMA TickInv ==
  ASSUME TokensInv, Tokens!Tick
  PROVE  TokensInv'
<1>0. /\ now' = now + 1 /\ (readers # {} => writer # None)
      /\ UNCHANGED <<policy, granted, reported, cache, next, writer, readers, call>>
  BY DEF Tokens!Tick
<1>1. CacheTyped'
  BY <1>0 DEF TokensInv, CacheTyped
<1>2. CallsTyped'
  <2>1. CallRecord' = CallRecord
    BY <1>0 DEF CallRecord
  <2> QED BY <1>0, <2>1 DEF TokensInv, CallsTyped, Tokens!At, Tokens!Entry
<1>3. Newest' /\ Unreported'
  BY <1>0 DEF TokensInv, Newest, Unreported, Tokens!At
<1>4. Living'
  <2> SUFFICES ASSUME policy.ends = "stated" PROVE Living'
    BY <1>0 DEF Living
  <2>1. ASSUME NEW d \in Callers PROVE call[d].since <= now + 1
    <3>1. call[d].since <= now /\ call[d].since \in Nat /\ now \in Nat
      BY CallFields DEF TokensInv, CacheTyped, Living
    <3> QED BY <3>1
  <2>2. ASSUME NEW d \in Callers, Tokens!At(d, {"token"}) PROVE writer # None
    BY <1>0, <2>2 DEF TokensInv, Living
  <2> QED BY <1>0, <2>1, <2>2 DEF TokensInv, Living, Tokens!At
<1> QED BY <1>1, <1>2, <1>3, <1>4 DEF TokensInv

(* What a store leaves of the call, and what it leaves in the cache.       *)
LEMMA StoreChange ==
  ASSUME TokensInv, NEW c \in Callers, Tokens!Store(c)
  PROVE  /\ Only(c) /\ call'[c] \in CallRecord
         /\ call'[c].at \in {"reread", "look", "has"}
         /\ call'[c].since = call[c].since /\ call'[c].account = call[c].account
         /\ call'[c].at = "reread" => policy.rereads
         /\ call'[c].at = "has" =>
              /\ call'[c].token = call[c].token /\ call'[c].known = call[c].known
              /\ ~call'[c].cached
<1>1. Tokens!At(c, {"store", "end"}) /\ call[c] \in CallRecord /\ DOMAIN call = Callers
  BY CallFields DEF TokensInv, Tokens!Store, Tokens!At
<1>2. call[c].token >= 1 /\ now \in Nat
  BY <1>1 DEF TokensInv, CallsTyped, CacheTyped, Tokens!At
<1>3. CASE policy.rereads
  <2>1. Tokens!Go(c, "reread")
    BY <1>3 DEF Tokens!Store
  <2>2. Only(c) /\ call'[c] = [call[c] EXCEPT !.at = "reread"]
    BY <2>1, GoChange DEF TokensInv
  <2> QED BY <1>1, <1>3, <2>2 DEF CallRecord, Places
<1>4. CASE ~policy.rereads /\ call[c].forced
  <2>1. Tokens!LookAgain(c)
    BY <1>4 DEF Tokens!Store
  <2>2. Only(c) /\ call'[c] = [call[c] EXCEPT !.at = "look", !.forced = FALSE, !.token = 0]
    BY <2>1, LookAgainChange DEF TokensInv
  <2>3. 0 \in 0 .. Len(granted)
    BY IdleRecord
  <2> QED BY <1>1, <2>2, <2>3 DEF CallRecord, Places
<1>5. CASE ~policy.rereads /\ ~call[c].forced
  <2>1. Tokens!Give(c, call[c].token, FALSE)
    BY <1>5 DEF Tokens!Store
  <2>2. PICK given \in Nat : given = IF policy.ends = "stated" THEN now ELSE 0
    BY <1>2
  <2>3. call'[c] = [call[c] EXCEPT !.at = "has", !.token = call[c].token, !.cached = FALSE, !.given = given]
    BY <1>1, <2>1, <2>2 DEF Tokens!Give
  <2>4. Only(c)
    BY <1>1, <2>1 DEF Tokens!Give, Only
  <2> QED BY <1>1, <2>3, <2>4 DEF CallRecord, Places
<1> QED BY <1>3, <1>4, <1>5

LEMMA EndIs ==
  ASSUME TokensInv, NEW c \in Callers, Tokens!At(c, {"store", "end"})
  PROVE  Tokens!End(c) \in Int /\ (policy.ends = "stated"
           => Tokens!End(c) <= granted[call[c].token])
<1>1. /\ policy \in Tokens!Policies /\ now \in Nat /\ granted \in Seq(Nat) /\ call[c].since \in Nat
      /\ call[c].token \in 0 .. Len(granted)
  BY CallFields DEF TokensInv, CacheTyped
<1>2. granted[call[c].token] \in Nat
  <2>1. call[c].token >= 1
    BY DEF TokensInv, CallsTyped, Tokens!At
  <2> QED BY <1>1, <2>1
<1>3. /\ Life \in Nat /\ Kept \in Nat /\ Margin \in Nat /\ MaxNow \in Nat /\ policy.early \in Nat
  BY <1>1, PolicyFacts, PartsAssumption DEF Tokens!TokenCachesAssumption
<1>4. Tokens!Clock(c) \in Nat
  BY <1>1 DEF Tokens!Clock
<1>5. policy.ends = "stated" => granted[call[c].token] >= call[c].since + Life
  BY DEF TokensInv, Living
<1>6. CASE policy.ends = "never"
  BY <1>3, <1>6 DEF Tokens!End, Tokens!Forever
<1>7. CASE policy.ends = "fixed"
  BY <1>3, <1>4, <1>7 DEF Tokens!End
<1>8. CASE policy.ends = "stated" /\ policy.clock = "call"
  <2>1. Tokens!End(c) = call[c].since + Life - policy.early
    BY <1>8 DEF Tokens!End, Tokens!Clock
  <2> DEFINE g == granted[call[c].token]  since == call[c].since  early == policy.early
  <2>2. g \in Nat /\ since \in Nat /\ early \in Nat /\ Life \in Nat /\ g >= since + Life
    BY <1>1, <1>2, <1>3, <1>5, <1>8
  <2> HIDE DEF g, since, early
  <2>3. since + Life - early \in Int /\ since + Life - early <= g
    BY <2>2
  <2> QED BY <2>1, <2>3 DEF g, since, early
<1>9. CASE policy.ends \notin {"never", "fixed"} /\ ~(policy.ends = "stated" /\ policy.clock = "call")
  <2>1. Tokens!End(c) = granted[call[c].token]
    BY <1>9 DEF Tokens!End
  <2> QED BY <1>2, <2>1
<1> QED BY <1>6, <1>7, <1>8, <1>9

LEMMA StoreInv ==
  ASSUME TokensInv, NEW c \in Callers, Tokens!Store(c)
  PROVE  TokensInv'
<1>0. /\ Tokens!At(c, {"store", "end"}) /\ (policy.lock # "crossed"
           => Tokens!At(c, {"store"})) /\ readers = {}
      /\ writer' = IF writer = c THEN None ELSE writer
      /\ UNCHANGED <<policy, now, granted, reported, next, readers>>
  BY DEF Tokens!Store, Tokens!At
<1> DEFINE own == call[c].account  kept == [token |-> call[c].token, until |-> Tokens!End(c)]
<1>p. policy \in Tokens!Policies /\ None \notin Callers
  BY PartsAssumption DEF TokensInv, CacheTyped, Tokens!TokenCachesAssumption
<1>d. /\ \A d \in Callers : d # c => call'[d] = call[d]
      /\ DOMAIN call' = Callers /\ \A d \in Callers :
           call'[d] \in CallRecord /\ call[d] \in CallRecord
  BY StoreChange, CallFields DEF TokensInv, Only
<1>e. /\ own \in DOMAIN cache /\ own \in 0 .. policy.accounts - 1
      /\ kept.token \in 1 .. Len(granted) /\ kept.until \in Int
  <2>1. own \in 0 .. policy.accounts - 1 /\ own \in DOMAIN cache
    BY CallFields DEF TokensInv, CacheTyped
  <2>2. call[c].token >= 1 /\ call[c].token \in 0 .. Len(granted)
    BY <1>0, CallFields DEF TokensInv, CallsTyped, Tokens!At
  <2>3. call[c].token \in 1 .. Len(granted)
    BY <2>2 DEF TokensInv, CacheTyped
  <2> QED BY <1>0, <2>1, <2>3, EndIs
<1>k. kept # None
  <2>1. kept \in [token : Nat, until : Int]
    BY <1>e
  <2> QED BY <2>1, PartsAssumption DEF Tokens!TokenCachesAssumption
<1>c. /\ DOMAIN cache' = DOMAIN cache /\ cache'[own] = kept
      /\ \A a \in DOMAIN cache : a # own => cache'[a] = cache[a]
  BY <1>e DEF Tokens!Store
<1>f. kept.token = call[c].token /\ kept.until = Tokens!End(c)
  OBVIOUS
<1>n. /\ call'[c].at \in {"reread", "look", "has"}
      /\ call'[c].since = call[c].since /\ call'[c].account = own
      /\ call'[c].at = "reread" => policy.rereads
      /\ call'[c].at = "has" =>
           call'[c].token = call[c].token /\ call'[c].known = call[c].known /\ ~call'[c].cached
  BY StoreChange
<1>t. \A a \in DOMAIN cache : cache[a] # None
        => cache[a] \in [token : 1 .. Len(granted), until : Int]
  BY DEF TokensInv, CacheTyped
<1> HIDE DEF own, kept
<1>1. CacheTyped'
  <2>1. \A a \in DOMAIN cache' :
          cache'[a] # None => cache'[a] \in [token : 1 .. Len(granted), until : Int]
    <3>1. kept \in [token : 1 .. Len(granted), until : Int]
      BY <1>e DEF kept
    <3> QED BY <1>c, <1>t, <3>1
  <2>2. writer' \in Callers \cup {None}
    BY <1>0 DEF TokensInv, CacheTyped
  <2> QED BY <1>0, <1>c, <2>1, <2>2 DEF TokensInv, CacheTyped
<1>2. CallsTyped'
  <2>1. CallRecord' = CallRecord
    BY <1>0 DEF CallRecord
  <2>2. call' \in [Callers -> CallRecord]
    <3>1. call' = [d \in Callers |-> call'[d]]
      BY <1>d, StoreChange DEF Only, TokensInv, CallsTyped
    <3> QED BY <1>d, <3>1
  <2>3. ASSUME NEW d \in Callers
        PROVE  /\ Tokens!At(d, {"store", "end", "has"})' => call'[d].token >= 1
               /\ Tokens!At(d, {"reread"})' => policy.rereads /\ cache'[call'[d].account] # None
               /\ Tokens!At(d, {"token", "end"})' => policy.lock = "crossed"
               /\ Tokens!At(d, {"lock"})' => policy.lock = "held"
    <3>1. CASE d = c
      <4>1. Tokens!At(c, {"has"})' => call'[c].token >= 1
        BY <1>0, <1>n DEF TokensInv, CallsTyped, Tokens!At
      <4>2. cache'[call'[c].account] # None
        BY <1>c, <1>k, <1>n
      <4> QED BY <1>n, <3>1, <4>1, <4>2 DEF Tokens!At
    <3>2. CASE d # c
      <4>1. call[d].account \in DOMAIN cache
        BY CallFields DEF TokensInv, CacheTyped
      <4>2. cache[call[d].account] # None => cache'[call[d].account] # None
        BY <1>c, <1>k, <4>1
      <4> QED BY <1>d, <3>2, <4>2 DEF TokensInv, CallsTyped, Tokens!At, Tokens!Entry
    <3> QED BY <3>1, <3>2
  <2> QED BY <1>0, <2>1, <2>2, <2>3 DEF CallsTyped, Tokens!Entry
<1>3. Newest'
  <2> SUFFICES ASSUME policy.lock = "held" PROVE Newest'
    BY <1>0 DEF Newest
  <2>1. Tokens!At(c, {"store"}) /\ policy.accounts = 1
    BY <1>0, <1>p, PolicyFacts
  <2>2. writer = c /\ call[c].token = Len(granted)
    BY <2>1 DEF TokensInv, Newest, Tokens!At
  <2>3. \A d \in Callers : ~Tokens!At(d, {"ask", "store"})'
    <3>1. \A d \in Callers : Tokens!At(d, {"ask", "store"}) => d = c
      BY <2>2 DEF TokensInv, Newest
    <3> QED BY <1>d, <1>n, <3>1 DEF Tokens!At
  <2>4. own = 0
    BY <1>e, <2>1
  <2>5. cache'[0].token = Len(granted)
    BY <1>c, <1>f, <2>2, <2>4
  <2> QED BY <1>0, <2>3, <2>5 DEF Newest, Tokens!At
<1>4. Unreported'
  <2>1. policy.refused = "nothing" => reported' = {}
    BY <1>0 DEF TokensInv, Unreported
  <2> SUFFICES ASSUME policy.refused \notin {"nothing", "forces"} PROVE Unreported'
    BY <1>0, <2>1 DEF Unreported
  <2>2. policy.lock = "brief" /\ ~policy.rereads
    BY <1>p, PolicyFacts
  <2>3. Tokens!At(c, {"store"})
    BY <1>0, <2>2
  <2>4. /\ call[c].token \notin reported
        /\ \A a \in DOMAIN cache : cache[a] # None => cache[a].token # call[c].token
        /\ \A d \in Callers : d # c /\ Tokens!At(d, {"store", "has"})
             => call[d].token # call[c].token
    BY <2>3 DEF TokensInv, Unreported
  <2>5. ASSUME NEW d \in Callers, Tokens!At(d, {"store"})'
        PROVE  /\ call'[d].token \notin reported
               /\ \A a \in DOMAIN cache' : cache'[a] # None => cache'[a].token # call'[d].token
               /\ \A e \in Callers : e # d /\ Tokens!At(e, {"store", "has"})'
                    => call'[e].token # call'[d].token
    <3>1. d # c /\ Tokens!At(d, {"store"}) /\ call'[d] = call[d]
      BY <1>d, <1>n, <2>5 DEF Tokens!At
    <3>2. /\ call[d].token \notin reported
          /\ \A a \in DOMAIN cache : cache[a] # None => cache[a].token # call[d].token
          /\ \A e \in Callers : e # d /\ Tokens!At(e, {"store", "has"})
               => call[e].token # call[d].token
      BY <3>1 DEF TokensInv, Unreported
    <3>3. call[d].token # call[c].token
      BY <2>4, <3>1 DEF Tokens!At
    <3>4. \A a \in DOMAIN cache' : cache'[a] # None => cache'[a].token # call[d].token
      BY <1>c, <1>f, <3>2, <3>3
    <3>5. ASSUME NEW e \in Callers, e # d, Tokens!At(e, {"store", "has"})'
          PROVE  call'[e].token # call[d].token
      <4>1. CASE e = c
        BY <1>n, <3>3, <3>5, <4>1 DEF Tokens!At
      <4>2. CASE e # c
        BY <1>d, <3>2, <3>5, <4>2 DEF Tokens!At
      <4> QED BY <4>1, <4>2
    <3> QED BY <3>1, <3>2, <3>4, <3>5
  <2>6. \A a, b \in DOMAIN cache' :
          cache'[a] # None /\ cache'[b] # None /\ cache'[a].token = cache'[b].token => a = b
    <3>1. \A a, b \in DOMAIN cache :
            cache[a] # None /\ cache[b] # None /\ cache[a].token = cache[b].token => a = b
      BY DEF TokensInv, Unreported
    <3> QED BY <1>c, <1>f, <2>4, <3>1
  <2>7. ASSUME NEW d \in Callers, Tokens!At(d, {"has"})'
        PROVE  /\ call'[d].token \notin call'[d].known
               /\ \A a \in DOMAIN cache' :
                    cache'[a] # None /\ cache'[a].token = call'[d].token => a = call'[d].account
    <3>1. CASE d = c
      <4>1. call'[c].token = call[c].token /\ call'[c].known = call[c].known
        BY <1>n, <2>7, <3>1 DEF Tokens!At
      <4>2. call[c].known \subseteq reported
        BY CallFields DEF TokensInv
      <4> QED BY <1>c, <1>n, <2>4, <3>1, <4>1, <4>2
    <3>2. CASE d # c
      <4>1. Tokens!At(d, {"has"}) /\ call'[d] = call[d]
        BY <1>d, <2>7, <3>2 DEF Tokens!At
      <4>2. call[d].token # call[c].token
        BY <2>4, <3>2, <4>1 DEF Tokens!At
      <4>3. /\ call[d].token \notin call[d].known
            /\ \A a \in DOMAIN cache :
                 cache[a] # None /\ cache[a].token = call[d].token => a = call[d].account
        BY <4>1 DEF TokensInv, Unreported
      <4> QED BY <1>c, <1>f, <4>1, <4>2, <4>3
    <3> QED BY <3>1, <3>2
  <2>8. \A a \in DOMAIN cache' : cache'[a] # None /\ cache'[a].token \in reported
          => cache'[a].until <= 0
    <3>1. \A a \in DOMAIN cache : cache[a] # None /\ cache[a].token \in reported
            => cache[a].until <= 0
      BY DEF TokensInv, Unreported
    <3> QED BY <1>c, <1>f, <2>4, <3>1
  <2> QED BY <1>0, <2>5, <2>6, <2>7, <2>8 DEF Unreported
<1>5. Living'
  <2> SUFFICES ASSUME policy.ends = "stated" PROVE Living'
    BY <1>0 DEF Living
  <2>1. \A a \in DOMAIN cache' : cache'[a] # None => cache'[a].until <= granted[cache'[a].token]
    <3>1. \A a \in DOMAIN cache : cache[a] # None => cache[a].until <= granted[cache[a].token]
      BY DEF TokensInv, Living
    <3>2. kept.until <= granted[kept.token]
      BY <1>0, <1>f, EndIs
    <3> QED BY <1>c, <3>1, <3>2
  <2>2. ASSUME NEW d \in Callers
        PROVE  /\ call'[d].since <= now
               /\ Tokens!At(d, {"store", "end"})'
                    => granted[call'[d].token] >= call'[d].since + Life
               /\ Tokens!At(d, {"has"})' /\ call'[d].cached
                    => call'[d].given < granted[call'[d].token]
               /\ ~Tokens!At(d, {"token"})'
               /\ writer' = d /\ policy.lock = "crossed" => Tokens!At(d, {"end"})'
    <3>1. /\ call[d].since <= now
          /\ Tokens!At(d, {"store", "end"}) => granted[call[d].token] >= call[d].since + Life
          /\ Tokens!At(d, {"has"}) /\ call[d].cached => call[d].given < granted[call[d].token]
          /\ ~Tokens!At(d, {"token"})
          /\ writer = d /\ policy.lock = "crossed" => Tokens!At(d, {"end"})
      BY <1>0 DEF TokensInv, Living
    <3>2. CASE d = c
      BY <1>0, <1>n, <1>p, <3>1, <3>2 DEF Tokens!At
    <3>3. CASE d # c
      BY <1>0, <1>d, <1>p, <3>1, <3>3 DEF Tokens!At
    <3> QED BY <3>2, <3>3
  <2> QED BY <1>0, <2>1, <2>2 DEF Living
<1> QED BY <1>1, <1>2, <1>3, <1>4, <1>5 DEF TokensInv

LEMMA RefusedChange ==
  ASSUME TokensInv, NEW c \in Callers, Tokens!Refused(c)
  PROVE  /\ Only(c) /\ call'[c] \in CallRecord
         /\ call'[c].at \in {"lock", "ask", "idle"} /\ call'[c].since \in {0, call[c].since}
         /\ call'[c].at = "lock" => policy.refused = "forces"
<1>1. call[c] \in CallRecord /\ DOMAIN call = Callers
  BY CallFields DEF TokensInv
<1>2. CASE policy.refused = "forces"
  <2>1. call' = [call EXCEPT ![c].at = "lock", ![c].again = TRUE, ![c].forced = TRUE]
    BY <1>2 DEF Tokens!Refused
  <2>2. call'[c] = [[[call[c] EXCEPT !.at = "lock"] EXCEPT !.again = TRUE] EXCEPT !.forced = TRUE]
    BY <1>1, <2>1
  <2>3. Only(c)
    BY <1>1, <2>1 DEF Only
  <2> QED BY <1>1, <1>2, <2>2, <2>3 DEF CallRecord, Places
<1>3. CASE policy.refused = "asks"
  <2>1. call' = [call EXCEPT ![c].at = "ask", ![c].again = TRUE]
    BY <1>3 DEF Tokens!Refused
  <2>2. call'[c] = [[call[c] EXCEPT !.at = "ask"] EXCEPT !.again = TRUE]
    BY <1>1, <2>1
  <2>3. Only(c)
    BY <1>1, <2>1 DEF Only
  <2> QED BY <1>1, <2>2, <2>3 DEF CallRecord, Places
<1>4. CASE policy.refused \notin {"forces", "asks"}
  <2>1. Tokens!GiveUp(c)
    BY <1>4 DEF Tokens!Refused
  <2> QED BY <2>1, GiveUpChange, IdleRecord DEF TokensInv
<1> QED BY <1>2, <1>3, <1>4

(* The cache forgets the token of one account, unless it is Pandora's.     *)
LEMMA ForgottenIs ==
  ASSUME TokensInv, NEW account \in DOMAIN cache, cache' = Tokens!Forgotten(account)
  PROVE  /\ DOMAIN cache' = DOMAIN cache
         /\ \A a \in DOMAIN cache : a # account => cache'[a] = cache[a]
         /\ cache'[account] # None =>
              /\ cache[account] # None /\ cache'[account].token = cache[account].token
              /\ cache'[account] \in [token : 1 .. Len(granted), until : Int]
              /\ policy.refused # "forces" => cache'[account].until <= 0
         /\ policy.refused = "forces" => cache'[account] = cache[account]
<1>1. cache[account] # None => cache[account] \in [token : 1 .. Len(granted), until : Int]
  BY DEF TokensInv, CacheTyped
<1>2. CASE policy.refused = "outdates" /\ cache[account] # None
  <2>1. cache' = [cache EXCEPT ![account] = [@ EXCEPT !.until = 0]]
    BY <1>2 DEF Tokens!Forgotten
  <2>2. cache'[account] = [cache[account] EXCEPT !.until = 0]
    BY <2>1
  <2>3. DOMAIN cache' = DOMAIN cache /\ \A a \in DOMAIN cache : a # account => cache'[a] = cache[a]
    BY <2>1
  <2> QED BY <1>1, <1>2, <2>2, <2>3
<1>3. CASE policy.refused = "forces"
  <2>1. cache' = [cache EXCEPT ![account] = cache[account]]
    BY <1>3 DEF Tokens!Forgotten
  <2>2. /\ DOMAIN cache' = DOMAIN cache /\ cache'[account] = cache[account]
        /\ \A a \in DOMAIN cache : a # account => cache'[a] = cache[a]
    BY <2>1
  <2> QED BY <1>1, <1>3, <2>2
<1>4. CASE ~(policy.refused = "outdates" /\ cache[account] # None) /\ policy.refused # "forces"
  <2>1. cache' = [cache EXCEPT ![account] = None]
    BY <1>4 DEF Tokens!Forgotten
  <2> QED BY <1>4, <2>1
<1> QED BY <1>2, <1>3, <1>4

LEMMA RefusedInv ==
  ASSUME TokensInv, NEW c \in Callers, Tokens!Refused(c)
  PROVE  TokensInv'
<1> DEFINE own == call[c].account
<1>0. /\ Tokens!At(c, {"has"}) /\ policy.refused # "nothing" /\ reported' = reported \cup {call[c].token}
      /\ cache' = Tokens!Forgotten(own)
      /\ UNCHANGED <<policy, now, granted, next, writer, readers>>
  BY DEF Tokens!Refused
<1>p. policy \in Tokens!Policies /\ None \notin Callers
  BY PartsAssumption DEF TokensInv, CacheTyped, Tokens!TokenCachesAssumption
<1>d. /\ \A d \in Callers : d # c => call'[d] = call[d]
      /\ DOMAIN call' = Callers /\ \A d \in Callers :
           call'[d] \in CallRecord /\ call[d] \in CallRecord
  BY RefusedChange, CallFields DEF TokensInv, Only
<1>n. /\ call'[c].at \in {"lock", "ask", "idle"} /\ call'[c].since \in {0, call[c].since}
      /\ call'[c].at = "lock" => policy.refused = "forces"
  BY RefusedChange
<1>e. own \in DOMAIN cache
  BY CallFields DEF TokensInv, CacheTyped
<1>c. /\ DOMAIN cache' = DOMAIN cache
      /\ \A a \in DOMAIN cache : a # own => cache'[a] = cache[a]
      /\ cache'[own] # None =>
           /\ cache[own] # None /\ cache'[own].token = cache[own].token
           /\ cache'[own] \in [token : 1 .. Len(granted), until : Int]
           /\ policy.refused # "forces" => cache'[own].until <= 0
      /\ policy.refused = "forces" => cache'[own] = cache[own]
  BY <1>0, <1>e, ForgottenIs
<1>t. call[c].token \in 1 .. Len(granted)
  <2>1. call[c].token >= 1 /\ call[c].token \in 0 .. Len(granted)
    BY <1>0, CallFields DEF TokensInv, CallsTyped, Tokens!At
  <2> QED BY <2>1 DEF TokensInv, CacheTyped
<1> HIDE DEF own
<1>1. CacheTyped'
  <2>1. \A a \in DOMAIN cache' :
          cache'[a] # None => cache'[a] \in [token : 1 .. Len(granted), until : Int]
    BY <1>c DEF TokensInv, CacheTyped
  <2>2. reported' \subseteq 1 .. Len(granted)
    BY <1>0, <1>t DEF TokensInv, CacheTyped
  <2> QED BY <1>0, <1>c, <2>1, <2>2 DEF TokensInv, CacheTyped
<1>2. CallsTyped'
  <2>1. \A r \in CallRecord : r \in CallRecord'
    <3>1. Len(granted') \in Nat /\ Len(granted) <= Len(granted') /\ reported \subseteq reported' /\ policy' = policy
      BY <1>0 DEF TokensInv, CacheTyped
    <3> QED BY <3>1, Records
  <2>2. call' \in [Callers -> CallRecord']
    <3>1. call' = [d \in Callers |-> call'[d]]
      BY <1>d, RefusedChange DEF Only, TokensInv, CallsTyped
    <3> QED BY <1>d, <2>1, <3>1
  <2>3. ~policy.rereads /\ (policy.refused = "forces" => policy.lock = "held")
    BY <1>0, <1>p, PolicyFacts
  <2>4. ASSUME NEW d \in Callers
        PROVE  /\ Tokens!At(d, {"store", "end", "has"})' => call'[d].token >= 1
               /\ ~Tokens!At(d, {"reread"})'
               /\ Tokens!At(d, {"token", "end"})' => policy.lock = "crossed"
               /\ Tokens!At(d, {"lock"})' => policy.lock = "held"
    <3>1. CASE d = c
      BY <1>n, <2>3, <3>1 DEF Tokens!At
    <3>2. CASE d # c
      BY <1>d, <2>3, <3>2 DEF TokensInv, CallsTyped, Tokens!At
    <3> QED BY <3>1, <3>2
  <2> QED BY <1>0, <2>2, <2>4 DEF CallsTyped
<1>3. Newest'
  <2> SUFFICES ASSUME policy.lock = "held" PROVE Newest'
    BY <1>0 DEF Newest
  <2>1. policy.refused = "forces" /\ cache'[0] = cache[0]
    <3>1. policy.refused = "forces" /\ policy.accounts = 1
      BY <1>0, <1>p, PolicyFacts
    <3>2. 0 \in DOMAIN cache
      BY <3>1 DEF TokensInv, CacheTyped
    <3> QED BY <1>c, <3>1, <3>2
  <2>2. call'[c].at \notin {"ask", "store"}
    <3>1. call' = [call EXCEPT ![c].at = "lock", ![c].again = TRUE, ![c].forced = TRUE]
      BY <2>1 DEF Tokens!Refused
    <3> QED BY <3>1, CallFields DEF TokensInv
  <2>3. \A d \in Callers : Tokens!At(d, {"ask", "store"})'
          => Tokens!At(d, {"ask", "store"}) /\ call'[d] = call[d]
    BY <1>d, <2>2 DEF Tokens!At
  <2>4. \A d \in Callers : Tokens!At(d, {"store"})' <=> Tokens!At(d, {"store"})
    BY <1>0, <1>d, <2>2 DEF Tokens!At
  <2>5. \A d \in Callers : Tokens!At(d, {"ask", "store"})' => writer = d
    BY <2>3 DEF TokensInv, Newest
  <2>6. \A d \in Callers : Tokens!At(d, {"store"})' => call'[d].token = Len(granted)
    BY <2>3, <2>4 DEF TokensInv, Newest, Tokens!At
  <2>7. (\A d \in Callers : ~Tokens!At(d, {"store"})) /\ cache[0] # None
          => cache[0].token = Len(granted)
    BY DEF TokensInv, Newest
  <2> QED BY <1>0, <2>1, <2>4, <2>5, <2>6, <2>7 DEF Newest
<1>4. Unreported'
  <2> SUFFICES ASSUME policy.refused \notin {"nothing", "forces"} PROVE Unreported'
    BY <1>0 DEF Unreported
  <2>1. ASSUME NEW d \in Callers, Tokens!At(d, {"store", "has"})'
        PROVE  d # c /\ Tokens!At(d, {"store", "has"}) /\ call'[d] = call[d]
    BY <1>d, <1>n, <2>1 DEF Tokens!At
  <2>2. ASSUME NEW d \in Callers, Tokens!At(d, {"store"})'
        PROVE  /\ call'[d].token \notin reported'
               /\ \A a \in DOMAIN cache' : cache'[a] # None => cache'[a].token # call'[d].token
               /\ \A e \in Callers : e # d /\ Tokens!At(e, {"store", "has"})'
                    => call'[e].token # call'[d].token
    <3>1. d # c /\ Tokens!At(d, {"store"}) /\ call'[d] = call[d]
      BY <2>1, <2>2 DEF Tokens!At
    <3>2. /\ call[d].token \notin reported
          /\ \A a \in DOMAIN cache : cache[a] # None => cache[a].token # call[d].token
          /\ \A e \in Callers : e # d /\ Tokens!At(e, {"store", "has"})
               => call[e].token # call[d].token
      BY <3>1 DEF TokensInv, Unreported
    <3>3. call[c].token # call[d].token
      BY <1>0, <3>1, <3>2 DEF Tokens!At
    <3>4. call'[d].token \notin reported'
      BY <1>0, <3>1, <3>2, <3>3
    <3>5. \A a \in DOMAIN cache' : cache'[a] # None => cache'[a].token # call'[d].token
      BY <1>c, <3>1, <3>2
    <3>6. \A e \in Callers : e # d /\ Tokens!At(e, {"store", "has"})'
            => call'[e].token # call'[d].token
      BY <2>1, <3>1, <3>2
    <3> QED BY <3>4, <3>5, <3>6
  <2>3. \A a, b \in DOMAIN cache' :
          cache'[a] # None /\ cache'[b] # None /\ cache'[a].token = cache'[b].token => a = b
    <3>1. \A a, b \in DOMAIN cache :
            cache[a] # None /\ cache[b] # None /\ cache[a].token = cache[b].token => a = b
      BY DEF TokensInv, Unreported
    <3> QED BY <1>c, <3>1
  <2>4. ASSUME NEW d \in Callers, Tokens!At(d, {"has"})'
        PROVE  /\ call'[d].token \notin call'[d].known
               /\ \A a \in DOMAIN cache' :
                    cache'[a] # None /\ cache'[a].token = call'[d].token => a = call'[d].account
    <3>1. Tokens!At(d, {"has"}) /\ call'[d] = call[d]
      BY <2>1, <2>4 DEF Tokens!At
    <3>2. /\ call[d].token \notin call[d].known
          /\ \A a \in DOMAIN cache :
               cache[a] # None /\ cache[a].token = call[d].token => a = call[d].account
      BY <3>1 DEF TokensInv, Unreported
    <3> QED BY <1>c, <3>1, <3>2
  <2>5. ASSUME NEW a \in DOMAIN cache', cache'[a] # None, cache'[a].token \in reported'
        PROVE  cache'[a].until <= 0
    <3>1. /\ \A b \in DOMAIN cache : cache[b] # None /\ cache[b].token \in reported
               => cache[b].until <= 0
          /\ \A b \in DOMAIN cache : cache[b] # None /\ cache[b].token = call[c].token
               => b = call[c].account
      BY <1>0 DEF TokensInv, Unreported
    <3>2. CASE a = own
      BY <1>c, <2>5, <3>2
    <3>3. CASE a # own
      <4>1. cache'[a] = cache[a] /\ cache[a].token # call[c].token
        BY <1>c, <2>5, <3>1, <3>3 DEF own
      <4> QED BY <1>0, <1>c, <2>5, <3>1, <4>1
    <3> QED BY <3>2, <3>3
  <2> QED BY <1>0, <2>2, <2>3, <2>4, <2>5 DEF Unreported
<1>5. Living'
  <2>1. policy.ends # "stated"
    BY <1>0, <1>p, PolicyFacts
  <2> QED BY <1>0, <2>1 DEF Living
<1> QED BY <1>1, <1>2, <1>3, <1>4, <1>5 DEF TokensInv

-----------------------------------------------------------------------------
LEMMA TokensInitInv == Tokens!Init => TokensInv
<1> SUFFICES ASSUME Tokens!Init PROVE TokensInv
  OBVIOUS
<1>0. /\ policy \in Tokens!Policies /\ now = 0 /\ reported = {} /\ next = 0 /\ writer = None
      /\ call = [c \in Callers |-> Tokens!Idle]
      /\ \/ granted = <<>> /\ cache = [a \in 0 .. policy.accounts - 1 |-> None]
         \/ /\ Tokens!Configurable
            /\ granted = <<Life>>
            /\ cache = [a \in {0} |->
                 [token |-> 1, until |-> IF policy.ends = "never" THEN Tokens!Forever ELSE Kept]]
  BY DEF Tokens!Init
<1>p. /\ None \notin Callers /\ Life \in Nat /\ Kept \in Nat /\ Tokens!Forever \in Int
      /\ policy.accounts \in Nat \ {0}
      /\ Tokens!Configurable =>
           policy.accounts = 1 /\ policy.lock = "brief" /\ policy.ends # "stated"
  BY <1>0, PolicyFacts, ConfigurableFacts, PartsAssumption DEF Tokens!TokenCachesAssumption, Tokens!Forever
<1>i. /\ \A c \in Callers : call[c] = Tokens!Idle
      /\ Tokens!Idle.at = "idle" /\ Tokens!Idle.since = 0
  BY <1>0 DEF Tokens!Idle
<1>n. \A c \in Callers : \A places \in {{"store"}, {"end"}, {"has"}, {"token"}, {"ask", "store"},
         {"store", "end"}, {"store", "has"}, {"store", "end", "has"}, {"reread"}, {"token", "end"}, {"lock"}} :
         ~Tokens!At(c, places)
  BY <1>i DEF Tokens!At
<1>1. CacheTyped
  <2>1. CASE granted = <<>> /\ cache = [a \in 0 .. policy.accounts - 1 |-> None]
    BY <1>0, <1>p, <2>1 DEF CacheTyped
  <2>2. CASE /\ Tokens!Configurable
             /\ granted = <<Life>>
             /\ cache = [a \in {0} |->
                  [token |-> 1, until |-> IF policy.ends = "never" THEN Tokens!Forever ELSE Kept]]
    <3>1. PICK until \in Int : until = IF policy.ends = "never" THEN Tokens!Forever ELSE Kept
      BY <1>p
    <3>2. granted \in Seq(Nat) /\ Len(granted) = 1
      BY <1>p, <2>2
    <3>3. DOMAIN cache = 0 .. policy.accounts - 1
      BY <1>p, <2>2
    <3>4. \A a \in DOMAIN cache : cache[a] \in [token : 1 .. Len(granted), until : Int]
      BY <2>2, <3>1, <3>2
    <3> QED BY <1>0, <1>p, <3>2, <3>3, <3>4 DEF CacheTyped
  <2> QED BY <1>0, <2>1, <2>2
<1>2. CallsTyped
  <2>1. Tokens!Idle \in CallRecord
    <3>1. Len(granted) \in Nat
      BY <1>1 DEF CacheTyped
    <3> QED BY <1>p, <3>1 DEF Tokens!Idle, CallRecord, Places
  <2> QED BY <1>0, <1>n, <2>1 DEF CallsTyped
<1>3. Newest
  BY <1>0, <1>n, <1>p DEF Newest
<1>4. Unreported
  BY <1>0, <1>n, <1>p DEF Unreported
<1>5. Living
  <2>1. policy.ends = "stated" => \A a \in DOMAIN cache : cache[a] = None
    BY <1>0, <1>p
  <2>2. \A c \in Callers : call[c].since <= now
    BY <1>0, <1>i
  <2> QED BY <1>0, <1>n, <1>p, <2>1, <2>2 DEF Living
<1> QED BY <1>1, <1>2, <1>3, <1>4, <1>5 DEF TokensInv

LEMMA TokensStepInv == TokensInv /\ [Tokens!Next]_(Tokens!vars) => TokensInv'
<1> SUFFICES ASSUME TokensInv, [Tokens!Next]_(Tokens!vars) PROVE TokensInv'
  OBVIOUS
<1>1. CASE Tokens!Tick
  BY <1>1, TickInv
<1>2. ASSUME NEW c \in Callers, Tokens!Call(c) PROVE TokensInv'
  BY <1>2, CallMoves, MovesInv
<1>3. ASSUME NEW c \in Callers, Tokens!Proceeds(c) PROVE TokensInv'
  <2>1. CASE Tokens!Look(c)
    BY <2>1, LookMoves, MovesInv
  <2>2. CASE Tokens!LookAtToken(c)
    BY <2>2, LookAtTokenMoves, MovesInv
  <2>3. CASE Tokens!Lock(c)
    BY <2>3, LockMoves, MovesInv
  <2>4. CASE Tokens!Granted(c)
    BY <2>4, GrantedInv
  <2>5. CASE Tokens!Failed(c) \/ Tokens!Done(c)
    BY <2>5, OverMoves, MovesInv
  <2>6. CASE Tokens!LockToken(c)
    BY <2>6, LockTokenMoves, MovesInv
  <2>7. CASE Tokens!Store(c)
    BY <2>7, StoreInv
  <2>8. CASE Tokens!Reread(c)
    BY <2>8, RereadMoves, MovesInv
  <2>9. CASE Tokens!Refused(c)
    BY <2>9, RefusedInv
  <2> QED BY <1>3, <2>1, <2>2, <2>3, <2>4, <2>5, <2>6, <2>7, <2>8, <2>9 DEF Tokens!Proceeds
<1>4. CASE UNCHANGED Tokens!vars
  <2>1. CallRecord' = CallRecord
    BY <1>4 DEF Tokens!vars, CallRecord
  <2>2. CacheTyped' /\ CallsTyped'
    BY <1>4, <2>1 DEF TokensInv, CacheTyped, CallsTyped, Tokens!vars, Tokens!At, Tokens!Entry
  <2>3. Newest' /\ Unreported'
    BY <1>4 DEF TokensInv, Newest, Unreported, Tokens!vars, Tokens!At
  <2>4. Living'
    BY <1>4 DEF TokensInv, Living, Tokens!vars, Tokens!At
  <2> QED BY <2>2, <2>3, <2>4 DEF TokensInv
<1> QED BY <1>1, <1>2, <1>3, <1>4 DEF Tokens!Next

LEMMA SameCardinality == \A S : Tokens!Cardinality(S) = Cardinality(S)
BY DEF Tokens!Cardinality, Cardinality

(* What the caches promise, from the invariant.                            *)
LEMMA TokensOrdered == TokensInv => Tokens!TokensInOrder
<1> SUFFICES ASSUME TokensInv PROVE Tokens!TokensInOrder
  OBVIOUS
<1>p. policy \in Tokens!Policies
  BY DEF TokensInv, CacheTyped
<1>1. Tokens!OneRequest
  <2> SUFFICES ASSUME policy.lock = "held" PROVE Tokens!OneRequest
    BY DEF Tokens!OneRequest
  <2> DEFINE asking == {c \in Callers : Tokens!At(c, {"ask", "store"})}
  <2>1. asking \subseteq {writer}
    BY DEF TokensInv, Newest
  <2>2. asking = {} \/ asking = {writer}
    BY <2>1
  <2>3. Tokens!Cardinality(asking) <= 1
    <3>1. Tokens!Cardinality({writer}) = 1 /\ Tokens!Cardinality({}) = 0
      BY FS_EmptySet, FS_Singleton, SameCardinality
    <3> HIDE DEF asking
    <3> QED BY <2>2, <3>1
  <2>4. asking = {} /\ cache[0] # None => cache[0].token = Len(granted)
    BY DEF TokensInv, Newest, Tokens!At
  <2> QED BY <2>3, <2>4 DEF Tokens!OneRequest
<1>2. Tokens!ToldNotGivenAgain
  <2>1. ASSUME policy.refused # "forces", NEW c \in Callers, Tokens!At(c, {"has"})
        PROVE  call[c].token \notin call[c].known
    <3>1. CASE policy.refused = "nothing"
      <4>1. call[c].known \subseteq {}
        BY <3>1, CallFields DEF TokensInv, Unreported
      <4> QED BY <4>1
    <3>2. CASE policy.refused # "nothing"
      BY <2>1, <3>2 DEF TokensInv, Unreported
    <3> QED BY <3>1, <3>2
  <2> QED BY <2>1 DEF Tokens!ToldNotGivenAgain
<1>3. Tokens!AliveWhenGiven
  BY DEF TokensInv, Living, Tokens!AliveWhenGiven
<1> QED BY <1>1, <1>2, <1>3 DEF Tokens!TokensInOrder

-----------------------------------------------------------------------------
(* The search for lyrics                                                   *)

Steps == {"next", "none", "plain", "synced", "untimed", "empty"}
Outs == (Steps \ {"next"}) \cup {"searching"}
FormRecord ==
  [form : {"synced", "plain", "untimed"}, asks : Nat, fails : Steps, missing : Steps, empty : Steps]
Progress == [asks : Nat, forms : Seq(FormRecord), out : Outs, taken : BOOLEAN]

(* A provider is at one of its forms once its first requests are answered, *)
(* and is taken once it has an reply.                                     *)
RaceTyped ==
  /\ DOMAIN race \subseteq Search!AllProviders
  /\ \A p \in DOMAIN race :
       /\ race[p] \in Progress
       /\ race[p].forms = <<>> => race[p].asks >= 1
       /\ race[p].taken => race[p].out # "searching"

PlainOf(p) == [form |-> "plain", of |-> p.name]

(* While nothing is found, those taken have no lines, and the fallback is  *)
(* an reply of text if there was one.                                     *)
FallbackKept ==
  found.form = "searching" =>
    /\ \A p \in DOMAIN race : race[p].taken =>
         ~Search!HasLines(race[p].out) /\ (race[p].out = "plain" => fallback # None)
    /\ fallback = None \/ \E p \in DOMAIN race : race[p].out = "plain" /\ fallback = PlainOf(p)

SearchInv == RaceTyped /\ FallbackKept /\ Search!BestIsFound

-----------------------------------------------------------------------------
LEMMA OneForm ==
  ASSUME NEW a \in FormRecord PROVE <<a>> \in Seq(FormRecord) /\ <<a>> # <<>>
OBVIOUS
LEMMA TwoForms ==
  ASSUME NEW a \in FormRecord, NEW b \in FormRecord
  PROVE  <<a, b>> \in Seq(FormRecord) /\ <<a, b>> # <<>>
OBVIOUS

LEMMA ProviderFacts ==
  ASSUME NEW p \in Search!AllProviders, NEW of
  PROVE  /\ p.asks \in Nat /\ p.asks >= 1 /\ (of \in p.knows => p.asks >= 2)
         /\ \A forms \in p.forms : forms \in Seq(FormRecord) /\ forms # <<>>
<1> DEFINE Good(q) ==
      /\ q.asks \in Nat /\ q.asks >= 1 /\ (of \in q.knows => q.asks >= 2)
      /\ \A forms \in q.forms : forms \in Seq(FormRecord) /\ forms # <<>>
<1>0. /\ Search!Last("plain") \in FormRecord /\ Search!Last("synced") \in FormRecord
      /\ Search!Form("synced", 0, "none", "next", "none") \in FormRecord
      /\ Search!Form("synced", 0, "none", "none", "plain") \in FormRecord
      /\ Search!Form("synced", 1, "next", "next", "next") \in FormRecord
      /\ Search!Form("synced", 0, "none", "next", "next") \in FormRecord
      /\ Search!Form("synced", 0, "none", "next", "empty") \in FormRecord
      /\ Search!Form("synced", 2, "none", "next", "empty") \in FormRecord
      /\ Search!Form("plain", 0, "none", "none", "plain") \in FormRecord
      /\ Search!Form("plain", 1, "none", "none", "plain") \in FormRecord
      /\ Search!Form("untimed", 1, "none", "none", "none") \in FormRecord
  BY DEF Search!Last, Search!Form, FormRecord, Steps
<1>1. Good(Search!YoutubeMusic)
  <2>1. Search!YoutubeMusic.asks = 2 /\ Search!YoutubeMusic.knows = {"youtube", "youtubemusic"}
    BY DEF Search!YoutubeMusic
  <2>2. Search!YoutubeMusic.forms = {<<Search!Form("synced", 1, "next", "next", "next"), Search!Form("untimed", 1, "none", "none", "none")>>}
    BY DEF Search!YoutubeMusic
  <2>3. \A forms \in Search!YoutubeMusic.forms : forms \in Seq(FormRecord) /\ forms # <<>>
    BY <1>0, <2>2, TwoForms
  <2> QED BY <2>1, <2>3
<1>2. Good(Search!Lrclib)
  <2>1. Search!Lrclib.asks = 1 /\ Search!Lrclib.knows = {}
    BY DEF Search!Lrclib
  <2>2. Search!Lrclib.forms = {<<Search!Form("synced", 0, "none", "next", "none"), Search!Last("plain")>>}
    BY DEF Search!Lrclib
  <2>3. \A forms \in Search!Lrclib.forms : forms \in Seq(FormRecord) /\ forms # <<>>
    BY <1>0, <2>2, TwoForms
  <2> QED BY <2>1, <2>3
<1>3. Good(Search!Genius)
  <2>1. Search!Genius.asks = 2 /\ Search!Genius.knows = {}
    BY DEF Search!Genius
  <2>2. Search!Genius.forms = {<<Search!Last("plain")>>}
    BY DEF Search!Genius
  <2>3. \A forms \in Search!Genius.forms : forms \in Seq(FormRecord) /\ forms # <<>>
    BY <1>0, <2>2, OneForm
  <2> QED BY <2>1, <2>3
<1>4. Good(Search!Deezer)
  <2>1. Search!Deezer.asks = 3 /\ Search!Deezer.knows = {"deezer"}
    BY DEF Search!Deezer
  <2>2. Search!Deezer.forms = {<<Search!Form("synced", 0, "none", "next", "next"),
                     Search!Form("synced", 0, "none", "next", "next"), Search!Last("plain")>>}
    BY DEF Search!Deezer
  <2>3. \A forms \in Search!Deezer.forms : forms \in Seq(FormRecord) /\ forms # <<>>
    <3> DEFINE a == Search!Form("synced", 0, "none", "next", "next")  b == Search!Last("plain")
    <3>1. a \in FormRecord /\ b \in FormRecord /\ Search!Deezer.forms = {<<a, a, b>>}
      BY <1>0, <2>2
    <3> HIDE DEF a, b
    <3>2. <<a, a, b>> \in Seq(FormRecord) /\ <<a, a, b>> # <<>>
      BY <3>1
    <3> QED BY <3>1, <3>2
  <2> QED BY <2>1, <2>3
<1>5. Good(Search!Musixmatch)
  <2>1. Search!Musixmatch.asks = 2 /\ Search!Musixmatch.knows = {}
    BY DEF Search!Musixmatch
  <2>2. Search!Musixmatch.forms = {<<Search!Form("synced", 0, "none", "next", "empty"), Search!Form("plain", 0, "none", "none", "plain")>>,
         <<Search!Form("synced", 2, "none", "next", "empty"), Search!Form("plain", 1, "none", "none", "plain")>>}
    BY DEF Search!Musixmatch
  <2>3. \A forms \in Search!Musixmatch.forms : forms \in Seq(FormRecord) /\ forms # <<>>
    BY <1>0, <2>2, TwoForms
  <2> QED BY <2>1, <2>3
<1>6. Good(Search!LetrasMus)
  <2>1. Search!LetrasMus.asks = 2 /\ Search!LetrasMus.knows = {}
    BY DEF Search!LetrasMus
  <2>2. Search!LetrasMus.forms = {<<Search!Form("synced", 1, "next", "next", "next"), Search!Last("plain")>>}
    BY DEF Search!LetrasMus
  <2>3. \A forms \in Search!LetrasMus.forms : forms \in Seq(FormRecord) /\ forms # <<>>
    BY <1>0, <2>2, TwoForms
  <2> QED BY <2>1, <2>3
<1>7. Good(Search!Netease)
  <2>1. Search!Netease.asks = 2 /\ Search!Netease.knows = {}
    BY DEF Search!Netease
  <2>2. Search!Netease.forms = {<<Search!Form("synced", 0, "none", "none", "plain")>>}
    BY DEF Search!Netease
  <2>3. \A forms \in Search!Netease.forms : forms \in Seq(FormRecord) /\ forms # <<>>
    BY <1>0, <2>2, OneForm
  <2> QED BY <2>1, <2>3
<1>8. Good(Search!Yandex)
  <2>1. Search!Yandex.asks = 3 /\ Search!Yandex.knows = {"yandexmusic"}
    BY DEF Search!Yandex
  <2>2. Search!Yandex.forms = {<<Search!Last("synced")>>}
    BY DEF Search!Yandex
  <2>3. \A forms \in Search!Yandex.forms : forms \in Seq(FormRecord) /\ forms # <<>>
    BY <1>0, <2>2, OneForm
  <2> QED BY <2>1, <2>3
<1> HIDE DEF Good
<1>9. Good(p)
  BY <1>1, <1>2, <1>3, <1>4, <1>5, <1>6, <1>7, <1>8 DEF Search!AllProviders
<1> QED BY <1>9 DEF Good

(* Steps in which one provider goes on and is not taken.                   *)
LEMMA RaceGoesOn ==
  ASSUME SearchInv, NEW p \in DOMAIN race, NEW r \in Progress, Search!Searching(p),
         race' = [race EXCEPT ![p] = r], r.forms = <<>> => r.asks >= 1,
         ~r.taken, UNCHANGED <<source, skip, fallback, found>>
  PROVE  SearchInv'
<1>1. ~race[p].taken /\ found.form = "searching" /\ race[p].out = "searching"
  BY DEF SearchInv, RaceTyped, Search!Searching
<1>2. /\ DOMAIN race' = DOMAIN race /\ race'[p] = r
      /\ \A q \in DOMAIN race : q # p => race'[q] = race[q]
  OBVIOUS
<1>3. RaceTyped'
  BY <1>2 DEF SearchInv, RaceTyped
<1>4. FallbackKept'
  <2>1. \A q \in DOMAIN race' : race'[q].taken =>
          ~Search!HasLines(race'[q].out) /\ (race'[q].out = "plain" => fallback # None)
    BY <1>1, <1>2 DEF SearchInv, FallbackKept
  <2>2. fallback = None \/ \E q \in DOMAIN race' : race'[q].out = "plain" /\ fallback = PlainOf(q)
    BY <1>1, <1>2 DEF SearchInv, FallbackKept
  <2> QED BY <2>1, <2>2 DEF FallbackKept, PlainOf
<1>5. Search!BestIsFound'
  BY <1>1 DEF Search!BestIsFound, Search!Found
<1> QED BY <1>3, <1>4, <1>5 DEF SearchInv

LEMMA LooksForInv ==
  ASSUME SearchInv, NEW p \in DOMAIN race, NEW forms \in Seq(FormRecord), forms # <<>>, Search!Searching(p),
         Search!LooksFor(p, forms), UNCHANGED <<source, skip, fallback, found>>
  PROVE  SearchInv'
<1>1. race[p] \in Progress /\ ~race[p].taken
  BY DEF SearchInv, RaceTyped, Search!Searching
<1>2. forms[1] \in FormRecord
  OBVIOUS
<1>3. PICK asks \in Nat : asks = forms[1].asks
  BY <1>2 DEF FormRecord
<1> DEFINE r == [race[p] EXCEPT !.forms = forms, !.asks = asks]
<1>4. race' = [race EXCEPT ![p] = r]
  BY <1>3 DEF Search!LooksFor
<1>5. r \in Progress /\ ~r.taken /\ r.forms = forms
  BY <1>1 DEF Progress
<1> HIDE DEF r
<1> QED BY <1>4, <1>5, RaceGoesOn

LEMMA EndsInv ==
  ASSUME SearchInv, NEW p \in DOMAIN race, NEW out \in Outs, Search!Searching(p),
         Search!Ends(p, out), UNCHANGED <<source, skip, fallback, found>>
  PROVE  SearchInv'
<1>1. race[p] \in Progress /\ ~race[p].taken /\ (race[p].forms = <<>> => race[p].asks >= 1)
  BY DEF SearchInv, RaceTyped, Search!Searching
<1> DEFINE r == [race[p] EXCEPT !.out = out]
<1>2. race' = [race EXCEPT ![p] = r]
  BY DEF Search!Ends
<1>3. r \in Progress /\ ~r.taken /\ (r.forms = <<>> => r.asks >= 1)
  BY <1>1 DEF Progress
<1> HIDE DEF r
<1> QED BY <1>2, <1>3, RaceGoesOn

LEMMA FollowInv ==
  ASSUME SearchInv, NEW p \in DOMAIN race, NEW step \in Steps, Search!Searching(p), race[p].forms # <<>>,
         Search!Follow(p, step), UNCHANGED <<source, skip, fallback, found>>
  PROVE  SearchInv'
<1>1. race[p].forms \in Seq(FormRecord)
  BY DEF SearchInv, RaceTyped, Progress
<1>2. CASE step # "next"
  <2>1. Search!Ends(p, step) /\ step \in Outs
    BY <1>2 DEF Search!Follow, Outs
  <2> QED BY <2>1, EndsInv
<1>3. CASE step = "next" /\ Len(race[p].forms) > 1
  <2>1. Search!LooksFor(p, Tail(race[p].forms))
    BY <1>3 DEF Search!Follow
  <2>2. Tail(race[p].forms) \in Seq(FormRecord) /\ Len(Tail(race[p].forms)) = Len(race[p].forms) - 1
    BY <1>1, <1>3, HeadTailProperties
  <2>3. Tail(race[p].forms) # <<>>
    BY <1>1, <1>3, <2>2
  <2> QED BY <2>1, <2>2, <2>3, LooksForInv
<1>4. CASE step = "next" /\ ~(Len(race[p].forms) > 1)
  <2>1. Search!Ends(p, "none") /\ "none" \in Outs
    BY <1>4 DEF Search!Follow, Outs, Steps
  <2> QED BY <2>1, EndsInv
<1> QED BY <1>2, <1>3, <1>4

LEMMA AnsweredInv ==
  ASSUME SearchInv, NEW p \in DOMAIN race, Search!Answered(p)
  PROVE  SearchInv'
<1>0. /\ Search!Searching(p) /\ race[p].asks > 0 /\ UNCHANGED <<source, skip, fallback, found>>
      /\ race[p] \in Progress /\ ~race[p].taken /\ p \in Search!AllProviders
  BY DEF Search!Answered, SearchInv, RaceTyped, Search!Searching
<1>1. CASE race[p].asks = 1 /\ race[p].forms = <<>>
  <2>1. PICK forms \in p.forms : Search!LooksFor(p, forms)
    BY <1>1 DEF Search!Answered
  <2>2. forms \in Seq(FormRecord) /\ forms # <<>>
    BY <1>0, ProviderFacts
  <2> QED BY <1>0, <2>1, <2>2, LooksForInv
<1>2. CASE ~(race[p].asks = 1 /\ race[p].forms = <<>>)
  <2> DEFINE r == [race[p] EXCEPT !.asks = race[p].asks - 1]
  <2>1. race' = [race EXCEPT ![p] = r]
    BY <1>2 DEF Search!Answered
  <2>2. r \in Progress /\ ~r.taken /\ (r.forms = <<>> => r.asks >= 1)
    BY <1>0, <1>2 DEF Progress
  <2> HIDE DEF r
  <2> QED BY <1>0, <2>1, <2>2, RaceGoesOn
<1> QED BY <1>1, <1>2

LEMMA FailedInv ==
  ASSUME SearchInv, NEW p \in DOMAIN race, Search!Failed(p)
  PROVE  SearchInv'
<1>0. /\ Search!Searching(p) /\ UNCHANGED <<source, skip, fallback, found>> /\ race[p] \in Progress
  BY DEF Search!Failed, SearchInv, RaceTyped
<1>1. CASE race[p].forms = <<>>
  <2>1. Search!Ends(p, "none") /\ "none" \in Outs
    BY <1>1 DEF Search!Failed, Outs, Steps
  <2> QED BY <1>0, <2>1, EndsInv
<1>2. CASE race[p].forms # <<>>
  <2>1. Search!Follow(p, race[p].forms[1].fails)
    BY <1>2 DEF Search!Failed
  <2>2. race[p].forms[1].fails \in Steps
    <3>1. race[p].forms \in Seq(FormRecord)
      BY <1>0 DEF Progress
    <3>2. race[p].forms[1] \in FormRecord
      BY <1>2, <3>1
    <3> QED BY <3>2 DEF FormRecord
  <2> QED BY <1>0, <1>2, <2>1, <2>2, FollowInv
<1> QED BY <1>1, <1>2

LEMMA ReadInv ==
  ASSUME SearchInv, NEW p \in DOMAIN race, Search!Read(p)
  PROVE  SearchInv'
<1>0. /\ Search!Searching(p) /\ UNCHANGED <<source, skip, fallback, found>>
      /\ race[p] \in Progress /\ race[p].forms # <<>>
  BY DEF Search!Read, SearchInv, RaceTyped
<1>1. race[p].forms[1] \in FormRecord
  <2>1. race[p].forms \in Seq(FormRecord)
    BY <1>0 DEF Progress
  <2> QED BY <1>0, <2>1
<1>2. PICK step \in {race[p].forms[1].form, race[p].forms[1].missing, race[p].forms[1].empty} :
        Search!Follow(p, step)
  BY DEF Search!Read
<1>3. step \in Steps
  BY <1>1 DEF FormRecord, Steps
<1> QED BY <1>0, <1>2, <1>3, FollowInv

LEMMA TakenInv ==
  ASSUME SearchInv, NEW p \in DOMAIN race, Search!Taken(p)
  PROVE  SearchInv'
<1> DEFINE reply == [form |-> race[p].out, of |-> p.name]
<1>0. /\ found.form = "searching" /\ race[p].out # "searching" /\ ~race[p].taken
      /\ race' = [race EXCEPT ![p].taken = TRUE] /\ race[p] \in Progress
      /\ found' = IF Search!HasLines(race[p].out) THEN reply ELSE found
      /\ fallback' = IF race[p].out = "plain" /\ fallback = None THEN reply ELSE fallback
  BY DEF Search!Taken, Search!Takes, SearchInv, RaceTyped
<1>1. /\ DOMAIN race' = DOMAIN race /\ race'[p] = [race[p] EXCEPT !.taken = TRUE]
      /\ \A q \in DOMAIN race : q # p => race'[q] = race[q]
  BY <1>0
<1>2. /\ race'[p] \in Progress /\ race'[p].forms = race[p].forms /\ race'[p].asks = race[p].asks
      /\ race'[p].out = race[p].out /\ race'[p].taken
  BY <1>0, <1>1 DEF Progress
<1>3. RaceTyped'
  BY <1>0, <1>1, <1>2 DEF SearchInv, RaceTyped
<1>4. FallbackKept'
  <2> SUFFICES ASSUME found'.form = "searching" PROVE FallbackKept'
    BY DEF FallbackKept
  <2>1. ~Search!HasLines(race[p].out)
    BY <1>0
  <2>2. race[p].out = "plain" => fallback' # None
    <3>1. race[p].out = "plain" => reply # None
      <4>1. p \in Search!AllProviders
        BY DEF SearchInv, RaceTyped
      <4> QED BY <4>1, PartsAssumption DEF Search!LyricsSearchAssumption
    <3> QED BY <1>0, <3>1
  <2>3. fallback # None => fallback' = fallback
    BY <1>0
  <2>4. \A q \in DOMAIN race' : race'[q].taken =>
          ~Search!HasLines(race'[q].out) /\ (race'[q].out = "plain" => fallback' # None)
    BY <1>0, <1>1, <1>2, <2>1, <2>2, <2>3 DEF SearchInv, FallbackKept
  <2>5. fallback' = None \/ \E q \in DOMAIN race' : race'[q].out = "plain" /\ fallback' = PlainOf(q)
    <3>1. CASE race[p].out = "plain" /\ fallback = None
      <4>1. fallback' = PlainOf(p)
        BY <1>0, <3>1 DEF PlainOf
      <4> QED BY <1>1, <1>2, <3>1, <4>1
    <3>2. CASE ~(race[p].out = "plain" /\ fallback = None)
      <4>1. fallback' = fallback
        BY <1>0, <3>2
      <4>2. fallback = None \/ \E q \in DOMAIN race : race[q].out = "plain" /\ fallback = PlainOf(q)
        BY <1>0 DEF SearchInv, FallbackKept
      <4>3. \A q \in DOMAIN race : race'[q].out = race[q].out
        BY <1>1, <1>2
      <4> QED BY <1>1, <4>1, <4>2, <4>3
    <3> QED BY <3>1, <3>2
  <2> QED BY <2>4, <2>5 DEF FallbackKept, PlainOf
<1>5. Search!BestIsFound'
  <2>1. CASE Search!HasLines(race[p].out)
    <3>1. found'.form = race[p].out /\ found'.of = p.name
      BY <1>0, <2>1
    <3> QED BY <1>1, <1>2, <2>1, <3>1 DEF Search!BestIsFound
  <2>2. CASE ~Search!HasLines(race[p].out)
    BY <1>0, <2>2 DEF Search!BestIsFound, Search!Found
  <2> QED BY <2>1, <2>2
<1> QED BY <1>3, <1>4, <1>5 DEF SearchInv

LEMMA NoneLeftInv ==
  ASSUME SearchInv, Search!NoneLeft
  PROVE  SearchInv'
<1>0. /\ found.form = "searching" /\ \A p \in DOMAIN race : race[p].taken
      /\ found' = IF fallback = None THEN [form |-> "none"] ELSE fallback
      /\ UNCHANGED <<source, skip, race, fallback>>
  BY DEF Search!NoneLeft
<1>1. RaceTyped'
  BY <1>0 DEF SearchInv, RaceTyped
<1>2. \A p \in DOMAIN race : race[p].out \in {"plain", "none"} /\ (race[p].out = "plain"
        => fallback # None)
  <2>1. \A p \in DOMAIN race : race[p].out \in Outs /\ race[p].out # "searching"
    BY <1>0 DEF SearchInv, RaceTyped, Progress
  <2> QED BY <1>0, <2>1 DEF SearchInv, FallbackKept, Search!HasLines, Outs, Steps
<1>3. fallback # None => \E p \in DOMAIN race : race[p].out = "plain" /\ fallback = PlainOf(p)
  BY <1>0 DEF SearchInv, FallbackKept
<1>4. CASE fallback = None
  <2>1. found'.form = "none" /\ \A p \in DOMAIN race : race[p].out = "none"
    BY <1>0, <1>2, <1>4
  <2>2. Search!BestIsFound' /\ FallbackKept'
    BY <1>0, <2>1 DEF Search!BestIsFound, FallbackKept
  <2> QED BY <1>1, <2>2 DEF SearchInv
<1>5. CASE fallback # None
  <2>1. PICK p \in DOMAIN race : race[p].out = "plain" /\ fallback = PlainOf(p)
    BY <1>3, <1>5
  <2>2. found'.form = "plain" /\ found'.of = p.name
    BY <1>0, <1>5, <2>1 DEF PlainOf
  <2>3. Search!BestIsFound' /\ FallbackKept'
    BY <1>0, <1>2, <2>1, <2>2 DEF Search!BestIsFound, FallbackKept
  <2> QED BY <1>1, <2>3 DEF SearchInv
<1> QED BY <1>4, <1>5

LEMMA SearchInitInv == Search!Init => SearchInv
<1> SUFFICES ASSUME Search!Init PROVE SearchInv
  OBVIOUS
<1>1. /\ fallback = None /\ found = [form |-> "searching"]
      /\ \E providers \in SUBSET Search!AllProviders :
           race = [p \in {q \in providers : ~(skip /\ q.name = source)} |->
                    [asks |-> p.asks - (IF source \in p.knows THEN 1 ELSE 0),
                     forms |-> <<>>, out |-> "searching", taken |-> FALSE]]
  BY DEF Search!Init
<1>2. /\ DOMAIN race \subseteq Search!AllProviders
      /\ \A p \in DOMAIN race :
           race[p] = [asks |-> p.asks - (IF source \in p.knows THEN 1 ELSE 0),
                      forms |-> <<>>, out |-> "searching", taken |-> FALSE]
  BY <1>1
<1>3. ASSUME NEW p \in DOMAIN race
      PROVE  /\ race[p] \in Progress /\ (race[p].forms = <<>> => race[p].asks >= 1)
             /\ race[p].taken => race[p].out # "searching"
             /\ ~race[p].taken
  <2>1. /\ p.asks \in Nat /\ p.asks >= 1 /\ (source \in p.knows => p.asks >= 2)
    BY <1>2, ProviderFacts
  <2>2. PICK asks \in Nat : asks >= 1 /\ asks = p.asks - (IF source \in p.knows THEN 1 ELSE 0)
    BY <2>1
  <2>3. race[p] = [asks |-> asks, forms |-> <<>>, out |-> "searching", taken |-> FALSE]
    BY <1>2, <2>2
  <2>4. <<>> \in Seq(FormRecord)
    OBVIOUS
  <2> QED BY <2>2, <2>3, <2>4 DEF Progress, Outs
<1>4. RaceTyped
  BY <1>2, <1>3 DEF RaceTyped
<1>5. FallbackKept /\ Search!BestIsFound
  BY <1>1, <1>3 DEF FallbackKept, Search!BestIsFound, Search!Found
<1> QED BY <1>4, <1>5 DEF SearchInv

LEMMA SearchStepInv == SearchInv /\ [Search!Next]_(Search!vars) => SearchInv'
<1> SUFFICES ASSUME SearchInv, [Search!Next]_(Search!vars) PROVE SearchInv'
  OBVIOUS
<1>1. CASE Search!NoneLeft
  BY <1>1, NoneLeftInv
<1>2. ASSUME NEW p \in DOMAIN race, Search!Answered(p) \/ Search!Failed(p) \/ Search!Read(p) \/ Search!Taken(p)
      PROVE  SearchInv'
  BY <1>2, AnsweredInv, FailedInv, ReadInv, TakenInv
<1>3. CASE UNCHANGED Search!vars
  BY <1>3 DEF SearchInv, RaceTyped, FallbackKept, Search!BestIsFound, Search!Found, Search!vars,
     PlainOf
<1> QED BY <1>1, <1>2, <1>3 DEF Search!Next

-----------------------------------------------------------------------------
(* The telling of their lines                                              *)

(* While the lines are those subscribed to, the client was told as far as  *)
(* the monitor believes.                                                   *)
LinesTyped ==
  /\ last_index \in Nat /\ heard \in Nat /\ position \in Nat
  /\ lyrics_data # None => lyrics_data.lines \in Seq(Nat)
  /\ reading # None =>
       reading.target \in Nat /\ reading.last \in Nat /\ reading.target # reading.last
TellingFollows ==
  ~replaced => last_index <= heard /\ (reading # None => reading.last <= heard)

LinesInv == LinesTyped /\ TellingFollows /\ Lines!NoLineMissed

-----------------------------------------------------------------------------
LEMMA LeastExists ==
  ASSUME NEW T, T \subseteq Nat, T # {}
  PROVE  \E x \in T : \A y \in T : x <= y
<1> DEFINE R == OpToRel(<, Nat)
<1>1. IsWellFoundedOn(R, Nat)
  BY NatLessThanWellFounded
<1>2. \A x, y \in Nat : x < y => <<x, y>> \in R
  BY DEF OpToRel
<1> HIDE DEF R
<1>3. PICK x \in T : \A y \in T : ~ (<<y, x>> \in R)
  BY <1>1, WFMin
<1>4. \A y \in T : x <= y
  <2>1. \A y \in T : y \in Nat /\ x \in Nat /\ ~(y < x)
    BY <1>2, <1>3
  <2> QED BY <2>1
<1> QED BY <1>3, <1>4

LEMMA MaxIs ==
  ASSUME NEW T, T \subseteq Nat, NEW x \in T, \A y \in T : y <= x
  PROVE  Lines!Max(T) = x
<1>1. \A y \in T : x >= y
  OBVIOUS
<1>2. \A z \in T : (\A y \in T : z >= y) => z = x
  OBVIOUS
<1> QED BY <1>1, <1>2, Zenon DEF Lines!Max

LEMMA MinIs ==
  ASSUME NEW T, T \subseteq Nat, NEW x \in T, \A y \in T : x <= y
  PROVE  Lines!Min(T) = x
<1>1. \A z \in T : (\A y \in T : z <= y) => z = x
  OBVIOUS
<1> QED BY <1>1, Zenon DEF Lines!Min

LEMMA GreatestExists ==
  ASSUME NEW n \in Nat, NEW T, T \subseteq 0 .. n, T # {}
  PROVE  Lines!Max(T) \in T /\ \A y \in T : y <= Lines!Max(T)
<1> DEFINE U == {u \in 0 .. n : n - u \in T}
<1>1. PICK x \in U : \A y \in U : x <= y
  <2>1. U \subseteq Nat
    OBVIOUS
  <2>2. U # {}
    <3>1. PICK t \in T : TRUE
      OBVIOUS
    <3>2. t \in 0 .. n
      OBVIOUS
    <3>3. n - t \in U
      BY <3>2
    <3> QED BY <3>3
  <2> HIDE DEF U
  <2> QED BY <2>1, <2>2, LeastExists
<1>2. n - x \in T /\ \A y \in T : y <= n - x
  <2>1. x \in 0 .. n /\ n - x \in T
    BY <1>1
  <2>2. ASSUME NEW y \in T PROVE y <= n - x
    <3>1. y \in 0 .. n
      OBVIOUS
    <3>2. n - y \in U
      BY <3>1
    <3>3. x <= n - y
      BY <3>2, <1>1
    <3> QED BY <3>1, <3>3, <2>1
  <2> QED BY <2>1, <2>2
<1> QED BY <1>2 DEF Lines!Max

LEMMA TargetType ==
  ASSUME NEW lines \in Seq(Nat), position \in Nat
  PROVE  Lines!Target(lines) \in Nat
<1> DEFINE T == {0} \cup {i \in DOMAIN lines : lines[i] <= position}
<1>1. Len(lines) \in Nat /\ T \subseteq 0 .. Len(lines) /\ T # {}
  OBVIOUS
<1>2. Lines!Max(T) \in T
  BY <1>1, GreatestExists
<1>3. Lines!Max(T) \in Nat
  BY <1>1, <1>2
<1> QED BY <1>3 DEF Lines!Target

(* The first and the last of the lines that are told.                      *)
LEMMA ToldIs ==
  ASSUME LinesInv, reading # None
  PROVE  /\ Lines!Max({0} \cup Lines!Told) = reading.target
         /\ Lines!Told # {} => Lines!Min(Lines!Told) <= reading.last + 1
<1> DEFINE target == reading.target  last == reading.last
<1>1. target \in Nat /\ last \in Nat /\ target # last
  BY DEF LinesInv, LinesTyped
<1>2. Lines!Told = IF target > last THEN last + 1 .. target ELSE {target} \ {0}
  BY DEF Lines!Told
<1> HIDE DEF target, last
<1>3. CASE target > last
  <2>1. Lines!Told = last + 1 .. target
    BY <1>2, <1>3
  <2>2. target \in {0} \cup Lines!Told /\ {0} \cup Lines!Told \subseteq Nat /\ \A y \in {0} \cup Lines!Told : y <= target
    BY <1>1, <1>3, <2>1
  <2>3. Lines!Max({0} \cup Lines!Told) = target
    BY <2>2, MaxIs
  <2>4. last + 1 \in Lines!Told /\ Lines!Told \subseteq Nat /\ \A y \in Lines!Told : last + 1 <= y
    BY <1>1, <1>3, <2>1
  <2>5. Lines!Min(Lines!Told) = last + 1
    BY <2>4, MinIs
  <2> QED BY <1>1, <2>3, <2>5 DEF target, last
<1>4. CASE ~(target > last)
  <2>1. Lines!Told = {target} \ {0}
    BY <1>2, <1>4
  <2>2. target \in {0} \cup Lines!Told /\ {0} \cup Lines!Told \subseteq Nat /\ \A y \in {0} \cup Lines!Told : y <= target
    BY <1>1, <2>1
  <2>3. Lines!Max({0} \cup Lines!Told) = target
    BY <2>2, MaxIs
  <2>4. Lines!Told # {} => Lines!Told = {target}
    BY <2>1
  <2>5. Lines!Told # {} => Lines!Min(Lines!Told) = target
    BY <1>1, <2>4, MinIs
  <2> QED BY <1>1, <1>4, <2>3, <2>5 DEF target, last
<1> QED BY <1>3, <1>4

LEMMA LinesInitInv == Lines!Init => LinesInv
BY DEF Lines!Init, LinesInv, LinesTyped, TellingFollows, Lines!NoLineMissed

LEMMA StartTrackInv == ASSUME LinesInv, Lines!StartTrack PROVE LinesInv'
<1>0. /\ position' = 0 /\ reading' = None /\ heard' = 0
      /\ replaced' = (replaced \/ lyrics_data # None \/ last_index # 0)
      /\ UNCHANGED <<lyrics_data, last_index, missed>>
  BY DEF Lines!StartTrack
<1>1. ~replaced' => last_index' = 0
  BY <1>0
<1>2. LinesTyped'
  BY <1>0 DEF LinesInv, LinesTyped
<1>3. TellingFollows'
  BY <1>0, <1>1 DEF TellingFollows
<1> QED BY <1>0, <1>2, <1>3 DEF LinesInv, Lines!NoLineMissed

LEMMA ResetsInv == ASSUME LinesInv, Lines!Resets PROVE LinesInv'
<1>0. /\ last_index' = 0 /\ replaced' = (replaced /\ reading # None)
      /\ UNCHANGED <<position, lyrics_data, reading, heard, missed>>
  BY DEF Lines!Resets
<1>1. LinesTyped'
  BY <1>0 DEF LinesInv, LinesTyped
<1>2. ~replaced' => (reading # None => ~replaced)
  BY <1>0
<1>3. TellingFollows'
  BY <1>0, <1>2 DEF LinesInv, LinesTyped, TellingFollows
<1> QED BY <1>0, <1>1, <1>3 DEF LinesInv, Lines!NoLineMissed

(* Steps that the monitor's lines do not depend on.                        *)
LEMMA AsideInv ==
  ASSUME LinesInv, Lines!Subscribe \/ Lines!Unsubscribe \/ (\E s \in searches :
           Lines!SearchRuns(s) \/ Lines!SearchTells(s))
  PROVE  LinesInv'
<1>1. UNCHANGED <<position, lyrics_data, last_index, reading, heard, missed, replaced>>
  BY DEF Lines!Subscribe, Lines!Unsubscribe, Lines!SearchRuns, Lines!SearchTells
<1> QED BY <1>1 DEF LinesInv, LinesTyped, TellingFollows, Lines!NoLineMissed

LEMMA PositionInv == ASSUME LinesInv, Lines!Plays \/ Lines!Seek PROVE LinesInv'
<1>1. UNCHANGED <<lyrics_data, last_index, reading, heard, missed, replaced>> /\ position' \in Nat
  BY PartsAssumption DEF Lines!Plays, Lines!Seek, LinesInv, LinesTyped, Lines!LyricsSyncAssumption
<1> QED BY <1>1 DEF LinesInv, LinesTyped, TellingFollows, Lines!NoLineMissed

LEMMA SearchFindsInv ==
  ASSUME LinesInv, NEW s \in searches, Lines!SearchFinds(s)
  PROVE  LinesInv'
<1>0. UNCHANGED <<position, last_index, reading, heard, missed>>
  BY DEF Lines!SearchFinds
<1>1. PICK lyrics \in Lyrics :
        \/ lyrics = None /\ UNCHANGED <<lyrics_data, replaced>>
        \/ /\ lyrics # None /\ lyrics_data' = [of |-> s.of, lines |-> lyrics]
           /\ replaced' = (replaced \/ lyrics_data # None \/ s.of # playing)
  BY DEF Lines!SearchFinds
<1>2. lyrics_data' # None => lyrics_data'.lines \in Seq(Nat)
  <2>1. CASE lyrics = None
    BY <1>1, <2>1 DEF LinesInv, LinesTyped
  <2>2. CASE lyrics # None
    <3>1. lyrics \in Seq(Nat)
      BY <2>2, PartsAssumption DEF Lines!LyricsSyncAssumption
    <3> QED BY <1>1, <2>2, <3>1
  <2> QED BY <2>1, <2>2
<1>3. ~replaced' => ~replaced
  BY <1>1
<1> QED BY <1>0, <1>2, <1>3 DEF LinesInv, LinesTyped, TellingFollows, Lines!NoLineMissed

LEMMA SyncReadsInv == ASSUME LinesInv, Lines!SyncReads PROVE LinesInv'
<1>0. /\ lyrics_data # None /\ Lines!Target(lyrics_data.lines) # last_index
      /\ reading' = [target |-> Lines!Target(lyrics_data.lines), last |-> last_index]
      /\ UNCHANGED <<position, lyrics_data, last_index, heard, missed, replaced>>
  BY DEF Lines!SyncReads, Lines!HasLines
<1>1. Lines!Target(lyrics_data.lines) \in Nat
  BY <1>0, TargetType DEF LinesInv, LinesTyped
<1>2. reading'.target \in Nat /\ reading'.last = last_index /\ reading'.target # reading'.last
  BY <1>0, <1>1
<1> QED BY <1>0, <1>2 DEF LinesInv, LinesTyped, TellingFollows, Lines!NoLineMissed

LEMMA SyncTellsInv == ASSUME LinesInv, Lines!SyncTells PROVE LinesInv'
<1>0. /\ reading # None /\ reading' = None
      /\ heard' = Lines!Max({0} \cup Lines!Told) /\ last_index' = reading.target
      /\ missed' = (missed \/ (~replaced /\ Lines!Told # {} /\ Lines!Min(Lines!Told) > heard + 1))
      /\ UNCHANGED <<position, lyrics_data, replaced>>
  BY DEF Lines!SyncTells
<1>1. /\ reading.target \in Nat /\ reading.last \in Nat /\ heard \in Nat
      /\ ~replaced => reading.last <= heard
  BY <1>0 DEF LinesInv, LinesTyped, TellingFollows
<1>2. heard' = reading.target /\ (Lines!Told # {} => Lines!Min(Lines!Told) <= reading.last + 1)
  BY <1>0, ToldIs
<1>3. Lines!Told # {} => Lines!Min(Lines!Told) \in Int
  <2>1. Lines!Told \subseteq Nat
    BY <1>1 DEF Lines!Told
  <2> SUFFICES ASSUME Lines!Told # {} PROVE Lines!Min(Lines!Told) \in Int
    OBVIOUS
  <2>2. PICK x \in Lines!Told : \A y \in Lines!Told : x <= y
    BY <2>1, LeastExists
  <2>3. Lines!Min(Lines!Told) = x
    BY <2>1, <2>2, MinIs
  <2> QED BY <2>1, <2>3
<1>4. ~missed'
  <2>1. ~replaced /\ Lines!Told # {} => ~(Lines!Min(Lines!Told) > heard + 1)
    BY <1>1, <1>2, <1>3
  <2> QED BY <1>0, <2>1 DEF LinesInv, Lines!NoLineMissed
<1> QED BY <1>0, <1>1, <1>2, <1>4 DEF LinesInv, LinesTyped, TellingFollows, Lines!NoLineMissed

LEMMA LinesStepInv == LinesInv /\ [Lines!Next]_(Lines!vars) => LinesInv'
<1> SUFFICES ASSUME LinesInv, [Lines!Next]_(Lines!vars) PROVE LinesInv'
  OBVIOUS
<1>1. CASE Lines!StartTrack
  BY <1>1, StartTrackInv
<1>2. CASE Lines!Resets
  BY <1>2, ResetsInv
<1>3. CASE Lines!Subscribe \/ Lines!Unsubscribe \/ (\E s \in searches :
             Lines!SearchRuns(s) \/ Lines!SearchTells(s))
  BY <1>3, AsideInv
<1>4. CASE Lines!Plays \/ Lines!Seek
  BY <1>4, PositionInv
<1>5. ASSUME NEW s \in searches, Lines!SearchFinds(s) PROVE LinesInv'
  BY <1>5, SearchFindsInv
<1>6. CASE Lines!SyncReads
  BY <1>6, SyncReadsInv
<1>7. CASE Lines!SyncTells
  BY <1>7, SyncTellsInv
<1>8. CASE UNCHANGED Lines!vars
  BY <1>8 DEF LinesInv, LinesTyped, TellingFollows, Lines!NoLineMissed, Lines!vars
<1> QED BY <1>1, <1>2, <1>3, <1>4, <1>5, <1>6, <1>7, <1>8 DEF Lines!Next, Lines!Proceeds

-----------------------------------------------------------------------------
(* The clients of YouTube                                                  *)

(* Induction over a list: a place that is wrong would be the first one.    *)
(* The rows of the recursion by which Only sifts a list, up to place m.    *)
Row(f, s, set, m) ==
  f = [n \in 0 .. m |-> IF n = 0 THEN <<>>
                        ELSE IF s[n] \in set THEN Append(f[n - 1], s[n]) ELSE f[n - 1]]

LEMMA RowExists ==
  ASSUME NEW s, NEW set, NEW m \in Nat
  PROVE  \E f : Row(f, s, set, m)
<1> DEFINE Without == {n \in Nat : ~ \E f : Row(f, s, set, n)}
<1>1. SUFFICES Without = {}
  OBVIOUS
<1>2. SUFFICES ASSUME Without # {} PROVE FALSE
  OBVIOUS
<1>3. PICK n \in Without : \A i \in Without : n <= i
  BY <1>2, LeastExists
<1>4. CASE n = 0
  <2>1. Row([i \in 0 .. 0 |-> <<>>], s, set, 0)
    BY DEF Row
  <2> QED BY <1>3, <1>4, <2>1
<1>5. CASE n # 0
  <2>1. n - 1 \in Nat /\ n - 1 \notin Without
    BY <1>3, <1>5
  <2>2. PICK f : Row(f, s, set, n - 1)
    BY <2>1
  <2> DEFINE g == [i \in 0 .. n |->
                     IF i < n THEN f[i]
                     ELSE IF s[n] \in set THEN Append(f[n - 1], s[n]) ELSE f[n - 1]]
  <2>3. \A i \in 0 .. n - 1 : g[i] = f[i]
    BY <2>1
  <2>4. ASSUME NEW i \in 0 .. n
        PROVE  g[i] = IF i = 0 THEN <<>>
                      ELSE IF s[i] \in set THEN Append(g[i - 1], s[i]) ELSE g[i - 1]
    <3>1. CASE i = 0
      <4>1. f[0] = <<>> /\ g[0] = f[0]
        BY SMTT(60), <2>1, <2>2, <2>3 DEF Row
      <4> QED BY <3>1, <4>1
    <3>2. CASE i # 0 /\ i < n
      <4>1. i \in 0 .. n - 1 /\ i - 1 \in 0 .. n - 1
        BY <2>1, <3>2
      <4>2. f[i] = IF s[i] \in set THEN Append(f[i - 1], s[i]) ELSE f[i - 1]
        BY <2>2, <3>2, <4>1 DEF Row
      <4> HIDE DEF g
      <4> QED BY <2>3, <3>2, <4>1, <4>2
    <3>3. CASE i = n
      <4>1. n - 1 \in 0 .. n - 1
        BY <2>1
      <4>2. g[n - 1] = f[n - 1]
        BY <2>3, <4>1
      <4>3. g[n] = IF s[n] \in set THEN Append(f[n - 1], s[n]) ELSE f[n - 1]
        BY <2>1
      <4> QED BY <1>5, <3>3, <4>2, <4>3
    <3> QED BY <3>1, <3>2, <3>3
  <2>5. g = [i \in 0 .. n |-> IF i = 0 THEN <<>>
                              ELSE IF s[i] \in set THEN Append(g[i - 1], s[i]) ELSE g[i - 1]]
    <3>1. DOMAIN g = 0 .. n /\ g = [i \in 0 .. n |-> g[i]]
      OBVIOUS
    <3> HIDE DEF g
    <3> QED BY <2>4, <3>1
  <2>6. Row(g, s, set, n)
    BY <2>5 DEF Row
  <2> QED BY <1>3, <2>6
<1> QED BY <1>4, <1>5

LEMMA OnlyRow ==
  ASSUME NEW s, NEW set, Len(s) \in Nat
  PROVE  \E f : Row(f, s, set, Len(s)) /\ YouTube!Only(s, set) = f[Len(s)]
<1> DEFINE c == CHOOSE f : Row(f, s, set, Len(s))
<1>1. YouTube!Only(s, set) = c[Len(s)]
  BY DEF YouTube!Only, Row
<1>2. Row(c, s, set, Len(s))
  BY RowExists
<1> QED BY <1>1, <1>2

(* What is kept of the first n of a list: in its order, and no more.       *)
Sifted(r, s, set, n) ==
  /\ \A k \in 1 .. Len(r) : r[k] \in set /\ \E i \in 1 .. n : s[i] = r[k]
  /\ \A i \in 1 .. n : s[i] \in set => \E k \in 1 .. Len(r) : r[k] = s[i]
  /\ \A k, l \in 1 .. Len(r) : k < l => \E i, j \in 1 .. n : i < j /\ s[i] = r[k] /\ s[j] = r[l]

LEMMA SiftedStep ==
  ASSUME NEW T, NEW s, NEW set, NEW n \in Nat, n # 0, NEW r \in Seq(T), NEW q,
         Sifted(r, s, set, n - 1), s[n] \in T,
         q = IF s[n] \in set THEN Append(r, s[n]) ELSE r
  PROVE  q \in Seq(T) /\ Sifted(q, s, set, n)
<1>1. Len(r) \in Nat /\ n - 1 \in Nat
  BY LenProperties
<1>2. 1 .. n - 1 \subseteq 1 .. n /\ n \in 1 .. n /\ \A i \in 1 .. n : i \in 1 .. n - 1 \/ i = n
  BY <1>1
<1>3. CASE s[n] \in set
  <2>1. /\ q \in Seq(T) /\ Len(q) = Len(r) + 1
        /\ \A k \in 1 .. Len(r) : q[k] = r[k]
        /\ q[Len(r) + 1] = s[n]
    BY <1>1, <1>3, AppendProperties
  <2>2. /\ 1 .. Len(r) \subseteq 1 .. Len(q) /\ Len(r) + 1 \in 1 .. Len(q)
        /\ \A k \in 1 .. Len(q) : k \in 1 .. Len(r) \/ k = Len(r) + 1
    BY <1>1, <2>1
  <2>3. ASSUME NEW k \in 1 .. Len(q)
        PROVE  q[k] \in set /\ \E i \in 1 .. n : s[i] = q[k]
    <3>1. CASE k \in 1 .. Len(r)
      <4>1. r[k] \in set /\ \E i \in 1 .. n - 1 : s[i] = r[k]
        BY <3>1 DEF Sifted
      <4> QED BY <1>2, <2>1, <3>1, <4>1
    <3>2. CASE k = Len(r) + 1
      BY <1>2, <1>3, <2>1, <3>2
    <3> QED BY <2>2, <3>1, <3>2
  <2>4. ASSUME NEW i \in 1 .. n, s[i] \in set
        PROVE  \E k \in 1 .. Len(q) : q[k] = s[i]
    <3>1. CASE i \in 1 .. n - 1
      <4>1. \E k \in 1 .. Len(r) : r[k] = s[i]
        BY <2>4, <3>1 DEF Sifted
      <4> QED BY <2>1, <2>2, <4>1
    <3>2. CASE i = n
      BY <2>1, <2>2, <3>2
    <3> QED BY <1>2, <3>1, <3>2
  <2>5. ASSUME NEW k \in 1 .. Len(q), NEW l \in 1 .. Len(q), k < l
        PROVE  \E i, j \in 1 .. n : i < j /\ s[i] = q[k] /\ s[j] = q[l]
    <3>1. k \in 1 .. Len(r)
      BY <1>1, <2>1, <2>5
    <3>2. CASE l \in 1 .. Len(r)
      <4>1. \E i, j \in 1 .. n - 1 : i < j /\ s[i] = r[k] /\ s[j] = r[l]
        BY <2>5, <3>1, <3>2 DEF Sifted
      <4> QED BY <1>2, <2>1, <3>1, <3>2, <4>1
    <3>3. CASE l = Len(r) + 1
      <4>1. PICK i \in 1 .. n - 1 : s[i] = r[k]
        BY <3>1 DEF Sifted
      <4>2. i \in 1 .. n /\ i < n
        BY <1>1, <4>1
      <4> QED BY <1>2, <2>1, <3>1, <3>3, <4>1, <4>2
    <3> QED BY <2>2, <3>2, <3>3
  <2> QED BY <2>1, <2>3, <2>4, <2>5 DEF Sifted
<1>4. CASE s[n] \notin set
  <2>1. q = r
    BY <1>4
  <2>2. ASSUME NEW i \in 1 .. n, s[i] \in set PROVE i \in 1 .. n - 1
    BY <1>2, <1>4, <2>2
  <2>3. \A k \in 1 .. Len(q) : q[k] \in set /\ \E i \in 1 .. n : s[i] = q[k]
    BY <1>2, <2>1 DEF Sifted
  <2>4. \A i \in 1 .. n : s[i] \in set => \E k \in 1 .. Len(q) : q[k] = s[i]
    BY <2>1, <2>2 DEF Sifted
  <2>5. \A k, l \in 1 .. Len(q) : k < l => \E i, j \in 1 .. n : i < j /\ s[i] = q[k] /\ s[j] = q[l]
    BY <1>2, <2>1 DEF Sifted
  <2> QED BY <2>1, <2>3, <2>4, <2>5 DEF Sifted
<1> QED BY <1>3, <1>4

LEMMA OnlyFacts ==
  ASSUME NEW T, NEW s \in Seq(T), NEW set
  PROVE  /\ YouTube!Only(s, set) \in Seq(T)
         /\ Sifted(YouTube!Only(s, set), s, set, Len(s))
<1>1. Len(s) \in Nat
  BY LenProperties
<1>2. PICK f : Row(f, s, set, Len(s)) /\ YouTube!Only(s, set) = f[Len(s)]
  BY <1>1, OnlyRow
<1>3. f[0] = <<>>
  BY <1>1, <1>2 DEF Row
<1>4. ASSUME NEW n \in 0 .. Len(s), n # 0
      PROVE  f[n] = IF s[n] \in set THEN Append(f[n - 1], s[n]) ELSE f[n - 1]
  BY <1>2, <1>4 DEF Row
<1> DEFINE Right(n) == f[n] \in Seq(T) /\ Sifted(f[n], s, set, n)
           Wrong == {n \in 0 .. Len(s) : ~ Right(n)}
<1>5. Right(0)
  <2>1. \A i \in 1 .. 0 : FALSE
    OBVIOUS
  <2> QED BY <1>3, <2>1, EmptySeq DEF Sifted
<1>6. ASSUME NEW n \in 0 .. Len(s), n # 0, Right(n - 1) PROVE Right(n)
  <2>1. n \in Nat /\ n \in 1 .. Len(s) /\ s[n] \in T
    BY <1>1, <1>6, ElementOfSeq
  <2>2. f[n] = IF s[n] \in set THEN Append(f[n - 1], s[n]) ELSE f[n - 1]
    BY <1>4, <1>6
  <2>3. PICK r : r = f[n - 1]
    OBVIOUS
  <2>4. PICK q : q = f[n]
    OBVIOUS
  <2>5. r \in Seq(T) /\ Sifted(r, s, set, n - 1)
    BY <1>6, <2>3
  <2>6. q = IF s[n] \in set THEN Append(r, s[n]) ELSE r
    BY <2>2, <2>3, <2>4
  <2>7. q \in Seq(T) /\ Sifted(q, s, set, n)
    <3> HIDE DEF Right
    <3> QED BY <1>6, <2>1, <2>5, <2>6, SiftedStep
  <2> QED BY <2>4, <2>7
<1>7. Wrong = {}
  <2> HIDE DEF Right
  <2> SUFFICES ASSUME Wrong # {} PROVE FALSE
    OBVIOUS
  <2>1. PICK n \in Wrong : \A i \in Wrong : n <= i
    <3>1. Wrong \subseteq Nat
      BY <1>1
    <3> QED BY <3>1, LeastExists
  <2>2. n # 0 /\ n \in 0 .. Len(s) /\ n - 1 \in 0 .. Len(s) /\ ~(n <= n - 1)
    BY <1>1, <1>5, <2>1
  <2>3. Right(n - 1)
    BY <2>1, <2>2
  <2> QED BY <1>6, <2>1, <2>2, <2>3
<1>8. Right(Len(s))
  <2> HIDE DEF Right
  <2> QED BY <1>1, <1>7
<1> QED BY <1>2, <1>8

(* What a list has, and what comes before what.                            *)
LEMMA OnlySifts ==
  ASSUME NEW T, NEW s \in Seq(T), NEW set
  PROVE  /\ YouTube!Only(s, set) \in Seq(T)
         /\ YouTube!ToSet(YouTube!Only(s, set)) = YouTube!ToSet(s) \cap set
         /\ \A a, b : YouTube!Before(YouTube!Only(s, set), a, b)
                     => YouTube!Before(s, a, b) /\ a \in set /\ b \in set
<1>1. PICK q : q = YouTube!Only(s, set)
  OBVIOUS
<1>2. q \in Seq(T) /\ Sifted(q, s, set, Len(s))
  BY <1>1, OnlyFacts
<1>3. DOMAIN q = 1 .. Len(q) /\ DOMAIN s = 1 .. Len(s)
  BY <1>2, LenProperties
<1>4. YouTube!ToSet(q) = YouTube!ToSet(s) \cap set
  BY <1>2, <1>3 DEF Sifted, YouTube!ToSet
<1>5. ASSUME NEW a, NEW b, YouTube!Before(q, a, b)
      PROVE  YouTube!Before(s, a, b) /\ a \in set /\ b \in set
  <2>1. PICK k \in 1 .. Len(q), l \in 1 .. Len(q) : k < l /\ q[k] = a /\ q[l] = b
    BY <1>3, <1>5 DEF YouTube!Before
  <2>2. q[k] \in set /\ q[l] \in set
    BY <1>2 DEF Sifted
  <2>3. PICK i \in 1 .. Len(s), j \in 1 .. Len(s) : i < j /\ s[i] = q[k] /\ s[j] = q[l]
    BY <1>2, <2>1 DEF Sifted
  <2> QED BY <1>3, <2>1, <2>2, <2>3 DEF YouTube!Before
<1> QED BY <1>1, <1>2, <1>4, <1>5

LEMMA LessSifts ==
  ASSUME NEW T, NEW s \in Seq(T), NEW set
  PROVE  /\ YouTube!Less(s, set) \in Seq(T)
         /\ YouTube!ToSet(YouTube!Less(s, set)) = YouTube!ToSet(s) \ set
         /\ \A a, b : YouTube!Before(YouTube!Less(s, set), a, b)
                     => YouTube!Before(s, a, b) /\ a \notin set /\ b \notin set
<1>1. PICK q : q = YouTube!Only(s, YouTube!ToSet(s) \ set)
  OBVIOUS
<1>2. /\ q \in Seq(T) /\ YouTube!ToSet(q) = YouTube!ToSet(s) \cap (YouTube!ToSet(s) \ set)
      /\ \A a, b : YouTube!Before(q, a, b)
           => YouTube!Before(s, a, b) /\ a \in YouTube!ToSet(s) \ set /\ b \in YouTube!ToSet(s) \ set
  <2> HIDE DEF YouTube!ToSet, YouTube!Before
  <2>1. PICK rest : rest = YouTube!ToSet(s) \ set
    OBVIOUS
  <2> QED BY <1>1, <2>1, OnlySifts
<1>3. q = YouTube!Less(s, set)
  BY <1>1 DEF YouTube!Less
<1> QED BY <1>2, <1>3

LEMMA UniqueFacts ==
  ASSUME NEW T, NEW s \in Seq(T)
  PROVE  /\ YouTube!Unique(s) \in Seq(T)
         /\ YouTube!ToSet(YouTube!Unique(s)) = YouTube!ToSet(s)
         /\ \A a, b : YouTube!Before(YouTube!Unique(s), a, b) => a # b /\ YouTube!Before(s, a, b)
<1> DEFINE first == {i \in DOMAIN s : \A j \in 1 .. i - 1 : s[j] # s[i]}
           all == [i \in DOMAIN s |-> i]
           places == YouTube!Only(all, first)
           u == [k \in DOMAIN places |-> s[places[k]]]
<1>1. Len(s) \in Nat /\ DOMAIN s = 1 .. Len(s) /\ \A i \in 1 .. Len(s) : s[i] \in T
  BY LenProperties, ElementOfSeq
<1>2. all \in Seq(1 .. Len(s)) /\ Len(all) = Len(s) /\ \A i \in 1 .. Len(s) : all[i] = i
  BY <1>1
<1>3. places \in Seq(1 .. Len(s)) /\ Sifted(places, all, first, Len(s))
  <2> HIDE DEF all, first
  <2> QED BY <1>2, OnlyFacts
<1>4. Len(places) \in Nat /\ DOMAIN places = 1 .. Len(places)
      /\ \A k \in 1 .. Len(places) : places[k] \in 1 .. Len(s)
  <2> HIDE DEF places
  <2> QED BY <1>3, LenProperties, ElementOfSeq
<1>5. YouTube!Unique(s) = u
  BY DEF YouTube!Unique
<1>6. u \in Seq(T) /\ DOMAIN u = 1 .. Len(places)
  <2> HIDE DEF places
  <2> QED BY <1>1, <1>4
<1>7. \A k \in 1 .. Len(places) : places[k] \in first
  <2> HIDE DEF places, all, first
  <2> QED BY <1>3 DEF Sifted
<1>8. ASSUME NEW i \in first PROVE \E k \in 1 .. Len(places) : places[k] = i
  <2>1. i \in 1 .. Len(s)
    BY <1>1
  <2>2. PICK f : f = first
    OBVIOUS
  <2>3. Sifted(places, all, f, Len(s)) /\ i \in f
    BY <1>3, <1>8, <2>2
  <2> HIDE DEF places, all, first
  <2>4. all[i] = i
    BY <1>2, <2>1
  <2> QED BY <2>1, <2>3, <2>4 DEF Sifted
<1>9. ASSUME NEW k \in 1 .. Len(places), NEW l \in 1 .. Len(places), k < l
      PROVE  places[k] < places[l]
  <2> HIDE DEF places, all, first
  <2>1. PICK i \in 1 .. Len(s), j \in 1 .. Len(s) :
           i < j /\ all[i] = places[k] /\ all[j] = places[l]
    BY <1>3, <1>9 DEF Sifted
  <2> QED BY <1>2, <2>1
<1>10. ASSUME NEW i \in 1 .. Len(s) PROVE \E n \in first : s[n] = s[i]
  <2> DEFINE same == {j \in 1 .. Len(s) : s[j] = s[i]}
  <2>1. same \subseteq Nat /\ same # {}
    BY <1>1
  <2>2. PICK n \in same : \A j \in same : n <= j
    <3> HIDE DEF same
    <3> QED BY <2>1, LeastExists
  <2>3. n \in 1 .. Len(s) /\ s[n] = s[i]
    BY <2>2
  <2>4. ASSUME NEW j \in 1 .. n - 1 PROVE s[j] # s[n]
    <3>1. j \in 1 .. Len(s) /\ ~(n <= j)
      BY <1>1, <2>3
    <3> QED BY <2>2, <2>3, <3>1
  <2> QED BY <1>1, <2>3, <2>4
<1>11. YouTube!ToSet(u) = YouTube!ToSet(s)
  <2>1. ASSUME NEW k \in DOMAIN u PROVE u[k] \in YouTube!ToSet(s)
    <3> HIDE DEF places
    <3> QED BY <1>1, <1>4, <1>6, <2>1 DEF YouTube!ToSet
  <2>2. ASSUME NEW i \in 1 .. Len(s) PROVE \E k \in DOMAIN u : u[k] = s[i]
    <3>1. PICK n \in first : s[n] = s[i]
      BY <1>10
    <3>2. PICK k \in 1 .. Len(places) : places[k] = n
      BY <1>8
    <3> HIDE DEF places, first
    <3> QED BY <1>4, <1>6, <3>1, <3>2
  <2> HIDE DEF u
  <2> QED BY <1>1, <2>1, <2>2 DEF YouTube!ToSet
<1>12. ASSUME NEW k \in DOMAIN u, NEW l \in DOMAIN u, k < l
       PROVE  u[k] # u[l] /\ YouTube!Before(s, u[k], u[l])
  <2>1. places[k] < places[l] /\ places[k] \in 1 .. Len(s) /\ places[l] \in first
    <3> HIDE DEF places, first, u
    <3> QED BY <1>4, <1>6, <1>7, <1>9, <1>12
  <2>2. places[l] \in 1 .. Len(s)
    <3> HIDE DEF places, first, u
    <3> QED BY <1>4, <1>6
  <2>3. places[k] \in 1 .. places[l] - 1
    <3> HIDE DEF places, first, u
    <3> QED BY <1>1, <2>1, <2>2
  <2>4. s[places[k]] # s[places[l]]
    <3> HIDE DEF places, u
    <3> QED BY <2>1, <2>3
  <2>5. u[k] = s[places[k]] /\ u[l] = s[places[l]] /\ places[k] \in DOMAIN s /\ places[l] \in DOMAIN s
    <3> HIDE DEF places
    <3> QED BY <1>1, <1>4, <1>6
  <2> HIDE DEF places, u
  <2> QED BY <2>1, <2>4, <2>5 DEF YouTube!Before
<1> HIDE DEF u
<1> QED BY <1>5, <1>6, <1>11, <1>12 DEF YouTube!Before

LEMMA Joined ==
  ASSUME NEW T, NEW s \in Seq(T), NEW t \in Seq(T)
  PROVE  /\ s \o t \in Seq(T)
         /\ YouTube!ToSet(s \o t) = YouTube!ToSet(s) \cup YouTube!ToSet(t)
         /\ \A a, b : YouTube!Before(s \o t, a, b)
                     => \/ YouTube!Before(s, a, b) \/ YouTube!Before(t, a, b)
                        \/ a \in YouTube!ToSet(s) /\ b \in YouTube!ToSet(t)
         /\ \A a, b : YouTube!Before(s, a, b) => YouTube!Before(s \o t, a, b)
<1> DEFINE st == s \o t
<1>1. /\ st \in Seq(T) /\ Len(st) = Len(s) + Len(t) /\ Len(s) \in Nat /\ Len(t) \in Nat
      /\ DOMAIN s = 1 .. Len(s) /\ DOMAIN t = 1 .. Len(t) /\ DOMAIN st = 1 .. Len(s) + Len(t)
  BY ConcatProperties, LenProperties
<1>2. \A i \in 1 .. Len(s) : i \in DOMAIN st /\ st[i] = s[i]
  BY <1>1, ConcatProperties
<1>3. \A i \in 1 .. Len(t) : Len(s) + i \in DOMAIN st /\ st[Len(s) + i] = t[i]
  BY <1>1, ConcatProperties
<1>4. ASSUME NEW i \in DOMAIN st, i \notin 1 .. Len(s)
      PROVE  i - Len(s) \in 1 .. Len(t) /\ i = Len(s) + (i - Len(s))
  BY <1>1, <1>4
<1> HIDE DEF st
<1>5. ASSUME NEW i \in DOMAIN st, i \notin 1 .. Len(s)
      PROVE  i - Len(s) \in 1 .. Len(t) /\ st[i] = t[i - Len(s)]
  BY <1>3, <1>4, <1>5
<1>6. YouTube!ToSet(st) = YouTube!ToSet(s) \cup YouTube!ToSet(t)
  <2>1. ASSUME NEW i \in DOMAIN st PROVE st[i] \in YouTube!ToSet(s) \cup YouTube!ToSet(t)
    BY <1>1, <1>2, <1>5 DEF YouTube!ToSet
  <2>2. \A i \in DOMAIN s : s[i] \in YouTube!ToSet(st)
    BY <1>1, <1>2 DEF YouTube!ToSet
  <2>3. \A i \in DOMAIN t : t[i] \in YouTube!ToSet(st)
    BY <1>1, <1>3 DEF YouTube!ToSet
  <2> QED BY <2>1, <2>2, <2>3 DEF YouTube!ToSet
<1>7. ASSUME NEW i \in DOMAIN st, NEW j \in DOMAIN st, i < j
      PROVE  \/ YouTube!Before(s, st[i], st[j]) \/ YouTube!Before(t, st[i], st[j])
             \/ st[i] \in YouTube!ToSet(s) /\ st[j] \in YouTube!ToSet(t)
  <2>1. CASE j \in 1 .. Len(s)
    <3>1. i \in 1 .. Len(s)
      BY <1>1, <1>7, <2>1
    <3> QED BY <1>1, <1>2, <1>7, <2>1, <3>1 DEF YouTube!Before
  <2>2. CASE j \notin 1 .. Len(s) /\ i \in 1 .. Len(s)
    BY <1>1, <1>2, <1>5, <2>2 DEF YouTube!ToSet
  <2>3. CASE j \notin 1 .. Len(s) /\ i \notin 1 .. Len(s)
    <3>1. PICK k \in DOMAIN t : k = i - Len(s) /\ st[i] = t[k]
      BY <1>1, <1>5, <2>3
    <3>2. PICK l \in DOMAIN t : l = j - Len(s) /\ st[j] = t[l]
      BY <1>1, <1>5, <2>3
    <3>3. k < l
      BY <1>1, <1>7, <3>1, <3>2
    <3> QED BY <3>1, <3>2, <3>3 DEF YouTube!Before
  <2> QED BY <2>1, <2>2, <2>3
<1>8. \A a, b : YouTube!Before(s, a, b) => YouTube!Before(st, a, b)
  BY <1>1, <1>2 DEF YouTube!Before
<1>9. \A a, b : YouTube!Before(st, a, b)
                     => \/ YouTube!Before(s, a, b) \/ YouTube!Before(t, a, b)
                        \/ a \in YouTube!ToSet(s) /\ b \in YouTube!ToSet(t)
  <2>1. SUFFICES ASSUME NEW a, NEW b, YouTube!Before(st, a, b)
                 PROVE  \/ YouTube!Before(s, a, b) \/ YouTube!Before(t, a, b)
                        \/ a \in YouTube!ToSet(s) /\ b \in YouTube!ToSet(t)
    OBVIOUS
  <2>2. PICK i \in DOMAIN st, j \in DOMAIN st : i < j /\ st[i] = a /\ st[j] = b
    BY <2>1 DEF YouTube!Before
  <2> QED BY <1>7, <2>2
<1> QED BY <1>1, <1>6, <1>8, <1>9 DEF st

LEMMA BeforeIsIn ==
  ASSUME NEW s, NEW a, NEW b, YouTube!Before(s, a, b)
  PROVE  a \in YouTube!ToSet(s) /\ b \in YouTube!ToSet(s)
BY DEF YouTube!Before, YouTube!ToSet

-----------------------------------------------------------------------------
Requests ==
  [op : {"search", "list", "name", "url", "stream"}, client : YouTube!ClientNames]

LEMMA AskFacts ==
  ASSUME NEW what \in {"search", "list", "name", "url", "stream"}, NEW s \in Seq(YouTube!ClientNames)
  PROVE  /\ YouTube!Ask(what, s) \in Seq(Requests)
         /\ \A e : e \in YouTube!ToSet(YouTube!Ask(what, s))
                   => e \in Requests /\ e.op = what /\ e.client \in YouTube!ToSet(s)
         /\ \A c \in YouTube!ToSet(s) :
              [op |-> what, client |-> c] \in YouTube!ToSet(YouTube!Ask(what, s))
         /\ \A e, f : YouTube!Before(YouTube!Ask(what, s), e, f)
                     => e.op = what /\ f.op = what /\ YouTube!Before(s, e.client, f.client)
<1>1. Len(s) \in Nat /\ DOMAIN s = 1 .. Len(s) /\ \A i \in 1 .. Len(s) : s[i] \in YouTube!ClientNames
  BY LenProperties, ElementOfSeq
<1>2. PICK q : q = [i \in DOMAIN s |-> [op |-> what, client |-> s[i]]]
  OBVIOUS
<1>3. /\ q \in Seq(Requests) /\ DOMAIN q = 1 .. Len(s)
      /\ \A i \in 1 .. Len(s) : q[i] = [op |-> what, client |-> s[i]]
  BY <1>1, <1>2 DEF Requests
<1>4. YouTube!Ask(what, s) = q
  BY <1>2 DEF YouTube!Ask
<1>5. \A e : e \in YouTube!ToSet(q) => e \in Requests /\ e.op = what /\ e.client \in YouTube!ToSet(s)
  BY <1>1, <1>3 DEF YouTube!ToSet, Requests
<1>6. \A c \in YouTube!ToSet(s) : [op |-> what, client |-> c] \in YouTube!ToSet(q)
  BY <1>1, <1>3 DEF YouTube!ToSet
<1>7. \A e, f : YouTube!Before(q, e, f)
                     => e.op = what /\ f.op = what /\ YouTube!Before(s, e.client, f.client)
  <2>1. SUFFICES ASSUME NEW e, NEW f, YouTube!Before(q, e, f)
                 PROVE  e.op = what /\ f.op = what /\ YouTube!Before(s, e.client, f.client)
    OBVIOUS
  <2>2. PICK i \in 1 .. Len(s), j \in 1 .. Len(s) : i < j /\ q[i] = e /\ q[j] = f
    BY <1>3, <2>1 DEF YouTube!Before
  <2>3. e.op = what /\ f.op = what /\ e.client = s[i] /\ f.client = s[j]
    BY <1>3, <2>2
  <2> QED BY <1>1, <2>2, <2>3 DEF YouTube!Before
<1> QED BY <1>3, <1>4, <1>5, <1>6, <1>7

LEMMA Prioritized ==
  ASSUME NEW s \in Seq(YouTube!ClientNames), NEW music
  PROVE  /\ YouTube!prioritize_clients(s, music) \in Seq(YouTube!ClientNames)
         /\ YouTube!ToSet(YouTube!prioritize_clients(s, music)) = YouTube!ToSet(s)
         /\ \A a : YouTube!Before(YouTube!prioritize_clients(s, music), a, a)
                  => YouTube!Before(s, a, a)
<1>1. PICK m : m = YouTube!Only(s, YouTube!Music)
  OBVIOUS
<1>2. PICK r : r = YouTube!Less(s, YouTube!Music)
  OBVIOUS
<1>3. /\ m \in Seq(YouTube!ClientNames)
      /\ YouTube!ToSet(m) = YouTube!ToSet(s) \cap YouTube!Music
      /\ \A a : YouTube!Before(m, a, a) => YouTube!Before(s, a, a)
  BY <1>1, OnlySifts
<1>4. /\ r \in Seq(YouTube!ClientNames)
      /\ YouTube!ToSet(r) = YouTube!ToSet(s) \ YouTube!Music
      /\ \A a : YouTube!Before(r, a, a) => YouTube!Before(s, a, a)
  BY <1>2, LessSifts
<1>5. CASE music
  <2>1. YouTube!prioritize_clients(s, music) = m \o r
    BY <1>1, <1>2, <1>5 DEF YouTube!prioritize_clients
  <2>2. /\ m \o r \in Seq(YouTube!ClientNames)
        /\ YouTube!ToSet(m \o r) = YouTube!ToSet(m) \cup YouTube!ToSet(r)
        /\ \A a : YouTube!Before(m \o r, a, a)
                 => \/ YouTube!Before(m, a, a) \/ YouTube!Before(r, a, a)
                    \/ a \in YouTube!ToSet(m) /\ a \in YouTube!ToSet(r)
    BY <1>3, <1>4, Joined
  <2> QED BY <1>3, <1>4, <2>1, <2>2
<1>6. CASE ~music
  <2>1. YouTube!prioritize_clients(s, music) = r \o m
    BY <1>1, <1>2, <1>6 DEF YouTube!prioritize_clients
  <2>2. /\ r \o m \in Seq(YouTube!ClientNames)
        /\ YouTube!ToSet(r \o m) = YouTube!ToSet(r) \cup YouTube!ToSet(m)
        /\ \A a : YouTube!Before(r \o m, a, a)
                 => \/ YouTube!Before(r, a, a) \/ YouTube!Before(m, a, a)
                    \/ a \in YouTube!ToSet(r) /\ a \in YouTube!ToSet(m)
    BY <1>3, <1>4, Joined
  <2> QED BY <1>3, <1>4, <2>1, <2>2
<1> QED BY <1>5, <1>6

LEMMA PoolFacts ==
  ASSUME pools \in Pools
  PROVE  /\ pools.search \in Seq(YouTube!ClientNames)
         /\ pools.resolve \in Seq(YouTube!ClientNames)
         /\ pools.playback \in Seq(YouTube!ClientNames)
<1>1. pools \in [{"search", "playback", "resolve"} -> Seq(YouTube!ClientNames)]
  BY PartsAssumption DEF YouTube!YoutubeAssumption
<1> QED BY <1>1

LEMMA FallbackFacts ==
  ASSUME pools \in Pools, NEW tried \in Seq(YouTube!ClientNames), NEW music
  PROVE  /\ YouTube!fallback_clients(pools, tried, music) \in Seq(YouTube!ClientNames)
         /\ YouTube!ToSet(YouTube!fallback_clients(pools, tried, music))
              = YouTube!Everyone \ YouTube!ToSet(tried)
         /\ \A a : ~YouTube!Before(YouTube!fallback_clients(pools, tried, music), a, a)
<1>1. PICK rp : rp = pools.resolve \o pools.playback
  OBVIOUS
<1>2. PICK all : all = rp \o pools.search
  OBVIOUS
<1>3. /\ rp \in Seq(YouTube!ClientNames)
      /\ YouTube!ToSet(rp) = YouTube!ToSet(pools.resolve) \cup YouTube!ToSet(pools.playback)
  BY <1>1, PoolFacts, Joined
<1>4. all \in Seq(YouTube!ClientNames) /\ YouTube!ToSet(all) = YouTube!Everyone
  BY <1>2, <1>3, PoolFacts, Joined DEF YouTube!Everyone
<1>5. PICK u : u = YouTube!Unique(all)
  OBVIOUS
<1>6. /\ u \in Seq(YouTube!ClientNames) /\ YouTube!ToSet(u) = YouTube!Everyone
      /\ \A a : ~YouTube!Before(u, a, a)
  BY <1>4, <1>5, UniqueFacts
<1>7. PICK other : other = YouTube!Less(u, YouTube!ToSet(tried))
  OBVIOUS
<1>8. /\ other \in Seq(YouTube!ClientNames)
      /\ YouTube!ToSet(other) = YouTube!Everyone \ YouTube!ToSet(tried)
      /\ \A a : ~YouTube!Before(other, a, a)
  BY <1>6, <1>7, LessSifts
<1>9. YouTube!fallback_clients(pools, tried, music) = YouTube!prioritize_clients(other, music)
  BY <1>1, <1>2, <1>5, <1>7 DEF YouTube!fallback_clients
<1> QED BY <1>8, <1>9, Prioritized

-----------------------------------------------------------------------------
(* What is promised of a list of requests that may be cut short, and of    *)
(* one that is asked to its end.                                           *)
InTurn(list) ==
  \A a, b : YouTube!Before(list, a, b) /\ a.op = b.op =>
    /\ b.client \in YouTube!Own \ YouTube!Music
         => a.client \in YouTube!Own \/ (job.music /\ a.client \in YouTube!Music)
    /\ a.client = b.client =>
         \/ YouTube!Before(YouTube!OwnPool, a.client, a.client)
         \/ job.kind = "search" /\ job.music /\ a.client \in YouTube!Music
Covers(list, what, clients) ==
  \A c \in clients : [op |-> what, client |-> c] \in YouTube!ToSet(list)
Complete(list) ==
  /\ job.kind = "search" =>
       /\ Covers(list, "search", YouTube!Everyone)
       /\ job.music => Covers(list, "search", YouTube!ToSet(YouTube!MusicSearchers))
  /\ job.kind \in {"track", "playlist"} => Covers(list, "name", YouTube!Everyone)
  /\ job.kind = "playlist" => Covers(list, "list", YouTube!Everyone)
  /\ job.kind = "recommendations" => Covers(list, "list", YouTube!Own)
  /\ job.kind = "play" => Covers(list, "url", YouTube!Own)
  /\ job.kind = "stream" => Covers(list, "stream", YouTube!Own \ {"Web"})
Planned(list) ==
  /\ list \in Seq(Requests) /\ InTurn(list) /\ Complete(list)
  /\ \A e \in YouTube!ToSet(list) : e.op = "stream" => job.kind = "stream"

LEMMA SearchPlanned ==
  ASSUME pools \in Pools, job \in YouTube!Jobs, job.kind = "search"
  PROVE  Planned(YouTube!handle_search(pools, job.music))
<1>1. job.music \in BOOLEAN /\ YouTube!OwnPool = pools.search
  BY PartsAssumption DEF YouTube!Jobs, YouTube!OwnPool
<1>2. YouTube!Own = YouTube!ToSet(pools.search)
  BY <1>1 DEF YouTube!Own
<1>3. PICK searchers : searchers = YouTube!MusicSearchers
  OBVIOUS
<1>4. /\ searchers \in Seq(YouTube!ClientNames) /\ YouTube!ToSet(searchers) = YouTube!Music
  <2>1. searchers \in Seq(YouTube!ClientNames)
    BY <1>3 DEF YouTube!MusicSearchers, YouTube!ClientNames
  <2>2. DOMAIN searchers = {1, 2} /\ searchers[1] = "MusicAndroid" /\ searchers[2] = "MusicWeb"
    BY <1>3 DEF YouTube!MusicSearchers
  <2> QED BY <2>1, <2>2 DEF YouTube!ToSet, YouTube!Music
<1>5. PICK sr : sr = pools.search \o pools.resolve
  OBVIOUS
<1>6. PICK all : all = sr \o pools.playback
  OBVIOUS
<1>7. sr \in Seq(YouTube!ClientNames) /\ all \in Seq(YouTube!ClientNames)
  BY <1>5, <1>6, PoolFacts, Joined
<1>8. PICK more : more = YouTube!Only(all, YouTube!Music)
  OBVIOUS
<1>9. /\ more \in Seq(YouTube!ClientNames) /\ YouTube!ToSet(more) \subseteq YouTube!Music
  BY <1>7, <1>8, OnlySifts
<1>10. PICK listed : listed = searchers \o more
  OBVIOUS
<1>11. listed \in Seq(YouTube!ClientNames) /\ YouTube!ToSet(listed) = YouTube!Music
  <2>1. /\ listed \in Seq(YouTube!ClientNames)
        /\ YouTube!ToSet(listed) = YouTube!ToSet(searchers) \cup YouTube!ToSet(more)
    BY <1>4, <1>9, <1>10, Joined
  <2> QED BY <1>4, <1>9, <2>1
<1>12. PICK music : music = YouTube!Unique(listed)
  OBVIOUS
<1>13. /\ music \in Seq(YouTube!ClientNames) /\ YouTube!ToSet(music) = YouTube!Music
       /\ \A a : ~YouTube!Before(music, a, a)
  BY <1>11, <1>12, UniqueFacts
<1>14. PICK primary : primary = YouTube!Less(pools.search, YouTube!Music)
  OBVIOUS
<1>15. /\ primary \in Seq(YouTube!ClientNames)
       /\ YouTube!ToSet(primary) = YouTube!Own \ YouTube!Music
       /\ \A a : YouTube!Before(primary, a, a) => YouTube!Before(YouTube!OwnPool, a, a)
  BY <1>1, <1>2, <1>14, PoolFacts, LessSifts
<1>16. PICK others : others = YouTube!fallback_clients(pools, primary, FALSE)
  OBVIOUS
<1>17. /\ others \in Seq(YouTube!ClientNames)
       /\ YouTube!ToSet(others) = YouTube!Everyone \ YouTube!ToSet(primary)
       /\ \A a : ~YouTube!Before(others, a, a)
  BY <1>15, <1>16, FallbackFacts
<1>18. PICK m : m = IF job.music THEN YouTube!Ask("search", music) ELSE <<>>
  OBVIOUS
<1>19. /\ m \in Seq(Requests)
       /\ \A e \in YouTube!ToSet(m) : e.op = "search" /\ job.music /\ e.client \in YouTube!Music
       /\ job.music => Covers(m, "search", YouTube!Music)
       /\ \A a, b : YouTube!Before(m, a, b) => YouTube!Before(music, a.client, b.client)
  <2>1. CASE job.music
    <3>1. m = YouTube!Ask("search", music)
      BY <1>18, <2>1
    <3> QED BY <1>13, <2>1, <3>1, AskFacts DEF Covers
  <2>2. CASE ~job.music
    <3>1. m = <<>> /\ DOMAIN m = {}
      BY <1>18, <2>2
    <3> QED BY <2>2, <3>1 DEF YouTube!ToSet, YouTube!Before
  <2> QED BY <2>1, <2>2
<1>20. PICK p : p = YouTube!Ask("search", primary)
  OBVIOUS
<1>21. /\ p \in Seq(Requests)
       /\ \A e \in YouTube!ToSet(p) : e.op = "search" /\ e.client \in YouTube!Own \ YouTube!Music
       /\ Covers(p, "search", YouTube!Own \ YouTube!Music)
       /\ \A a, b : YouTube!Before(p, a, b) => YouTube!Before(primary, a.client, b.client)
  BY <1>15, <1>20, AskFacts DEF Covers
<1>22. PICK o : o = YouTube!Ask("search", others)
  OBVIOUS
<1>23. /\ o \in Seq(Requests)
       /\ \A e \in YouTube!ToSet(o) :
            e.op = "search" /\ e.client \in YouTube!Everyone \ (YouTube!Own \ YouTube!Music)
       /\ Covers(o, "search", YouTube!Everyone \ (YouTube!Own \ YouTube!Music))
       /\ \A a, b : YouTube!Before(o, a, b) => YouTube!Before(others, a.client, b.client)
  BY <1>15, <1>17, <1>22, AskFacts DEF Covers
<1>24. PICK mp : mp = m \o p
  OBVIOUS
<1>25. /\ mp \in Seq(Requests)
       /\ YouTube!ToSet(mp) = YouTube!ToSet(m) \cup YouTube!ToSet(p)
       /\ \A a, b : YouTube!Before(mp, a, b)
                   => \/ YouTube!Before(m, a, b) \/ YouTube!Before(p, a, b)
                      \/ a \in YouTube!ToSet(m) /\ b \in YouTube!ToSet(p)
  BY <1>19, <1>21, <1>24, Joined
<1>26. PICK l : l = mp \o o
  OBVIOUS
<1>27. /\ l \in Seq(Requests)
       /\ YouTube!ToSet(l) = YouTube!ToSet(mp) \cup YouTube!ToSet(o)
       /\ \A a, b : YouTube!Before(l, a, b)
                   => \/ YouTube!Before(mp, a, b) \/ YouTube!Before(o, a, b)
                      \/ a \in YouTube!ToSet(mp) /\ b \in YouTube!ToSet(o)
  BY <1>23, <1>25, <1>26, Joined
<1>28. YouTube!handle_search(pools, job.music) = l
  BY <1>3, <1>5, <1>6, <1>8, <1>10, <1>12, <1>14, <1>16, <1>18, <1>20, <1>22, <1>24, <1>26
     DEF YouTube!handle_search
<1>29. InTurn(l)
  <2>1. ASSUME NEW a, NEW b, YouTube!Before(l, a, b), b.client \in YouTube!Own \ YouTube!Music
        PROVE  a.client \in YouTube!Own \/ (job.music /\ a.client \in YouTube!Music)
    BY <1>19, <1>21, <1>23, <1>25, <1>27, <2>1, BeforeIsIn
  <2>2. ASSUME NEW a, NEW b, YouTube!Before(l, a, b), a.client = b.client
        PROVE  \/ YouTube!Before(YouTube!OwnPool, a.client, a.client)
               \/ job.kind = "search" /\ job.music /\ a.client \in YouTube!Music
    BY <1>13, <1>15, <1>17, <1>19, <1>21, <1>23, <1>25, <1>27, <2>2
  <2> QED BY <2>1, <2>2 DEF InTurn
<1>30. Complete(l)
  <2>1. Covers(l, "search", YouTube!Everyone)
    BY <1>21, <1>23, <1>25, <1>27 DEF Covers
  <2>2. job.music => Covers(l, "search", YouTube!ToSet(YouTube!MusicSearchers))
    BY <1>3, <1>4, <1>19, <1>25, <1>27 DEF Covers
  <2> QED BY <2>1, <2>2 DEF Complete
<1> QED BY <1>19, <1>21, <1>23, <1>25, <1>27, <1>28, <1>29, <1>30 DEF Planned

LEMMA OwnFacts ==
  ASSUME pools \in Pools, job \in YouTube!Jobs
  PROVE  /\ YouTube!OwnPool \in Seq(YouTube!ClientNames)
         /\ YouTube!Own = YouTube!ToSet(YouTube!OwnPool)
         /\ YouTube!Own \subseteq YouTube!Everyone
         /\ job.kind \in {"track", "playlist", "recommendations"} => YouTube!OwnPool = pools.resolve
         /\ job.kind \in {"play", "stream"} => YouTube!OwnPool = pools.playback
<1>1. job.kind \in {"search", "playlist", "play", "track", "recommendations", "stream"}
  BY DEF YouTube!Jobs
<1>2. CASE job.kind = "search"
  <2>1. YouTube!OwnPool = pools.search
    BY <1>2 DEF YouTube!OwnPool
  <2> QED BY <1>2, <2>1, PoolFacts DEF YouTube!Own, YouTube!Everyone
<1>3. CASE job.kind \in {"play", "stream"}
  <2>1. YouTube!OwnPool = pools.playback
    BY <1>3 DEF YouTube!OwnPool
  <2> QED BY <1>3, <2>1, PoolFacts DEF YouTube!Own, YouTube!Everyone
<1>4. CASE job.kind \in {"track", "playlist", "recommendations"}
  <2>1. YouTube!OwnPool = pools.resolve
    BY <1>4 DEF YouTube!OwnPool
  <2> QED BY <1>4, <2>1, PoolFacts DEF YouTube!Own, YouTube!Everyone
<1> QED BY <1>1, <1>2, <1>3, <1>4

(* One pool that is asked one thing, in the order of the pool or another.  *)
LEMMA OnePoolPlanned ==
  ASSUME pools \in Pools, job \in YouTube!Jobs,
         NEW what \in {"list", "url", "stream"}, NEW s \in Seq(YouTube!ClientNames),
         YouTube!ToSet(s) \subseteq YouTube!Own,
         \A a : YouTube!Before(s, a, a) => YouTube!Before(YouTube!OwnPool, a, a)
  PROVE  /\ YouTube!Ask(what, s) \in Seq(Requests) /\ InTurn(YouTube!Ask(what, s))
         /\ Covers(YouTube!Ask(what, s), what, YouTube!ToSet(s))
         /\ \A e \in YouTube!ToSet(YouTube!Ask(what, s)) : e.op = what
<1>1. PICK l : l = YouTube!Ask(what, s)
  OBVIOUS
<1>2. /\ l \in Seq(Requests)
      /\ \A e \in YouTube!ToSet(l) : e.op = what /\ e.client \in YouTube!Own
      /\ Covers(l, what, YouTube!ToSet(s))
      /\ \A a, b : YouTube!Before(l, a, b) => YouTube!Before(s, a.client, b.client)
  BY <1>1, AskFacts DEF Covers
<1>3. InTurn(l)
  BY <1>2, BeforeIsIn DEF InTurn
<1> QED BY <1>1, <1>2, <1>3

LEMMA TrackAsked ==
  ASSUME pools \in Pools, job \in YouTube!Jobs, job.kind \in {"track", "playlist"}
  PROVE  /\ YouTube!handle_track(pools) \in Seq(Requests) /\ InTurn(YouTube!handle_track(pools))
         /\ Covers(YouTube!handle_track(pools), "name", YouTube!Everyone)
         /\ \A e \in YouTube!ToSet(YouTube!handle_track(pools)) : e.op = "name"
<1>1. PICK own : own = pools.resolve
  OBVIOUS
<1>2. /\ own \in Seq(YouTube!ClientNames) /\ YouTube!ToSet(own) = YouTube!Own
      /\ YouTube!OwnPool = own /\ YouTube!Own \subseteq YouTube!Everyone
  BY <1>1, OwnFacts
<1>3. PICK others : others = YouTube!fallback_clients(pools, own, FALSE)
  OBVIOUS
<1>4. /\ others \in Seq(YouTube!ClientNames)
      /\ YouTube!ToSet(others) = YouTube!Everyone \ YouTube!Own
      /\ \A a : ~YouTube!Before(others, a, a)
  BY <1>2, <1>3, FallbackFacts
<1>5. PICK first : first = YouTube!Ask("name", own)
  OBVIOUS
<1>6. /\ first \in Seq(Requests)
      /\ \A e \in YouTube!ToSet(first) : e.op = "name" /\ e.client \in YouTube!Own
      /\ Covers(first, "name", YouTube!Own)
      /\ \A a, b : YouTube!Before(first, a, b) => YouTube!Before(own, a.client, b.client)
  BY <1>2, <1>5, AskFacts DEF Covers
<1>7. PICK then : then = YouTube!Ask("name", others)
  OBVIOUS
<1>8. /\ then \in Seq(Requests)
      /\ \A e \in YouTube!ToSet(then) :
           e.op = "name" /\ e.client \in YouTube!Everyone \ YouTube!Own
      /\ Covers(then, "name", YouTube!Everyone \ YouTube!Own)
      /\ \A a, b : YouTube!Before(then, a, b) => YouTube!Before(others, a.client, b.client)
  BY <1>4, <1>7, AskFacts DEF Covers
<1>9. PICK l : l = first \o then
  OBVIOUS
<1>10. /\ l \in Seq(Requests)
       /\ YouTube!ToSet(l) = YouTube!ToSet(first) \cup YouTube!ToSet(then)
       /\ \A a, b : YouTube!Before(l, a, b)
                   => \/ YouTube!Before(first, a, b) \/ YouTube!Before(then, a, b)
                      \/ a \in YouTube!ToSet(first) /\ b \in YouTube!ToSet(then)
  BY <1>6, <1>8, <1>9, Joined
<1>11. YouTube!handle_track(pools) = l
  BY <1>1, <1>3, <1>5, <1>7, <1>9 DEF YouTube!handle_track
<1>12. InTurn(l)
  <2>1. ASSUME NEW a, NEW b, YouTube!Before(l, a, b), b.client \in YouTube!Own \ YouTube!Music
        PROVE  a.client \in YouTube!Own
    BY <1>6, <1>8, <1>10, <2>1, BeforeIsIn
  <2>2. ASSUME NEW a, NEW b, YouTube!Before(l, a, b), a.client = b.client
        PROVE  YouTube!Before(YouTube!OwnPool, a.client, a.client)
    BY <1>2, <1>4, <1>6, <1>8, <1>10, <2>2
  <2> QED BY <2>1, <2>2 DEF InTurn
<1>13. Covers(l, "name", YouTube!Everyone)
  BY <1>2, <1>6, <1>8, <1>10 DEF Covers
<1> QED BY <1>6, <1>8, <1>10, <1>11, <1>12, <1>13

LEMMA PlaylistPlanned ==
  ASSUME pools \in Pools, job \in YouTube!Jobs, job.kind = "playlist"
  PROVE  Planned(YouTube!handle_playlist(pools, job.music))
<1>1. pools.resolve \in Seq(YouTube!ClientNames) /\ YouTube!ToSet(pools.resolve) = YouTube!Own
      /\ YouTube!Own \subseteq YouTube!Everyone
  BY OwnFacts
<1>2. PICK android : android = YouTube!Only(pools.resolve, {"Android"})
  OBVIOUS
<1>3. android \in Seq(YouTube!ClientNames) /\ YouTube!ToSet(android) \subseteq YouTube!Own
  BY <1>1, <1>2, OnlySifts
<1>4. PICK rest : rest = YouTube!prioritize_clients(pools.resolve, job.music)
  OBVIOUS
<1>5. rest \in Seq(YouTube!ClientNames) /\ YouTube!ToSet(rest) = YouTube!Own
  BY <1>1, <1>4, Prioritized
<1>6. PICK both : both = android \o rest
  OBVIOUS
<1>7. both \in Seq(YouTube!ClientNames) /\ YouTube!ToSet(both) = YouTube!Own
  <2>1. /\ both \in Seq(YouTube!ClientNames)
        /\ YouTube!ToSet(both) = YouTube!ToSet(android) \cup YouTube!ToSet(rest)
    BY <1>3, <1>5, <1>6, Joined
  <2> QED BY <1>3, <1>5, <2>1
<1>8. PICK own : own = YouTube!Unique(both)
  OBVIOUS
<1>9. own \in Seq(YouTube!ClientNames) /\ YouTube!ToSet(own) = YouTube!Own
  BY <1>7, <1>8, UniqueFacts
<1>10. PICK others : others = YouTube!fallback_clients(pools, own, job.music)
  OBVIOUS
<1>11. /\ others \in Seq(YouTube!ClientNames)
       /\ YouTube!ToSet(others) = YouTube!Everyone \ YouTube!Own
  BY <1>9, <1>10, FallbackFacts
<1>12. PICK listed : listed = own \o others
  OBVIOUS
<1>13. /\ listed \in Seq(YouTube!ClientNames)
       /\ YouTube!ToSet(listed) = YouTube!Own \cup (YouTube!Everyone \ YouTube!Own)
       /\ \A a, b : YouTube!Before(listed, a, b)
                   => \/ YouTube!Before(own, a, b) \/ YouTube!Before(others, a, b)
                      \/ a \in YouTube!Own /\ b \in YouTube!Everyone \ YouTube!Own
  BY <1>9, <1>11, <1>12, Joined
<1>14. PICK lists : lists = YouTube!Unique(listed)
  OBVIOUS
<1>15. /\ lists \in Seq(YouTube!ClientNames) /\ YouTube!ToSet(lists) = YouTube!Everyone
       /\ \A a, b : YouTube!Before(lists, a, b) => a # b /\ YouTube!Before(listed, a, b)
  BY <1>1, <1>13, <1>14, UniqueFacts
<1>16. PICK first : first = YouTube!Ask("list", lists)
  OBVIOUS
<1>17. /\ first \in Seq(Requests)
       /\ \A e \in YouTube!ToSet(first) : e.op = "list"
       /\ Covers(first, "list", YouTube!Everyone)
       /\ \A a, b : YouTube!Before(first, a, b) => YouTube!Before(lists, a.client, b.client)
  BY <1>15, <1>16, AskFacts DEF Covers
<1>18. PICK then : then = YouTube!handle_track(pools)
  OBVIOUS
<1>19. /\ then \in Seq(Requests) /\ InTurn(then) /\ Covers(then, "name", YouTube!Everyone)
       /\ \A e \in YouTube!ToSet(then) : e.op = "name"
  BY <1>18, TrackAsked
<1>20. PICK l : l = first \o then
  OBVIOUS
<1>21. /\ l \in Seq(Requests)
       /\ YouTube!ToSet(l) = YouTube!ToSet(first) \cup YouTube!ToSet(then)
       /\ \A a, b : YouTube!Before(l, a, b)
                   => \/ YouTube!Before(first, a, b) \/ YouTube!Before(then, a, b)
                      \/ a \in YouTube!ToSet(first) /\ b \in YouTube!ToSet(then)
  BY <1>17, <1>19, <1>20, Joined
<1>22. YouTube!handle_playlist(pools, job.music) = l
  BY <1>2, <1>4, <1>6, <1>8, <1>10, <1>12, <1>14, <1>16, <1>18, <1>20 DEF YouTube!handle_playlist
<1>23. InTurn(first)
  <2>1. ASSUME NEW a, NEW b, YouTube!Before(first, a, b), b.client \in YouTube!Own
        PROVE  a.client \in YouTube!Own
    <3>1. YouTube!Before(listed, a.client, b.client)
      BY <1>15, <1>17, <2>1
    <3> QED BY <1>9, <1>11, <1>13, <2>1, <3>1, BeforeIsIn
  <2>2. ASSUME NEW a, NEW b, YouTube!Before(first, a, b) PROVE a.client # b.client
    BY <1>15, <1>17, <2>2
  <2> QED BY <2>1, <2>2 DEF InTurn
<1>24. InTurn(l)
  BY <1>17, <1>19, <1>21, <1>23 DEF InTurn
<1>25. Complete(l)
  <2>1. Covers(l, "name", YouTube!Everyone) /\ Covers(l, "list", YouTube!Everyone)
    BY <1>17, <1>19, <1>21 DEF Covers
  <2> QED BY <2>1 DEF Complete
<1>26. \A e \in YouTube!ToSet(l) : e.op # "stream"
  BY <1>17, <1>19, <1>21
<1> QED BY <1>21, <1>22, <1>24, <1>25, <1>26 DEF Planned

LEMMA PlanFacts ==
  ASSUME pools \in Pools, job \in YouTube!Jobs
  PROVE  Planned(YouTube!Plan(pools, job))
<1>1. job.kind \in {"search", "playlist", "play", "track", "recommendations", "stream"}
  BY DEF YouTube!Jobs
<1>2. CASE job.kind = "search"
  <2>1. YouTube!Plan(pools, job) = YouTube!handle_search(pools, job.music)
    BY <1>2 DEF YouTube!Plan
  <2> QED BY <1>2, <2>1, SearchPlanned
<1>3. CASE job.kind = "playlist"
  <2>1. YouTube!Plan(pools, job) = YouTube!handle_playlist(pools, job.music)
    BY <1>3 DEF YouTube!Plan
  <2> QED BY <1>3, <2>1, PlaylistPlanned
<1>4. CASE job.kind = "track"
  <2>1. YouTube!Plan(pools, job) = YouTube!handle_track(pools)
    BY <1>4 DEF YouTube!Plan
  <2> QED BY <1>4, <2>1, TrackAsked DEF Planned, Complete
<1>5. CASE job.kind = "recommendations"
  <2>1. PICK s : s = YouTube!prioritize_clients(pools.resolve, TRUE)
    OBVIOUS
  <2>2. YouTube!Plan(pools, job) = YouTube!Ask("list", s)
    BY <1>5, <2>1 DEF YouTube!Plan, YouTube!handle_recommendations
  <2>3. YouTube!OwnPool = pools.resolve
    BY <1>5, OwnFacts
  <2>4. /\ s \in Seq(YouTube!ClientNames) /\ YouTube!ToSet(s) = YouTube!Own
        /\ \A a : YouTube!Before(s, a, a) => YouTube!Before(YouTube!OwnPool, a, a)
    BY <2>1, <2>3, OwnFacts, Prioritized
  <2> QED BY <1>5, <2>2, <2>4, OnePoolPlanned DEF Planned, Complete
<1>6. CASE job.kind = "play"
  <2>1. PICK s : s = YouTube!prioritize_clients(pools.playback, job.music)
    OBVIOUS
  <2>2. YouTube!Plan(pools, job) = YouTube!Ask("url", s)
    BY <1>6, <2>1 DEF YouTube!Plan, YouTube!get_track
  <2>3. YouTube!OwnPool = pools.playback
    BY <1>6, OwnFacts
  <2>4. /\ s \in Seq(YouTube!ClientNames) /\ YouTube!ToSet(s) = YouTube!Own
        /\ \A a : YouTube!Before(s, a, a) => YouTube!Before(YouTube!OwnPool, a, a)
    BY <2>1, <2>3, OwnFacts, Prioritized
  <2> QED BY <1>6, <2>2, <2>4, OnePoolPlanned DEF Planned, Complete
<1>7. CASE job.kind = "stream"
  <2>1. PICK s : s = YouTube!Less(pools.playback, {"Web"})
    OBVIOUS
  <2>2. YouTube!Plan(pools, job) = YouTube!Ask("stream", s)
    BY <1>7, <2>1 DEF YouTube!Plan, YouTube!stream
  <2>3. YouTube!OwnPool = pools.playback
    BY <1>7, OwnFacts
  <2>4. /\ s \in Seq(YouTube!ClientNames) /\ YouTube!ToSet(s) = YouTube!Own \ {"Web"}
        /\ \A a : YouTube!Before(s, a, a) => YouTube!Before(YouTube!OwnPool, a, a)
    BY <2>1, <2>3, OwnFacts, LessSifts
  <2> QED BY <1>7, <2>2, <2>4, OnePoolPlanned DEF Planned, Complete
<1> QED BY <1>1, <1>2, <1>3, <1>4, <1>5, <1>6, <1>7

-----------------------------------------------------------------------------
(* The format that is chosen                                               *)
LEMMA FirstOfFacts ==
  ASSUME NEW list \in FormatLists, NEW good, YouTube!FirstOf(list, good) # None
  PROVE  YouTube!FirstOf(list, good) \in YouTube!ToSet(list) \cap good
<1> DEFINE places == {i \in DOMAIN list : list[i] \in good}
<1>1. YouTube!FirstOf(list, good) = IF places = {} THEN None ELSE list[YouTube!Min(places)]
  BY DEF YouTube!FirstOf
<1>2. places # {}
  BY <1>1
<1>3. DOMAIN list \subseteq Nat
  BY PartsAssumption, LenProperties DEF YouTube!YoutubeAssumption
<1>4. \E x \in places : \A y \in places : x <= y
  BY <1>2, <1>3, LeastExists
<1>5. YouTube!Min(places) \in places
  BY <1>4 DEF YouTube!Min
<1> QED BY <1>1, <1>2, <1>5 DEF YouTube!ToSet

LEMMA BestFormat ==
  ASSUME NEW list \in FormatLists, NEW f, f = YouTube!select_best_audio_format(list), f # None
  PROVE  /\ f \in YouTube!ToSet(list) /\ (f.audio \/ f.itag = YouTube!ITAG_FALLBACK)
         /\ \A g \in YouTube!ToSet(list) : g.audio /\ g.itag = 251 => f.itag = 251
<1> DEFINE audio == {g \in YouTube!ToSet(list) : g.audio}
           preferred == {n \in DOMAIN YouTube!AUDIO_ITAG_PRIORITY :
                           \E g \in audio : g.itag = YouTube!AUDIO_ITAG_PRIORITY[n]}
           pictured == {g \in YouTube!ToSet(list) : g.itag = YouTube!ITAG_FALLBACK}
           most == YouTube!Min(preferred)
           opus == {g \in audio : g.itag = YouTube!AUDIO_ITAG_PRIORITY[most]}
           richest == {g \in audio : g.bitrate > 0 /\ \A h \in audio : h.bitrate <= g.bitrate}
<1>1. f = IF preferred # {} THEN YouTube!FirstOf(list, opus)
          ELSE IF pictured # {} THEN YouTube!FirstOf(list, pictured)
          ELSE YouTube!FirstOf(list, richest)
  BY DEF YouTube!select_best_audio_format
<1>2. DOMAIN YouTube!AUDIO_ITAG_PRIORITY = {1, 2, 3} /\ YouTube!AUDIO_ITAG_PRIORITY[1] = 251
  BY DEF YouTube!AUDIO_ITAG_PRIORITY
<1>3. CASE preferred # {}
  <2>1. \E x \in preferred : \A y \in preferred : x <= y
    <3>1. preferred \subseteq Nat
      BY <1>2
    <3> HIDE DEF preferred
    <3> QED BY <1>3, <3>1, LeastExists
  <2>2. most \in preferred /\ \A y \in preferred : most <= y
    BY <2>1 DEF YouTube!Min
  <2>3. f = YouTube!FirstOf(list, opus)
    BY <1>1, <1>3
  <2>4. f \in YouTube!ToSet(list) \cap opus
    <3> HIDE DEF opus
    <3> QED BY <2>3, FirstOfFacts
  <2>5. ASSUME NEW g \in audio, g.itag = 251 PROVE f.itag = 251
    <3>1. 1 \in preferred
      BY <1>2, <2>5
    <3>2. most = 1
      <4> HIDE DEF most
      <4> QED BY <1>2, <2>2, <3>1
    <3> QED BY <1>2, <2>4, <3>2
  <2> QED BY <2>4, <2>5
<1>4. CASE preferred = {} /\ pictured # {}
  <2>1. f = YouTube!FirstOf(list, pictured)
    BY <1>1, <1>4
  <2>2. f \in YouTube!ToSet(list) \cap pictured
    <3> HIDE DEF pictured
    <3> QED BY <2>1, FirstOfFacts
  <2>3. ~ \E g \in audio : g.itag = 251
    BY <1>2, <1>4
  <2> QED BY <2>2, <2>3
<1>5. CASE preferred = {} /\ pictured = {}
  <2>1. f = YouTube!FirstOf(list, richest)
    BY <1>1, <1>5
  <2>2. f \in YouTube!ToSet(list) \cap richest
    <3> HIDE DEF richest
    <3> QED BY <2>1, FirstOfFacts
  <2>3. ~ \E g \in audio : g.itag = 251
    BY <1>2, <1>5
  <2> QED BY <2>2, <2>3
<1> QED BY <1>3, <1>4, <1>5

-----------------------------------------------------------------------------
(* The clients that were asked are the first of the plan, those left to    *)
(* ask are the others, and a failure is reported when none is left.        *)
Sound(given) ==
  given.what = "format" /\ (job.kind = "play" \/ job.itag = None) =>
    /\ given.format.audio \/ given.format.itag = YouTube!ITAG_FALLBACK
    /\ \E list \in FormatLists :
         /\ given.format \in YouTube!ToSet(list)
         /\ \A f \in YouTube!ToSet(list) : f.audio /\ f.itag = 251 => given.format.itag = 251
ClientsInv ==
  /\ pools \in Pools /\ job \in YouTube!Jobs
  /\ asked \in Seq(Requests) /\ todo \in Seq(Requests)
  /\ answer = None => asked \o todo = YouTube!Plan(pools, job)
  /\ answer # None =>
       /\ \E rest \in Seq(Requests) : asked \o rest = YouTube!Plan(pools, job)
       /\ answer.what \in YouTube!Failures => asked = YouTube!Plan(pools, job)
       /\ Sound(answer)

LEMMA ClientsOrdered ==
  ASSUME ClientsInv
  PROVE  YouTube!ClientsInTurn
<1>1. Planned(YouTube!Plan(pools, job))
  BY PlanFacts DEF ClientsInv
<1>2. PICK rest \in Seq(Requests) : asked \o rest = YouTube!Plan(pools, job)
  BY DEF ClientsInv
<1>3. \A a, b : YouTube!Before(asked, a, b) => YouTube!Before(YouTube!Plan(pools, job), a, b)
  <2>1. asked \in Seq(Requests)
    BY DEF ClientsInv
  <2>2. \A a, b : YouTube!Before(asked, a, b) => YouTube!Before(asked \o rest, a, b)
    BY <2>1, Joined
  <2> QED BY <1>2, <2>2
<1>4. InTurn(asked)
  <2> HIDE DEF YouTube!Plan
  <2> QED BY <1>1, <1>3 DEF Planned, InTurn
<1>5. YouTube!ConfiguredFirst
  BY <1>4 DEF InTurn, YouTube!ConfiguredFirst
<1>6. YouTube!AskedOnce
  BY <1>4 DEF InTurn, YouTube!AskedOnce
<1>7. YouTube!SoundIsChosen
  BY DEF ClientsInv, Sound, YouTube!SoundIsChosen
<1>8. YouTube!NobodyIsLeftOut
  <2>1. SUFFICES ASSUME answer # None, answer.what \in YouTube!Failures
                 PROVE  YouTube!NobodyIsLeftOut
    BY DEF YouTube!NobodyIsLeftOut
  <2>2. Complete(asked)
    BY <1>1, <2>1 DEF ClientsInv, Planned
  <2>3. ASSUME NEW what, NEW clients, Covers(asked, what, clients)
        PROVE  clients \subseteq YouTube!Asked(what)
    <3>1. SUFFICES ASSUME NEW c \in clients PROVE c \in YouTube!Asked(what)
      OBVIOUS
    <3>2. [op |-> what, client |-> c] \in YouTube!ToSet(asked)
      BY <2>3 DEF Covers
    <3> QED BY <3>2 DEF YouTube!Asked
  <2> QED BY <2>2, <2>3 DEF Complete, YouTube!NobodyIsLeftOut
<1> QED BY <1>5, <1>6, <1>7, <1>8 DEF YouTube!ClientsInTurn

LEMMA ClientsInitInv == YouTube!Init => ClientsInv
<1> SUFFICES ASSUME YouTube!Init PROVE ClientsInv
  OBVIOUS
<1>1. pools \in Pools /\ job \in YouTube!Jobs /\ todo = YouTube!Plan(pools, job)
      /\ asked = <<>> /\ answer = None
  BY DEF YouTube!Init
<1>2. todo \in Seq(Requests)
  BY <1>1, PlanFacts DEF Planned
<1>3. asked \in Seq(Requests) /\ asked \o todo = todo
  BY <1>1, <1>2
<1> QED BY <1>1, <1>2, <1>3 DEF ClientsInv

LEMMA HeadMoves ==
  ASSUME NEW T, NEW s \in Seq(T), NEW t \in Seq(T), t # <<>>
  PROVE  /\ Append(s, Head(t)) \in Seq(T) /\ Tail(t) \in Seq(T)
         /\ Append(s, Head(t)) \o Tail(t) = s \o t
         /\ Head(t) \in YouTube!ToSet(s \o t)
<1>1. Append(s, Head(t)) \in Seq(T) /\ Tail(t) \in Seq(T) /\ Len(t) \in Nat \ {0}
  BY HeadTailProperties, AppendProperties, LenProperties, EmptySeq
<1>2. Append(s, Head(t)) \o Tail(t) = s \o t
  BY <1>1
<1>3. 1 \in DOMAIN t /\ Head(t) = t[1]
  BY <1>1
<1>4. YouTube!ToSet(s \o t) = YouTube!ToSet(s) \cup YouTube!ToSet(t)
  BY Joined
<1> QED BY <1>1, <1>2, <1>3, <1>4 DEF YouTube!ToSet

(* One more client is asked, and nothing is found or what is right.        *)
LEMMA AsksInv ==
  ASSUME ClientsInv, NEW got, YouTube!Asks(got),
         got # None => got.what \notin YouTube!Failures /\ Sound(got)
  PROVE  ClientsInv'
<1>1. /\ answer = None /\ todo # <<>> /\ asked' = Append(asked, Head(todo)) /\ answer' = got
      /\ todo' = (IF got = None THEN Tail(todo) ELSE <<>>)
      /\ pools' = pools /\ job' = job
  BY DEF YouTube!Asks, YouTube!NextAsked
<1>2. PICK plan : plan = YouTube!Plan(pools, job)
  OBVIOUS
<1>3. plan = YouTube!Plan(pools, job)'
  BY <1>1, <1>2
<1>4. /\ asked \in Seq(Requests) /\ todo \in Seq(Requests) /\ asked \o todo = plan
      /\ pools' \in Pools /\ job' \in YouTube!Jobs
  BY <1>1, <1>2 DEF ClientsInv
<1>5. /\ asked' \in Seq(Requests) /\ Tail(todo) \in Seq(Requests) /\ asked' \o Tail(todo) = plan
  BY <1>1, <1>4, HeadMoves
<1>6. todo' \in Seq(Requests)
  BY <1>1, <1>5
<1>7. answer' = None => asked' \o todo' = plan
  BY <1>1, <1>5
<1>8. answer' # None => Sound(answer)' /\ answer'.what \notin YouTube!Failures
  BY <1>1 DEF Sound
<1> QED BY <1>3, <1>4, <1>5, <1>6, <1>7, <1>8 DEF ClientsInv

LEMMA UrlOfFacts ==
  ASSUME NEW f, NEW cipher, NEW url, url = YouTube!UrlOf(f, cipher), url # None
  PROVE  f # None /\ url.what = "format" /\ url.format = f
BY DEF YouTube!UrlOf, YouTube!Reply

LEMMA BestIsSound ==
  ASSUME NEW list \in FormatLists, NEW cipher, NEW url,
         url = YouTube!UrlOf(YouTube!select_best_audio_format(list), cipher), url # None
  PROVE  Sound(url) /\ url.what \notin YouTube!Failures
<1>1. PICK f : f = YouTube!select_best_audio_format(list)
  OBVIOUS
<1>2. f # None /\ url.what = "format" /\ url.format = f
  BY <1>1, UrlOfFacts
<1> QED BY <1>1, <1>2, BestFormat DEF Sound, YouTube!Failures

LEMMA ResolvedInv == ASSUME ClientsInv, YouTube!Resolved PROVE ClientsInv'
<1>1. CASE YouTube!Asks(None)
  BY <1>1, AsksInv
<1>2. ASSUME NEW r \in YouTube!Answers, NEW cipher \in BOOLEAN,
             YouTube!Asks(YouTube!UrlFrom(YouTube!NextAsked.client, r, cipher))
      PROVE  ClientsInv'
  <2>1. PICK got : got = YouTube!UrlFrom(YouTube!NextAsked.client, r, cipher)
    OBVIOUS
  <2>2. ASSUME got # None PROVE got.what \notin YouTube!Failures /\ Sound(got)
    <3>1. r.formats # None /\ r.formats \in FormatLists
      BY <2>1, <2>2 DEF YouTube!UrlFrom, YouTube!Answers
    <3>2. CASE r.hls
      <4>1. got = YouTube!Reports("hls")
        BY <2>1, <2>2, <3>2 DEF YouTube!UrlFrom
      <4> QED BY <4>1 DEF YouTube!Reports, YouTube!Failures, Sound
    <3>3. CASE ~r.hls
      <4>1. got = YouTube!UrlOf(YouTube!select_best_audio_format(r.formats), cipher)
        BY <2>1, <2>2, <3>3 DEF YouTube!UrlFrom
      <4> QED BY <2>2, <3>1, <4>1, BestIsSound
    <3> QED BY <3>2, <3>3
  <2> QED BY <1>2, <2>1, <2>2, AsksInv
<1> QED BY <1>1, <1>2 DEF YouTube!Resolved

LEMMA StreamedInv == ASSUME ClientsInv, YouTube!Streamed PROVE ClientsInv'
<1>1. PICK list \in FormatLists, cipher \in BOOLEAN, upstream \in BOOLEAN :
        LET format == IF job.itag = None THEN YouTube!select_best_audio_format(list)
                      ELSE YouTube!FirstOf(list, {f \in YouTube!ToSet(list) : f.itag = job.itag})
            url == YouTube!UrlOf(format, cipher)
            passed == url # None /\ upstream
        IN YouTube!Asks(IF passed THEN url ELSE None)
  BY DEF YouTube!Streamed
<1>2. PICK format : format = IF job.itag = None THEN YouTube!select_best_audio_format(list)
                      ELSE YouTube!FirstOf(list, {f \in YouTube!ToSet(list) : f.itag = job.itag})
  OBVIOUS
<1>3. PICK got : got = IF YouTube!UrlOf(format, cipher) # None /\ upstream
                       THEN YouTube!UrlOf(format, cipher) ELSE None
  OBVIOUS
<1>4. YouTube!Asks(got)
  BY <1>1, <1>2, <1>3
<1>5. job.kind = "stream"
  <2>1. todo # <<>> /\ Head(todo).op = "stream" /\ answer = None
    BY <1>4 DEF YouTube!Streamed, YouTube!NextAsked, YouTube!Asks
  <2>2. Head(todo) \in YouTube!ToSet(YouTube!Plan(pools, job))
    <3>1. asked \in Seq(Requests) /\ todo \in Seq(Requests) /\ asked \o todo = YouTube!Plan(pools, job)
      BY <2>1 DEF ClientsInv
    <3>2. Head(todo) \in YouTube!ToSet(asked \o todo)
      BY <2>1, <3>1, HeadMoves
    <3> QED BY <3>1, <3>2
  <2>3. Planned(YouTube!Plan(pools, job))
    BY PlanFacts DEF ClientsInv
  <2> QED BY <2>1, <2>2, <2>3 DEF Planned
<1>6. ASSUME got # None PROVE got.what \notin YouTube!Failures /\ Sound(got)
  <2>1. got = YouTube!UrlOf(format, cipher)
    BY <1>3, <1>6
  <2>2. CASE job.itag = None
    BY <1>2, <1>6, <2>1, <2>2, BestIsSound
  <2>3. CASE job.itag # None
    <3>1. got.what = "format"
      BY <1>6, <2>1, UrlOfFacts
    <3> QED BY <1>5, <2>3, <3>1 DEF Sound, YouTube!Failures
  <2> QED BY <2>2, <2>3
<1> QED BY <1>4, <1>6, AsksInv

LEMMA GiveUpInv == ASSUME ClientsInv, YouTube!GiveUp PROVE ClientsInv'
<1>1. /\ answer = None /\ todo = <<>> /\ pools' = pools /\ job' = job /\ asked' = asked /\ todo' = todo
      /\ answer'.what \in YouTube!Failures
  BY DEF YouTube!GiveUp, YouTube!Reports, YouTube!Failures
<1>2. PICK plan : plan = YouTube!Plan(pools, job)
  OBVIOUS
<1>3. plan = YouTube!Plan(pools, job)'
  BY <1>1, <1>2
<1>4. /\ pools' \in Pools /\ job' \in YouTube!Jobs /\ asked' \in Seq(Requests)
      /\ todo' \in Seq(Requests) /\ asked' \o todo' = plan /\ asked' = plan
  BY <1>1, <1>2 DEF ClientsInv
<1>5. Sound(answer)'
  BY <1>1 DEF Sound, YouTube!Failures
<1> QED BY <1>3, <1>4, <1>5 DEF ClientsInv

LEMMA ClientsStepInv == ClientsInv /\ [YouTube!Next]_(YouTube!vars) => ClientsInv'
<1> SUFFICES ASSUME ClientsInv, [YouTube!Next]_(YouTube!vars) PROVE ClientsInv'
  OBVIOUS
<1>1. ASSUME NEW what \in {"tracks", "track"}, YouTube!Asks(YouTube!Reports(what)) PROVE ClientsInv'
  BY <1>1, AsksInv DEF YouTube!Reports, YouTube!Failures, Sound
<1>2. CASE YouTube!Asks(None)
  BY <1>2, AsksInv
<1>3. CASE YouTube!Searched
  BY <1>1, <1>2, <1>3 DEF YouTube!Searched
<1>4. CASE YouTube!Listed
  BY <1>1, <1>2, <1>4 DEF YouTube!Listed
<1>5. CASE YouTube!Named
  BY <1>1, <1>2, <1>5 DEF YouTube!Named
<1>6. CASE YouTube!Resolved
  BY <1>6, ResolvedInv
<1>7. CASE YouTube!NothingToStream
  BY <1>2, <1>7 DEF YouTube!NothingToStream
<1>8. CASE YouTube!Streamed
  BY <1>8, StreamedInv
<1>9. CASE YouTube!GiveUp
  BY <1>9, GiveUpInv
<1>10. CASE UNCHANGED YouTube!vars
  <2>1. pools' = pools /\ job' = job /\ asked' = asked /\ todo' = todo /\ answer' = answer
    BY <1>10 DEF YouTube!vars
  <2>2. YouTube!Plan(pools, job)' = YouTube!Plan(pools, job)
    BY <2>1
  <2> QED BY <2>1, <2>2 DEF ClientsInv, Sound
<1> QED BY <1>3, <1>4, <1>5, <1>6, <1>7, <1>8, <1>9, <1>10 DEF YouTube!Next

-----------------------------------------------------------------------------
(* The parts in one run                                                    *)
PartsInv ==
  /\ part = "clients" => ClientsInv
  /\ part = "tokens" => TokensInv
  /\ part = "search" => SearchInv
  /\ part = "lines" => LinesInv

LEMMA PartsInitInv == PartsInit => PartsInv
BY ClientsInitInv, TokensInitInv, SearchInitInv, LinesInitInv DEF PartsInit, PartsInv

LEMMA PartsStepInv == PartsInv /\ [PartsNext]_allVars => PartsInv'
<1> SUFFICES ASSUME PartsInv, [PartsNext]_allVars PROVE PartsInv'
  OBVIOUS
<1>1. CASE PlayerStep(Next)
  BY <1>1 DEF PlayerStep, PartsInv
<1>2. CASE ClientsStep(YouTube!Next)
  BY <1>2, ClientsStepInv DEF ClientsStep, PartsInv
<1>3. CASE ListsStep(Lists!Next)
  BY <1>3 DEF ListsStep, PartsInv
<1>4. CASE TokensStep(Tokens!Next)
  BY <1>4, TokensStepInv DEF TokensStep, PartsInv
<1>5. CASE SearchStep(Search!Next)
  BY <1>5, SearchStepInv DEF SearchStep, PartsInv
<1>6. CASE LinesStep(Lines!Next)
  BY <1>6, LinesStepInv DEF LinesStep, PartsInv
<1>7. CASE UNCHANGED allVars
  <2>1. /\ part' = part /\ UNCHANGED clientVars /\ UNCHANGED tokenVars
        /\ UNCHANGED searchVars /\ UNCHANGED tellVars
    BY <1>7 DEF allVars
  <2>2. /\ UNCHANGED (YouTube!vars) /\ UNCHANGED (Tokens!vars) /\ UNCHANGED (Search!vars) /\ UNCHANGED (Lines!vars)
    BY <2>1 DEF clientVars, tokenVars, searchVars, tellVars, YouTube!vars, Tokens!vars, Search!vars, Lines!vars
  <2> QED BY <2>1, <2>2, ClientsStepInv, TokensStepInv, SearchStepInv, LinesStepInv DEF PartsInv
<1> QED BY <1>1, <1>2, <1>3, <1>4, <1>5, <1>6, <1>7 DEF PartsNext

LEMMA PartsInvHolds == PartsSpec => []PartsInv
<1>1. PartsInit => PartsInv
  BY PartsInitInv
<1>2. PartsInv /\ [PartsNext]_allVars => PartsInv'
  BY PartsStepInv
<1> QED BY <1>1, <1>2, PTL DEF PartsSpec

(* youtube/mod.rs, clients/*, common.rs: the clients that are configured   *)
(* for the work are asked first and none is asked twice, nothing is        *)
(* reported as not found before all of them have been asked, and what      *)
(* plays has sound, Opus if there is any.                                  *)
THEOREM ClientsInTurnHolds == PartsSpec => []ClientsInTurn
<1>1. PartsInv => ClientsInTurn
  BY ClientsOrdered DEF PartsInv, ClientsInTurn
<1> QED BY <1>1, PartsInvHolds, PTL

(* sources/*/token.rs, youtube/oauth.rs: of the caches that hold their     *)
(* lock over the request, one asks at a time and the newest token is kept; *)
(* a token that a cache was told is refused is given to no later call;     *)
(* what comes from the cache of a service that states the life of its      *)
(* tokens is alive. Who does not tell the cache of a refusal, as VK has no *)
(* cookie and SoundCloud's searches and Amazon's requests to several       *)
(* regions do not, is given the token again.                               *)
THEOREM TokensInOrderHolds == PartsSpec => []TokensInOrder
<1>1. PartsInv => TokensInOrder
  BY TokensOrdered DEF PartsInv, TokensInOrder
<1> QED BY <1>1, PartsInvHolds, PTL

(* lyrics/mod.rs, manager/lyrics.rs: the best of the providers' answers is *)
(* found, and the client is told no line without the one before it, while  *)
(* the lines stay those that it subscribed to.                             *)
THEOREM LyricsFollowHolds == PartsSpec => []LyricsFollow
<1>1. PartsInv => LyricsFollow
  BY DEF PartsInv, LyricsFollow, SearchInv, LinesInv
<1> QED BY <1>1, PartsInvHolds, PTL
=============================================================================
