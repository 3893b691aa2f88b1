-------------------------------- MODULE MCParts --------------------------------
(* Parts that share no state, in one run: a player that is stopped and     *)
(* deleted, the clients of YouTube, what the sources' services are asked   *)
(* for, the tokens they need, and the search for lyrics and their telling. *)
(* A behaviour is of one part; the variables of the others are None.       *)
EXTENDS MCPlayerLifecycle, Sequences

CONSTANTS
  Callers, Accounts, Life, Margin, Kept, MaxNow, MaxCalls,  \* TokenCaches
  MaxItems, Page, MaxBad, Most, Concurrency,                \* Collections
  Pools, FormatLists,                                       \* YoutubeClients
  MaxProviders, MaxPosition, MaxSubscribed, MaxSeeks,       \* LyricsSearch, LyricsSync
  Lyrics,
  None

VARIABLES
  part,
  pools, job, todo, asked, broken, answer,
  service, limit, ways, left, pending, pages, lost, loaded,
  policy, now, granted, reported, cache, next, writer, readers, made, call,
  source, skip, race, fallback, found,
  playing, position, seeks, subscribed, times, resets, searches, lyrics_data, last_index,
  reading, heard, missed, replaced

playerVars ==
  <<present, track, track_info, track_handle, track_task, paused, started, state, decoding,
    stop_signal, end_marker, monitor, reason, aborted, at, op, events, dropped, cut>>
clientVars == <<pools, job, todo, asked, broken, answer>>
listVars == <<service, limit, ways, left, pending, pages, lost, loaded>>
tokenVars == <<policy, now, granted, reported, cache, next, writer, readers, made, call>>
searchVars == <<source, skip, race, fallback, found>>
tellVars ==
  <<playing, position, seeks, subscribed, times, resets, searches, lyrics_data, last_index,
    reading, heard, missed, replaced>>
othersVars == <<clientVars, listVars, tokenVars, searchVars, tellVars>>
allVars == <<part, playerVars, clientVars, listVars, tokenVars, searchVars, tellVars>>

-----------------------------------------------------------------------------
(* Clients in pools of one or two, in any order, one that is named twice,  *)
(* and those of the example configuration.                                 *)
Few == {"Android", "MusicWeb", "Web"}
Short == {<<a>> : a \in Few} \cup {p \in Few \X Few : p[1] # p[2]}
ClientPools ==
  [search : Short, resolve : Short,
   playback : {<<"TV">>, <<"MusicWeb", "AndroidVR">>, <<"Web", "IOS">>}]
  \cup {[search |-> <<"Web", "Web">>, resolve |-> <<"Android", "Android">>, playback |-> <<"TV", "TV">>],
        [search |-> <<"MusicAndroid", "MusicWeb", "Android", "Web">>,
         playback |-> <<"AndroidVR", "TVCast", "WebEmbedded", "TV", "Web", "IOS">>,
         resolve |-> <<"Web", "IOS", "MusicWeb", "Android", "TvEmbedded">>]}

(* No formats, sound with pictures only, sound of several kinds.           *)
Format(itag, audio, bitrate, url) ==
  [itag |-> itag, audio |-> audio, bitrate |-> bitrate, url |-> url]
FormatsGiven ==
  {<<>>,
   <<Format(18, FALSE, 3, "plain"), Format(140, TRUE, 1, "plain")>>,
   <<Format(140, TRUE, 1, "plain"), Format(251, TRUE, 2, "ciphered")>>,
   <<Format(18, FALSE, 3, "plain"), Format(137, FALSE, 9, "plain")>>,
   <<Format(139, TRUE, 1, "none"), Format(600, TRUE, 2, "plain")>>}

(* Nothing is found, or lyrics of two lines.                               *)
TwoLines == {None, <<0, 1>>}

YouTube == INSTANCE YoutubeClients
Lists == INSTANCE Collections WITH result <- loaded
Tokens == INSTANCE TokenCaches
Search == INSTANCE LyricsSearch
Lines == INSTANCE LyricsSync WITH track <- playing

ASSUME PartsAssumption ==
  /\ YouTube!YoutubeAssumption /\ Lists!CollectionsAssumption /\ Tokens!TokenCachesAssumption
  /\ Search!LyricsSearchAssumption /\ Lines!LyricsSyncAssumption

-----------------------------------------------------------------------------
NoPlayer ==
  /\ present = None /\ track = None /\ track_info = None /\ track_handle = None
  /\ track_task = None /\ paused = None /\ started = None /\ state = None /\ decoding = None
  /\ stop_signal = None /\ end_marker = None /\ monitor = None /\ reason = None
  /\ aborted = None /\ at = None /\ op = None /\ events = None /\ dropped = None /\ cut = None
NoClients ==
  pools = None /\ job = None /\ todo = None /\ asked = None /\ broken = None /\ answer = None
NoLists ==
  /\ service = None /\ limit = None /\ ways = None /\ left = None /\ pending = None
  /\ pages = None /\ lost = None /\ loaded = None
NoTokens ==
  /\ policy = None /\ now = None /\ granted = None /\ reported = None /\ cache = None
  /\ next = None /\ writer = None /\ readers = None /\ made = None /\ call = None
NoSearch == source = None /\ skip = None /\ race = None /\ fallback = None /\ found = None
NoLines ==
  /\ playing = None /\ position = None /\ seeks = None /\ subscribed = None /\ times = None
  /\ resets = None /\ searches = None /\ lyrics_data = None /\ last_index = None
  /\ reading = None /\ heard = None /\ missed = None /\ replaced = None

PartsInit ==
  /\ part \in {"player", "clients", "lists", "tokens", "search", "lines"}
  /\ IF part = "player" THEN Init ELSE NoPlayer
  /\ IF part = "clients" THEN YouTube!Init ELSE NoClients
  /\ IF part = "lists" THEN Lists!Init ELSE NoLists
  /\ IF part = "tokens" THEN Tokens!Init ELSE NoTokens
  /\ IF part = "search" THEN Search!Init ELSE NoSearch
  /\ IF part = "lines" THEN Lines!Init ELSE NoLines

PlayerStep(A) ==
  part = "player" /\ A /\ UNCHANGED <<part, clientVars, listVars, tokenVars, searchVars, tellVars>>
ClientsStep(A) ==
  part = "clients" /\ A /\ UNCHANGED <<part, playerVars, listVars, tokenVars, searchVars, tellVars>>
ListsStep(A) ==
  part = "lists" /\ A /\ UNCHANGED <<part, playerVars, clientVars, tokenVars, searchVars, tellVars>>
TokensStep(A) ==
  part = "tokens" /\ A /\ UNCHANGED <<part, playerVars, clientVars, listVars, searchVars, tellVars>>
SearchStep(A) ==
  part = "search" /\ A /\ UNCHANGED <<part, playerVars, clientVars, listVars, tokenVars, tellVars>>
LinesStep(A) ==
  part = "lines" /\ A /\ UNCHANGED <<part, playerVars, clientVars, listVars, tokenVars, searchVars>>

PartsNext ==
  \/ PlayerStep(Next) \/ ClientsStep(YouTube!Next) \/ ListsStep(Lists!Next)
  \/ TokensStep(Tokens!Next) \/ SearchStep(Search!Next) \/ LinesStep(Lines!Next)

(* The fairness of each part. A behaviour is of one part, so that one      *)
(* condition may speak of several parts at once. Every step of an actor    *)
(* changes the variables in the subscript of its condition.                *)
PartsSpec ==
  /\ PartsInit /\ [][PartsNext]_allVars
  /\ \A a \in Patch \cup Ws : WF_op(PlayerStep(Holder(a)))
  /\ \A t \in Track :
       /\ WF_monitor(PlayerStep(MonStep(t))) /\ WF_monitor(PlayerStep(MonTick(t)))
       /\ SF_monitor(PlayerStep(MonClear(t)))
  /\ WF_othersVars(\/ ClientsStep(YouTube!Next) \/ ListsStep(Lists!Next)
                   \/ SearchStep(Search!Next)
                   \/ TokensStep(\E c \in Callers : Tokens!Proceeds(c))
                   \/ LinesStep(Lines!Resets))
  /\ WF_reading(LinesStep(Lines!SyncReads)) /\ WF_reading(LinesStep(Lines!SyncTells))
  /\ WF_searches(LinesStep(\E s \in searches :
       Lines!SearchRuns(s) \/ Lines!SearchFinds(s) \/ Lines!SearchTells(s)))

-----------------------------------------------------------------------------
(* youtube/mod.rs: the clients are asked in the order that is configured.  *)
ClientsInTurn == part = "clients" => YouTube!ClientsInTurn

(* sources/*: what is loaded is the service's list, as far as was asked.   *)
ListedAsAsked == part = "lists" => Lists!ListedAsAsked

(* sources/*/token.rs: the promises of the caches.                         *)
TokensInOrder == part = "tokens" => Tokens!TokensInOrder

(* lyrics/mod.rs and lyrics.rs: the best lyrics are found, and none of     *)
(* their lines is missed.                                                  *)
LyricsFollow ==
  /\ part = "search" => Search!BestIsFound
  /\ part = "lines" => Lines!NoLineMissed

(* monitor.rs: every end of a track is reported. Every load, search and    *)
(* call comes to its end, and the lyrics catch up with the sound.          *)
PartsMoveOn ==
  []<>(/\ part = "player" => EndsAreReported
       /\ part = "clients" => YouTube!Answered
       /\ part = "lists" => Lists!Loaded
       /\ part = "tokens" => Tokens!AnsweredUnlessCrossed
       /\ part = "search" => Search!Found
       /\ part = "lines" => Lines!CaughtUp)

(* By hand: youtube/oauth.rs answers, too.                                 *)
TokensCome == []<>(part = "tokens" => Tokens!Answered)
LinesAreTimed == part = "search" => Search!LinesAreTimed
SourceIsSkipped == part = "search" => Search!SourceIsSkipped
LinesOfTheTrack == part = "lines" => Lines!LinesOfTheTrack
LineAfterLyrics == part = "lines" => Lines!LineAfterLyrics
=============================================================================
