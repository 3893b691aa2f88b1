---------------------------- MODULE YoutubeClients ----------------------------
(***************************************************************************)
(* How the YouTube source asks its InnerTube clients: who is asked for a   *)
(* search, a playlist, a track's data, its URL or a stream, in which       *)
(* order, what of an answer each client accepts, and when it gives up.     *)
(*                                                                         *)
(* Sources: src/sources/youtube/mod.rs (handle_search, handle_url,         *)
(* handle_recommendations, get_track, fallback_clients), clients/*.rs,     *)
(* clients/common.rs, extractor.rs, cipher.rs; the loop of track.rs; and   *)
(* rest/routes/youtube.rs. Requests are made one at a time. What YouTube   *)
(* and the cipher server answer is arbitrary and differs between requests. *)
(***************************************************************************)
EXTENDS Naturals, Sequences, SequencesExt, FiniteSetsExt

CONSTANTS
  Pools,       \* bound: the configurations of the clients
  FormatLists, \* bound: the lists of formats in an answer
  None

(* What is reported.                                                       *)
Failures == {"empty", "bad request", "internal server error"}
Outcomes ==
  [what : Failures \cup {"tracks", "track", "hls", "format"},
   format : {None} \cup UNION {ToSet(list) : list \in FormatLists}]

ClientNames ==
  {"Android", "AndroidVR", "IOS", "MusicAndroid", "TV", "TVCast", "TvEmbedded", "Web",
   "WebEmbedded", "WebParentTools", "MusicWeb"}
YoutubeAssumption ==
  /\ Pools \subseteq [{"search", "playback", "resolve"} -> Seq(ClientNames)]
  /\ \A list \in FormatLists : list \in Seq(ToSet(list)) /\ None \notin ToSet(list)
  /\ None \notin Outcomes

VARIABLES
  pools,   \* the clients for searches, playback and resolving, by name
  job,     \* what is asked for
  todo,    \* the clients left to ask, each with the operation
  asked,   \* the clients that were asked, each with the operation
  broken,  \* last_was_exception of a stream's request
  answer   \* None, or what is reported, with the format that was chosen

vars == <<pools, job, todo, asked, broken, answer>>

-----------------------------------------------------------------------------
(* A client. It searches, in its own format; it may list playlists; it may *)
(* name a track, whatever its state or only when it can be played; and it  *)
(* gives no URL, the URL of a playable video, or that of the streams that  *)
(* come with a video that is said not to be.                               *)
Loads(lists, names) == [lists |-> lists, names |-> names]
AndroidLoads == Loads(TRUE, {"playable", "unplayable"})
AndroidVrLoads == Loads(FALSE, {})
IosLoads == Loads(FALSE, {"playable", "unplayable"})
MusicAndroidLoads == Loads(TRUE, {"playable"})
TvLoads == Loads(TRUE, {"playable"})
TvCastLoads == Loads(TRUE, {"playable"})
TvEmbeddedLoads == Loads(TRUE, {"playable"})
WebLoads == Loads(TRUE, {"playable", "unplayable"})
WebEmbeddedLoads == Loads(FALSE, {})
WebParentToolsLoads == Loads(TRUE, {"playable"})
WebRemixLoads == Loads(TRUE, {"playable"})

(* The states of a video of which get_track_url takes the streams.         *)
AndroidPlays == {"playable"}
AndroidVrPlays == {"playable"}
IosPlays == {"playable"}
MusicAndroidPlays == {}
TvPlays == {"playable", "unplayable"}
TvCastPlays == {"playable", "unplayable"}
TvEmbeddedPlays == {"playable", "unplayable"}
WebPlays == {"playable", "unplayable"}
WebEmbeddedPlays == {"playable", "unplayable"}
WebParentToolsPlays == {"playable", "unplayable"}
WebRemixPlays == {}

(* By the name that each gives itself. The web client has no               *)
(* get_player_body.                                                        *)
Client ==
  [Android |-> AndroidLoads, AndroidVR |-> AndroidVrLoads, IOS |-> IosLoads,
   MusicAndroid |-> MusicAndroidLoads, TV |-> TvLoads, TVCast |-> TvCastLoads,
   TvEmbedded |-> TvEmbeddedLoads, Web |-> WebLoads, WebEmbedded |-> WebEmbeddedLoads,
   WebParentTools |-> WebParentToolsLoads, MusicWeb |-> WebRemixLoads]
Plays ==
  [Android |-> AndroidPlays, AndroidVR |-> AndroidVrPlays, IOS |-> IosPlays,
   MusicAndroid |-> MusicAndroidPlays, TV |-> TvPlays, TVCast |-> TvCastPlays,
   TvEmbedded |-> TvEmbeddedPlays, Web |-> WebPlays, WebEmbedded |-> WebEmbeddedPlays,
   WebParentTools |-> WebParentToolsPlays, MusicWeb |-> WebRemixPlays]
Music == {"MusicAndroid", "MusicWeb"}
MusicSearchers == <<"MusicAndroid", "MusicWeb">>

-----------------------------------------------------------------------------
(* The order: music clients first or last; then those of the other pools.  *)
Only(list, set) ==
  LET kept[n \in 0 .. Len(list)] ==
        IF n = 0 THEN <<>>
        ELSE IF list[n] \in set THEN Append(kept[n - 1], list[n]) ELSE kept[n - 1]
  IN kept[Len(list)]
Less(list, set) == Only(list, ToSet(list) \ set)
Unique(clients) ==
  LET first == {i \in DOMAIN clients : \A j \in 1 .. i - 1 : clients[j] # clients[i]}
      places == Only([i \in DOMAIN clients |-> i], first)
  IN [k \in DOMAIN places |-> clients[places[k]]]

prioritize_clients(clients, prefer_music) ==
  IF prefer_music THEN Only(clients, Music) \o Less(clients, Music)
  ELSE Less(clients, Music) \o Only(clients, Music)
(* Mistake kept for checking: the pools are not all looked through.        *)
fallback_clients_own_pool(p, tried, prefer_music) ==
  prioritize_clients(Less(Unique(p.resolve \o p.search), ToSet(tried)), prefer_music)
fallback_clients(p, tried, prefer_music) ==
  prioritize_clients(Less(Unique(p.resolve \o p.playback \o p.search), ToSet(tried)),
                     prefer_music)

Ask(op, clients) == [i \in DOMAIN clients |-> [op |-> op, client |-> clients[i]]]

handle_search(p, prefer_music) ==
  LET music == Unique(MusicSearchers \o Only(p.search \o p.resolve \o p.playback, Music))
      primary == Less(p.search, Music)
  IN (IF prefer_music THEN Ask("search", music) ELSE <<>>)
       \o Ask("search", primary) \o Ask("search", fallback_clients(p, primary, FALSE))

handle_track(p) ==
  Ask("name", p.resolve) \o Ask("name", fallback_clients(p, p.resolve, FALSE))

(* Android goes first; the track that the URL names too is tried last.     *)
handle_playlist(p, is_music_url) ==
  LET own == Unique(Only(p.resolve, {"Android"}) \o prioritize_clients(p.resolve, is_music_url))
  IN Ask("list", Unique(own \o fallback_clients(p, own, is_music_url))) \o handle_track(p)

handle_recommendations(p) == Ask("list", prioritize_clients(p.resolve, TRUE))

get_track(p, is_music_url) == Ask("url", prioritize_clients(p.playback, is_music_url))

stream(p) == Ask("stream", Less(p.playback, {"Web"}))

Plan(p, j) ==
  CASE j.kind = "search" -> handle_search(p, j.music)
    [] j.kind = "track" -> handle_track(p)
    [] j.kind = "playlist" -> handle_playlist(p, j.music)
    [] j.kind = "recommendations" -> handle_recommendations(p)
    [] j.kind = "play" -> get_track(p, j.music)
    [] j.kind = "stream" -> stream(p)

-----------------------------------------------------------------------------
(* A format: its itag, whether it is audio, its bitrate, and its URL, that *)
(* may need the cipher server (for the signature or the parameter n).      *)
Reports(what) == [what |-> what, format |-> None]
Reply(format) == [what |-> "format", format |-> format]
ITAG_FALLBACK == 18
AUDIO_ITAG_PRIORITY == <<251, 250, 140>>
FirstOf(list, good) ==
  LET at == {i \in DOMAIN list : list[i] \in good} IN IF at = {} THEN None ELSE list[Min(at)]

select_best_audio_format(list) ==
  LET audio == {f \in ToSet(list) : f.audio}
      preferred == {n \in DOMAIN AUDIO_ITAG_PRIORITY :
                      \E f \in audio : f.itag = AUDIO_ITAG_PRIORITY[n]}
      fallback == {f \in ToSet(list) : f.itag = ITAG_FALLBACK}
  IN IF preferred # {} THEN FirstOf(list, {f \in audio : f.itag = AUDIO_ITAG_PRIORITY[Min(preferred)]})
     ELSE IF fallback # {} THEN FirstOf(list, fallback)
     ELSE FirstOf(list, {f \in audio : f.bitrate > 0 /\ \A g \in audio : g.bitrate <= f.bitrate})

(* resolve_format_url, with the cipher server up or not.                   *)
UrlOf(format, cipher) ==
  IF format = None \/ format.url = "none" \/ (format.url = "ciphered" /\ ~cipher) THEN None
  ELSE Reply(format)

(* The answer to a request for the player: an error, or the state of the   *)
(* video, whether it is described, and its streams.                        *)
Answers ==
  [state : {"playable", "unplayable"}, described : BOOLEAN, hls : BOOLEAN,
   formats : FormatLists \cup {None}]

extract_from_player(r) == r.described
UrlFrom(c, r, cipher) ==
  IF r.state \notin Plays[c] THEN None
  ELSE IF r.formats = None THEN None
  ELSE IF r.hls THEN Reports("hls")
  ELSE UrlOf(select_best_audio_format(r.formats), cipher)

-----------------------------------------------------------------------------
Jobs ==
  [kind : {"search", "playlist", "play"}, music : BOOLEAN]
    \cup [kind : {"track", "recommendations"}, music : {FALSE}]
    \cup [kind : {"stream"}, music : {FALSE}, itag : {None, 251, 140}]

Init ==
  /\ pools \in Pools /\ job \in Jobs
  /\ todo = Plan(pools, job)
  /\ asked = <<>> /\ broken = FALSE /\ answer = None

NextAsked == Head(todo)
Asks(found) ==
  /\ answer = None /\ todo # <<>>
  /\ asked' = Append(asked, NextAsked)
  /\ answer' = found
  /\ todo' = IF found = None THEN Tail(todo) ELSE <<>>
  /\ UNCHANGED <<pools, job>>

(* A list of search results, of a playlist, or a failure or nothing.       *)
Searched ==
  /\ todo # <<>> /\ NextAsked.op = "search"
  /\ \E found \in {None, Reports("tracks")} : Asks(found)
  /\ UNCHANGED broken

Listed ==
  /\ todo # <<>> /\ NextAsked.op = "list"
  /\ \/ Asks(None)
     \/ Client[NextAsked.client].lists /\ Asks(Reports("tracks"))
  /\ UNCHANGED broken

(* get_track_info                                                          *)
Named ==
  /\ todo # <<>> /\ NextAsked.op = "name"
  /\ \/ Asks(None)
     \/ \E r \in Answers :
          /\ r.state \in Client[NextAsked.client].names /\ extract_from_player(r)
          /\ Asks(Reports("track"))
  /\ UNCHANGED broken

(* get_track_url                                                           *)
Resolved ==
  /\ todo # <<>> /\ NextAsked.op = "url"
  /\ \/ Asks(None)
     \/ \E r \in Answers, cipher \in BOOLEAN :
          Asks(UrlFrom(NextAsked.client, r, cipher))
  /\ UNCHANGED broken

(* get_player_body fails, or the video does not play, or has no streams.   *)
NothingToStream ==
  /\ todo # <<>> /\ NextAsked.op = "stream"
  /\ Asks(None)
  /\ UNCHANGED broken

(* The format that the request names, or the best, is not there; or its    *)
(* URL cannot be resolved or does not answer; or it is passed on.          *)
Streamed ==
  /\ todo # <<>> /\ NextAsked.op = "stream"
  /\ \E list \in FormatLists, cipher, upstream \in BOOLEAN :
       LET format == IF job.itag = None THEN select_best_audio_format(list)
                     ELSE FirstOf(list, {f \in ToSet(list) : f.itag = job.itag})
           url == UrlOf(format, cipher)
           passed == url # None /\ upstream
       IN /\ Asks(IF passed THEN url ELSE None)
          /\ broken' = (format # None /\ ~passed)

(* The list is exhausted.                                                  *)
GiveUp ==
  /\ answer = None /\ todo = <<>>
  /\ answer' = Reports(IF job.kind # "stream" THEN "empty"
                       ELSE IF broken THEN "internal server error" ELSE "bad request")
  /\ UNCHANGED <<pools, job, todo, asked, broken>>

Next ==
  Searched \/ Listed \/ Named \/ Resolved \/ NothingToStream \/ Streamed \/ GiveUp

Spec == Init /\ [][Next]_vars /\ WF_vars(Next)

-----------------------------------------------------------------------------
TypeOK ==
  /\ pools \in Pools /\ job \in Jobs /\ broken \in BOOLEAN
  /\ \A e \in ToSet(asked) \cup ToSet(todo) : e.client \in ClientNames
  /\ answer \in Outcomes \cup {None}

OwnPool == CASE job.kind = "search" -> pools.search
             [] job.kind \in {"play", "stream"} -> pools.playback
             [] OTHER -> pools.resolve
Own == ToSet(OwnPool)
Everyone == ToSet(pools.search) \cup ToSet(pools.resolve) \cup ToSet(pools.playback)
Asked(op) == {e.client : e \in {f \in ToSet(asked) : f.op = op}}

(* handle_search, handle_url: "All resolve clients failed -- fall back to  *)
(* all remaining clients". Nothing is reported as not found before every   *)
(* client of every pool has been asked, for a search, a playlist or a      *)
(* track; recommendations, URLs and streams have one pool.                 *)
NobodyIsLeftOut ==
  answer # None /\ answer.what \in Failures =>
    /\ job.kind = "search" =>
         Everyone \cup (IF job.music THEN ToSet(MusicSearchers) ELSE {}) \subseteq Asked("search")
    /\ job.kind \in {"track", "playlist"} => Everyone \subseteq Asked("name")
    /\ job.kind = "playlist" => Everyone \subseteq Asked("list")
    /\ job.kind = "recommendations" => Own \subseteq Asked("list")
    /\ job.kind = "play" => Own \subseteq Asked("url")
    /\ job.kind = "stream" => Own \ {"Web"} \subseteq Asked("stream")

(* A client that is not configured for the work is asked after those that  *)
(* are, but for the music clients of a music search.                       *)
Before(list, a, b) == \E i, j \in DOMAIN list : i < j /\ list[i] = a /\ list[j] = b
ConfiguredFirst ==
  \A a, b \in ToSet(asked) :
    Before(asked, a, b) /\ a.op = b.op /\ b.client \in Own \ Music
      => a.client \in Own \/ (job.music /\ a.client \in Music)

(* No client is asked the same again, unless the configuration names it    *)
(* twice for the work; but for the music clients of a music search, which  *)
(* the fallback asks once more.                                            *)
AskedOnce ==
  \A e \in ToSet(asked) : Before(asked, e, e) =>
    \/ Before(OwnPool, e.client, e.client)
    \/ job.kind = "search" /\ job.music /\ e.client \in Music

(* common.rs, select_best_audio_format: what plays has sound, and is Opus  *)
(* when the list has it.                                                   *)
SoundIsChosen ==
  answer # None /\ answer.what = "format" /\ (job.kind = "play" \/ job.itag = None) =>
    /\ answer.format.audio \/ answer.format.itag = ITAG_FALLBACK
    /\ \E list \in FormatLists :
         /\ answer.format \in ToSet(list)
         /\ \A f \in ToSet(list) : f.audio /\ f.itag = 251 => answer.format.itag = 251

ClientsInTurn == NobodyIsLeftOut /\ ConfiguredFirst /\ AskedOnce /\ SoundIsChosen

(* Every request is answered.                                              *)
Answered == answer # None
=============================================================================
