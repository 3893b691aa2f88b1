----------------------------- MODULE SourceRouting -----------------------------
(***************************************************************************)
(* Which source an identifier goes to, what its load makes of it, and      *)
(* where the tracks it names go when they are played.                      *)
(*                                                                         *)
(* Sources: src/sources/manager/mod.rs (load, resolve_track),              *)
(* registration.rs, and the SourcePlugin of every source: can_handle, load *)
(* as far as the call it dispatches to, and what get_track refuses. An     *)
(* identifier is a prefix or none, and a URL of some page of a site or     *)
(* plain text; a regular expression is the set of pages it matches.        *)
(***************************************************************************)
EXTENDS Naturals, Sequences, SequencesExt

CONSTANTS
  Configurations, \* bound: the sets of sources that the configuration may enable
  Carried         \* bound: the sites whose URL a search query may contain

VARIABLES
  enabled,  \* the sources that are registered
  compiled, \* the patterns of Audiomack that have been compiled
  asked,    \* the identifier of the last load
  loader,   \* the source it went to
  result,   \* what it is: a track, a list (album, playlist, artist), a search
  uri,      \* the track that the client has got from it
  player    \* the source that resolve_track asks for that track

routingVars == <<enabled, compiled, asked, loader, result, uri, player>>

-----------------------------------------------------------------------------
(* A source: its prefixes and what they load; whether its expressions      *)
(* match a URL anywhere in an identifier; the patterns in the order load   *)
(* tries them, each with the pages it matches and what these load; what a  *)
(* page of the site that no pattern matches loads, or "refused" when       *)
(* can_handle does not take it; and the pages that get_track refuses, all  *)
(* of them when the source only names tracks.                              *)
Source(prefixes, anywhere, patterns, otherwise, refused) ==
  [prefixes |-> prefixes, anywhere |-> anywhere, patterns |-> patterns,
   otherwise |-> otherwise, refused |-> refused]
Collections == {"album", "playlist", "artist"}
Tracks(pages) == [pages |-> pages, loads |-> "track"]
Lists(pages) == [pages |-> pages, loads |-> "list"]
Redirects(pages) == [pages |-> pages, loads |-> "redirect"]
Loading(searches, tracks, lists) ==
  [p \in searches \cup tracks \cup lists |->
     IF p \in searches THEN "search" ELSE IF p \in tracks THEN "track" ELSE "list"]
Search(prefixes) == Loading(prefixes, {}, {})
Speech(prefixes) == Loading({}, prefixes, {})
TrackPages ==
  {"watch", "short", "live", "track", "song", "album track", "post", "channel", "page", "file",
   "speech"}
NamesOnly == TrackPages

youtube == Source(Loading({"ytsearch", "ytmsearch"}, {}, {"ytrec"}), TRUE,
  <<Lists({"playlist", "watch in playlist"}), Tracks({"watch", "short", "live"})>>, "track", {})
(* Mistake kept for checking: a track is looked for first.                 *)
soundcloudTracksFirst == Source(Search({"scsearch"}), FALSE,
  <<Redirects({"short", "mobile"}), [pages |-> {"search"}, loads |-> "search"],
    Tracks({"track", "likes", "user sets"}), Lists({"likes"}), Lists({"set"}),
    Lists({"user", "user sets", "bare search"})>>, "refused", {})
soundcloud == Source(Search({"scsearch"}), FALSE,
  <<Redirects({"short", "mobile"}), [pages |-> {"search"}, loads |-> "search"], Lists({"likes"}),
    Lists({"set"}), Lists({"user", "user sets", "bare search"}),
    Tracks({"track", "likes", "user sets"})>>, "refused", {})
spotify == Source(Loading({"spsearch"}, {}, {"sprec"}), TRUE,
  <<Tracks({"track"}), Lists(Collections)>>, "refused", NamesOnly)
jiosaavn == Source(Loading({"jssearch"}, {}, {"jsrec"}), TRUE,
  <<Tracks({"song"}), Lists({"album", "featured", "playlist", "artist"})>>, "refused", {})
deezer == Source(Loading({"dzsearch"}, {"dzisrc"}, {"dzrec"}), TRUE,
  <<Redirects({"share"}), Tracks({"track"}), Lists(Collections)>>, "refused", {})
applemusic == Source(Search({"amsearch"}), TRUE,
  <<Tracks({"album track"}), Tracks({"song"}), Lists(Collections)>>,
  "refused", NamesOnly)
gaana == Source(Search({"gnsearch", "gaanasearch"}), TRUE,
  <<Tracks({"song"}), Lists(Collections)>>, "refused", Collections)
tidal == Source(Loading({"tdsearch"}, {"tdisrc"}, {"tdrec"}), TRUE,
  <<Tracks({"track"}), Lists({"album", "playlist", "mix", "artist"})>>, "refused",
  Collections \cup {"mix"})
audiomack == Source(Search({"amksearch"}), TRUE,
  <<Tracks({"song"}), Lists({"album"}), Lists({"playlist"}), Lists({"likes"}), Lists({"artist"})>>,
  "refused", {})
pandora == Source(Loading({"pdsearch"}, {}, {"pdrec"}), TRUE,
  <<Tracks({"track"}), Lists({"album"}), Lists({"artist"}), Lists({"playlist"})>>, "refused", NamesOnly)
qobuz == Source(Loading({"qbsearch"}, {"qbisrc"}, {"qbrec"}), TRUE,
  <<Tracks({"track"}), Lists(Collections)>>, "refused", {})
anghami == Source(Search({"agsearch"}), FALSE,
  <<Tracks({"song"}), Lists(Collections)>>, "refused", NamesOnly)
shazam == Source(Search({"shsearch", "szsearch"}), TRUE, <<Tracks({"song"})>>, "refused", NamesOnly)
mixcloud == Source(Search({"mcsearch"}), FALSE,
  <<Lists({"playlist"}), Lists({"user", "uploads"}), Tracks({"track", "uploads"})>>, "refused",
  {"playlist", "user", "uploads"})
bandcamp == Source(Search({"bcsearch"}), FALSE, <<Tracks({"track"}), Lists({"album"})>>, "refused", {})
reddit == Source(Search({}), TRUE, <<Tracks({"post"})>>, "track", {})
lastfm == Source(Search({"lfsearch", "lfmsearch"}), TRUE,
  <<Lists({"user"}), Lists({"artist", "album"}), Tracks({"track"})>>, "refused", NamesOnly)
audius == Source(Search({"ausearch", "audsearch"}), FALSE,
  <<Lists({"playlist"}), Lists({"album"}), Tracks({"track"}), Lists({"user"})>>, "refused", {})
yandexmusic == Source(Loading({"ymsearch"}, {}, {"ymrec"}), FALSE,
  <<Lists({"playlist"}), Lists({"uuid playlist"}), Tracks({"track", "album track"}),
    Lists({"album", "artist"})>>, "refused", {"playlist", "uuid playlist"})
vkmusic == Source(Loading({"vksearch"}, {}, {"vkrec"}), TRUE,
  <<Lists({"playlist in audios"}), Lists({"playlist"}), Tracks({"track"}), Lists({"artist"}),
    Lists({"audios"})>>, "refused", {})
netease == Source(Loading({"nmsearch", "ncsearch"}, {}, {"nmrec", "ncrec"}), TRUE,
  <<Tracks({"song"}), Lists(Collections)>>, "refused", {})
twitch == Source(Search({}), FALSE, <<Tracks({"channel"})>>, "empty", {"other"})
amazonmusic == Source(Search({"azmsearch", "amznsearch"}), FALSE,
  <<Tracks({"track"}), Lists({"album"}), Lists({"artist"}), Lists({"user playlist"}),
    Lists({"playlist"})>>, "empty", NamesOnly)
http == Source(Search({}), FALSE, <<>>, "track", {})
google_tts == Source(Speech({"gtts", "speak"}), FALSE, <<>>, "refused", {})
flowery == Source(Speech({"ftts"}), FALSE, <<>>, "refused", {})
local == Source(Search({}), FALSE, <<Tracks({"file"})>>, "refused", {})

Sources ==
  [youtube |-> youtube, soundcloud |-> soundcloud, spotify |-> spotify, jiosaavn |-> jiosaavn,
   deezer |-> deezer, applemusic |-> applemusic, gaana |-> gaana, tidal |-> tidal,
   audiomack |-> audiomack, pandora |-> pandora, qobuz |-> qobuz, anghami |-> anghami,
   shazam |-> shazam, mixcloud |-> mixcloud, bandcamp |-> bandcamp, reddit |-> reddit,
   lastfm |-> lastfm, audius |-> audius, yandexmusic |-> yandexmusic, vkmusic |-> vkmusic,
   netease |-> netease, twitch |-> twitch, amazonmusic |-> amazonmusic, http |-> http,
   google_tts |-> google_tts, flowery |-> flowery, local |-> local]

(* The order of registration, in which every identifier is looked up.      *)
Order == <<"youtube", "soundcloud", "spotify", "jiosaavn", "deezer", "applemusic", "gaana", "tidal",
           "audiomack", "pandora", "qobuz", "anghami", "shazam", "mixcloud", "bandcamp", "reddit",
           "lastfm", "audius", "yandexmusic", "vkmusic", "netease", "twitch", "amazonmusic", "http",
           "google_tts", "flowery", "local">>
MirrorSources == {"spotify", "applemusic", "pandora", "anghami", "shazam", "lastfm"}
Tts == {"google_tts", "flowery"}
None == "none"

(* Only what there is can be enabled.                                      *)
RoutingAssumption == Configurations \subseteq SUBSET DOMAIN Sources

-----------------------------------------------------------------------------
(* Identifiers                                                             *)

PatternPages(s) == UNION {Sources[s].patterns[n].pages : n \in DOMAIN Sources[s].patterns}
AllPrefixes == UNION {DOMAIN Sources[s].prefixes : s \in DOMAIN Sources}
TrackPage(s) ==
  CASE s \in {"youtube"} -> "watch"
    [] s \in {"jiosaavn", "gaana", "audiomack", "anghami", "shazam", "netease"} -> "song"
    [] s = "applemusic" -> "album track"
    [] s = "reddit" -> "post" [] s = "twitch" -> "channel" [] s = "local" -> "file"
    [] OTHER -> "track"
Identifier(prefix, site, page) == [prefix |-> prefix, site |-> site, page |-> page]
Queries == {Identifier(p, "text", "text") : p \in AllPrefixes}
             \cup {Identifier(p, s, TrackPage(s)) : p \in AllPrefixes, s \in Carried}
Urls == (UNION {{Identifier("", s, page) : page \in PatternPages(s) \cup {"other"}} :
                  s \in DOMAIN Sources \ (Tts \cup {"http", "local"})})
          \cup {Identifier("", "web", "page"), Identifier("", "local", "file")}
Identifiers == Queries \cup Urls
NoTrack == Identifier("", None, None)

(* can_handle. Any URL at all is one for http.                             *)
OnSite(s, id) ==
  IF s = "http" THEN id.site \notin {"text", "local", None} ELSE id.site = s
Handles(s, id) ==
  \/ id.prefix \in DOMAIN Sources[s].prefixes
  \/ /\ id.prefix = "" \/ Sources[s].anywhere
     /\ OnSite(s, id) /\ (Sources[s].otherwise # "refused" \/ id.page \in PatternPages(s))

(* The first registered source that handles it.                            *)
Asked(id) == {n \in DOMAIN Order : Order[n] \in enabled /\ Handles(Order[n], id)}
First(id) == IF Asked(id) = {} THEN None ELSE Order[Min(Asked(id))]

(* Audiomack compiles its patterns when can_handle first needs them, and   *)
(* can_handle stops at the first that matches; load does without those     *)
(* that are not compiled.                                                  *)
CompileOrder == <<"song", "album", "playlist", "artist", "likes">>
Reaches(id) ==
  /\ "audiomack" \in enabled
  /\ \A n \in Asked(id), m \in DOMAIN Order : Order[m] = "audiomack" => n >= m
Compiles(id) ==
  IF ~Reaches(id) \/ id.prefix \in DOMAIN audiomack.prefixes THEN compiled
  ELSE compiled \cup {CompileOrder[n] : n \in {n \in DOMAIN CompileOrder :
         id.site = "audiomack" => \A m \in 1..n - 1 : CompileOrder[m] # id.page}}

(* What load makes of an identifier, with the patterns it can use.         *)
Usable(s, n, known) == s = "audiomack" => Sources[s].patterns[n].pages \subseteq known
Loaded(s, id, known) ==
  LET hits == {n \in DOMAIN Sources[s].patterns :
                 id.page \in Sources[s].patterns[n].pages /\ Usable(s, n, known)}
  IN IF id.prefix \in DOMAIN Sources[s].prefixes THEN Sources[s].prefixes[id.prefix]
     ELSE IF hits # {} THEN Sources[s].patterns[Min(hits)].loads
     ELSE IF Sources[s].otherwise = "refused" THEN "empty" ELSE Sources[s].otherwise

(* The URI of a track that a source has named. The TTS sources give that   *)
(* of the service that speaks, the direct ones the identifier itself. A    *)
(* service that names the page itself (Bandcamp, Shazam) is taken to name  *)
(* one of its own site. Two may name none: such a track is looked up by    *)
(* its bare identifier, which no source handles.                           *)
MayHaveNone == {"gaana", "shazam"}
Uri(s, id) ==
  IF s \in Tts THEN Identifier("", "web", "speech")
  ELSE IF s = "http" THEN id ELSE Identifier("", s, TrackPage(s))

-----------------------------------------------------------------------------
RoutingTypeOK ==
  /\ enabled \in Configurations /\ compiled \subseteq PatternPages("audiomack")
  /\ asked \in Identifiers \cup {NoTrack}
  /\ loader \in enabled \cup {None} /\ player \in enabled \cup {None}
  /\ result \in {"none", "track", "list", "search", "empty"}

RoutingInit ==
  /\ enabled \in Configurations /\ compiled = {}
  /\ asked = NoTrack /\ loader = None /\ result = "none" /\ uri = NoTrack /\ player = None

(* SourceManager.load. A link that redirects is followed to another page   *)
(* of the same site.                                                       *)
Load(id) ==
  /\ asked = NoTrack
  /\ asked' = id /\ loader' = First(id) /\ compiled' = Compiles(id)
  /\ IF loader' = None THEN result' = "empty"
     ELSE LET page == Loaded(loader', id, compiled') IN
          IF page # "redirect" THEN result' = page
          ELSE \E target \in PatternPages(loader') :
                 /\ Loaded(loader', Identifier("", loader', target), compiled') # "redirect"
                 /\ result' = Loaded(loader', Identifier("", loader', target), compiled')
  /\ \/ (result' = "empty" \/ loader' \in MayHaveNone) /\ uri' = NoTrack
     \/ result' # "empty" /\ uri' = Uri(loader', id)
  /\ UNCHANGED <<enabled, player>>

(* SourceManager.resolve_track, as far as the source it asks.              *)
Play ==
  /\ uri # NoTrack /\ player = None /\ First(uri) # None
  /\ player' = First(uri) /\ compiled' = Compiles(uri)
  /\ UNCHANGED <<enabled, asked, loader, result, uri>>

(* The client asks for something else: only the patterns stay compiled.    *)
Turn ==
  /\ asked # NoTrack
  /\ asked' = NoTrack /\ loader' = None /\ result' = "none" /\ uri' = NoTrack /\ player' = None
  /\ UNCHANGED <<enabled, compiled>>

RoutingNext == (\E id \in Identifiers : Load(id)) \/ Play \/ Turn
RoutingSpec == RoutingInit /\ [][RoutingNext]_routingVars

-----------------------------------------------------------------------------
(* Properties                                                              *)

(* can_handle and load of every source: whatever else is registered and    *)
(* was loaded before, a page of a site goes to the source of that site and *)
(* is loaded as what it is, and a search goes to the source of its prefix. *)
Pages(s) == PatternPages(s) \ {"short", "mobile", "share", "search", "bare search"}
RightLoad ==
  /\ asked.prefix = "" /\ asked.site \in enabled /\ asked.page \in Pages(asked.site) =>
       /\ loader = asked.site
       /\ result = IF asked.page \in TrackPages THEN "track" ELSE "list"
  /\ \A s \in enabled : asked.prefix \in DOMAIN Sources[s].prefixes /\ asked.site = "text" =>
       loader = s /\ result = Sources[s].prefixes[asked.prefix]

(* resolve_track: a track goes back to the source that has named it, which *)
(* plays it unless it only names tracks; what is spoken is fetched by the  *)
(* http source.                                                            *)
WayBack ==
  player # None =>
    IF loader \in Tts THEN player = "http"
    ELSE /\ player = loader
         /\ Sources[player].refused # NamesOnly => uri.page \notin Sources[player].refused

RoutedRight == RightLoad /\ WayBack

(* A search goes to the source of its prefix even when it names a URL of   *)
(* another: not so where an earlier expression matches anywhere.           *)
QueryStaysHome ==
  \A s \in enabled : asked.prefix \in DOMAIN Sources[s].prefixes => loader = s

(* What the TTS sources have loaded can be played: only with http enabled. *)
SpeechIsPlayed == uri # NoTrack /\ loader \in Tts => First(uri) # None
=============================================================================
