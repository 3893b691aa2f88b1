------------------------------ MODULE Collections ------------------------------
(***************************************************************************)
(* What an identifier becomes: how each source asks its service for a      *)
(* track, a search or a list, page by page where the service has pages,    *)
(* and which tracks, in which order, it makes of the answers.              *)
(*                                                                         *)
(* Sources: the load handlers of src/sources/*, named at the definitions.  *)
(* A load makes its requests one after another, except where the code      *)
(* joins them; each is answered or fails (an answer without what the       *)
(* handler looks for has failed, too). The service's list does not change  *)
(* during a load.                                                          *)
(***************************************************************************)
EXTENDS Integers, Sequences, SequencesExt, FiniteSetsExt

CONSTANTS
  MaxItems,    \* bound: the length of a service's list
  Page,        \* bound: the items of a page, and the ids of one request
  MaxBad,      \* bound: the items that cannot be read
  Most,        \* bound: the number of tracks at which Mixcloud stops
  Concurrency, \* the requests that are made at once
  None

CollectionsAssumption ==
  MaxItems \in Nat /\ MaxBad \in Nat /\ Page \in Nat \ {0} /\ Most \in Nat /\ Concurrency \in Nat \ {0}

VARIABLES
  service, \* the list: size, unreadable items, items given without a title
  limit,   \* the configured limit
  ways,    \* how to ask, the first one now, the others if it does not lead on
  left,    \* requests to make before the list's own
  pending, \* pages that are asked for
  pages,   \* the answers, by page; a failed one is <<>>
  lost,    \* a request of this way failed
  result   \* None, or what was loaded

vars == <<service, limit, ways, left, pending, pages, lost, result>>

-----------------------------------------------------------------------------
(* A way to load a list. before, after: how many requests must be answered *)
(* before it is asked for, and whether one must afterwards; pages: how the *)
(* list is asked for; cap: how the limit applies: the service is asked for *)
(* so many (and at least one if clamped), so many items are taken, or      *)
(* tracks kept, at least one if the loop looks after it adds; all: no item *)
(* is refused by the parser; needs: what must not be empty, the items      *)
(* ("raw"), the tracks ("read") or nothing; ends: the failures that end    *)
(* the load though there is another way: that of the first request before  *)
(* the list, that of the list's, or an answer that leads to nothing;       *)
(* error: the failures that are told as errors.                            *)
Way(gives) ==
  [gives |-> gives, before |-> 0, after |-> FALSE, pages |-> "one", cap |-> "none",
   all |-> FALSE, needs |-> "read", ends |-> {}, error |-> {}]
Playlist == Way("playlist")
Search == Way("search")
Track == Way("track")

(* qobuz/manager.rs                                                        *)
QobuzSearch == <<[Search EXCEPT !.cap = "asked", !.all = TRUE]>>
QobuzIsrc == <<[Track EXCEPT !.all = TRUE]>>
QobuzTrack == <<[Track EXCEPT !.all = TRUE]>>
QobuzRecommendations == <<[Playlist EXCEPT !.before = 1, !.cap = "asked", !.all = TRUE]>>
QobuzAlbum == <<[Playlist EXCEPT !.cap = "asked", !.all = TRUE]>>
QobuzPlaylist == <<[Playlist EXCEPT !.cap = "asked", !.all = TRUE]>>
QobuzArtist == <<[Playlist EXCEPT !.cap = "taken", !.all = TRUE]>>

(* gaana/manager.rs: a search asks for each song that it found.            *)
GaanaSong == <<Track>>
GaanaAlbum == <<[Playlist EXCEPT !.cap = "taken"]>>
GaanaPlaylist == <<[Playlist EXCEPT !.cap = "taken"]>>
GaanaArtist == <<[Playlist EXCEPT !.before = 1, !.cap = "taken"]>>
GaanaSearch == <<[Search EXCEPT !.pages = "each", !.cap = "taken", !.error = {"request"}]>>

(* yandexmusic/mod.rs                                                      *)
YandexSearch == <<Search>>
YandexTrack == <<Track>>
YandexAlbum == <<[Playlist EXCEPT !.cap = "asked"]>>
YandexArtist == <<[Playlist EXCEPT !.cap = "asked", !.after = TRUE]>>
YandexPlaylist == <<[Playlist EXCEPT !.cap = "asked"]>>
YandexPlaylistUuid == <<[Playlist EXCEPT !.cap = "asked"]>>
YandexRecommendations == <<Playlist>>

(* vkmusic/manager.rs: the title of a playlist and the artist are not      *)
(* needed.                                                                 *)
VkSearch == <<[Search EXCEPT !.cap = "asked"]>>
VkRecommendations == <<[Playlist EXCEPT !.cap = "asked"]>>
VkPlaylist == <<[Playlist EXCEPT !.cap = "asked"]>>
VkTrack == <<Track>>
VkArtist == <<[Playlist EXCEPT !.cap = "asked"]>>
VkWall == <<[Playlist EXCEPT !.cap = "asked"]>>

(* jiosaavn: a station, or else other songs of the artist.                 *)
JioSong == <<Track>>
JioList == <<[Playlist EXCEPT !.cap = "asked", !.needs = "raw", !.error = {"request"}]>>
JioSearch == <<[Search EXCEPT !.cap = "taken", !.needs = "raw", !.error = {"request"}]>>
JioRecommendations ==
  <<[Playlist EXCEPT !.before = 1, !.cap = "asked"],
    [Playlist EXCEPT !.before = 1, !.cap = "taken"]>>

(* audiomack/manager.rs                                                    *)
AudiomackSearch == <<[Search EXCEPT !.cap = "asked"]>>
AudiomackSong == <<Track>>
AudiomackItems == <<Playlist>>
AudiomackArtist == <<[Playlist EXCEPT !.before = 1, !.cap = "asked"]>>
AudiomackLikes == <<[Playlist EXCEPT !.before = 1]>>

(* audius/mod.rs                                                           *)
AudiusSearch == <<[Search EXCEPT !.cap = "asked"]>>
AudiusTrack == <<Track>>
AudiusPlaylist == <<[Playlist EXCEPT !.before = 1, !.cap = "asked"]>>
AudiusUser == <<[Playlist EXCEPT !.before = 1, !.cap = "asked"]>>

(* anghami/manager.rs: songs come as a map, with their order or without;   *)
(* an album or a playlist is asked for twice.                              *)
AnghamiSearch == <<[Search EXCEPT !.cap = "taken"]>>
AnghamiSong == <<Track, Track>>
AnghamiSongs == [Playlist EXCEPT !.pages = "mapped"]
AnghamiAlbum == <<AnghamiSongs, AnghamiSongs>>
AnghamiPlaylist == <<AnghamiSongs, AnghamiSongs>>
AnghamiArtist == <<Playlist>>

(* pandora/manager.rs: what a list names without its annotation is asked   *)
(* for in one more request.                                                *)
PandoraTrack == <<Track>>
PandoraAlbum == <<[Playlist EXCEPT !.needs = "nothing"]>>
PandoraArtist == <<[Playlist EXCEPT !.needs = "nothing"]>>
PandoraPlaylist == <<[Playlist EXCEPT !.pages = "annotated", !.needs = "nothing"]>>
PandoraRecommendations == <<[Playlist EXCEPT !.before = 1, !.needs = "raw"]>>
PandoraArtistSongs == <<[Playlist EXCEPT !.pages = "annotated", !.needs = "raw"]>>
PandoraSearch == <<[Search EXCEPT !.cap = "kept"]>>

(* deezer                                                                  *)
DeezerIsrc == <<Track>>
DeezerAlbum == <<[Playlist EXCEPT !.before = 1, !.cap = "asked"]>>
DeezerPlaylist == <<[Playlist EXCEPT !.before = 1, !.cap = "asked"]>>
DeezerArtist == <<[Playlist EXCEPT !.before = 1, !.cap = "asked"]>>
DeezerRecommendations == <<Playlist>>
DeezerSearch == <<Search>>

(* netease/manager.rs, mod.rs: a bare number is a track or else searched.  *)
NeteaseAlbum == <<[Playlist EXCEPT !.needs = "raw"]>>
NeteasePlaylist == <<[Playlist EXCEPT !.needs = "raw"]>>
NeteaseArtist == <<[Playlist EXCEPT !.needs = "raw"]>>
NeteaseSearch == <<[Search EXCEPT !.cap = "asked", !.needs = "raw"]>>
NeteaseRecommendations == <<[Playlist EXCEPT !.needs = "raw"]>>
NeteaseTrack == <<Track>>
NeteaseNumber == NeteaseTrack \o NeteaseSearch

(* lastfm: by its API, or else from the page; an album that is neither is  *)
(* a track of that name.                                                   *)
LastfmApi == [Playlist EXCEPT !.all = TRUE, !.needs = "nothing"]
LastfmPage == [Playlist EXCEPT !.all = TRUE, !.ends = {"request"}]
LastfmTrack == <<[Track EXCEPT !.pages = "given"]>>
LastfmAlbum == <<LastfmApi, LastfmPage>> \o LastfmTrack
LastfmArtist == <<LastfmApi, LastfmPage>>
LastfmUser == <<LastfmApi, LastfmPage>>
LastfmSearchApi == <<[Search EXCEPT !.cap = "asked", !.all = TRUE]>>
LastfmSearchScraping == <<[Search EXCEPT !.cap = "kept", !.all = TRUE]>>

(* amazonmusic/manager.rs, region.rs: the region that the URL hints at,    *)
(* then all the others, of which the first good answer is taken.           *)
AmazonRegions == <<[Playlist EXCEPT !.ends = {"nothing"}], Playlist>>
AmazonTrack == <<[Track EXCEPT !.error = {"request"}]>>
AmazonAlbum == AmazonRegions
AmazonArtist == <<Playlist>>
AmazonPlaylist == AmazonRegions
AmazonCommunityPlaylist == <<Playlist>>
AmazonSearch == <<[Search EXCEPT !.cap = "taken"]>>

(* tidal/manager.rs                                                        *)
TidalTrack == <<Track>>
TidalList == <<[Playlist EXCEPT !.before = 1, !.cap = "clamped"]>>
TidalMix == <<[Playlist EXCEPT !.cap = "asked"]>>
TidalIsrc == <<[Track EXCEPT !.before = 1]>>
TidalSearch == <<[Search EXCEPT !.cap = "asked"]>>
TidalRecommendations == <<[Playlist EXCEPT !.before = 1, !.cap = "asked"]>>
TidalArtist == <<[Playlist EXCEPT !.before = 1, !.cap = "clamped"]>>

(* soundcloud/manager.rs: the tracks that a playlist only names by id are  *)
(* asked for afterwards, as many as the limit leaves room for. The page of *)
(* a user shows the spotlight, or else the tracks.                         *)
SoundCloudSearch == <<[Search EXCEPT !.cap = "asked"]>>
SoundCloudTrack == <<Track>>
SoundCloudPlaylist == <<[Playlist EXCEPT !.pages = "stubs", !.cap = "truncated"]>>
SoundCloudLikes == <<[Playlist EXCEPT !.before = 1, !.cap = "asked"]>>
SoundCloudCollection == [Playlist EXCEPT !.cap = "asked"]
SoundCloudUser == <<[SoundCloudCollection EXCEPT !.before = 1]>>
SoundCloudUserRoot == <<[SoundCloudUser[1] EXCEPT !.ends = {"first"}], SoundCloudCollection>>

(* mixcloud/mod.rs: a restricted track is told as an error.                *)
MixcloudTrack == <<[Track EXCEPT !.error = {"refused"}]>>
MixcloudPlaylist == <<[Playlist EXCEPT !.pages = "cursor"]>>
MixcloudUser == <<[Playlist EXCEPT !.pages = "cursor"]>>
MixcloudSearch == <<[Search EXCEPT !.cap = "kept", !.all = TRUE]>>

(* applemusic: in batches if the link to the next page has an offset.      *)
AppleTrack == <<Track>>
AppleBatches == <<[Playlist EXCEPT !.pages = "batches"]>>
AppleLinks == <<[Playlist EXCEPT !.pages = "links"]>>
AppleArtist == <<Playlist>>
AppleSearch == <<[Search EXCEPT !.cap = "asked"]>>

(* spotify: a mix of the seed, which may have to be found by its ISRC, or  *)
(* else the related tracks.                                                *)
SpotifyTrack == <<Track>>
SpotifyAlbum == <<[Playlist EXCEPT !.pages = "offsets"]>>
SpotifyPlaylist == <<[Playlist EXCEPT !.pages = "offsets"]>>
SpotifyArtist == <<Playlist>>
SpotifyPathfinder == <<[Playlist EXCEPT !.cap = "cut"]>>
SpotifyMix == <<[SpotifyPlaylist[1] EXCEPT !.before = 1, !.ends = {"request", "nothing"}]>>
SpotifyIsrcMix == <<[SpotifyMix[1] EXCEPT !.before = 2, !.ends = @ \cup {"first"}]>>
SpotifyRecommendations == SpotifyMix \o SpotifyPathfinder
SpotifyIsrcRecommendations == SpotifyIsrcMix \o SpotifyPathfinder
SpotifySearch == <<[Search EXCEPT !.cap = "asked"]>>

(* bandcamp, shazam, reddit, twitch                                        *)
BandcampSearch == <<[Search EXCEPT !.cap = "kept"]>>
BandcampResolve == <<[Way("tracks") EXCEPT !.needs = "raw"]>>
ShazamSearch == <<[Search EXCEPT !.cap = "asked"]>>
ShazamTrack == <<Track>>
RedditTrack == <<Track>>
RedditShortLink == <<[Track EXCEPT !.before = 1]>>
TwitchChannel == <<[Track EXCEPT !.error = {"request"}]>>

Loads ==
  {QobuzSearch, QobuzIsrc, QobuzTrack, QobuzRecommendations, QobuzAlbum, QobuzPlaylist,
   QobuzArtist, GaanaSong, GaanaAlbum, GaanaPlaylist, GaanaArtist, GaanaSearch, YandexSearch,
   YandexTrack, YandexAlbum, YandexArtist, YandexPlaylist, YandexPlaylistUuid,
   YandexRecommendations, VkSearch, VkRecommendations, VkPlaylist, VkTrack, VkArtist, VkWall,
   JioSong, JioList, JioSearch, JioRecommendations, AudiomackSearch, AudiomackSong,
   AudiomackItems, AudiomackArtist, AudiomackLikes, AudiusSearch, AudiusTrack, AudiusPlaylist,
   AudiusUser, AnghamiSearch, AnghamiSong, AnghamiAlbum, AnghamiPlaylist, AnghamiArtist,
   PandoraTrack, PandoraAlbum, PandoraArtist, PandoraPlaylist, PandoraRecommendations,
   PandoraArtistSongs, PandoraSearch, DeezerIsrc, DeezerAlbum, DeezerPlaylist, DeezerArtist,
   DeezerRecommendations, DeezerSearch, NeteaseAlbum, NeteasePlaylist, NeteaseArtist,
   NeteaseSearch, NeteaseRecommendations, NeteaseTrack, NeteaseNumber, LastfmTrack, LastfmAlbum,
   LastfmArtist, LastfmUser, LastfmSearchApi, LastfmSearchScraping, AmazonTrack, AmazonAlbum,
   AmazonArtist, AmazonPlaylist, AmazonCommunityPlaylist, AmazonSearch, TidalTrack, TidalList,
   TidalMix, TidalIsrc, TidalSearch, TidalRecommendations, TidalArtist, SoundCloudSearch,
   SoundCloudTrack, SoundCloudPlaylist, SoundCloudLikes, SoundCloudUser, SoundCloudUserRoot,
   MixcloudTrack, MixcloudPlaylist, MixcloudUser, MixcloudSearch, AppleTrack, AppleBatches,
   AppleLinks, AppleArtist, AppleSearch, SpotifyTrack, SpotifyAlbum, SpotifyPlaylist,
   SpotifyArtist, SpotifyRecommendations, SpotifyIsrcRecommendations, SpotifySearch, BandcampSearch, BandcampResolve,
   ShazamSearch, ShazamTrack, RedditTrack, RedditShortLink, TwitchChannel}

-----------------------------------------------------------------------------
Now == Head(ways)
Items(first, last) == [i \in 1 .. last - first + 1 |-> first + i - 1]
Readable(n) == Now.all \/ n \notin service.bad
AtLeastOne(n) == Max({n, 1})
Take(n, list) == SubSeq(list, 1, Min({n, Len(list)}))
Ascending(set) == SetToSortSeq(set, <)

(* What is listed by name alone, and in what order a map gives its songs.  *)
Stubs == Ascending(service.stubs)
Complete == Ascending((1 .. service.size) \ service.stubs)
MapOrder ==
  LET songs == Items(1, service.size)
  IN IF service.ordered THEN songs ELSE Reverse(songs)

(* Spotify: the list up to the limit's number of pages, 0 for no limit,    *)
(* and the pages of it after the first.                                    *)
effective_total ==
  IF limit = 0 THEN service.size ELSE Min({service.size, limit * Page})

(* A plausible bug: the last page is lost when it is not full.             *)
offsets_floor == IF effective_total <= Page THEN {} ELSE 2 .. effective_total \div Page

offsets == IF effective_total <= Page THEN {} ELSE 2 .. (effective_total - 1) \div Page + 1

(* SoundCloud: the ids for which the limit has room, Page of them at once. *)
needed == Take(limit - Min({limit, Len(SelectSeq(Complete, Readable))}), Stubs)
chunks == 2 .. (Len(needed) + Page - 1) \div Page + 1

Asked == CASE Now.cap = "asked" -> limit
           [] Now.cap = "clamped" -> AtLeastOne(limit)
           [] OTHER -> service.size

PageOf(list, n) == SubSeq(list, (n - 1) * Page + 1, Min({n * Page, Len(list)}))
Answer(n) ==
  LET list == Items(1, service.size)
  IN CASE Now.pages = "one" -> Take(Asked, list)
       [] Now.pages = "mapped" -> MapOrder
       [] Now.pages = "each" -> IF n = 1 THEN <<>> ELSE <<n - 1>>
       [] Now.pages = "annotated" -> IF n = 1 THEN Complete ELSE Stubs
       [] Now.pages = "stubs" -> IF n = 1 THEN Complete ELSE PageOf(needed, n - 1)
       [] OTHER -> PageOf(list, n)

(* The pages that are asked for once page n is there.                      *)
MorePages(n) == n * Page < service.size
Batch(first) ==
  {n \in first .. first + Concurrency - 1 : limit = 0 \/ n <= limit}
NextPages(n, listed) ==
  CASE Now.pages = "offsets" /\ n = 1 -> offsets
    [] Now.pages = "stubs" /\ n = 1 -> chunks
    [] Now.pages = "annotated" /\ n = 1 /\ service.stubs # {} -> {2}
    [] Now.pages = "each" /\ n = 1 -> 2 .. Min({limit, service.size}) + 1
    [] Now.pages = "cursor" /\ MorePages(n) /\ listed < Most -> {n + 1}
    [] Now.pages = "links" /\ MorePages(n) /\ (limit = 0 \/ n < limit) -> {n + 1}
    [] Now.pages = "batches" /\ n = 1 /\ MorePages(n) -> Batch(2)
    [] OTHER -> {}
AtOnce == IF Now.pages \in {"offsets", "batches"} THEN Concurrency ELSE 1

Listed(answers) == FlattenSeq([n \in 1 .. Max(DOMAIN answers \cup {0}) |-> answers[n]])

-----------------------------------------------------------------------------
Some(Test(_)) == \E i \in DOMAIN ways : Test(ways[i])
Init ==
  /\ ways \in Loads
  /\ \E size \in 0 .. MaxItems :
       /\ service \in
            [size : {size},
             bad : IF Some(LAMBDA w: w.all) THEN {{}}
                   ELSE {bad \in SUBSET (1 .. size) : Cardinality(bad) <= MaxBad},
             stubs : IF Some(LAMBDA w: w.pages \in {"stubs", "annotated"}) THEN SUBSET (1 .. size)
                     ELSE {{}},
             ordered : IF Some(LAMBDA w: w.pages = "mapped") THEN BOOLEAN ELSE {TRUE}]
       /\ limit \in IF Some(LAMBDA w: w.cap \in {"asked", "cut"}) THEN 1 .. MaxItems
                    ELSE IF Some(LAMBDA w: w.cap # "none" \/ w.pages \in {"offsets", "batches", "links"})
                    THEN 0 .. MaxItems ELSE {0}
  /\ left = Now.before
  /\ pending = IF Now.pages = "given" THEN {} ELSE {1}
  /\ pages = <<>> /\ lost = FALSE /\ result = None

Report(gives, tracks) == result' = [gives |-> gives, tracks |-> tracks]

(* A way leads to nothing: the next one, or the end.                       *)
Fail(failure) ==
  IF Len(ways) > 1 /\ failure \notin Now.ends
  THEN /\ ways' = Tail(ways)
       /\ left' = ways[2].before
       /\ pending' = IF ways[2].pages = "given" THEN {} ELSE {1}
       /\ pages' = <<>> /\ lost' = FALSE
       /\ UNCHANGED result
  ELSE /\ Report(IF failure \in Now.error THEN "error" ELSE "empty", <<>>)
       /\ lost' = (lost \/ failure \notin {"nothing", "refused"})
       /\ UNCHANGED <<ways, left, pending, pages>>

Prepare ==
  /\ result = None /\ left > 0
  /\ \/ left' = left - 1 /\ UNCHANGED <<ways, pending, pages, lost, result>>
     \/ Fail(IF left = Now.before THEN "first" ELSE "before")
  /\ UNCHANGED <<service, limit>>

(* A page comes. When a batch is complete, there is another one after it,  *)
(* unless one of its pages is missing or short.                            *)
Arrives(n, answer) ==
  LET answers == pages @@ (n :> answer)
      rest == pending \ {n}
      another == /\ Now.pages = "batches" /\ n > 1 /\ rest = {} /\ ~lost
                 /\ \A m \in DOMAIN answers : Len(answers[m]) = Page
  IN /\ pages' = answers
     /\ pending' = rest \cup NextPages(n, Len(SelectSeq(Listed(answers), Readable)))
                     \cup (IF another THEN Batch(Max(DOMAIN answers) + 1) ELSE {})
     /\ UNCHANGED <<service, limit, ways, left, lost, result>>

(* Those who wait for a permit are served in order.                        *)
Permitted(n) == Cardinality({m \in pending : m < n}) < AtOnce

Fetch(n) ==
  /\ result = None /\ left = 0 /\ n \in pending /\ Permitted(n)
  /\ Arrives(n, Answer(n))

(* The request for the first page fails, or that for a later one, which    *)
(* leaves a hole or, where the next page is named by the last, the end.    *)
FetchFails(n) ==
  /\ result = None /\ left = 0 /\ n \in pending /\ Permitted(n)
  /\ UNCHANGED <<service, limit>>
  /\ IF n = 1 THEN Fail("request")
     ELSE /\ pages' = pages @@ (n :> <<>>)
          /\ pending' = pending \ {n}
          /\ lost' = TRUE
          /\ UNCHANGED <<ways, left, result>>

(* All is there: the items, in the order of the pages, or of the ids.      *)
Finish ==
  /\ result = None /\ left = 0 /\ pending = {}
  /\ UNCHANGED <<service, limit>>
  /\ LET items == IF Now.pages = "annotated" THEN Ascending(ToSet(Listed(pages)))
                  ELSE Listed(pages)
         taken == CASE Now.cap = "taken" -> Take(limit, items)
                    [] Now.pages = "offsets" /\ limit > 0 -> Take(limit * Page, items)
                    [] OTHER -> items
         kept == SelectSeq(taken, Readable)
         read == CASE Now.cap = "kept" -> Take(AtLeastOne(limit), kept)
                   [] Now.cap = "truncated" -> Take(limit, kept)
                   [] OTHER -> kept
         told == UNCHANGED <<ways, left, pending, pages, lost>>
     IN CASE Now.pages = "given" -> Report("track", <<0>>) /\ told
          [] Now.gives = "track" ->
               IF items # <<>> /\ Readable(Head(items)) THEN Report("track", <<Head(items)>>) /\ told
               ELSE \/ Fail("nothing")
                    \/ items # <<>> /\ "refused" \in Now.error /\ Fail("refused")
          [] OTHER ->
               IF (items = <<>> /\ Now.needs = "raw") \/ (read = <<>> /\ Now.needs = "read")
               THEN Fail("nothing")
               ELSE \/ /\ told
                       /\ Report(IF Now.gives # "tracks" THEN Now.gives
                                 ELSE IF Len(items) = 1 THEN "track" ELSE "playlist",
                                 IF Now.cap = "cut" THEN Take(limit, read) ELSE read)
                    \/ Now.after /\ Fail("request")

Next == Prepare \/ Finish \/ \E n \in pending : Fetch(n) \/ FetchFails(n)

Spec == Init /\ [][Next]_vars /\ WF_vars(Next)

-----------------------------------------------------------------------------
TypeOK ==
  /\ left \in Nat /\ limit \in 0 .. MaxItems /\ lost \in BOOLEAN
  /\ pending \subseteq 1 .. MaxItems + 1 /\ DOMAIN pages \subseteq 1 .. MaxItems + Concurrency

Tracks == result.tracks
(* Whether the limit, as it is meant, leaves room for item n.              *)
Within(n) ==
  CASE Now.gives = "track" -> n = 1
    [] Now.pages \in {"offsets", "batches", "links"} -> limit = 0 \/ n <= limit * Page
    [] Now.pages = "cursor" -> n <= Most
    [] Now.cap \in {"asked", "taken"} -> n <= limit
    [] Now.cap = "clamped" -> n <= AtLeastOne(limit)
    [] Now.cap \in {"kept", "cut"} ->
         Cardinality({m \in 1 .. n : Readable(m)}) <= AtLeastOne(limit)
    [] Now.cap = "truncated" ->
         IF n \in service.stubs
         THEN Cardinality({m \in (1 .. service.size) \ service.stubs : Readable(m)}
                            \cup {m \in service.stubs : m <= n}) <= limit
         ELSE Cardinality({m \in (1 .. service.size) \ service.stubs : Readable(m) /\ m <= n}) <= limit
    [] OTHER -> TRUE

(* Tracks come in the order of the list, each one once; SoundCloud puts    *)
(* those that it was only given the ids of after the others, and a map     *)
(* without an order has none.                                              *)
InListOrder ==
  result # None =>
    /\ \A i, j \in DOMAIN Tracks : i < j =>
         \/ Tracks[i] < Tracks[j]
         \/ Now.pages = "stubs" /\ Tracks[i] \notin service.stubs /\ Tracks[j] \in service.stubs
         \/ ~service.ordered /\ Tracks[i] # Tracks[j]
    /\ \A i \in DOMAIN Tracks : Tracks[i] = 0 \/ Readable(Tracks[i])

(* A list is whole, up to the limit, unless a request failed; nothing is   *)
(* found only where there is nothing to find or nobody answered. A limit   *)
(* of pages is kept to.                                                    *)
WholeUnlessLost ==
  result # None /\ ~lost /\ Now.pages # "given" =>
    \A n \in 1 .. service.size :
         Readable(n) /\ Within(n) => n \in ToSet(Tracks)
NoMoreThanAsked ==
  result # None /\ Now.gives # "track" =>
    /\ Now.cap \in {"asked", "taken", "cut", "truncated"} => Len(Tracks) <= limit
    /\ Now.pages \in {"offsets", "batches", "links"} /\ limit > 0 => Len(Tracks) <= limit * Page
    /\ Now.pages = "cursor" => Len(Tracks) < Most + Page

ListedAsAsked == InListOrder /\ WholeUnlessLost /\ NoMoreThanAsked

Loaded == result # None
=============================================================================
