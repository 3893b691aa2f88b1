------------------------------ MODULE LyricsSync ------------------------------
(***************************************************************************)
(* The lyrics of a player: they are looked for when a track starts or its  *)
(* client subscribes, kept in the player, and told line by line as the     *)
(* track's monitor sees the position move.                                 *)
(*                                                                         *)
(* Sources: src/player/manager/{lyrics,monitor,start}.rs, player/context.rs*)
(* and rest/routes/lyrics.rs. What a search finds (LyricsSearch) is any of *)
(* Lyrics, and not the same for two searches.                              *)
(***************************************************************************)
EXTENDS Integers, Sequences, FiniteSetsExt

CONSTANTS
  Lyrics,        \* what is found: None, text only (<<>>), or the times of the lines
  MaxTracks,     \* bound: the tracks that are played
  MaxPosition,   \* bound: their length
  MaxSubscribed, \* bound: the subscriptions
  MaxSeeks,      \* bound: the seeks
  None

LyricsSyncAssumption ==
  /\ MaxTracks \in Nat /\ MaxPosition \in Nat /\ MaxSubscribed \in Nat /\ MaxSeeks \in Nat
  /\ \A l \in Lyrics \ {None} : l \in Seq(Nat)

VARIABLES
  track,       \* which track plays, 0 before the first
  position,    \* where its sound is
  seeks,       \* the seeks made
  subscribed,  \* lyrics_subscribed
  times,       \* how often it was subscribed
  resets,      \* a subscription has yet to set last_index
  searches,    \* those on their way: the track, the subscription (0: the start), how far
  lyrics_data, \* None, or the lines and the track they were looked for
  last_index,  \* last_lyric_index from 0 up: the line told last, 0 for none
  reading,     \* None, or what the monitor found: the line it is at, and the last told
  heard,       \* the client's view: the line it was told last
  missed,      \* it was told a line, but not the one before, of lines not replaced
  replaced     \* since the last subscription, another track's or search's lines came

vars ==
  <<track, position, seeks, subscribed, times, resets, searches, lyrics_data, last_index,
    reading, heard, missed, replaced>>

-----------------------------------------------------------------------------
Init ==
  /\ track = 0 /\ position = 0 /\ seeks = 0 /\ subscribed = FALSE /\ times = 0
  /\ resets = FALSE /\ searches = {} /\ lyrics_data = None /\ last_index = 0
  /\ reading = None /\ heard = 0 /\ missed = FALSE /\ replaced = FALSE

(* start_playback: what is kept and last_index stay as they are.           *)
StartTrack ==
  /\ track < MaxTracks /\ ~resets
  /\ track' = track + 1 /\ position' = 0 /\ reading' = None /\ heard' = 0
  /\ searches' = searches \cup {[of |-> track + 1, by |-> 0, at |-> "spawned"]}
  /\ replaced' = (replaced \/ lyrics_data # None \/ last_index # 0)
  /\ UNCHANGED <<seeks, subscribed, times, resets, lyrics_data, last_index, missed>>

(* subscribe_lyrics holds the player's lock, which the monitor does not    *)
(* need: it may run between the two stores.                                *)
Subscribe ==
  /\ times < MaxSubscribed /\ ~resets
  /\ subscribed' = TRUE /\ times' = times + 1 /\ resets' = TRUE
  /\ UNCHANGED <<track, position, seeks, searches, lyrics_data, last_index, reading, heard,
                 missed, replaced>>

Resets ==
  /\ resets /\ resets' = FALSE /\ last_index' = 0
  /\ replaced' = (replaced /\ reading # None)
  /\ searches' = IF track = 0 THEN searches
                 ELSE searches \cup {[of |-> track, by |-> times, at |-> "spawned"]}
  /\ UNCHANGED <<track, position, seeks, subscribed, times, lyrics_data, reading, heard, missed>>

Unsubscribe ==
  /\ subscribed /\ ~resets /\ subscribed' = FALSE
  /\ UNCHANGED <<track, position, seeks, times, resets, searches, lyrics_data, last_index,
                 reading, heard, missed, replaced>>

-----------------------------------------------------------------------------
(* A start's search is made if the client is subscribed, a subscription's  *)
(* if no lyrics are kept.                                                  *)
SearchRuns(s) ==
  /\ s.at = "spawned" /\ (s.by > 0 => reading = None)
  /\ searches' = (searches \ {s}) \cup
       (IF (s.by = 0 /\ subscribed) \/ (s.by > 0 /\ lyrics_data = None)
        THEN {[s EXCEPT !.at = "asked"]} ELSE {})
  /\ UNCHANGED <<track, position, seeks, subscribed, times, resets, lyrics_data, last_index,
                 reading, heard, missed, replaced>>

(* What is found is kept, under the lock, and then sent.                   *)
SearchFinds(s) ==
  /\ s.at = "asked" /\ reading = None
  /\ \E lyrics \in Lyrics :
       IF lyrics = None
       THEN searches' = searches \ {s} /\ UNCHANGED <<lyrics_data, replaced>>
       ELSE /\ searches' = (searches \ {s}) \cup {[s EXCEPT !.at = "found"]}
            /\ lyrics_data' = [of |-> s.of, lines |-> lyrics]
            /\ replaced' = (replaced \/ lyrics_data # None \/ s.of # track)
  /\ UNCHANGED <<track, position, seeks, subscribed, times, resets, last_index, reading, heard,
                 missed>>

SearchTells(s) ==
  /\ s.at = "found" /\ searches' = searches \ {s}
  /\ UNCHANGED <<track, position, seeks, subscribed, times, resets, lyrics_data, last_index,
                 reading, heard, missed, replaced>>

-----------------------------------------------------------------------------
Plays ==
  /\ track > 0 /\ position < MaxPosition /\ position' = position + 1
  /\ UNCHANGED <<track, seeks, subscribed, times, resets, searches, lyrics_data, last_index,
                 reading, heard, missed, replaced>>

Seek ==
  /\ track > 0 /\ seeks < MaxSeeks /\ seeks' = seeks + 1
  /\ position' \in (0 .. MaxPosition) \ {position}
  /\ UNCHANGED <<track, subscribed, times, resets, searches, lyrics_data, last_index, reading,
                 heard, missed, replaced>>

(* sync_lyrics: the last line whose time has come, and the last one told.  *)
(* The lock is held until the lines are told.                              *)
Target(lines) == Max({0} \cup {i \in DOMAIN lines : lines[i] <= position})

HasLines == lyrics_data # None /\ lyrics_data.lines # <<>>

SyncReads ==
  /\ subscribed /\ track > 0 /\ reading = None /\ HasLines
  /\ Target(lyrics_data.lines) # last_index
  /\ reading' = [target |-> Target(lyrics_data.lines), last |-> last_index]
  /\ UNCHANGED <<track, position, seeks, subscribed, times, resets, searches, lyrics_data,
                 last_index, heard, missed, replaced>>

(* A plausible bug: forward, too, only the line at hand is told.           *)
Told_latest == {reading.target} \ {0}

(* Forward, every line since the last one; backward, the one at hand.      *)
Told ==
  IF reading.target > reading.last THEN reading.last + 1 .. reading.target
  ELSE {reading.target} \ {0}

SyncTells ==
  /\ reading # None /\ reading' = None
  /\ heard' = Max({0} \cup Told) /\ last_index' = reading.target
  /\ missed' = (missed \/ (~replaced /\ Told # {} /\ Min(Told) > heard + 1))
  /\ UNCHANGED <<track, position, seeks, subscribed, times, resets, searches, lyrics_data, replaced>>

Proceeds ==
  Resets \/ SyncReads \/ SyncTells \/ Plays
    \/ \E s \in searches : SearchRuns(s) \/ SearchFinds(s) \/ SearchTells(s)

Next == StartTrack \/ Subscribe \/ Unsubscribe \/ Seek \/ Proceeds

(* The handler and the searches run on, and the monitor ticks.             *)
Spec ==
  /\ Init /\ [][Next]_vars
  /\ WF_vars(Resets) /\ WF_vars(SyncReads) /\ WF_vars(SyncTells)
  /\ WF_vars(\E s \in searches : SearchRuns(s) \/ SearchFinds(s) \/ SearchTells(s))

-----------------------------------------------------------------------------
TypeOK ==
  /\ track \in 0 .. MaxTracks /\ position \in 0 .. MaxPosition /\ times \in 0 .. MaxSubscribed
  /\ last_index \in Nat /\ heard \in Nat /\ subscribed \in BOOLEAN /\ resets \in BOOLEAN

(* lyrics.rs, sync_lyrics: the client is told no line without the one      *)
(* before it, wherever it seeks and whenever it subscribes, while the      *)
(* lines stay those that it subscribed to.                                 *)
NoLineMissed == ~missed

(* In the end no search is on its way, and the client was told the line    *)
(* at hand.                                                                *)
CaughtUp ==
  searches = {} /\ (subscribed /\ track > 0 /\ HasLines => last_index = Target(lyrics_data.lines))

(* By hand. docs/src/content/docs/events/lyrics-line.mdx: a line is of the *)
(* track that plays.                                                       *)
LinesOfTheTrack == reading # None => lyrics_data.of = track

(* By hand. A line is told after the lyrics that it is of.                 *)
LineAfterLyrics == reading # None => \A s \in searches : s.at # "found"
=============================================================================
