----------------------------- MODULE LyricsSearch -----------------------------
(***************************************************************************)
(* The search for a track's lyrics: every provider is asked at once, each  *)
(* in its own requests, and the first answer that has lines is taken, or   *)
(* else the first that is text only.                                       *)
(*                                                                         *)
(* Sources: src/lyrics/*.rs. The services are external: a request is       *)
(* answered or fails, in any order.                                        *)
(***************************************************************************)
EXTENDS Integers, Sequences, FiniteSets

CONSTANTS
  MaxProviders, \* bound: the providers that are enabled
  None

VARIABLES
  source,   \* the source of the track
  skip,     \* skipTrackSource
  race,     \* per provider that is asked: how far it is
  fallback, \* the first answer of text only
  found     \* "searching", None, or the provider and the form of its answer

vars == <<source, skip, race, fallback, found>>

-----------------------------------------------------------------------------
(* A form of the lyrics that a provider looks for, with the requests it    *)
(* needs beyond those before, and what follows if one of them fails, if    *)
(* the form is missing, or if there is no line in it: "next" form, an      *)
(* answer, or "none".                                                      *)
Form(form, asks, fails, missing, empty) ==
  [form |-> form, asks |-> asks, fails |-> fails, missing |-> missing, empty |-> empty]
Last(form) == Form(form, 0, "none", "none", "none")

(* A provider: its name, the sources whose tracks it need not search for   *)
(* and the requests that come first; of its sequences of forms, the        *)
(* answer to the last of these settles one.                                *)
Lrclib ==
  [name |-> "lrclib", knows |-> {}, asks |-> 1,
   forms |-> {<<Form("synced", 0, "none", "next", "none"), Last("plain")>>}]
Netease ==
  [name |-> "netease", knows |-> {}, asks |-> 2,
   forms |-> {<<Form("synced", 0, "none", "none", "plain")>>}]
Genius ==
  [name |-> "genius", knows |-> {}, asks |-> 2, forms |-> {<<Last("plain")>>}]
LetrasMus ==
  [name |-> "letrasmus", knows |-> {}, asks |-> 2,
   forms |-> {<<Form("synced", 1, "next", "next", "next"), Last("plain")>>}]
Yandex ==
  [name |-> "yandex", knows |-> {"yandexmusic"}, asks |-> 3, forms |-> {<<Last("synced")>>}]
Deezer ==
  [name |-> "deezer", knows |-> {"deezer"}, asks |-> 3,
   forms |-> {<<Form("synced", 0, "none", "next", "next"),
                Form("synced", 0, "none", "next", "next"), Last("plain")>>}]

(* All in one, or if that is refused, a search and the lyrics of what it   *)
(* found. A list of no lines counts as lines.                              *)
Musixmatch ==
  [name |-> "musixmatch", knows |-> {}, asks |-> 2,
   forms |-> {<<Form("synced", 0, "none", "next", "empty"), Form("plain", 0, "none", "none", "plain")>>,
              <<Form("synced", 2, "none", "next", "empty"), Form("plain", 1, "none", "none", "plain")>>}]

(* The lines of plain lyrics are given as lines, all of them at time 0.    *)
YoutubeMusic ==
  [name |-> "youtubemusic", knows |-> {"youtube", "youtubemusic"}, asks |-> 2,
   forms |-> {<<Form("synced", 1, "next", "next", "next"), Form("untimed", 1, "none", "none", "none")>>}]

AllProviders ==
  {YoutubeMusic, Lrclib, Genius, Deezer, Musixmatch, LetrasMus, Netease, Yandex}

TrackSources == {"deezer", "netease", "yandexmusic", "youtube", "youtubemusic", "spotify"}

(* The lyrics have lines: lines.is_some()                                  *)
HasLines(form) == form \in {"synced", "untimed", "empty"}

LyricsSearchAssumption ==
  /\ MaxProviders \in Nat
  /\ \A p \in AllProviders : None # [form |-> "plain", of |-> p.name]

-----------------------------------------------------------------------------
(* load_lyrics_ext: those are asked that need not be skipped. A provider   *)
(* that knows the track by its id makes one request less.                  *)
Init ==
  /\ source \in TrackSources /\ skip \in BOOLEAN
  /\ \E providers \in SUBSET AllProviders :
       /\ Cardinality(providers) <= MaxProviders
       /\ race = [p \in {q \in providers : ~(skip /\ q.name = source)} |->
                    [asks |-> p.asks - (IF source \in p.knows THEN 1 ELSE 0),
                     forms |-> <<>>, out |-> "searching", taken |-> FALSE]]
  /\ fallback = None /\ found = [form |-> "searching"]

Searching(p) == found.form = "searching" /\ race[p].out = "searching"
Ends(p, out) == race' = [race EXCEPT ![p].out = out]
LooksFor(p, forms) ==
  race' = [race EXCEPT ![p].forms = forms, ![p].asks = forms[1].asks]

(* What comes after the form at hand.                                      *)
Follow(p, step) ==
  CASE step # "next" -> Ends(p, step)
    [] step = "next" /\ Len(race[p].forms) > 1 -> LooksFor(p, Tail(race[p].forms))
    [] OTHER -> Ends(p, "none")

Answered(p) ==
  /\ Searching(p) /\ race[p].asks > 0
  /\ IF race[p].asks = 1 /\ race[p].forms = <<>>
     THEN \E forms \in p.forms : LooksFor(p, forms)
     ELSE race' = [race EXCEPT ![p].asks = @ - 1]
  /\ UNCHANGED <<source, skip, fallback, found>>

Failed(p) ==
  /\ Searching(p) /\ race[p].asks > 0
  /\ IF race[p].forms = <<>> THEN Ends(p, "none") ELSE Follow(p, race[p].forms[1].fails)
  /\ UNCHANGED <<source, skip, fallback, found>>

(* parse_lrc, parse_subtitles, ..: the form is there, is missing, or has   *)
(* no line in it.                                                          *)
Read(p) ==
  /\ Searching(p) /\ race[p].asks = 0
  /\ LET form == race[p].forms[1]
     IN \E step \in {form.form, form.missing, form.empty} : Follow(p, step)
  /\ UNCHANGED <<source, skip, fallback, found>>

(* A plausible bug: the first answer is taken, lines or not.               *)
Takes_first(p) ==
  /\ fallback' = fallback
  /\ found' = IF race[p].out # "none" THEN [form |-> race[p].out, of |-> p.name] ELSE found

(* The answer of one provider, in the order in which they come.            *)
Takes(p) ==
  LET answer == [form |-> race[p].out, of |-> p.name]
  IN /\ found' = IF HasLines(race[p].out) THEN answer ELSE found
     /\ fallback' = IF race[p].out = "plain" /\ fallback = None THEN answer ELSE fallback

Taken(p) ==
  /\ found.form = "searching" /\ race[p].out # "searching" /\ ~race[p].taken
  /\ Takes(p)
  /\ race' = [race EXCEPT ![p].taken = TRUE]
  /\ UNCHANGED <<source, skip>>

NoneLeft ==
  /\ found.form = "searching" /\ \A p \in DOMAIN race : race[p].taken
  /\ found' = IF fallback = None THEN [form |-> "none"] ELSE fallback
  /\ UNCHANGED <<source, skip, race, fallback>>

Next ==
  NoneLeft \/ \E p \in DOMAIN race : Answered(p) \/ Failed(p) \/ Read(p) \/ Taken(p)

(* A request is answered or fails in the end.                              *)
Spec == Init /\ [][Next]_vars /\ WF_vars(Next)

-----------------------------------------------------------------------------
TypeOK ==
  /\ DOMAIN race \subseteq AllProviders
  /\ \A p \in DOMAIN race : race[p].asks \in 0 .. 3 /\ race[p].taken \in BOOLEAN

Found == found.form # "searching"

(* mod.rs, load_lyrics_ext: text only is found when no provider that was   *)
(* asked gave lines, nothing when none gave anything, and what is found is *)
(* what the named one gave.                                                *)
BestIsFound ==
  Found =>
    LET outs == {race[p].out : p \in DOMAIN race}
    IN /\ ~HasLines(found.form) =>
            outs \subseteq (IF found.form = "plain" THEN {"plain", "none"} ELSE {"none"})
       /\ found.form # "none" =>
            \E p \in DOMAIN race : p.name = found.of /\ race[p].out = found.form

(* By hand. docs/src/content/docs/events/lyrics-found.mdx: the lines of    *)
(* synced lyrics have their times, and there are some.                     *)
LinesAreTimed == Found => found.form \notin {"untimed", "empty"}

(* By hand. protocol/models.rs, skip_track_source: the provider that has   *)
(* the track's own source is left out. YouTube's and Yandex's have other   *)
(* names than their sources.                                               *)
SourceIsSkipped == skip => \A p \in DOMAIN race : source \notin p.knows
=============================================================================
