------------------------------ MODULE MCPlayback ------------------------------
(* From an identifier to sound, in one run: identifiers are routed to      *)
(* sources, a track is resolved, or one is played. A behaviour is of one   *)
(* kind, and the state of the others stays as it is.                       *)
EXTENDS TrackPlayback, SourceRouting

CONSTANTS
  Patterns,     \* the providers of the configuration: a prefix with an ISRC or a query
  MaxCandidates \* bound: candidates of a search

VARIABLES
  kind,
  original, has_isrc, mirrors, stage, search, answer

(* Everything is registered, or all but one source, or two of some.        *)
Names == DOMAIN Sources
Enabled == {Names} \cup {Names \ {s} : s \in Names}
             \cup {{s, t} : s, t \in {"audiomack", "soundcloud", "http", "flowery"}}

EverySource == {Names}

(* Providers with an ISRC or a query. One leads to a source that only      *)
(* names tracks, and one to no source.                                     *)
EveryKind == <<[prefix |-> "ytsearch", isrc |-> TRUE], [prefix |-> "dzisrc", isrc |-> TRUE],
               [prefix |-> "scsearch", isrc |-> FALSE], [prefix |-> "spsearch", isrc |-> FALSE],
               [prefix |-> "unknown", isrc |-> FALSE], [prefix |-> "ytsearch", isrc |-> FALSE],
               [prefix |-> "ytmsearch", isrc |-> FALSE]>>

(* The providers of the configuration, with the source that each leads to. *)
Handler(prefix) ==
  LET handlers == {s \in Names : prefix \in DOMAIN Sources[s].prefixes}
  IN IF handlers = {} THEN None ELSE CHOOSE s \in handlers : TRUE
MirrorProviders ==
  [i \in DOMAIN Patterns |->
     [isrc |-> Patterns[i].isrc, source |-> Handler(Patterns[i].prefix),
      throttled |-> Patterns[i].prefix \in {"ytmsearch", "ytsearch"}]]

Resolving == INSTANCE Resolution WITH Providers <- MirrorProviders

ASSUME PlaybackAssumption ==
  TrackPlaybackAssumption /\ Resolving!ResolutionAssumption /\ RoutingAssumption

resolvingVars == <<original, has_isrc, mirrors, stage, search, answer>>
allVars == <<kind, vars, resolvingVars, routingVars>>

(* One initial state stands for those of the kinds that do not run. The    *)
(* tape and the fallback of YouTube have nothing to do with each other.    *)
PlaybackInit ==
  /\ kind \in {"routing", "resolving", "playing"}
  /\ Init /\ Resolving!Init /\ RoutingInit
  /\ tape_stop => service = "direct" /\ position = 0
  /\ kind # "playing" => service = "direct" /\ ~tape_stop /\ position = 0
  /\ kind # "resolving" => original = None /\ has_isrc /\ mirrors = "none"
  /\ kind # "routing" => enabled = Names

RoutingStep(A) == kind = "routing" /\ A /\ UNCHANGED <<kind, vars, resolvingVars>>
ResolvingStep(A) == kind = "resolving" /\ A /\ UNCHANGED <<kind, vars, routingVars>>
PlayingStep(A) == kind = "playing" /\ A /\ UNCHANGED <<kind, resolvingVars, routingVars>>

PlaybackNext ==
  RoutingStep(RoutingNext) \/ ResolvingStep(Resolving!Next) \/ PlayingStep(Next)

(* Every step of an actor changes the variables in the subscript of its    *)
(* condition.                                                              *)
PlaybackSpec ==
  /\ PlaybackInit /\ [][PlaybackNext]_allVars
  /\ WF_asking(PlayingStep(Sending)) /\ WF_decoding(PlayingStep(Decoder))
  /\ WF_<<relaying, commands>>(PlayingStep(Task))
  /\ WF_mixing(PlayingStep(Mixing)) /\ WF_<<state, monitor>>(PlayingStep(Monitor))
  /\ WF_resolvingVars(ResolvingStep(Resolving!Next))

-----------------------------------------------------------------------------
(* manager/mod.rs, resolve_track, and best_match.rs, resolve_scored: the   *)
(* match is right whatever the order of the answers, the providers were    *)
(* asked the way the configuration says, and none was left out.            *)
RightAnswer == Resolving!RightAnswer

(* config.example.toml, [player.mirrors.best_match]                        *)
DissimilarIsDiscarded == Resolving!DissimilarIsDiscarded
ThrottledComeLast == Resolving!ThrottledComeLast

(* monitor.rs and processor.rs: a track does not play on without an end    *)
(* and leaves no thread behind. manager/mod.rs: resolve_track returns.     *)
PlaysToAnEnd ==
  []<>((kind = "playing" => AtRest) /\ (kind = "resolving" => Resolving!Answered))
=============================================================================
