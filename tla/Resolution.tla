------------------------------ MODULE Resolution ------------------------------
(***************************************************************************)
(* How a track that is to be played becomes something playable: its own    *)
(* source is asked, and when that has nothing the mirror providers of the  *)
(* configuration are searched, some at the same time, and what they find   *)
(* is scored against the track.                                            *)
(*                                                                         *)
(* Sources: src/sources/manager/mod.rs (resolve_track), resolver.rs and    *)
(* best_match.rs. A score is one of the four classes the thresholds of the *)
(* configuration make: 0 is below min_similarity, 1 reaches it, 2 reaches  *)
(* high_confidence, 3 reaches immediate_use. What a source answers is the  *)
(* world's choice.                                                         *)
(***************************************************************************)
EXTENDS Naturals, Sequences, FiniteSetsExt

CONSTANTS
  Providers,      \* the providers in the order of the configuration: the kind of
                  \* pattern, the source its prefix belongs to, whether that is throttled
  MirrorSources,  \* the sources of which is_mirror is true
  None,           \* no source handles the identifier
  MaxCandidates   \* bound: candidates of a search, 10 in the code

ResolutionAssumption ==
  /\ Len(Providers) \in Nat /\ DOMAIN Providers = 1 .. Len(Providers)
  /\ \A i \in DOMAIN Providers : DOMAIN Providers[i] = {"isrc", "source", "throttled"}
  /\ \A i \in DOMAIN Providers : Providers[i].isrc \in BOOLEAN /\ Providers[i].throttled \in BOOLEAN
  /\ None \notin MirrorSources /\ MaxCandidates \in Nat \ {0}

VARIABLES
  original, \* the source that handles the track's own identifier
  has_isrc, \* whether the track has an ISRC
  mirrors,  \* "none", "first" (scoring = false) or "scored"
  stage,    \* what resolve_track is at
  search,   \* what has become of the search of each provider
  answer    \* what resolve_track has returned

vars == <<original, has_isrc, mirrors, stage, search, answer>>

Score == 0..3
MinSimilarity == 1
HighConfidence == 2
ImmediateUse == 3

(* What resolve_track returns: the track of its own source, that of a      *)
(* provider, by its number, or an error; nothing yet.                      *)
Index == DOMAIN Providers
Pending == 0
Own == Len(Providers) + 1
Error == Len(Providers) + 2

(* A search: the score of its best candidate, that of the one that is next *)
(* to be tried or has been found to play, and how many were tried before.  *)
Idle == [at |-> "idle", top |-> 0, score |-> 0, tried |-> 0]
Nothing == [Idle EXCEPT !.at = "nothing"]

TypeOK ==
  /\ has_isrc \in BOOLEAN /\ mirrors \in {"none", "first", "scored"}
  /\ stage \in {"own", "first", "isrc", "free", "throttled", "done"}
  /\ search \in [Index -> [at : {"idle", "loading", "trying", "found", "nothing", "dropped"},
                           top : Score, score : Score, tried : 0..MaxCandidates]]
  /\ answer \in {Pending, Own, Error} \cup Index

Init ==
  /\ original \in {Providers[i].source : i \in Index} \cup MirrorSources \cup {None}
  /\ has_isrc \in BOOLEAN /\ mirrors \in {"none", "first", "scored"}
  /\ stage = "own" /\ search = [i \in Index |-> Idle] /\ answer = Pending

-----------------------------------------------------------------------------
(* The provider has what its pattern needs, and leads neither to a source  *)
(* that only names tracks nor back to the one that has just failed. One    *)
(* that no source handles is kept: its search will find nothing.           *)
Eligible(i) ==
  /\ Providers[i].isrc => has_isrc
  /\ Providers[i].source # None =>
       Providers[i].source \notin MirrorSources /\ Providers[i].source # original

Class(i) == IF Providers[i].isrc THEN "isrc"
            ELSE IF Providers[i].throttled THEN "throttled" ELSE "free"
Of(class) == {i \in Index : Eligible(i) /\ (class = "first" \/ Class(i) = class)}

At(i) == search[i].at
Over(i) == At(i) = "nothing" \/ At(i) = "found"
Drop(i) == IF At(i) \in {"loading", "trying"} THEN [Idle EXCEPT !.at = "dropped"] ELSE search[i]

(* The searches of a stage begin together, or one after the other.         *)
Together(class) == class \in {"isrc", "free"}
Begin(class) ==
  /\ stage' = class
  /\ search' = [i \in Index |->
       IF i \in Of(class) /\ (Together(class) \/ i = Min(Of(class)))
         THEN [search[i] EXCEPT !.at = "loading"] ELSE search[i]]
  /\ UNCHANGED <<original, has_isrc, mirrors, answer>>

Return(a) ==
  /\ answer' = a /\ stage' = "done"
  /\ UNCHANGED <<original, has_isrc, mirrors>>

-----------------------------------------------------------------------------
(* resolve_track asks the first source that handles the identifier and no  *)
(* other. A mirror source has no playable track.                           *)
OwnPlays ==
  /\ stage = "own" /\ original # None /\ original \notin MirrorSources
  /\ Return(Own) /\ UNCHANGED search

OwnFails ==
  /\ stage = "own"
  /\ CASE mirrors = "none"   -> Return(Error) /\ UNCHANGED search
       [] mirrors = "first"  -> Begin("first")
       [] mirrors = "scored" -> Begin("isrc")

(* How many candidates of a search are tried, and down to which score: all *)
(* of them whatever their score when the provider is trusted, fewer the    *)
(* better the best one is, and only the first when nothing is scored.      *)
Trusted == stage \in {"isrc", "throttled"}
Limit(top) ==
  CASE stage = "first" -> 1
    [] Trusted -> MaxCandidates
    [] stage = "free" -> IF top >= ImmediateUse THEN 1 ELSE IF top >= HighConfidence THEN 2 ELSE 3
Threshold(top) ==
  IF stage # "free" THEN 0 ELSE IF top >= HighConfidence THEN top ELSE MinSimilarity

(* The next candidate of a search, if there is one that may be tried.      *)
Candidate(top, score, tried) ==
  IF tried < Limit(top) /\ score >= Threshold(top)
    THEN [at |-> "trying", top |-> top, score |-> score, tried |-> tried] ELSE Nothing

(* The source answers the search: with tracks, or with nothing usable.     *)
Loads(i) ==
  /\ At(i) = "loading"
  /\ \/ \E top \in Score : Providers[i].source # None /\ search' = [search EXCEPT ![i] = Candidate(top, top, 0)]
     \/ search' = [search EXCEPT ![i] = Nothing]
  /\ UNCHANGED <<original, has_isrc, mirrors, stage, answer>>

(* resolve_nested_track fails: the next candidate, which is no better, or  *)
(* no result.                                                              *)
TryFails(i) ==
  /\ At(i) = "trying"
  /\ \/ \E score \in 0..search[i].score :
          search' = [search EXCEPT ![i] = Candidate(search[i].top, score, search[i].tried + 1)]
     \/ search' = [search EXCEPT ![i] = Nothing]
  /\ UNCHANGED <<original, has_isrc, mirrors, stage, answer>>

(* A candidate can be played. What comes of it depends on the stage: an    *)
(* ISRC match waits for the providers before it, a free one that is good   *)
(* enough is taken at once and the other searches are dropped, a throttled *)
(* one is taken as it is.                                                  *)
Takes(i) == [j \in Index |-> IF j = i THEN [search[i] EXCEPT !.at = "found"] ELSE Drop(j)]
TryPlays(i) ==
  /\ At(i) = "trying"
  /\ IF stage \in {"first", "throttled"} \/ (stage = "free" /\ search[i].score >= ImmediateUse)
       THEN search' = Takes(i) /\ Return(i)
       ELSE /\ search' = [search EXCEPT ![i].at = "found"]
            /\ UNCHANGED <<original, has_isrc, mirrors, stage, answer>>

(* Mistake kept for checking: the results are handed out as they come.     *)
TakeIsrcFirst(i) ==
  /\ stage = "isrc" /\ At(i) = "found"
  /\ search' = Takes(i) /\ Return(i)

(* FuturesOrdered hands the results out in the order of the configuration. *)
TakeIsrc(i) ==
  /\ stage = "isrc" /\ At(i) = "found"
  /\ \A j \in Of("isrc") : j < i => At(j) = "nothing"
  /\ search' = Takes(i) /\ Return(i)

(* One after the other: the next begins when the one before has nothing.   *)
NextInTurn(i) ==
  /\ stage \in {"first", "throttled"} /\ i \in Of(stage) /\ At(i) = "idle"
  /\ \A j \in Of(stage) : j < i => At(j) = "nothing"
  /\ search' = [search EXCEPT ![i].at = "loading"]
  /\ UNCHANGED <<original, has_isrc, mirrors, stage, answer>>

(* global_best: the first to come among the best of the free searches.     *)
AllOver(class) == \A i \in Of(class) : Over(i)
Found == {i \in Of("free") : At(i) = "found"}
StageOver ==
  \/ stage = "isrc" /\ (\A i \in Of("isrc") : At(i) = "nothing") /\ Begin("free")
  \/ stage = "free" /\ AllOver("free") /\ Begin("throttled")
  \/ /\ stage = "throttled" /\ (\A i \in Of("throttled") : At(i) = "nothing")
     /\ UNCHANGED search
     /\ IF Found = {} THEN Return(Error)
        ELSE \E i \in Found : (\A j \in Found : search[j].score <= search[i].score) /\ Return(i)
  \/ stage = "first" /\ (\A i \in Of("first") : At(i) = "nothing") /\ Return(Error) /\ UNCHANGED search

Provider(i) == Loads(i) \/ TryFails(i) \/ TryPlays(i) \/ TakeIsrc(i) \/ NextInTurn(i)
Next == OwnPlays \/ OwnFails \/ (\E i \in Index : Provider(i)) \/ StageOver

(* Every call to a source ends, if only at a deadline of its client.       *)
Spec == Init /\ [][Next]_vars /\ WF_vars(Next)

-----------------------------------------------------------------------------
(* Properties                                                              *)

(* best_match.rs, resolve_scored: which match is returned does not depend  *)
(* on the order in which answers come, but for free matches that are equal *)
(* or good enough to be taken at once: an ISRC match is that of the first  *)
(* provider that has one, and a fallback is the best that was found.       *)
RightMatch ==
  answer \in Index /\ mirrors = "scored" =>
    /\ Class(answer) = "isrc" => \A j \in Of("isrc") : j < answer => At(j) = "nothing"
    /\ Class(answer) = "free" /\ search[answer].score < ImmediateUse =>
         /\ \A j \in Of("free") : At(j) = "found" => search[j].score <= search[answer].score
         /\ \A j \in Of("throttled") : At(j) = "nothing"

(* Properties of the same answer, for one look at each state: every search *)
(* has ended with it, throttled providers are asked one at a time and after*)
(* the others, and it is an error only when every provider that may be     *)
(* asked was, and none of the candidates that may be tried plays.          *)
AskedPolitely ==
  LET under == {i \in Index : At(i) \in {"loading", "trying"}} IN
  /\ answer # Pending => under = {}
  /\ \A i \in under : stage = "throttled" => under = {i}
ErrorMeansNothing ==
  answer = Error /\ mirrors # "none" => \A i \in Index : Eligible(i) => At(i) = "nothing"

(* manager/mod.rs, resolve_track, and best_match.rs, resolve_scored: the   *)
(* match is right whatever the order of the answers, the providers were    *)
(* asked the way the configuration says, and none was left out.            *)
RightAnswer == RightMatch /\ AskedPolitely /\ ErrorMeansNothing

(* resolve_track returns.                                                  *)
Answered == answer # Pending
Answers == <>Answered

(* config.example.toml: what is below min_similarity is discarded. A       *)
(* trusted provider is not asked for it.                                   *)
DissimilarIsDiscarded ==
  answer \in Index /\ mirrors = "scored" => search[answer].score >= MinSimilarity

(* config.example.toml: throttled providers come after the free ones. With *)
(* an ISRC pattern they come first and together.                           *)
ThrottledComeLast ==
  \A i \in Index : Providers[i].throttled /\ At(i) = "loading" /\ mirrors = "scored" => AllOver("free")
=============================================================================
