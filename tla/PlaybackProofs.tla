---------------------------- MODULE PlaybackProofs ----------------------------
(***************************************************************************)
(* Proofs about the playback of MCPlayback: how a track is resolved, for   *)
(* any list of mirror providers, any number of candidates and any order in *)
(* which the sources answer; how it is played, for a track and a channel   *)
(* of any length and any number of seeks: the position told to the client, *)
(* and what is reported at the end; and which source an identifier and a   *)
(* track go to, for any set of sources that the configuration enables.     *)
(***************************************************************************)
EXTENDS MCPlayback, FiniteSetTheorems, FunctionTheorems, WellFoundedInduction, TLAPS

SearchRecord ==
  [at : {"idle", "loading", "trying", "found", "nothing", "dropped"},
   top : Resolving!Score, score : Resolving!Score, tried : Nat]

ResolvingTyped ==
  /\ stage \in {"own", "first", "isrc", "free", "throttled", "done"}
  /\ search \in [Resolving!Index -> SearchRecord]
  /\ answer \in {Resolving!Pending, Resolving!Own, Resolving!Error} \cup Resolving!Index
  /\ answer = Resolving!Pending <=> stage # "done"
  /\ mirrors \in {"none", "first", "scored"}

Begun(i) == Resolving!At(i) # "idle"
Under(i) == Resolving!At(i) \in {"loading", "trying"}

(* One after the other.                                                    *)
InTurn(class) == \A i, j \in Resolving!Of(class) : Begun(i) /\ j < i => Resolving!At(j) = "nothing"

(* What the stages before have left, and what the one at hand has begun.   *)
StageBegun ==
  /\ stage = "own" => \A i \in Resolving!Index : ~Begun(i)
  /\ stage = "first" =>
       /\ mirrors = "first" /\ InTurn("first")
       /\ \A i \in Resolving!Index : Resolving!At(i) \in {"idle", "loading", "trying", "nothing"}
           /\ (Begun(i) => Resolving!Eligible(i))
  /\ stage \in {"isrc", "free", "throttled"} =>
       /\ mirrors = "scored" /\ \A i \in Resolving!Index : Begun(i) => Resolving!Eligible(i)
       /\ \A i \in Resolving!Of("isrc") :
            IF stage = "isrc" THEN Resolving!At(i) \in {"loading", "trying", "nothing", "found"}
            ELSE Resolving!At(i) = "nothing"
       /\ \A i \in Resolving!Of("free") :
            /\ stage = "isrc" => Resolving!At(i) = "idle"
            /\ stage = "free" => Resolving!At(i) \in {"loading", "trying", "nothing", "found"}
            /\ stage = "throttled" => Resolving!At(i) \in {"nothing", "found"}
            /\ Resolving!At(i) = "found" => search[i].score < Resolving!ImmediateUse
       /\ \A i \in Resolving!Of("throttled") :
            IF stage = "throttled" THEN Resolving!At(i) \in {"idle", "loading", "trying", "nothing"}
            ELSE Resolving!At(i) = "idle"
  /\ stage = "throttled" => InTurn("throttled")
  /\ stage = "done" => \A i \in Resolving!Index : ~Under(i)

ResolvingInv == ResolvingTyped /\ StageBegun /\ Resolving!RightMatch /\ Resolving!ErrorMeansNothing

-----------------------------------------------------------------------------
LEMMA IndexFacts ==
  /\ Resolving!Index \subseteq Nat /\ Resolving!Index = 1 .. Len(MirrorProviders)
  /\ Resolving!Pending \notin Resolving!Index /\ Resolving!Own \notin Resolving!Index
  /\ Resolving!Error \notin Resolving!Index
  /\ Resolving!Own # Resolving!Error
  /\ Resolving!Pending # Resolving!Own /\ Resolving!Pending # Resolving!Error
BY PlaybackAssumption DEF Resolving!ResolutionAssumption, Resolving!Index, Resolving!Pending,
   Resolving!Own, Resolving!Error

LEMMA ClassIs ==
  ASSUME NEW i \in Resolving!Index
  PROVE  /\ Resolving!Class(i) \in {"isrc", "free", "throttled"}
         /\ \A class \in {"isrc", "free", "throttled"} :
              i \in Resolving!Of(class) <=> Resolving!Eligible(i) /\ Resolving!Class(i) = class
         /\ i \in Resolving!Of("first") <=> Resolving!Eligible(i)
BY DEF Resolving!Class, Resolving!Of

LEMMA SameProviders ==
  ASSUME UNCHANGED <<original, has_isrc>>
  PROVE  /\ \A i \in Resolving!Index : Resolving!Eligible(i)' <=> Resolving!Eligible(i)
         /\ \A class : Resolving!Of(class)' = Resolving!Of(class)
<1>1. \A i \in Resolving!Index : Resolving!Eligible(i)' <=> Resolving!Eligible(i)
  BY DEF Resolving!Eligible
<1> QED BY <1>1 DEF Resolving!Of

LEMMA LeastProvider ==
  ASSUME NEW T, T \subseteq Nat, T # {}
  PROVE  \A y \in T : Resolving!Min(T) <= y
<1> DEFINE R == OpToRel(<, Nat)
<1>1. IsWellFoundedOn(R, Nat)
  BY NatLessThanWellFounded
<1>2. \A x, y \in Nat : x < y => <<x, y>> \in R
  BY DEF OpToRel
<1> HIDE DEF R
<1>3. PICK x \in T : \A y \in T : ~ (<<y, x>> \in R)
  BY <1>1, WFMin
<1>4. \A y \in T : x <= y
  <2>1. \A y \in T : y \in Nat /\ x \in Nat /\ ~(y < x)
    BY <1>2, <1>3
  <2> QED BY <2>1
<1>5. Resolving!Min(T) \in T /\ \A y \in T : Resolving!Min(T) <= y
  BY <1>3, <1>4, Zenon DEF Resolving!Min
<1> QED BY <1>5

(* While nothing is returned, only what the stage says must be seen to.    *)
LEMMA PendingInv ==
  ASSUME stage' # "done", ResolvingTyped', StageBegun'
  PROVE  ResolvingInv'
<1>1. answer' = Resolving!Pending
  BY DEF ResolvingTyped, Resolving!Pending
<1>2. Resolving!RightMatch' /\ Resolving!ErrorMeansNothing'
  BY <1>1, IndexFacts DEF Resolving!RightMatch, Resolving!ErrorMeansNothing, Resolving!Pending,
     Resolving!Error, Resolving!Index
<1> QED BY <1>2 DEF ResolvingInv

-----------------------------------------------------------------------------
(* A search goes on                                                        *)
LEMMA GoesOn ==
  ASSUME ResolvingInv, NEW i \in Resolving!Index, NEW r \in SearchRecord, Under(i),
         search' = [search EXCEPT ![i] = r],
         \/ r.at \in {"trying", "nothing"}
         \/ r.at = "found" /\ (stage = "isrc" \/ (stage = "free" /\ r.score < Resolving!ImmediateUse)),
         UNCHANGED <<original, has_isrc, mirrors, stage, answer>>
  PROVE  ResolvingInv'
<1>1. search \in [Resolving!Index -> SearchRecord] /\ stage \notin {"done", "own"} /\ i \in Resolving!Index
  BY DEF ResolvingInv, ResolvingTyped, StageBegun, Under, Begun
<1>2. /\ \A j \in Resolving!Index : Resolving!At(j)' = IF j = i THEN r.at ELSE Resolving!At(j)
      /\ \A j \in Resolving!Index : search'[j] = IF j = i THEN r ELSE search[j]
  BY <1>1 DEF Resolving!At
<1>3. ResolvingTyped'
  BY <1>1 DEF ResolvingInv, ResolvingTyped, Resolving!Index, Resolving!Pending, Resolving!Own,
     Resolving!Error
<1>4. /\ \A j \in Resolving!Index : Begun(j)' <=> Begun(j)
      /\ \A j \in Resolving!Index : Resolving!At(j) = "nothing" => Resolving!At(j)' = "nothing"
  BY <1>2 DEF Begun, Under
<1>5. \A class : Resolving!Of(class)' = Resolving!Of(class) /\ Resolving!Of(class) \subseteq Resolving!Index
  BY SameProviders DEF Resolving!Of
<1>e. \A j \in Resolving!Index : Resolving!Eligible(j)' <=> Resolving!Eligible(j)
  BY SameProviders
<1>6. ASSUME NEW class, InTurn(class) PROVE InTurn(class)'
  BY <1>4, <1>5, <1>6 DEF InTurn
<1>7. StageBegun'
  <2>1. CASE stage = "first"
    <3>1. \A j \in Resolving!Index : Resolving!At(j)' \in {"idle", "loading", "trying", "nothing"}
      BY <1>2, <2>1 DEF ResolvingInv, StageBegun
    <3>2. \A j \in Resolving!Index : Begun(j)' => Resolving!Eligible(j)'
      BY <1>4, <1>e, <2>1 DEF ResolvingInv, StageBegun
    <3>3. mirrors' = "first" /\ InTurn("first")'
      BY <1>6, <2>1 DEF ResolvingInv, StageBegun
    <3> QED BY <2>1, <3>1, <3>2, <3>3 DEF StageBegun
  <2>2. CASE stage \in {"isrc", "free", "throttled"}
    <3>1. mirrors' = "scored" /\ \A j \in Resolving!Index : Begun(j)' => Resolving!Eligible(j)'
      BY <1>4, <1>e, <2>2 DEF ResolvingInv, StageBegun
    <3>2. \A j \in Resolving!Of("isrc") :
            IF stage = "isrc" THEN Resolving!At(j)' \in {"loading", "trying", "nothing", "found"}
                                ELSE Resolving!At(j)' = "nothing"
      BY <1>2, <1>4, <1>5, <2>2 DEF ResolvingInv, StageBegun
    <3>3. ASSUME NEW j \in Resolving!Of("free")
          PROVE  /\ stage = "isrc" => Resolving!At(j)' = "idle"
                 /\ stage = "free" => Resolving!At(j)' \in {"loading", "trying", "nothing", "found"}
                 /\ stage = "throttled" => Resolving!At(j)' \in {"nothing", "found"}
                 /\ Resolving!At(j)' = "found" => search'[j].score < Resolving!ImmediateUse
      <4>1. /\ stage = "isrc" => Resolving!At(j) = "idle"
            /\ stage = "free" => Resolving!At(j) \in {"loading", "trying", "nothing", "found"}
            /\ stage = "throttled" => Resolving!At(j) \in {"nothing", "found"}
            /\ Resolving!At(j) = "found" => search[j].score < Resolving!ImmediateUse
        BY <2>2 DEF ResolvingInv, StageBegun
      <4>2. CASE j = i
        BY <1>2, <1>5, <2>2, <4>1, <4>2 DEF Under
      <4>3. CASE j # i
        BY <1>2, <1>5, <4>1, <4>3
      <4> QED BY <4>2, <4>3
    <3>4. \A j \in Resolving!Of("throttled") :
            IF stage = "throttled" THEN Resolving!At(j)' \in {"idle", "loading", "trying", "nothing"}
            ELSE Resolving!At(j)' = "idle"
      BY <1>2, <1>5, <2>2 DEF ResolvingInv, StageBegun, Under
    <3>5. stage = "throttled" => InTurn("throttled")'
      BY <1>6 DEF ResolvingInv, StageBegun
    <3> QED BY <1>5, <2>2, <3>1, <3>2, <3>3, <3>4, <3>5 DEF StageBegun
  <2> QED BY <1>1, <2>1, <2>2 DEF ResolvingInv, ResolvingTyped
<1> QED BY <1>1, <1>3, <1>7, PendingInv

LEMMA CandidateIs ==
  ASSUME NEW top \in Resolving!Score, NEW score \in Resolving!Score, NEW tried \in Nat
  PROVE  /\ Resolving!Candidate(top, score, tried) \in SearchRecord
         /\ Resolving!Candidate(top, score, tried).at \in {"trying", "nothing"}
         /\ Resolving!Nothing \in SearchRecord /\ Resolving!Nothing.at = "nothing"
BY DEF Resolving!Candidate, SearchRecord, Resolving!Nothing, Resolving!Idle, Resolving!Score

LEMMA LoadsInv ==
  ASSUME ResolvingInv, NEW i \in Resolving!Index, Resolving!Loads(i)
  PROVE  ResolvingInv'
<1>1. PICK r : /\ r \in SearchRecord /\ r.at \in {"trying", "nothing"}
               /\ search' = [search EXCEPT ![i] = r]
  <2>1. CASE search' = [search EXCEPT ![i] = Resolving!Nothing]
    <3>1. 0 \in Resolving!Score /\ 0 \in Nat
      BY DEF Resolving!Score
    <3> QED BY <2>1, <3>1, CandidateIs
  <2>2. ASSUME NEW top \in Resolving!Score, search' = [search EXCEPT ![i] = Resolving!Candidate(top, top, 0)]
        PROVE  \E r : /\ r \in SearchRecord /\ r.at \in {"trying", "nothing"}
                      /\ search' = [search EXCEPT ![i] = r]
    <3>1. 0 \in Nat
      OBVIOUS
    <3> QED BY <2>2, <3>1, CandidateIs
  <2> QED BY <2>1, <2>2 DEF Resolving!Loads
<1>2. Under(i) /\ UNCHANGED <<original, has_isrc, mirrors, stage, answer>>
  BY DEF Resolving!Loads, Under
<1> QED BY <1>1, <1>2, GoesOn

LEMMA TryFailsInv ==
  ASSUME ResolvingInv, NEW i \in Resolving!Index, Resolving!TryFails(i)
  PROVE  ResolvingInv'
<1>0. search[i].score \in Resolving!Score /\ search[i].top \in Resolving!Score /\ search[i].tried + 1 \in Nat
  BY DEF ResolvingInv, ResolvingTyped, SearchRecord
<1>1. PICK r : /\ r \in SearchRecord /\ r.at \in {"trying", "nothing"}
               /\ search' = [search EXCEPT ![i] = r]
  <2>1. CASE search' = [search EXCEPT ![i] = Resolving!Nothing]
    BY <1>0, <2>1, CandidateIs
  <2>2. ASSUME NEW score \in 0 .. search[i].score,
               search' = [search EXCEPT ![i] = Resolving!Candidate(search[i].top, score, search[i].tried + 1)]
        PROVE  \E r : /\ r \in SearchRecord /\ r.at \in {"trying", "nothing"}
                      /\ search' = [search EXCEPT ![i] = r]
    <3>1. score \in Resolving!Score
      BY <1>0 DEF Resolving!Score
    <3> QED BY <1>0, <2>2, <3>1, CandidateIs
  <2> QED BY <2>1, <2>2 DEF Resolving!TryFails
<1>2. Under(i) /\ UNCHANGED <<original, has_isrc, mirrors, stage, answer>>
  BY DEF Resolving!TryFails, Under
<1> QED BY <1>1, <1>2, GoesOn

-----------------------------------------------------------------------------
(* An answer is returned                                                   *)
LEMMA TakesIs ==
  ASSUME ResolvingInv, NEW i \in Resolving!Index, search' = Resolving!Takes(i)
  PROVE  /\ search' \in [Resolving!Index -> SearchRecord] /\ \A j \in Resolving!Index : ~Under(j)'
         /\ search'[i].score = search[i].score
         /\ \A j \in Resolving!Index : j # i /\ Resolving!At(j) = "nothing" => Resolving!At(j)' = "nothing"
<1>1. search \in [Resolving!Index -> SearchRecord]
  BY DEF ResolvingInv, ResolvingTyped
<1>2. [Resolving!Idle EXCEPT !.at = "dropped"] \in SearchRecord
      /\ [Resolving!Idle EXCEPT !.at = "dropped"].at = "dropped"
  BY DEF Resolving!Idle, SearchRecord, Resolving!Score
<1>3. ASSUME NEW j \in Resolving!Index
      PROVE  /\ search'[j] \in SearchRecord /\ ~Under(j)'
             /\ j # i /\ Resolving!At(j) = "nothing" => Resolving!At(j)' = "nothing"
             /\ j = i => search'[j].score = search[j].score
  <2>1. search[j] \in SearchRecord
    BY <1>1
  <2>2. CASE j = i
    <3>1. search'[j] = [search[j] EXCEPT !.at = "found"]
      BY <2>2 DEF Resolving!Takes
    <3> QED BY <2>1, <2>2, <3>1 DEF SearchRecord, Under, Resolving!At
  <2>3. CASE j # i
    <3>1. search'[j] = Resolving!Drop(j)
      BY <2>3 DEF Resolving!Takes
    <3> QED BY <1>2, <2>1, <2>3, <3>1 DEF Resolving!Drop, Under, Resolving!At
  <2> QED BY <2>2, <2>3
<1>4. search' \in [Resolving!Index -> SearchRecord]
  BY <1>3 DEF Resolving!Takes
<1> QED BY <1>3, <1>4

LEMMA ReturnInv ==
  ASSUME ResolvingInv, NEW a \in {Resolving!Own, Resolving!Error} \cup Resolving!Index, Resolving!Return(a),
         search' \in [Resolving!Index -> SearchRecord], \A j \in Resolving!Index : ~Under(j)',
         Resolving!RightMatch', Resolving!ErrorMeansNothing'
  PROVE  ResolvingInv'
<1>1. stage' = "done" /\ answer' = a /\ a # Resolving!Pending
  BY IndexFacts DEF Resolving!Return
<1>m. mirrors' = mirrors /\ mirrors \in {"none", "first", "scored"}
  BY DEF Resolving!Return, ResolvingInv, ResolvingTyped
<1>2. ResolvingTyped'
  BY <1>1, <1>m DEF ResolvingTyped, Resolving!Pending, Resolving!Own, Resolving!Error,
     Resolving!Index
<1>3. StageBegun'
  BY <1>1 DEF StageBegun
<1> QED BY <1>2, <1>3 DEF ResolvingInv

LEMMA TryPlaysInv ==
  ASSUME ResolvingInv, NEW i \in Resolving!Index, Resolving!TryPlays(i)
  PROVE  ResolvingInv'
<1>0. Resolving!At(i) = "trying" /\ search \in [Resolving!Index -> SearchRecord] /\ Under(i) /\ Begun(i)
  BY DEF Resolving!TryPlays, ResolvingInv, ResolvingTyped, Under, Begun
<1>1. CASE stage \in {"first", "throttled"} \/ (stage = "free" /\ search[i].score >= Resolving!ImmediateUse)
  <2>1. search' = Resolving!Takes(i) /\ Resolving!Return(i)
    BY <1>1 DEF Resolving!TryPlays
  <2>2. Resolving!RightMatch'
    <3>1. CASE stage = "first"
      <4>1. mirrors' = "first"
        BY <2>1, <3>1 DEF ResolvingInv, StageBegun, Resolving!Return
      <4> QED BY <4>1 DEF Resolving!RightMatch
    <3>2. CASE stage \in {"throttled", "free"}
      <4>1. Resolving!Eligible(i) /\ answer' = i
        BY <1>0, <2>1, <3>2 DEF ResolvingInv, StageBegun, Resolving!Return
      <4>2. Resolving!Class(i) # "isrc" /\ (stage = "throttled" => Resolving!Class(i) # "free")
        BY <1>0, <3>2, <4>1, ClassIs DEF ResolvingInv, StageBegun
      <4>3. stage = "free" => ~(search'[i].score < Resolving!ImmediateUse)
        BY <1>0, <1>1, <2>1, TakesIs DEF SearchRecord, Resolving!Score, Resolving!ImmediateUse
      <4> QED BY <3>2, <4>1, <4>2, <4>3 DEF Resolving!RightMatch, Resolving!Class
    <3> QED BY <1>1, <3>1, <3>2
  <2>3. Resolving!ErrorMeansNothing'
    BY <2>1, IndexFacts DEF Resolving!ErrorMeansNothing, Resolving!Return, Resolving!Error
  <2> QED BY <2>1, <2>2, <2>3, TakesIs, ReturnInv
<1>2. CASE ~(stage \in {"first", "throttled"} \/ (stage = "free" /\ search[i].score >= Resolving!ImmediateUse))
  <2> DEFINE r == [search[i] EXCEPT !.at = "found"]
  <2>1. r \in SearchRecord /\ r.at = "found" /\ r.score = search[i].score /\ r.score \in Nat
    BY <1>0 DEF SearchRecord, Resolving!Score
  <2>2. search' = [search EXCEPT ![i] = r] /\ UNCHANGED <<original, has_isrc, mirrors, stage, answer>>
    BY <1>2 DEF Resolving!TryPlays
  <2>3. stage = "isrc" \/ (stage = "free" /\ r.score < Resolving!ImmediateUse)
    <3>1. stage \in {"isrc", "free"}
      BY <1>0, <1>2 DEF ResolvingInv, ResolvingTyped, StageBegun
    <3>2. stage = "free" => ~(search[i].score >= 3)
      BY <1>2 DEF Resolving!ImmediateUse
    <3> HIDE DEF r
    <3>3. ~(search[i].score >= 3) => r.score < 3
      BY <2>1
    <3> QED BY <3>1, <3>2, <3>3 DEF Resolving!ImmediateUse
  <2> HIDE DEF r
  <2> QED BY <1>0, <2>1, <2>2, <2>3, GoesOn
<1> QED BY <1>1, <1>2

LEMMA TakeIsrcInv ==
  ASSUME ResolvingInv, NEW i \in Resolving!Index, Resolving!TakeIsrc(i)
  PROVE  ResolvingInv'
<1>1. /\ stage = "isrc" /\ Resolving!At(i) = "found" /\ search' = Resolving!Takes(i) /\ Resolving!Return(i)
      /\ \A j \in Resolving!Of("isrc") : j < i => Resolving!At(j) = "nothing"
  BY DEF Resolving!TakeIsrc
<1>2. Resolving!Of("isrc")' = Resolving!Of("isrc") /\ Resolving!Of("isrc") \subseteq Resolving!Index
  BY <1>1, SameProviders DEF Resolving!Return, Resolving!Of
<1>3. Resolving!Class(i) = "isrc"
  <2>1. Resolving!Eligible(i)
    BY <1>1 DEF ResolvingInv, StageBegun, Begun
  <2> QED BY <1>1, <2>1, ClassIs DEF ResolvingInv, StageBegun
<1>4. \A j \in Resolving!Of("isrc") : j < i => Resolving!At(j)' = "nothing"
  <2>1. \A j \in Resolving!Of("isrc") : j < i => j # i
    BY <1>2, IndexFacts
  <2> QED BY <1>1, <1>2, <2>1, TakesIs
<1>5. Resolving!RightMatch'
  <2>1. answer' = i
    BY <1>1 DEF Resolving!Return
  <2> QED BY <1>2, <1>3, <1>4, <2>1 DEF Resolving!RightMatch, Resolving!Class
<1>6. Resolving!ErrorMeansNothing'
  BY <1>1, IndexFacts DEF Resolving!ErrorMeansNothing, Resolving!Return, Resolving!Error
<1> QED BY <1>1, <1>5, <1>6, TakesIs, ReturnInv

-----------------------------------------------------------------------------
(* A stage begins                                                          *)
LEMMA BeginIs ==
  ASSUME ResolvingInv, NEW class \in {"first", "isrc", "free", "throttled"}, Resolving!Begin(class),
         \A i \in Resolving!Of(class) : Resolving!At(i) = "idle"
  PROVE  /\ search' \in [Resolving!Index -> SearchRecord]
         /\ \A i \in Resolving!Index : i \notin Resolving!Of(class) => search'[i] = search[i]
         /\ \A i \in Resolving!Of(class) :
              /\ Resolving!At(i)' \in {"idle", "loading"}
              /\ class \in {"isrc", "free"} => Resolving!At(i)' = "loading"
         /\ InTurn(class)' \/ class \in {"isrc", "free"}
<1>1. search \in [Resolving!Index -> SearchRecord]
  BY DEF ResolvingInv, ResolvingTyped
<1>2. Resolving!Of(class)' = Resolving!Of(class) /\ Resolving!Of(class) \subseteq Resolving!Index
      /\ Resolving!Index \subseteq Nat
  BY SameProviders, IndexFacts DEF Resolving!Begin, Resolving!Of
<1>3. ASSUME NEW i \in Resolving!Index
      PROVE  /\ search'[i] \in SearchRecord
             /\ i \notin Resolving!Of(class) => search'[i] = search[i]
             /\ i \in Resolving!Of(class) =>
                  /\ Resolving!At(i)' =
                            IF Resolving!Together(class) \/ i = Resolving!Min(Resolving!Of(class)) THEN "loading" ELSE "idle"
  <2>1. search[i] \in SearchRecord
    BY <1>1
  <2>2. search'[i] = IF i \in Resolving!Of(class) /\ (Resolving!Together(class) \/ i = Resolving!Min(Resolving!Of(class)))
                     THEN [search[i] EXCEPT !.at = "loading"] ELSE search[i]
    BY DEF Resolving!Begin
  <2> QED BY <2>1, <2>2 DEF SearchRecord, Resolving!At
<1>4. search' \in [Resolving!Index -> SearchRecord]
  BY <1>3 DEF Resolving!Begin
<1>5. ~Resolving!Together(class) => InTurn(class)'
  <2> SUFFICES ASSUME ~Resolving!Together(class), NEW i \in Resolving!Of(class),
                      NEW j \in Resolving!Of(class),
                      Begun(i)', j < i
               PROVE  FALSE
    BY <1>2 DEF InTurn
  <2>1. i = Resolving!Min(Resolving!Of(class))
    BY <1>2, <1>3 DEF Begun
  <2>2. Resolving!Of(class) \subseteq Nat /\ Resolving!Of(class) # {}
    BY <1>2
  <2>3. Resolving!Min(Resolving!Of(class)) <= j
    BY <2>2, LeastProvider
  <2>4. i \in Nat /\ j \in Nat /\ i <= j /\ j < i
    BY <2>1, <2>2, <2>3
  <2> QED BY <2>4
<1> QED BY <1>2, <1>3, <1>4, <1>5 DEF Resolving!Together

LEMMA BeginInv ==
  ASSUME ResolvingInv, NEW class \in {"first", "isrc", "free", "throttled"}, Resolving!Begin(class),
         \/ stage = "own" /\ class = "first" /\ mirrors = "first"
         \/ stage = "own" /\ class = "isrc" /\ mirrors = "scored"
         \/ stage = "isrc" /\ class = "free" /\ \A i \in Resolving!Of("isrc") : Resolving!At(i) = "nothing"
         \/ stage = "free" /\ class = "throttled" /\ \A i \in Resolving!Of("free") : Resolving!Over(i)
  PROVE  ResolvingInv'
<1>1. stage' = class /\ UNCHANGED <<original, has_isrc, mirrors, answer>>
  BY DEF Resolving!Begin
<1>2. /\ \A c : Resolving!Of(c)' = Resolving!Of(c) /\ Resolving!Of(c) \subseteq Resolving!Index
      /\ \A i \in Resolving!Index : Resolving!Eligible(i)' <=> Resolving!Eligible(i)
  BY <1>1, SameProviders DEF Resolving!Of
<1>3. \A i \in Resolving!Of(class) : Resolving!At(i) = "idle"
  <2>1. stage = "own" => \A i \in Resolving!Index : Resolving!At(i) = "idle"
    BY DEF ResolvingInv, StageBegun, Begun
  <2> QED BY <1>2, <2>1 DEF ResolvingInv, StageBegun
<1>4. /\ search' \in [Resolving!Index -> SearchRecord]
      /\ \A i \in Resolving!Index : i \notin Resolving!Of(class) => search'[i] = search[i]
      /\ \A i \in Resolving!Of(class) :
           /\ Resolving!At(i)' \in {"idle", "loading"}
           /\ class \in {"isrc", "free"} => Resolving!At(i)' = "loading"
      /\ InTurn(class)' \/ class \in {"isrc", "free"}
  BY <1>3, BeginIs
<1>5. \A i \in Resolving!Index : i \notin Resolving!Of(class) => Resolving!At(i)' = Resolving!At(i)
  BY <1>4 DEF Resolving!At
<1>6. ResolvingTyped'
  <2>1. answer = Resolving!Pending /\ mirrors \in {"none", "first", "scored"}
    BY DEF ResolvingInv, ResolvingTyped
  <2> QED BY <1>1, <1>4, <2>1 DEF ResolvingTyped, Resolving!Pending, Resolving!Own,
             Resolving!Error, Resolving!Index
<1>7. \A i \in Resolving!Index : Begun(i)' => Resolving!Eligible(i)'
  <2>1. \A i \in Resolving!Of(class) : Resolving!Eligible(i)
    BY DEF Resolving!Of
  <2>2. \A i \in Resolving!Index : Begun(i) => Resolving!Eligible(i)
    BY DEF ResolvingInv, StageBegun
  <2> QED BY <1>2, <1>5, <2>1, <2>2 DEF Begun
<1>8. \A i \in Resolving!Index :
        /\ i \in Resolving!Of("isrc") => i \notin Resolving!Of("free") /\ i \notin Resolving!Of("throttled")
        /\ i \in Resolving!Of("free") => i \notin Resolving!Of("throttled")
  BY ClassIs
<1>9. StageBegun'
  <2>1. CASE stage = "own" /\ class = "first" /\ mirrors = "first"
    <3>1. \A i \in Resolving!Index : Resolving!At(i)' \in {"idle", "loading"}
      BY <1>2, <1>4, <1>5, <2>1 DEF ResolvingInv, StageBegun, Begun
    <3> QED BY <1>1, <1>4, <1>7, <2>1, <3>1 DEF StageBegun
  <2>2. CASE stage = "own" /\ class = "isrc" /\ mirrors = "scored"
    <3>1. /\ \A i \in Resolving!Of("isrc") : Resolving!At(i)' = "loading"
          /\ \A i \in Resolving!Index : i \notin Resolving!Of("isrc") => Resolving!At(i)' = "idle"
      BY <1>4, <1>5, <2>2 DEF ResolvingInv, StageBegun, Begun
    <3> QED BY <1>1, <1>2, <1>7, <1>8, <2>2, <3>1 DEF StageBegun
  <2>3. CASE stage = "isrc" /\ class = "free" /\ \A i \in Resolving!Of("isrc") : Resolving!At(i) = "nothing"
    <3>1. /\ \A i \in Resolving!Of("free") : Resolving!At(i)' = "loading"
          /\ \A i \in Resolving!Of("isrc") : Resolving!At(i)' = "nothing"
          /\ \A i \in Resolving!Of("throttled") : Resolving!At(i)' = "idle"
      BY <1>2, <1>4, <1>5, <1>8, <2>3 DEF ResolvingInv, StageBegun
    <3>2. mirrors = "scored"
      BY <2>3 DEF ResolvingInv, StageBegun
    <3> QED BY <1>1, <1>2, <1>7, <2>3, <3>1, <3>2 DEF StageBegun
  <2>4. CASE stage = "free" /\ class = "throttled" /\ \A i \in Resolving!Of("free") : Resolving!Over(i)
    <3>1. /\ \A i \in Resolving!Of("free") : Resolving!At(i)' \in {"nothing", "found"}
               /\ search'[i] = search[i]
          /\ \A i \in Resolving!Of("isrc") : Resolving!At(i)' = "nothing"
          /\ \A i \in Resolving!Of("throttled") : Resolving!At(i)' \in {"idle", "loading"}
      BY <1>2, <1>4, <1>5, <1>8, <2>4 DEF ResolvingInv, StageBegun, Resolving!Over
    <3>2. \A i \in Resolving!Of("free") : Resolving!At(i)' = "found"
            => search'[i].score < Resolving!ImmediateUse
      BY <1>2, <1>5, <1>8, <2>4, <3>1 DEF ResolvingInv, StageBegun
    <3>3. mirrors = "scored"
      BY <2>4 DEF ResolvingInv, StageBegun
    <3> QED BY <1>1, <1>2, <1>4, <1>7, <2>4, <3>1, <3>2, <3>3 DEF StageBegun
  <2> QED BY <2>1, <2>2, <2>3, <2>4
<1>10. stage' # "done"
  BY <1>1
<1> QED BY <1>6, <1>9, <1>10, PendingInv

LEMMA NextInTurnInv ==
  ASSUME ResolvingInv, NEW i \in Resolving!Index, Resolving!NextInTurn(i)
  PROVE  ResolvingInv'
<1>0. /\ stage \in {"first", "throttled"} /\ i \in Resolving!Of(stage) /\ Resolving!At(i) = "idle"
      /\ \A j \in Resolving!Of(stage) : j < i => Resolving!At(j) = "nothing"
      /\ search' = [search EXCEPT ![i].at = "loading"]
      /\ UNCHANGED <<original, has_isrc, mirrors, stage, answer>>
  BY DEF Resolving!NextInTurn
<1>1. search \in [Resolving!Index -> SearchRecord]
  BY DEF ResolvingInv, ResolvingTyped
<1>2. /\ \A j \in Resolving!Index : j # i => search'[j] = search[j]
      /\ search'[i] = [search[i] EXCEPT !.at = "loading"] /\ DOMAIN search' = Resolving!Index
  BY <1>0, <1>1
<1>3. search' \in [Resolving!Index -> SearchRecord] /\ Resolving!At(i)' = "loading"
  BY <1>0, <1>1, <1>2 DEF SearchRecord, Resolving!At
<1>4. \A j \in Resolving!Index : j # i => Resolving!At(j)' = Resolving!At(j)
  BY <1>2 DEF Resolving!At
<1>5. /\ \A c : Resolving!Of(c)' = Resolving!Of(c) /\ Resolving!Of(c) \subseteq Resolving!Index
      /\ \A j \in Resolving!Index : Resolving!Eligible(j)' <=> Resolving!Eligible(j)
  BY <1>0, SameProviders DEF Resolving!Of
<1>6. ResolvingTyped'
  BY <1>0, <1>3 DEF ResolvingInv, ResolvingTyped, Resolving!Pending, Resolving!Own,
     Resolving!Error, Resolving!Index
<1>7. Resolving!Eligible(i) /\ \A j \in Resolving!Index : Begun(j) => Resolving!Eligible(j)
  BY <1>0 DEF ResolvingInv, StageBegun, Resolving!Of
<1>8. \A j \in Resolving!Index : Begun(j)' => Resolving!Eligible(j)'
  BY <1>4, <1>5, <1>7 DEF Begun
<1>9. InTurn(stage)'
  <2> SUFFICES ASSUME NEW j \in Resolving!Of(stage), NEW k \in Resolving!Of(stage), Begun(j)', k < j
               PROVE  Resolving!At(k)' = "nothing"
    BY <1>0, <1>5 DEF InTurn
  <2>0. j \in Resolving!Index /\ k \in Resolving!Index /\ j \in Nat /\ k \in Nat /\ i \in Nat
    BY <1>5, IndexFacts
  <2>1. CASE j = i
    <3>1. k # i
      BY <2>0, <2>1
    <3> QED BY <1>0, <1>4, <2>0, <2>1, <3>1
  <2>2. CASE j # i
    <3>1. Begun(j)
      BY <1>4, <2>0, <2>2 DEF Begun
    <3>2. Resolving!At(k) = "nothing"
      BY <1>0, <3>1 DEF ResolvingInv, StageBegun, InTurn
    <3>3. k # i
      BY <1>0, <3>2
    <3> QED BY <1>4, <2>0, <3>2, <3>3
  <2> QED BY <2>1, <2>2
<1>10. StageBegun'
  <2>1. CASE stage = "first"
    <3>1. \A j \in Resolving!Index : Resolving!At(j)' \in {"idle", "loading", "trying", "nothing"}
      BY <1>3, <1>4, <2>1 DEF ResolvingInv, StageBegun
    <3>2. mirrors = "first"
      BY <2>1 DEF ResolvingInv, StageBegun
    <3> QED BY <1>0, <1>8, <1>9, <2>1, <3>1, <3>2 DEF StageBegun
  <2>2. CASE stage = "throttled"
    <3>1. i \notin Resolving!Of("isrc") /\ i \notin Resolving!Of("free")
      BY <1>0, <2>2, ClassIs
    <3>2. /\ \A j \in Resolving!Of("isrc") : Resolving!At(j)' = "nothing"
          /\ \A j \in Resolving!Of("free") :
               Resolving!At(j)' \in {"nothing", "found"}
                   /\ (Resolving!At(j)' = "found" => search'[j].score < Resolving!ImmediateUse)
          /\ \A j \in Resolving!Of("throttled") : Resolving!At(j)'
                                        \in {"idle", "loading", "trying", "nothing"}
      BY <1>2, <1>3, <1>4, <1>5, <2>2, <3>1 DEF ResolvingInv, StageBegun
    <3>3. mirrors = "scored"
      BY <2>2 DEF ResolvingInv, StageBegun
    <3> QED BY <1>0, <1>5, <1>8, <1>9, <2>2, <3>2, <3>3 DEF StageBegun
  <2> QED BY <1>0, <2>1, <2>2
<1>11. stage' # "done"
  BY <1>0
<1> QED BY <1>6, <1>10, <1>11, PendingInv

-----------------------------------------------------------------------------
LEMMA OwnInv ==
  ASSUME ResolvingInv, Resolving!OwnPlays \/ Resolving!OwnFails
  PROVE  ResolvingInv'
<1>1. stage = "own" /\ search \in [Resolving!Index -> SearchRecord] /\ \A i \in Resolving!Index : ~Under(i)
  BY DEF Resolving!OwnPlays, Resolving!OwnFails, ResolvingInv, ResolvingTyped, StageBegun, Begun,
     Under
<1>2. ASSUME NEW a \in {Resolving!Own, Resolving!Error}, Resolving!Return(a),
             UNCHANGED search, a = Resolving!Error => mirrors = "none"
      PROVE  ResolvingInv'
  <2>1. answer' = a /\ mirrors' = mirrors
    BY <1>2 DEF Resolving!Return
  <2>2. Resolving!RightMatch' /\ Resolving!ErrorMeansNothing'
    BY <1>2, <2>1, IndexFacts DEF Resolving!RightMatch, Resolving!ErrorMeansNothing,
       Resolving!Index, Resolving!Error
  <2>3. \A i \in Resolving!Index : ~Under(i)'
    BY <1>1, <1>2 DEF Under, Resolving!At
  <2> QED BY <1>1, <1>2, <2>2, <2>3, ReturnInv
<1>3. CASE Resolving!OwnPlays
  BY <1>2, <1>3, IndexFacts DEF Resolving!OwnPlays
<1>4. CASE Resolving!OwnFails /\ mirrors = "none"
  BY <1>2, <1>4 DEF Resolving!OwnFails
<1>5. CASE Resolving!OwnFails /\ mirrors = "first"
  BY <1>1, <1>5, BeginInv DEF Resolving!OwnFails
<1>6. CASE Resolving!OwnFails /\ mirrors = "scored"
  BY <1>1, <1>6, BeginInv DEF Resolving!OwnFails
<1>7. mirrors \in {"none", "first", "scored"}
  BY DEF ResolvingInv, ResolvingTyped
<1> QED BY <1>3, <1>4, <1>5, <1>6, <1>7

LEMMA StageOverInv ==
  ASSUME ResolvingInv, Resolving!StageOver
  PROVE  ResolvingInv'
<1>1. CASE stage = "isrc" /\ (\A i \in Resolving!Of("isrc") : Resolving!At(i) = "nothing")
             /\ Resolving!Begin("free")
  BY <1>1, BeginInv
<1>2. CASE stage = "free" /\ Resolving!AllOver("free") /\ Resolving!Begin("throttled")
  BY <1>2, BeginInv DEF Resolving!AllOver
<1>s. search \in [Resolving!Index -> SearchRecord]
      /\ \A i \in Resolving!Index : (i \in Resolving!Of("first") <=> Resolving!Eligible(i))
  BY ClassIs DEF ResolvingInv, ResolvingTyped
<1>3. CASE /\ stage = "throttled" /\ (\A i \in Resolving!Of("throttled") : Resolving!At(i) = "nothing")
           /\ UNCHANGED search
           /\ IF Resolving!Found = {} THEN Resolving!Return(Resolving!Error)
              ELSE \E i \in Resolving!Found : (\A j \in Resolving!Found : search[j].score <= search[i].score)
                        /\ Resolving!Return(i)
  <2>1. /\ \A i \in Resolving!Of("isrc") : Resolving!At(i) = "nothing"
        /\ \A i \in Resolving!Of("free") : Resolving!At(i) \in {"nothing", "found"}
        /\ \A i \in Resolving!Index : Begun(i) => Resolving!Eligible(i)
    BY <1>3 DEF ResolvingInv, StageBegun
  <2>2. \A i \in Resolving!Index : Resolving!Eligible(i) =>
          i \in Resolving!Of("isrc") \/ i \in Resolving!Of("free") \/ i \in Resolving!Of("throttled")
    BY ClassIs
  <2>3. \A i \in Resolving!Index : ~Under(i)'
    <3>1. \A i \in Resolving!Index : Resolving!At(i) \notin {"loading", "trying"}
      BY <1>3, <2>1, <2>2 DEF Begun
    <3> QED BY <1>3, <3>1 DEF Under, Resolving!At
  <2>4. CASE Resolving!Found = {}
    <3>1. Resolving!Return(Resolving!Error) /\ answer' = Resolving!Error /\ UNCHANGED <<original, has_isrc>>
      BY <1>3, <2>4 DEF Resolving!Return
    <3>2. \A i \in Resolving!Index : Resolving!Eligible(i) => Resolving!At(i) = "nothing"
      BY <1>3, <2>1, <2>2, <2>4 DEF Resolving!Found
    <3>3. Resolving!ErrorMeansNothing'
      BY <1>3, <3>1, <3>2, SameProviders DEF Resolving!ErrorMeansNothing, Resolving!At
    <3>4. Resolving!RightMatch'
      BY <3>1, IndexFacts DEF Resolving!RightMatch, Resolving!Index, Resolving!Error
    <3> QED BY <1>3, <1>s, <2>3, <3>1, <3>3, <3>4, ReturnInv
  <2>5. CASE Resolving!Found # {}
    <3>1. PICK i \in Resolving!Found : (\A j \in Resolving!Found : search[j].score <= search[i].score)
                            /\ Resolving!Return(i)
      BY <1>3, <2>5
    <3>2. i \in Resolving!Index /\ i \in Resolving!Of("free")
      BY DEF Resolving!Found, Resolving!Of
    <3>3. answer' = i /\ \A c : Resolving!Of(c)' = Resolving!Of(c)
      BY <3>1, SameProviders DEF Resolving!Return
    <3>4. Resolving!Class(i) # "isrc"
      BY <3>2, ClassIs
    <3>5. Resolving!RightMatch'
      <4>1. \A j \in Resolving!Of("free") : Resolving!At(j)' = "found" => search'[j].score <= search'[i].score
        BY <1>3, <3>1 DEF Resolving!Found, Resolving!At
      <4>2. \A j \in Resolving!Of("throttled") : Resolving!At(j)' = "nothing"
        BY <1>3 DEF Resolving!At
      <4> QED BY <3>3, <3>4, <4>1, <4>2 DEF Resolving!RightMatch, Resolving!Class
    <3>6. Resolving!ErrorMeansNothing'
      BY <3>2, <3>3, IndexFacts DEF Resolving!ErrorMeansNothing, Resolving!Error
    <3> QED BY <1>3, <1>s, <2>3, <3>1, <3>2, <3>5, <3>6, ReturnInv
  <2> QED BY <2>4, <2>5
<1>4. CASE /\ stage = "first" /\ (\A i \in Resolving!Of("first") : Resolving!At(i) = "nothing")
             /\ Resolving!Return(Resolving!Error)
           /\ UNCHANGED search
  <2>1. \A i \in Resolving!Index : (Resolving!Eligible(i) => Resolving!At(i) = "nothing")
                        /\ (Begun(i) => Resolving!Eligible(i))
    BY <1>4, <1>s DEF ResolvingInv, StageBegun
  <2>2. \A i \in Resolving!Index : ~Under(i)'
    BY <1>4, <2>1 DEF Under, Resolving!At, Begun
  <2>3. answer' = Resolving!Error /\ UNCHANGED <<original, has_isrc>>
    BY <1>4 DEF Resolving!Return
  <2>4. Resolving!ErrorMeansNothing'
    BY <1>4, <2>1, <2>3, SameProviders DEF Resolving!ErrorMeansNothing, Resolving!At
  <2>5. Resolving!RightMatch'
    BY <2>3, IndexFacts DEF Resolving!RightMatch, Resolving!Index, Resolving!Error
  <2> QED BY <1>4, <1>s, <2>2, <2>4, <2>5, ReturnInv
<1> QED BY <1>1, <1>2, <1>3, <1>4 DEF Resolving!StageOver

LEMMA ResolutionInit == Resolving!Init => ResolvingInv
<1> SUFFICES ASSUME Resolving!Init PROVE ResolvingInv
  OBVIOUS
<1>1. /\ stage = "own" /\ search = [i \in Resolving!Index |-> Resolving!Idle] /\ answer = Resolving!Pending
      /\ mirrors \in {"none", "first", "scored"}
  BY DEF Resolving!Init
<1>2. Resolving!Idle \in SearchRecord /\ Resolving!Idle.at = "idle"
  BY DEF Resolving!Idle, SearchRecord, Resolving!Score
<1>3. ResolvingTyped
  BY <1>1, <1>2 DEF ResolvingTyped
<1>4. StageBegun
  BY <1>1, <1>2 DEF StageBegun, Begun, Resolving!At
<1>5. Resolving!RightMatch /\ Resolving!ErrorMeansNothing
  BY <1>1, IndexFacts DEF Resolving!RightMatch, Resolving!ErrorMeansNothing, Resolving!Index,
     Resolving!Pending, Resolving!Error
<1> QED BY <1>3, <1>4, <1>5 DEF ResolvingInv

LEMMA ResolutionStep == ResolvingInv /\ [Resolving!Next]_(Resolving!vars) => ResolvingInv'
<1> SUFFICES ASSUME ResolvingInv, [Resolving!Next]_(Resolving!vars) PROVE ResolvingInv'
  OBVIOUS
<1>1. CASE Resolving!OwnPlays \/ Resolving!OwnFails
  BY <1>1, OwnInv
<1>2. ASSUME NEW i \in Resolving!Index, Resolving!Provider(i) PROVE ResolvingInv'
  BY <1>2, LoadsInv, TryFailsInv, TryPlaysInv, TakeIsrcInv, NextInTurnInv DEF Resolving!Provider
<1>3. CASE Resolving!StageOver
  BY <1>3, StageOverInv
<1>4. CASE UNCHANGED Resolving!vars
  <2>1. \A class : Resolving!Of(class)' = Resolving!Of(class)
    BY <1>4, SameProviders DEF Resolving!vars
  <2>2. \A i \in Resolving!Index : (Resolving!Eligible(i)' <=> Resolving!Eligible(i))
                              /\ Resolving!At(i)' = Resolving!At(i)
    BY <1>4, SameProviders DEF Resolving!vars, Resolving!At
  <2>3. ResolvingTyped'
    BY <1>4 DEF ResolvingInv, ResolvingTyped, Resolving!vars
  <2>4. StageBegun'
    BY <1>4, <2>1, <2>2 DEF ResolvingInv, StageBegun, InTurn, Begun, Under, Resolving!vars,
       Resolving!At
  <2>5. search' = search /\ answer' = answer /\ mirrors' = mirrors
    BY <1>4 DEF Resolving!vars
  <2>6. Resolving!RightMatch'
    <3>1. /\ Resolving!RightMatch
          /\ \A j \in Resolving!Of("free") \cup Resolving!Of("isrc") \cup Resolving!Of("throttled") :
               Resolving!At(j)' = Resolving!At(j)
      BY <2>2 DEF ResolvingInv, Resolving!Of
    <3> QED BY <2>1, <2>5, <3>1 DEF Resolving!RightMatch, Resolving!Class
  <2>7. Resolving!ErrorMeansNothing'
    BY <2>2, <2>5 DEF ResolvingInv, Resolving!ErrorMeansNothing
  <2> QED BY <2>3, <2>4, <2>6, <2>7 DEF ResolvingInv
<1> QED BY <1>1, <1>2, <1>3, <1>4 DEF Resolving!Next

LEMMA AnswersRight == ResolvingInv => Resolving!RightAnswer
<1> SUFFICES ASSUME ResolvingInv PROVE Resolving!RightAnswer
  OBVIOUS
<1>1. Resolving!AskedPolitely
  <2> DEFINE under == {i \in Resolving!Index : Resolving!At(i) \in {"loading", "trying"}}
  <2>1. answer # Resolving!Pending => under = {}
    BY DEF ResolvingInv, ResolvingTyped, StageBegun, Under
  <2>2. ASSUME NEW i \in under, stage = "throttled" PROVE under = {i}
    <3>1. ASSUME NEW j \in under
          PROVE  j \in Resolving!Of("throttled") /\ Begun(j) /\ Resolving!At(j) # "nothing" /\ j \in Nat
      <4>1. Begun(j) /\ Resolving!At(j) \notin {"nothing", "found"} /\ j \in Nat
        BY IndexFacts DEF Begun
      <4>2. Resolving!Eligible(j)
        BY <2>2, <4>1 DEF ResolvingInv, StageBegun
      <4>3. j \notin Resolving!Of("isrc") /\ j \notin Resolving!Of("free")
        BY <2>2, <4>1 DEF ResolvingInv, StageBegun
      <4> QED BY <4>1, <4>2, <4>3, ClassIs
    <3>2. ASSUME NEW j \in under PROVE j = i
      <4>1. ~(j < i) /\ ~(i < j)
        BY <2>2, <3>1, <3>2 DEF ResolvingInv, StageBegun, InTurn
      <4> QED BY <3>1, <3>2, <4>1
    <3> QED BY <3>2
  <2> QED BY <2>1, <2>2 DEF Resolving!AskedPolitely
<1> QED BY <1>1 DEF Resolving!RightAnswer, ResolvingInv

-----------------------------------------------------------------------------
(* The resolving of a track is part of every behaviour, and only moves in  *)
(* those of its kind.                                                      *)
LEMMA ResolvingAlways == PlaybackSpec => []ResolvingInv
<1>1. PlaybackInit => ResolvingInv
  BY ResolutionInit DEF PlaybackInit
<1>2. ResolvingInv /\ [PlaybackNext]_allVars => ResolvingInv'
  <2> SUFFICES ASSUME ResolvingInv, [PlaybackNext]_allVars PROVE ResolvingInv'
    OBVIOUS
  <2>1. [Resolving!Next]_(Resolving!vars)
    BY DEF PlaybackNext, RoutingStep, ResolvingStep, PlayingStep, allVars, resolvingVars,
       Resolving!vars
  <2> QED BY <2>1, ResolutionStep
<1> QED BY <1>1, <1>2, PTL DEF PlaybackSpec

(* The match that resolve_track returns is right whatever the order of the *)
(* answers: the match of the first ISRC provider that has one, or else the *)
(* best of the free ones that is not good enough to be taken at once. No   *)
(* search is left running with it, the throttled providers were asked one  *)
(* at a time, and an error means that every provider that may be asked     *)
(* was, to no avail.                                                       *)
THEOREM RightAnswerHolds == PlaybackSpec => []RightAnswer
<1>1. ResolvingInv => RightAnswer
  BY AnswersRight DEF RightAnswer
<1> QED BY <1>1, ResolvingAlways, PTL

-----------------------------------------------------------------------------
(* The track that is played                                                *)

(* The channel of the mixer: the frames in it that can be heard.           *)
Sounding(s) == Cardinality({i \in 1 .. Len(s) : ~IsFlush(s[i])})

ScalarTyped ==
  /\ service \in {"direct", "youtube"}
  /\ honest \in BOOLEAN /\ mixed \in BOOLEAN /\ pulled \in BOOLEAN
  /\ decoder \in {"none", "opening", "check", "seeked", "flush", "push", "tell", "unopened", "failed",
               "done"}
  /\ task \in {"none", "resolving", "playing", "relaying", "telling", "gone"}
  /\ position \in Nat /\ seeks \in Nat /\ late \in Nat /\ heard \in Nat
  /\ next \in 0 .. Furthest /\ left \in 0 .. Length /\ next + left <= Furthest
  /\ decoder = "push" => left > 0
  /\ current_seek \in 0 .. Length
ChannelsTyped ==
  /\ commands \in Seq(0 .. Length) /\ inner \in Seq(0 .. Length)
  /\ asking = <<>> \/ \E p \in 0 .. Length : asking = <<p>>
  /\ frames \in Seq(0 .. Flush(Furthest)) /\ Len(frames) <= Buffer

(* A direct source has no task; before the first decoder nothing is told   *)
(* to one, and between two mixes there is no frame in the mixer's hands.   *)
Shape ==
  /\ service = "direct" => asking = <<>> /\ inner = <<>> /\ task = "none"
  /\ decoder = "none" =>
       /\ inner = <<>> /\ next = 0 /\ current_seek = 0 /\ frames = <<>>
       /\ task \notin {"playing", "relaying"}
  /\ mix = "idle" => ~pulled
PlayingTyped == ScalarTyped /\ ChannelsTyped /\ Shape

(* The frames of a channel follow one another from what was heard last, or *)
(* from where an empty frame says, and the next one goes on where they end.*)
Starts(s, i) == i = 0 \/ (i \in 1 .. Len(s) /\ IsFlush(s[i]))
Unbroken(s, i, k) == \A j \in i + 1 .. k - 1 : ~IsFlush(s[j])
From(s, h, i) == IF i = 0 THEN h ELSE s[i] - Flush(0)
Follow(s, h) ==
  \A i, k \in 0 .. Len(s) :
    Starts(s, i) /\ i < k /\ Unbroken(s, i, k) /\ ~IsFlush(s[k]) => s[k] = From(s, h, i) + (k - i - 1)
EndAt(s, h, n) ==
  \A i \in 0 .. Len(s) :
    Starts(s, i) /\ Unbroken(s, i, Len(s) + 1) => n = From(s, h, i) + (Len(s) - i)
InRow == Follow(frames, heard) /\ (decoder # "flush" => EndAt(frames, heard, next))

(* Seeks on their way to the decoder, the newest of them, and whether the  *)
(* decoder is at one.                                                      *)
OnTheWay == Len(asking) + Len(commands) + (IF task = "relaying" THEN 1 ELSE 0) + Len(inner)
Newest ==
  IF asking # <<>> THEN asking[1]
  ELSE IF commands # <<>> THEN commands[Len(commands)]
  ELSE IF task = "relaying" THEN current_seek ELSE inner[Len(inner)]
Obeying == IF decoder \in {"seeked", "flush"} THEN 1 ELSE 0

(* What the position will be when the frame in the mixer's hands, and all  *)
(* that is in the channel, was heard; the frames that the decoder can add  *)
(* before it obeys the newest seek.                                        *)
Ahead == position + (IF pulled THEN 1 ELSE 0)
Coming == OnTheWay - 1 + (IF decoder = "push" THEN 1 ELSE Obeying)
Limit == Buffer + 2 + seeks + late
Drift ==
  IF OnTheWay > 0
    THEN Newest <= Ahead /\ Ahead + Sounding(frames) + Coming <= Newest + Limit
    ELSE next <= Ahead + Sounding(frames) /\ Ahead + Sounding(frames) <= next + Limit
Counted == OnTheWay + Obeying <= seeks + 1

SoundInv == honest /\ mixed => InRow /\ Drift /\ Counted

(* A decoder that failed for good has told its error before it is gone.    *)
ErrorTold ==
  monitor = "watching" =>
    /\ handle = TRUE
    /\ service = "direct" /\ failed => (decoder = "tell") \/ (decoder = "done" /\ error)
    /\ service = "youtube" =>
         /\ task = "resolving" => decoder \in {"none", "failed"}
         /\ task \in {"telling", "gone"} => decoder \in {"none", "failed", "done"}
         /\ task \in {"playing", "relaying"} /\ failed => decoder \in {"tell", "failed"}
         /\ task = "gone" /\ failed => error

LEMMA PlayingAssumption == TrackPlaybackAssumption
BY PlaybackAssumption

LEMMA FurthestIs == Furthest \in Nat /\ Furthest = Length + Length
BY PlayingAssumption DEF TrackPlaybackAssumption, Furthest

USE PlayingAssumption, FurthestIs DEF TrackPlaybackAssumption

-----------------------------------------------------------------------------
(* Counting the frames of a channel                                        *)

LEMMA SoundingIs ==
  ASSUME NEW s \in Seq(Nat)
  PROVE  /\ Sounding(s) \in Nat /\ Sounding(s) <= Len(s)
         /\ (\A i \in 1 .. Len(s) : IsFlush(s[i])) => Sounding(s) = 0
         /\ (\A i \in 1 .. Len(s) : ~IsFlush(s[i])) => Sounding(s) = Len(s)
<1> DEFINE S == {i \in 1 .. Len(s) : ~IsFlush(s[i])}
<1>1. Len(s) \in Nat /\ IsFiniteSet(1 .. Len(s)) /\ Cardinality(1 .. Len(s)) = Len(s)
  <2>1. Len(s) \in Nat
    OBVIOUS
  <2>2. IsFiniteSet(1 .. Len(s)) /\ Cardinality(1 .. Len(s)) = IF 1 > Len(s) THEN 0 ELSE Len(s) - 1 + 1
    BY SMTT(60), <2>1, FS_Interval
  <2> QED BY <2>1, <2>2
<1>2. Cardinality(S) \in Nat /\ Cardinality(S) <= Len(s)
  <2>1. S \subseteq 1 .. Len(s)
    OBVIOUS
  <2>2. IsFiniteSet(S) /\ Cardinality(S) <= Cardinality(1 .. Len(s))
    BY <1>1, <2>1, FS_Subset
  <2> QED BY <1>1, <2>2, FS_CardinalityType
<1>3. (\A i \in 1 .. Len(s) : IsFlush(s[i])) => Cardinality(S) = 0
  <2>1. (\A i \in 1 .. Len(s) : IsFlush(s[i])) => S = {}
    OBVIOUS
  <2> QED BY <2>1, FS_EmptySet
<1>4. (\A i \in 1 .. Len(s) : ~IsFlush(s[i])) => Cardinality(S) = Len(s)
  <2>1. (\A i \in 1 .. Len(s) : ~IsFlush(s[i])) => S = 1 .. Len(s)
    OBVIOUS
  <2> QED BY <1>1, <2>1
<1> QED BY <1>2, <1>3, <1>4 DEF Sounding

LEMMA SoundingAppend ==
  ASSUME NEW s \in Seq(Nat), NEW x \in Nat
  PROVE  Sounding(Append(s, x)) = Sounding(s) + (IF IsFlush(x) THEN 0 ELSE 1)
<1> DEFINE t == Append(s, x)
           S == {i \in 1 .. Len(s) : ~IsFlush(s[i])}
           T == {i \in 1 .. Len(t) : ~IsFlush(t[i])}
<1>1. Len(s) \in Nat /\ Len(t) = Len(s) + 1 /\ t[Len(s) + 1] = x /\ \A i \in 1 .. Len(s) : t[i] = s[i]
  OBVIOUS
<1>2. IsFiniteSet(S) /\ Len(s) + 1 \notin S /\ Cardinality(S) \in Nat
  <2>1. IsFiniteSet(1 .. Len(s)) /\ S \subseteq 1 .. Len(s)
    BY <1>1, FS_Interval
  <2>2. IsFiniteSet(S)
    BY <2>1, FS_Subset
  <2> QED BY <1>1, <2>1, <2>2, FS_CardinalityType
<1> HIDE DEF t
<1>3. \A i : i \in 1 .. Len(t) <=> (i \in 1 .. Len(s) \/ i = Len(s) + 1)
  BY <1>1
<1>4. CASE IsFlush(x)
  <2>1. T = S
    BY <1>1, <1>3, <1>4
  <2>2. Sounding(t) = Cardinality(T) /\ Sounding(s) = Cardinality(S)
    BY DEF Sounding
  <2>3. Sounding(s) \in Nat
    BY SoundingIs
  <2>4. Sounding(t) = Sounding(s)
    BY <2>1, <2>2
  <2> QED BY <1>4, <2>3, <2>4 DEF t
<1>5. CASE ~IsFlush(x)
  <2>1. T = S \cup {Len(s) + 1}
    BY <1>1, <1>3, <1>5
  <2>2. Cardinality(T) = Cardinality(S) + 1
    BY <1>2, <2>1, FS_AddElement
  <2> QED BY <1>5, <2>2 DEF Sounding, t
<1> QED BY <1>4, <1>5

LEMMA SoundingPop ==
  ASSUME NEW s \in Seq(Nat), NEW n \in 1 .. Len(s), ~IsFlush(s[n]),
         \A i \in 1 .. n - 1 : IsFlush(s[i])
  PROVE  Sounding(SubSeq(s, n + 1, Len(s))) = Sounding(s) - 1
<1> DEFINE t == SubSeq(s, n + 1, Len(s))
           S == {i \in 1 .. Len(s) : ~IsFlush(s[i])}
           T == {i \in 1 .. Len(t) : ~IsFlush(t[i])}
           U == {i \in n + 1 .. Len(s) : ~IsFlush(s[i])}
           f == [i \in T |-> i + n]
<1>1. Len(s) \in Nat /\ n \in Nat /\ Len(t) = Len(s) - n /\ \A i \in 1 .. Len(s) - n : t[i] = s[i + n]
  BY SMTT(60)
<1> HIDE DEF t
<1>2. IsFiniteSet(T) /\ IsFiniteSet(U) /\ Cardinality(U) \in Nat
  <2>1. IsFiniteSet(1 .. Len(t))
    BY <1>1, FS_Interval
  <2>2. IsFiniteSet(n + 1 .. Len(s))
    BY <1>1, FS_Interval
  <2>3. IsFiniteSet(T)
    <3>1. T \subseteq 1 .. Len(t)
      OBVIOUS
    <3> QED BY <2>1, <3>1, FS_Subset
  <2>4. IsFiniteSet(U)
    <3>1. U \subseteq n + 1 .. Len(s)
      OBVIOUS
    <3> QED BY <2>2, <3>1, FS_Subset
  <2> QED BY <2>3, <2>4, FS_CardinalityType
<1>3. f \in Bijection(T, U)
  <2>1. \A i \in T : i \in 1 .. Len(s) - n /\ i + n \in n + 1 .. Len(s) /\ ~IsFlush(s[i + n])
    <3>1. \A i \in T : i \in 1 .. Len(s) - n /\ ~IsFlush(t[i])
      BY <1>1
    <3> QED BY SMTT(60), <1>1, <3>1
  <2>2. f \in [T -> U]
    BY <2>1
  <2>3. \A i, j \in T : f[i] = f[j] => i = j
    BY <1>1, <2>1
  <2>4. \A u \in U : \E i \in T : f[i] = u
    <3> SUFFICES ASSUME NEW u \in U PROVE \E i \in T : f[i] = u
      OBVIOUS
    <3>1. u - n \in 1 .. Len(s) - n /\ (u - n) + n = u
      BY <1>1
    <3>2. u - n \in T
      BY <1>1, <3>1
    <3> QED BY <3>1, <3>2
  <2> QED BY <2>2, <2>3, <2>4, Fun_IsBij
<1>4. Cardinality(T) = Cardinality(U)
  <2>1. ExistsBijection(T, U)
    BY <1>3 DEF ExistsBijection
  <2> QED BY <1>2, <2>1, FS_Bijection
<1>5. S = U \cup {n} /\ n \notin U
  <2>1. \A i : i \in 1 .. Len(s) <=> (i \in 1 .. n - 1 \/ i = n \/ i \in n + 1 .. Len(s))
    BY <1>1
  <2> QED BY <1>1, <2>1
<1>6. Cardinality(S) = Cardinality(U) + 1
  <2>1. Cardinality(U \cup {n}) = Cardinality(U) + 1
    BY <1>2, <1>5, FS_AddElement
  <2> QED BY <1>5, <2>1
<1>7. Sounding(s) = Cardinality(S) /\ Sounding(t) = Cardinality(T)
  BY DEF Sounding
<1>8. Sounding(t) = Sounding(s) - 1
  BY <1>2, <1>4, <1>6, <1>7
<1> QED BY <1>8 DEF t

LEMMA AppendFacts ==
  ASSUME NEW s \in Seq(Nat), NEW x \in Nat
  PROVE  /\ Len(s) \in Nat /\ Append(s, x) \in Seq(Nat) /\ Len(Append(s, x)) = Len(s) + 1
         /\ Append(s, x)[Len(s) + 1] = x /\ \A i \in 1 .. Len(s) : Append(s, x)[i] = s[i]
OBVIOUS

LEMMA FollowFlush ==
  ASSUME NEW s \in Seq(Nat), NEW h \in Nat, NEW n \in Nat, Follow(s, h)
  PROVE  Follow(Append(s, Flush(n)), h) /\ EndAt(Append(s, Flush(n)), h, n)
<1> DEFINE x == Flush(n)
           t == Append(s, x)
           N == Len(s)
<1>1. x \in Nat /\ IsFlush(x) /\ x - Flush(0) = n
  BY DEF Flush, IsFlush
<1>2. N \in Nat /\ Len(t) = N + 1 /\ t[N + 1] = x /\ \A i \in 1 .. N : t[i] = s[i]
  BY <1>1, AppendFacts
<1>3. \A i, k \in 0 .. N :
        Starts(s, i) /\ i < k /\ Unbroken(s, i, k) /\ ~IsFlush(s[k]) => s[k] = From(s, h, i) + (k - i - 1)
  BY DEF Follow
<1>4. \A i : Starts(s, i) <=> (i = 0 \/ (i \in 1 .. N /\ IsFlush(s[i])))
  BY DEF Starts
<1> HIDE DEF x, t, N
<1>5. ASSUME NEW i \in 0 .. N + 1, NEW k \in 0 .. N + 1, Starts(t, i), i < k, Unbroken(t, i, k), ~IsFlush(t[k])
      PROVE  t[k] = From(t, h, i) + (k - i - 1)
  <2>1. k # N + 1
    BY <1>1, <1>2, <1>5
  <2>2. i \in 0 .. N /\ k \in 0 .. N /\ t[k] = s[k]
    BY <1>2, <1>5, <2>1
  <2>3. i # 0 => i \in 1 .. N /\ t[i] = s[i]
    BY <1>2, <2>2
  <2>4. Starts(s, i) /\ From(s, h, i) = From(t, h, i)
    BY <1>4, <1>5, <2>3 DEF Starts, From
  <2>5. Unbroken(s, i, k)
    <3> SUFFICES ASSUME NEW j \in i + 1 .. k - 1 PROVE ~IsFlush(s[j])
      BY DEF Unbroken
    <3>1. j \in 1 .. N
      BY <1>2, <2>2
    <3> QED BY <1>2, <1>5, <3>1 DEF Unbroken
  <2> QED BY <1>3, <1>5, <2>2, <2>4, <2>5
<1>6. ASSUME NEW i \in 0 .. N + 1, Unbroken(t, i, N + 1 + 1)
      PROVE  n = From(t, h, i) + (N + 1 - i)
  <2>1. i = N + 1
    <3> SUFFICES ASSUME i # N + 1 PROVE FALSE
      OBVIOUS
    <3>1. N + 1 \in i + 1 .. N + 1 + 1 - 1
      BY <1>2
    <3> QED BY <1>1, <1>2, <1>6, <3>1 DEF Unbroken
  <2>2. From(t, h, i) = n
    BY <1>1, <1>2, <2>1 DEF From
  <2> QED BY <1>2, <2>1, <2>2
<1>7. Follow(t, h)
  BY <1>2, <1>5 DEF Follow
<1>8. EndAt(t, h, n)
  BY <1>2, <1>6 DEF EndAt
<1> QED BY <1>7, <1>8 DEF t, x

LEMMA FollowPush ==
  ASSUME NEW s \in Seq(Nat), NEW h \in Nat, NEW n \in 0 .. Furthest, Follow(s, h), EndAt(s, h, n)
  PROVE  Follow(Append(s, n), h) /\ EndAt(Append(s, n), h, n + 1)
<1> DEFINE t == Append(s, n)
           N == Len(s)
<1>1. ~IsFlush(n)
  BY DEF IsFlush
<1>2. N \in Nat /\ Len(t) = N + 1 /\ t[N + 1] = n /\ \A i \in 1 .. N : t[i] = s[i]
  BY AppendFacts
<1>3. \A i, k \in 0 .. N :
        Starts(s, i) /\ i < k /\ Unbroken(s, i, k) /\ ~IsFlush(s[k]) => s[k] = From(s, h, i) + (k - i - 1)
  BY DEF Follow
<1>4. \A i : Starts(s, i) <=> (i = 0 \/ (i \in 1 .. N /\ IsFlush(s[i])))
  BY DEF Starts
<1>5. \A i \in 0 .. N : Starts(s, i) /\ Unbroken(s, i, N + 1) => n = From(s, h, i) + (N - i)
  BY DEF EndAt
<1>6. \A i \in 0 .. N : From(s, h, i) \in Int
  BY DEF From, Flush
<1> HIDE DEF t, N
<1>7. ASSUME NEW i \in 0 .. N + 1, Starts(t, i)
      PROVE  i \in 0 .. N /\ Starts(s, i) /\ From(t, h, i) = From(s, h, i) /\ From(s, h, i) \in Int
  <2>1. i # N + 1
    <3> SUFFICES ASSUME i = N + 1 PROVE FALSE
      OBVIOUS
    <3>1. i # 0 /\ IsFlush(t[N + 1])
      BY <1>2, <1>7 DEF Starts
    <3> QED BY <1>1, <1>2, <3>1
  <2>2. i \in 0 .. N /\ (i # 0 => i \in 1 .. N /\ t[i] = s[i])
    BY <1>2, <2>1
  <2> QED BY <1>4, <1>6, <1>7, <2>2 DEF Starts, From
<1>8. ASSUME NEW i \in 0 .. N, NEW k \in 0 .. N + 1, Unbroken(t, i, k)
      PROVE  Unbroken(s, i, k)
  <2> SUFFICES ASSUME NEW j \in i + 1 .. k - 1 PROVE ~IsFlush(s[j])
    BY DEF Unbroken
  <2>1. j \in 1 .. N
    BY <1>2
  <2> QED BY <1>2, <1>8, <2>1 DEF Unbroken
<1>9. ASSUME NEW i \in 0 .. N + 1, NEW k \in 0 .. N + 1, Starts(t, i), i < k, Unbroken(t, i, k), ~IsFlush(t[k])
      PROVE  t[k] = From(t, h, i) + (k - i - 1)
  <2>1. i \in 0 .. N /\ Starts(s, i) /\ From(t, h, i) = From(s, h, i) /\ From(s, h, i) \in Int
    BY <1>7, <1>9
  <2>2. Unbroken(s, i, k)
    BY <1>8, <1>9, <2>1
  <2>3. CASE k = N + 1
    <3>1. n = From(s, h, i) + (N - i)
      BY <1>5, <2>1, <2>2, <2>3
    <3> QED BY <1>2, <2>1, <2>3, <3>1
  <2>4. CASE k # N + 1
    <3>1. k \in 0 .. N /\ t[k] = s[k]
      BY <1>2, <1>9, <2>1, <2>4
    <3> QED BY <1>3, <1>9, <2>1, <2>2, <3>1
  <2> QED BY <2>3, <2>4
<1>10. ASSUME NEW i \in 0 .. N + 1, Starts(t, i), Unbroken(t, i, N + 1 + 1)
       PROVE  n + 1 = From(t, h, i) + (N + 1 - i)
  <2>1. i \in 0 .. N /\ Starts(s, i) /\ From(t, h, i) = From(s, h, i) /\ From(s, h, i) \in Int
    BY <1>7, <1>10
  <2>2. Unbroken(t, i, N + 1)
    BY <1>2, <1>10 DEF Unbroken
  <2>3. Unbroken(s, i, N + 1)
    BY <1>2, <1>8, <2>1, <2>2
  <2>4. n = From(s, h, i) + (N - i)
    BY <1>5, <2>1, <2>3
  <2> QED BY <1>2, <2>1, <2>4
<1>11. Follow(t, h)
  BY <1>2, <1>9 DEF Follow
<1>12. EndAt(t, h, n + 1)
  BY <1>2, <1>10 DEF EndAt
<1> QED BY <1>11, <1>12 DEF t

LEMMA PopFacts ==
  ASSUME NEW s \in Seq(Nat), NEW m \in 1 .. Len(s)
  PROVE  /\ SubSeq(s, m + 1, Len(s)) \in Seq(Nat) /\ Len(SubSeq(s, m + 1, Len(s))) = Len(s) - m
         /\ \A i \in 1 .. Len(s) - m : SubSeq(s, m + 1, Len(s))[i] = s[i + m]
BY SMTT(60)

LEMMA FollowPop ==
  ASSUME NEW s \in Seq(Nat), NEW h \in Nat, NEW m \in 1 .. Len(s), Follow(s, h), ~IsFlush(s[m]),
         \A i \in 1 .. m - 1 : IsFlush(s[i])
  PROVE  /\ Follow(SubSeq(s, m + 1, Len(s)), s[m] + 1)
         /\ \A n : EndAt(s, h, n) => EndAt(SubSeq(s, m + 1, Len(s)), s[m] + 1, n)
<1> DEFINE t == SubSeq(s, m + 1, Len(s))
           N == Len(s)
           M == N - m
           g == s[m] + 1
           Old(i) == IF i = 0 THEN m - 1 ELSE i + m
<1>1. N \in Nat /\ m \in 1 .. N /\ M \in Nat /\ N = M + m
  OBVIOUS
<1>2. Len(t) = M /\ \A i \in 1 .. M : t[i] = s[i + m]
  BY PopFacts
<1>3. \A i, k \in 0 .. N :
        Starts(s, i) /\ i < k /\ Unbroken(s, i, k) /\ ~IsFlush(s[k]) => s[k] = From(s, h, i) + (k - i - 1)
  BY DEF Follow
<1>4. \A i : Starts(s, i) <=> (i = 0 \/ (i \in 1 .. N /\ IsFlush(s[i])))
  BY DEF Starts
<1>5. \A i \in 0 .. N : From(s, h, i) \in Int
  BY DEF From, Flush
<1> HIDE DEF t, N, M
<1>6. Starts(s, m - 1) /\ s[m] = From(s, h, m - 1)
  <2>1. m - 1 = 0 \/ m - 1 \in 1 .. m - 1
    BY <1>1
  <2>2. Starts(s, m - 1)
    BY <1>1, <1>4, <2>1
  <2>3. Unbroken(s, m - 1, m)
    <3>1. \A j \in (m - 1) + 1 .. m - 1 : FALSE
      BY <1>1
    <3> QED BY <3>1 DEF Unbroken
  <2>4. m - 1 \in 0 .. N /\ m \in 0 .. N /\ m - 1 < m
    BY <1>1
  <2>5. s[m] = From(s, h, m - 1) + (m - (m - 1) - 1)
    BY <1>3, <2>2, <2>3, <2>4
  <2> QED BY <1>1, <1>5, <2>2, <2>4, <2>5
<1>7. ASSUME NEW i \in 0 .. M, Starts(t, i)
      PROVE  /\ Old(i) \in 0 .. N /\ Starts(s, Old(i)) /\ From(s, h, Old(i)) \in Int
             /\ From(t, g, i) = From(s, h, Old(i)) + (IF i = 0 THEN 1 ELSE 0)
  <2>1. CASE i = 0
    <3>1. From(t, g, i) = g
      BY <2>1 DEF From
    <3> QED BY <1>1, <1>5, <1>6, <2>1, <3>1
  <2>2. CASE i # 0
    <3>1. i \in 1 .. M /\ IsFlush(t[i])
      BY <1>2, <1>7, <2>2 DEF Starts
    <3>2. i + m \in 1 .. N /\ t[i] = s[i + m] /\ i + m # 0 /\ i + m \in 0 .. N
      BY <1>1, <1>2, <3>1
    <3>3. Starts(s, i + m)
      BY <1>4, <3>1, <3>2
    <3>4. From(t, g, i) = From(s, h, i + m)
      BY <2>2, <3>2 DEF From
    <3> QED BY <1>5, <2>2, <3>2, <3>3, <3>4
  <2> QED BY <2>1, <2>2
<1>8. ASSUME NEW i \in 0 .. M, NEW k \in 0 .. M + 1, Unbroken(t, i, k)
      PROVE  Unbroken(s, Old(i), k + m)
  <2> SUFFICES ASSUME NEW j \in Old(i) + 1 .. k + m - 1 PROVE ~IsFlush(s[j])
    BY DEF Unbroken
  <2>1. CASE j = m
    BY <2>1
  <2>2. CASE j # m
    <3>1. j - m \in 1 .. M /\ j - m \in i + 1 .. k - 1 /\ (j - m) + m = j
      BY <1>1, <2>2
    <3>2. t[j - m] = s[(j - m) + m]
      BY <1>2, <3>1
    <3>3. ~IsFlush(t[j - m])
      BY <1>8, <3>1 DEF Unbroken
    <3> QED BY <3>1, <3>2, <3>3
  <2> QED BY <2>1, <2>2
<1>9. ASSUME NEW i \in 0 .. M, NEW k \in 0 .. M, Starts(t, i), i < k, Unbroken(t, i, k), ~IsFlush(t[k])
      PROVE  t[k] = From(t, g, i) + (k - i - 1)
  <2>1. /\ Old(i) \in 0 .. N /\ Starts(s, Old(i)) /\ From(s, h, Old(i)) \in Int
        /\ From(t, g, i) = From(s, h, Old(i)) + (IF i = 0 THEN 1 ELSE 0)
    BY <1>7, <1>9
  <2>2. Unbroken(s, Old(i), k + m)
    BY <1>1, <1>8, <1>9
  <2>3. k \in 1 .. M /\ k + m \in 0 .. N /\ Old(i) < k + m
    BY <1>1, <1>9
  <2>4. t[k] = s[k + m]
    BY <1>2, <2>3
  <2>5. s[k + m] = From(s, h, Old(i)) + (k + m - Old(i) - 1)
    BY SMTT(60), <1>3, <1>9, <2>1, <2>2, <2>3, <2>4
  <2>6. CASE i = 0
    <3>1. t[k] = From(s, h, Old(i)) + (k + m - (m - 1) - 1) /\ From(t, g, i) = From(s, h, Old(i)) + 1
      BY <2>1, <2>4, <2>5, <2>6
    <3> DEFINE f == From(s, h, Old(i))
    <3>2. f \in Int
      BY <2>1
    <3> HIDE DEF f
    <3>3. f + (k + m - (m - 1) - 1) = (f + 1) + (k - i - 1)
      BY <1>1, <2>6, <3>2
    <3> QED BY <3>1, <3>3 DEF f
  <2>7. CASE i # 0
    <3>1. t[k] = From(s, h, Old(i)) + (k + m - (i + m) - 1) /\ From(t, g, i) = From(s, h, Old(i)) + 0
      BY <2>1, <2>4, <2>5, <2>7
    <3> DEFINE f == From(s, h, Old(i))
    <3>2. f \in Int
      BY <2>1
    <3> HIDE DEF f
    <3>3. f + (k + m - (i + m) - 1) = (f + 0) + (k - i - 1)
      BY <1>1, <3>2
    <3> QED BY <3>1, <3>3 DEF f
  <2> QED BY <2>6, <2>7
<1>10. ASSUME NEW n, EndAt(s, h, n), NEW i \in 0 .. M, Starts(t, i), Unbroken(t, i, M + 1)
       PROVE  n = From(t, g, i) + (M - i)
  <2>1. /\ Old(i) \in 0 .. N /\ Starts(s, Old(i)) /\ From(s, h, Old(i)) \in Int
        /\ From(t, g, i) = From(s, h, Old(i)) + (IF i = 0 THEN 1 ELSE 0)
    BY <1>7, <1>10
  <2>2. Unbroken(s, Old(i), (M + 1) + m)
    <3>1. M + 1 \in 0 .. M + 1
      BY <1>1
    <3> QED BY <1>8, <1>10, <3>1
  <2>3. (M + 1) + m = N + 1
    BY <1>1
  <2>4. n = From(s, h, Old(i)) + (N - Old(i))
    BY <1>10, <2>1, <2>2, <2>3 DEF EndAt, N
  <2> QED BY SMTT(60), <1>1, <2>1, <2>4
<1>11. Follow(t, g)
  BY <1>2, <1>9 DEF Follow
<1>12. \A n : EndAt(s, h, n) => EndAt(t, g, n)
  BY <1>2, <1>10 DEF EndAt
<1> QED BY <1>11, <1>12 DEF t

-----------------------------------------------------------------------------
(* Types                                                                   *)

USE DEF fixed, atomics, control, decoding, relaying, mixing, history, InDecoder, InTask, InMixer, InMonitor

LEMMA ShortTyped ==
  ASSUME NEW S, NEW t, t = <<>> \/ \E x \in S : t = <<x>>
  PROVE  t \in Seq(S)
<1>1. CASE t = <<>>
  BY <1>1
<1>2. ASSUME NEW x \in S, t = <<x>> PROVE t \in Seq(S)
  BY <1>2
<1> QED BY <1>1, <1>2

LEMMA PoppedTyped ==
  ASSUME NEW S, NEW s \in Seq(S), NEW n \in 1 .. Len(s)
  PROVE  SubSeq(s, n + 1, Len(s)) \in Seq(S) /\ Len(SubSeq(s, n + 1, Len(s))) = Len(s) - n
OBVIOUS

LEMMA KeepsTyped ==
  ASSUME ScalarTyped, NEW ok, Keeps(ok) \/ UNCHANGED history
  PROVE  honest' \in BOOLEAN /\ late' \in Nat
<1>1. late' = late \/ late' = 0
  BY DEF Keeps
<1>2. honest' \in BOOLEAN
  BY DEF Keeps, ScalarTyped
<1> QED BY <1>1, <1>2 DEF ScalarTyped

LEMMA SeekTyped ==
  ASSUME PlayingTyped, NEW p \in 0 .. Length - 1, Seek(p)
  PROVE  PlayingTyped'
<1>1. honest' \in BOOLEAN
  BY DEF Seek, Send, PlayingTyped, ScalarTyped
<1>2. position' \in Nat /\ seeks' \in Nat /\ late' \in Nat
  BY DEF Seek, PlayingTyped, ScalarTyped
<1>3. ScalarTyped'
  BY <1>1, <1>2 DEF Seek, PlayingTyped, ScalarTyped
<1>4. commands' \in Seq(0 .. Length)
  <2>1. p \in 0 .. Length /\ commands \in Seq(0 .. Length)
    BY DEF PlayingTyped, ChannelsTyped
  <2>2. Append(commands, p) \in Seq(0 .. Length)
    BY <2>1
  <2>3. commands' = commands \/ commands' = Append(commands, p)
    BY DEF Seek, Send
  <2> QED BY <2>1, <2>2, <2>3
<1>5. asking' = <<>> \/ \E q \in 0 .. Length : asking' = <<q>>
  BY DEF Seek
<1>6. ChannelsTyped'
  BY <1>4, <1>5 DEF Seek, PlayingTyped, ChannelsTyped, Flush
<1>7. Shape'
  BY DEF PlayingTyped, Shape, Seek, Send, Accepts, Connected
<1> QED BY <1>3, <1>6, <1>7 DEF PlayingTyped

LEMMA SeekSentTyped ==
  ASSUME PlayingTyped, SeekSent
  PROVE  PlayingTyped'
<1>1. ScalarTyped'
  BY DEF SeekSent, Send, PlayingTyped, ScalarTyped
<1>2. PICK p \in 0 .. Length : asking = <<p>>
  BY DEF SeekSent, PlayingTyped, ChannelsTyped
<1>3. commands' \in Seq(0 .. Length)
  <2>1. commands \in Seq(0 .. Length) /\ Append(commands, p) \in Seq(0 .. Length)
    BY DEF PlayingTyped, ChannelsTyped
  <2>2. commands' = commands \/ commands' = Append(commands, p)
    BY <1>2 DEF SeekSent, Send
  <2> QED BY <2>1, <2>2
<1>4. ChannelsTyped'
  BY <1>3 DEF SeekSent, PlayingTyped, ChannelsTyped, Flush
<1>5. Shape'
  BY DEF PlayingTyped, Shape, SeekSent
<1> QED BY <1>1, <1>4, <1>5 DEF PlayingTyped

LEMMA CheckSeeksTyped ==
  ASSUME PlayingTyped, CheckSeeks
  PROVE  PlayingTyped'
<1>1. commands \in Seq(0 .. Length) /\ inner \in Seq(0 .. Length)
  BY DEF PlayingTyped, ChannelsTyped
<1>2. Head(Queue) \in 0 .. Length
  BY <1>1 DEF CheckSeeks, Queue
<1>3. commands' \in Seq(0 .. Length) /\ inner' \in Seq(0 .. Length)
  <2>1. CASE service = "direct"
    <3>1. commands # <<>> /\ commands' = Tail(commands) /\ inner' = inner
      BY <2>1 DEF CheckSeeks, Queue
    <3> QED BY <1>1, <3>1
  <2>2. CASE service # "direct"
    <3>1. inner # <<>> /\ inner' = Tail(inner) /\ commands' = commands
      BY <2>2 DEF CheckSeeks, Queue
    <3> QED BY <1>1, <3>1
  <2> QED BY <2>1, <2>2
<1>4. ChannelsTyped'
  BY <1>3 DEF CheckSeeks, PlayingTyped, ChannelsTyped, Flush
<1>5. /\ honest' \in BOOLEAN /\ late' \in Nat
      /\ next' \in 0 .. Furthest /\ left' \in 0 .. Length /\ next' + left' <= Furthest
  <2>1. \/ next' = Head(Queue) /\ left' \in 0 .. Length /\ UNCHANGED history
        \/ UNCHANGED <<next, left>> /\ Keeps(FALSE)
    BY DEF CheckSeeks
  <2>2. next \in 0 .. Furthest /\ left \in 0 .. Length /\ next + left <= Furthest
    BY DEF PlayingTyped, ScalarTyped
  <2>3. CASE next' = Head(Queue) /\ left' \in 0 .. Length /\ UNCHANGED history
    BY <1>2, <2>3 DEF PlayingTyped, ScalarTyped
  <2>4. CASE UNCHANGED <<next, left>> /\ Keeps(FALSE)
    BY <2>2, <2>4, KeepsTyped DEF PlayingTyped
  <2> QED BY <2>1, <2>3, <2>4
<1>6. ScalarTyped'
  BY <1>5 DEF CheckSeeks, PlayingTyped, ScalarTyped
<1>7. Shape'
  BY DEF PlayingTyped, Shape, CheckSeeks, Queue
<1> QED BY <1>4, <1>6, <1>7 DEF PlayingTyped

LEMMA PushTyped ==
  ASSUME PlayingTyped, PushFlush \/ Push
  PROVE  PlayingTyped'
<1>1. ScalarTyped'
  <2>1. \/ UNCHANGED <<next, left>>
        \/ left > 0 /\ next' = next + 1 /\ left' = left - 1
    <3>1. CASE PushFlush
      BY <3>1 DEF PushFlush
    <3>2. CASE Push
      <4>1. decoder = "push" /\ (decoder = "push" => left > 0)
        BY <3>2 DEF Push, PlayingTyped, ScalarTyped
      <4>2. UNCHANGED <<next, left>> \/ (next' = next + 1 /\ left' = left - 1)
        BY <3>2 DEF Push
      <4> QED BY <4>1, <4>2
    <3> QED BY <3>1, <3>2
  <2>2. next \in 0 .. Furthest /\ left \in 0 .. Length /\ next + left <= Furthest
    BY DEF PlayingTyped, ScalarTyped
  <2>3. next' \in 0 .. Furthest /\ left' \in 0 .. Length /\ next' + left' <= Furthest
    BY <2>1, <2>2
  <2>4. decoder' \in {"seeked", "check", "done"}
    BY DEF PushFlush, Push
  <2> QED BY <2>3, <2>4 DEF PushFlush, Push, PlayingTyped, ScalarTyped
<1>2. frames' \in Seq(0 .. Flush(Furthest)) /\ Len(frames') <= Buffer
  <2>1. next \in 0 .. Flush(Furthest) /\ Flush(next) \in 0 .. Flush(Furthest)
    BY DEF PlayingTyped, ScalarTyped, Flush
  <2>2. frames \in Seq(0 .. Flush(Furthest)) /\ Len(frames) <= Buffer /\ Len(frames) \in Nat
    BY DEF PlayingTyped, ChannelsTyped
  <2>3. \/ frames' = frames
        \/ Len(frames) < Buffer /\ (frames' = Append(frames, next) \/ frames' = Append(frames, Flush(next)))
    BY DEF PushFlush, Push, Room
  <2> DEFINE top == Flush(Furthest)
  <2>4. Append(frames, next) \in Seq(0 .. top) /\ Append(frames, Flush(next)) \in Seq(0 .. top)
    BY <2>1, <2>2
  <2>5. Len(Append(frames, next)) = Len(frames) + 1 /\ Len(Append(frames, Flush(next))) = Len(frames) + 1
    BY <2>2
  <2>6. CASE frames' = frames
    BY <2>2, <2>6
  <2>7. CASE Len(frames) < Buffer /\ frames' = Append(frames, next)
    BY <2>2, <2>4, <2>5, <2>7
  <2>8. CASE Len(frames) < Buffer /\ frames' = Append(frames, Flush(next))
    BY <2>2, <2>4, <2>5, <2>8
  <2> QED BY <2>3, <2>6, <2>7, <2>8
<1>3. ChannelsTyped'
  BY <1>2 DEF PushFlush, Push, PlayingTyped, ChannelsTyped, Flush
<1>4. Shape'
  BY DEF PlayingTyped, Shape, PushFlush, Push
<1> QED BY <1>1, <1>3, <1>4 DEF PlayingTyped

LEMMA ResolvesTyped ==
  ASSUME PlayingTyped, Resolves
  PROVE  PlayingTyped'
<1>1. ScalarTyped'
  BY DEF Resolves, Keeps, PlayingTyped, ScalarTyped
<1>2. inner' \in Seq(0 .. Length)
  <2>1. current_seek \in 0 .. Length /\ (inner' = <<>> \/ inner' = <<current_seek>>)
    BY DEF Resolves, PlayingTyped, ScalarTyped
  <2> QED BY <2>1, ShortTyped
<1>3. ChannelsTyped'
  BY <1>2 DEF Resolves, PlayingTyped, ChannelsTyped, Flush
<1>4. Shape'
  BY DEF PlayingTyped, Shape, Resolves
<1> QED BY <1>1, <1>3, <1>4 DEF PlayingTyped

LEMMA RelayTyped ==
  ASSUME PlayingTyped, Relay \/ RelaySent
  PROVE  PlayingTyped'
<1>1. /\ commands \in Seq(0 .. Length) /\ inner \in Seq(0 .. Length)
      /\ current_seek \in 0 .. Length
  BY DEF PlayingTyped, ChannelsTyped, ScalarTyped
<1>2. /\ current_seek' \in 0 .. Length /\ commands' \in Seq(0 .. Length)
      /\ inner' = inner \/ inner' = Append(inner, current_seek')
  <2>1. CASE Relay
    <3>1. commands # <<>> /\ current_seek' = Head(commands) /\ commands' = Tail(commands)
      BY <2>1 DEF Relay
    <3>2. inner' = inner \/ inner' = Append(inner, Head(commands))
      BY <2>1 DEF Relay, ToInner
    <3> QED BY <1>1, <3>1, <3>2
  <2>2. CASE RelaySent
    BY <1>1, <2>2 DEF RelaySent, ToInner
  <2> QED BY <2>1, <2>2
<1>3. inner' \in Seq(0 .. Length)
  <2> DEFINE t == inner'
             x == current_seek'
  <2>1. t = inner \/ t = Append(inner, x)
    BY <1>2
  <2>2. x \in 0 .. Length
    BY <1>2
  <2> HIDE DEF t, x
  <2>3. t \in Seq(0 .. Length)
    BY SMTT(60), <1>1, <2>1, <2>2
  <2> QED BY <2>3 DEF t
<1>4. ChannelsTyped'
  BY <1>2, <1>3 DEF Relay, RelaySent, PlayingTyped, ChannelsTyped, Flush
<1>5. honest' \in BOOLEAN /\ late' \in Nat
  <2>1. UNCHANGED history \/ Keeps(~Over)
    BY DEF Relay, RelaySent, ToInner
  <2> QED BY <2>1, KeepsTyped DEF PlayingTyped
<1>6. ScalarTyped'
  BY <1>2, <1>5 DEF Relay, RelaySent, PlayingTyped, ScalarTyped
<1>7. Shape'
  BY DEF PlayingTyped, Shape, Relay, RelaySent, ToInner
<1> QED BY <1>4, <1>6, <1>7 DEF PlayingTyped

LEMMA MixTyped ==
  ASSUME PlayingTyped, (\E n \in 1 .. Buffer : Pull(n)) \/ MixFilled \/ MixEmpty
  PROVE  PlayingTyped'
<1>1. frames \in Seq(0 .. Flush(Furthest)) /\ Len(frames) <= Buffer /\ Len(frames) \in Nat
  BY DEF PlayingTyped, ChannelsTyped
<1>2. CASE \E n \in 1 .. Buffer : Pull(n)
  <2>1. PICK n \in 1 .. Len(frames) : Pull(n)
    BY <1>2 DEF Pull, Pops
  <2>2. frames' = SubSeq(frames, n + 1, Len(frames))
    BY <2>1 DEF Pull
  <2> DEFINE t == SubSeq(frames, n + 1, Len(frames))
             top == Flush(Furthest)
  <2>a. n \in 1 .. Len(frames)
    OBVIOUS
  <2>b. t \in Seq(0 .. top) /\ Len(t) = Len(frames) - n
    <3> HIDE DEF top
    <3>1. frames \in Seq(0 .. top) /\ Len(frames) \in Nat
      BY <1>1 DEF top
    <3> QED BY <2>a, <3>1, PoppedTyped
  <2> HIDE DEF t
  <2>3. frames' \in Seq(0 .. Flush(Furthest)) /\ Len(frames') <= Buffer
    BY <1>1, <2>2, <2>a, <2>b DEF t
  <2>4. ChannelsTyped'
    BY <2>1, <2>3 DEF Pull, PlayingTyped, ChannelsTyped, Flush
  <2>5. heard' \in Nat
    BY SMTT(60), <1>1, <2>1 DEF Pull, Flush
  <2>6. ScalarTyped'
    BY <2>1, <2>5 DEF Pull, Keeps, PlayingTyped, ScalarTyped
  <2>7. Shape'
    BY <1>1, <2>1 DEF PlayingTyped, Shape, Pull
  <2> QED BY <2>4, <2>6, <2>7 DEF PlayingTyped
<1>3. CASE MixFilled
  <2>1. position' \in Nat
    BY <1>3 DEF MixFilled, PlayingTyped, ScalarTyped
  <2>2. ScalarTyped'
    BY <1>3, <2>1 DEF MixFilled, PlayingTyped, ScalarTyped
  <2>3. ChannelsTyped' /\ Shape'
    BY <1>3 DEF MixFilled, PlayingTyped, ChannelsTyped, Shape, Flush
  <2> QED BY <2>2, <2>3 DEF PlayingTyped
<1>4. CASE MixEmpty
  <2>1. frames' = frames \/ frames' = <<>>
    BY <1>4 DEF MixEmpty
  <2>2. ChannelsTyped'
    <3>1. frames' \in Seq(0 .. Flush(Furthest)) /\ Len(frames') <= Buffer
      BY <1>1, <2>1, ShortTyped
    <3> QED BY <1>4, <3>1 DEF MixEmpty, PlayingTyped, ChannelsTyped, Flush
  <2>3. heard' \in Nat
    <3>1. CASE frames' = frames
      BY <1>4, <3>1 DEF MixEmpty, PlayingTyped, ScalarTyped
    <3>2. CASE frames' # frames
      <4>1. heard' = frames[Len(frames)] - Flush(0) /\ ~finished /\ frames # <<>>
        BY <1>4, <3>2 DEF MixEmpty
      <4>2. Len(frames) \in 1 .. Len(frames)
        BY <1>1, <4>1
      <4>3. IsFlush(frames[Len(frames)]) /\ frames[Len(frames)] \in Nat
        BY <1>1, <1>4, <4>1, <4>2 DEF MixEmpty, Flush
      <4> QED BY <4>1, <4>3 DEF IsFlush, Flush
    <3> QED BY <3>1, <3>2
  <2>4. ScalarTyped'
    BY <1>4, <2>3 DEF MixEmpty, PlayingTyped, ScalarTyped
  <2>5. Shape'
    BY <1>4, <2>1 DEF PlayingTyped, Shape, MixEmpty
  <2> QED BY <2>2, <2>4, <2>5 DEF PlayingTyped
<1> QED BY <1>2, <1>3, <1>4

LEMMA PlayingTypedStep ==
  ASSUME PlayingTyped, [Next]_vars
  PROVE  PlayingTyped'
<1> USE DEF PlayingTyped, ScalarTyped, ChannelsTyped, Shape, Flush, Keeps
<1>1. ASSUME SetPaused PROVE PlayingTyped'
  BY <1>1 DEF SetPaused
<1>2. ASSUME Opens PROVE PlayingTyped'
  BY <1>2 DEF Opens
<1>3. ASSUME OpenFails PROVE PlayingTyped'
  BY <1>3 DEF OpenFails
<1>4. ASSUME CheckStops PROVE PlayingTyped'
  BY <1>4 DEF CheckStops
<1>5. ASSUME Decode PROVE PlayingTyped'
  BY <1>5 DEF Decode, Reading
<1>6. ASSUME DecodeSkips PROVE PlayingTyped'
  BY <1>6 DEF DecodeSkips, Reading
<1>7. ASSUME DecodeFails PROVE PlayingTyped'
  BY <1>7 DEF DecodeFails
<1>8. ASSUME EndOfFile PROVE PlayingTyped'
  BY <1>8 DEF EndOfFile
<1>9. ASSUME TellError PROVE PlayingTyped'
  BY <1>9 DEF TellError
<1>10. ASSUME ResolveFails PROVE PlayingTyped'
  BY <1>10 DEF ResolveFails
<1>11. ASSUME RelayStop PROVE PlayingTyped'
  BY <1>11 DEF RelayStop
<1>12. ASSUME DecoderDone PROVE PlayingTyped'
  BY <1>12 DEF DecoderDone
<1>13. ASSUME TaskTells PROVE PlayingTyped'
  BY <1>13 DEF TaskTells
<1>14. ASSUME MixLoad PROVE PlayingTyped'
  BY <1>14 DEF MixLoad
<1>15. ASSUME Report PROVE PlayingTyped'
  BY <1>15 DEF Report
<1>16. ASSUME Stuck PROVE PlayingTyped'
  BY <1>16 DEF Stuck
<1>17. ASSUME StopAll \/ MixDrop PROVE PlayingTyped'
  <2>1. frames' = <<>> /\ mixed' = FALSE
    BY <1>17 DEF StopAll, MixDrop
  <2>2. frames' \in Seq(0 .. Flush(Furthest)) /\ Len(frames') <= Buffer
    BY <2>1
  <2>3. ScalarTyped'
    BY <1>17 DEF StopAll, MixDrop
  <2>5. Shape'
    BY SMTT(60), <1>17, <2>1 DEF StopAll, MixDrop
  <2>4. ChannelsTyped'
    BY <1>17, <2>2 DEF StopAll, MixDrop
  <2> QED BY <2>3, <2>4, <2>5
<1>18. ASSUME UNCHANGED vars PROVE PlayingTyped'
  BY <1>18 DEF vars
<1> HIDE DEF PlayingTyped, ScalarTyped, ChannelsTyped, Shape, Flush, Keeps
<1> QED BY <1>1, <1>2, <1>3, <1>4, <1>5, <1>6, <1>7, <1>8, <1>9, <1>10, <1>11, <1>12, <1>13, <1>14, <1>15, <1>16, <1>17, <1>18,
  SeekTyped, SeekSentTyped, CheckSeeksTyped, PushTyped, ResolvesTyped, RelayTyped, MixTyped
  DEF Next, Request, Sending, Decoder, Task, Mixing, Monitor

-----------------------------------------------------------------------------
(* The position                                                            *)

Numbers ==
  /\ OnTheWay \in Nat /\ Obeying \in {0, 1} /\ Ahead \in Nat
  /\ Sounding(frames) \in Nat /\ Sounding(frames) <= Buffer /\ seeks \in Nat /\ late \in Nat
  /\ next \in Nat /\ Buffer \in Nat /\ (OnTheWay > 0 => Newest \in Nat)

LEMMA NumbersTyped == PlayingTyped => Numbers
<1> SUFFICES ASSUME PlayingTyped PROVE Numbers
  OBVIOUS
<1>1. /\ commands \in Seq(0 .. Length) /\ inner \in Seq(0 .. Length) /\ current_seek \in 0 .. Length
      /\ Len(commands) \in Nat /\ Len(inner) \in Nat
  BY DEF PlayingTyped, ChannelsTyped, ScalarTyped
<1>2. Len(asking) \in Nat /\ (asking # <<>> => asking[1] \in Nat)
  BY DEF PlayingTyped, ChannelsTyped
<1>3. OnTheWay \in Nat /\ Obeying \in {0, 1}
  BY <1>1, <1>2 DEF OnTheWay, Obeying
<1>4. Ahead \in Nat
  BY DEF PlayingTyped, ScalarTyped, Ahead
<1>5. Sounding(frames) \in Nat /\ Sounding(frames) <= Buffer
  <2>1. frames \in Seq(Nat) /\ Len(frames) \in Nat /\ Len(frames) <= Buffer
    BY DEF PlayingTyped, ChannelsTyped, Flush
  <2> QED BY <2>1, SoundingIs
<1>6. seeks \in Nat /\ late \in Nat /\ next \in Nat /\ Buffer \in Nat
  BY DEF PlayingTyped, ScalarTyped
<1>7. ASSUME OnTheWay > 0 PROVE Newest \in Nat
  <2>1. asking # <<>> \/ commands # <<>> \/ task = "relaying" \/ inner # <<>>
    BY <1>7 DEF OnTheWay
  <2>2. commands # <<>> => commands[Len(commands)] \in Nat
    BY <1>1
  <2>3. inner # <<>> => inner[Len(inner)] \in Nat
    BY <1>1
  <2> QED BY <1>1, <1>2, <2>1, <2>2, <2>3 DEF Newest
<1> QED BY <1>3, <1>4, <1>5, <1>6, <1>7 DEF Numbers

LEMMA NumbersTypedNext == PlayingTyped' => Numbers'
BY NumbersTyped, PTL

(* Nothing but the decoder moves on, and not to a frame more.              *)
LEMMA DriftKept ==
  ASSUME Numbers, Numbers', Drift, Counted,
         OnTheWay' = OnTheWay, OnTheWay > 0 => Newest' = Newest, Ahead' >= Ahead,
         Ahead' + Sounding(frames)' = Ahead + Sounding(frames),
         OnTheWay > 0 => Coming' + late <= Coming + late', next' = next, Obeying' <= Obeying,
         seeks' = seeks, late' >= late
  PROVE  Drift' /\ Counted'
<1> DEFINE s == Sounding(frames)
           w == OnTheWay
           a == Ahead
           o == Obeying
           c == Coming
           l == late
           x == next
           k == seeks
           s1 == Sounding(frames)'
           a1 == Ahead'
           o1 == Obeying'
           l1 == late'
           c1 == Coming'
<1>1. /\ s \in Nat /\ w \in Nat /\ a \in Nat /\ o \in Nat /\ l \in Nat /\ x \in Nat /\ k \in Nat
      /\ s1 \in Nat /\ a1 \in Nat /\ o1 \in Nat /\ l1 \in Nat
  BY DEF Numbers
<1>2. c \in Int
  BY DEF Numbers, Coming
<1>3. c1 \in Int
  BY DEF Numbers, Coming
<1>4. a1 >= a /\ a1 + s1 = a + s /\ o1 <= o /\ l1 >= l /\ (w > 0 => c1 + l <= c + l1)
  OBVIOUS
<1>5. Limit = Buffer + 2 + k + l /\ Limit' = Buffer + 2 + k + l1
  BY DEF Limit
<1>6. w + o <= k + 1
  BY DEF Counted
<1>7. OnTheWay' = w /\ next' = x /\ seeks' = k
  OBVIOUS
<1>8. ASSUME w > 0
      PROVE  \E n \in Nat : n = Newest /\ n = Newest' /\ n <= a /\ a + s + c <= n + Limit
  <2>1. Newest \in Nat /\ Newest' = Newest
    BY <1>8 DEF Numbers
  <2>2. Newest <= a /\ a + s + c <= Newest + Limit
    BY <1>8 DEF Drift
  <2> QED BY <2>1, <2>2
<1>9. ~(w > 0) => x <= a + s /\ a + s <= x + Limit
  BY DEF Drift
<1> HIDE DEF s, w, a, o, c, l, x, k, s1, a1, o1, l1, c1
<1>10. w + o1 <= k + 1
  BY <1>1, <1>4, <1>6
<1>11. Counted'
  BY <1>7, <1>10 DEF Counted, o1
<1>12. CASE w > 0
  <2>1. PICK n \in Nat : n = Newest /\ n = Newest' /\ n <= a /\ a + s + c <= n + Limit
    BY <1>8, <1>12
  <2>2. n <= a1
    BY <1>1, <1>4, <2>1
  <2>3. a1 + s1 + c1 <= n + (Buffer + 2 + k + l1)
    <3>1. a + s + c <= n + (Buffer + 2 + k + l)
      BY <1>5, <2>1
    <3>2. a1 + s1 + c1 + l <= a + s + c + l1
      BY <1>1, <1>2, <1>3, <1>4, <1>12
    <3> DEFINE b == n + (Buffer + 2 + k)
               d == a + s + c
               e == a1 + s1 + c1
    <3>3. b \in Nat /\ d \in Int /\ e \in Int
      BY <1>1, <1>2, <1>3
    <3>4. d <= b + l /\ e + l <= d + l1
      BY <1>1, <1>2, <1>3, <3>1, <3>2
    <3>5. (b + l1 = n + (Buffer + 2 + k + l1))
      BY <1>1
    <3> HIDE DEF b, d, e
    <3>6. e <= b + l1
      BY <1>1, <3>3, <3>4
    <3> QED BY <3>5, <3>6 DEF e
  <2> QED BY <1>5, <1>7, <1>11, <1>12, <2>1, <2>2, <2>3 DEF Drift, s1, a1, c1
<1>13. CASE ~(w > 0)
  <2>1. x <= a1 + s1 /\ a1 + s1 <= x + (Buffer + 2 + k + l1)
    BY <1>1, <1>4, <1>5, <1>9, <1>13
  <2> QED BY <1>5, <1>7, <1>11, <1>13, <2>1 DEF Drift, s1, a1
<1> QED BY <1>12, <1>13

LEMMA InRowKept ==
  ASSUME InRow, frames' = frames, heard' = heard, next' = next \/ decoder' = "flush",
         decoder' # "flush" => decoder # "flush"
  PROVE  InRow'
BY DEF InRow

(* A step that leaves the frames, and what was asked, as they are.         *)
LEMMA SoundKept ==
  ASSUME PlayingTyped, PlayingTyped', SoundInv, UNCHANGED <<frames, heard, next, seeks>>,
         honest' /\ mixed' =>
           /\ honest /\ mixed
           /\ OnTheWay' = OnTheWay /\ (OnTheWay > 0 => Newest' = Newest) /\ Ahead' = Ahead
           /\ (decoder' # "flush" => decoder # "flush") /\ Obeying' <= Obeying
           /\ late' >= late /\ (OnTheWay > 0 => Coming' + late <= Coming + late')
  PROVE  SoundInv'
<1> SUFFICES ASSUME honest' /\ mixed' PROVE InRow' /\ Drift' /\ Counted'
  BY DEF SoundInv
<1>1. Numbers /\ Numbers'
  BY NumbersTyped, NumbersTypedNext
<1>2. InRow /\ Drift /\ Counted
  BY DEF SoundInv
<1>3. InRow'
  BY <1>2, InRowKept
<1>4. Sounding(frames)' = Sounding(frames) /\ Ahead' = Ahead
  BY DEF Sounding
<1>5. Ahead' >= Ahead /\ Ahead' + Sounding(frames)' = Ahead + Sounding(frames)
  BY <1>1, <1>4 DEF Numbers
<1>6. Drift' /\ Counted'
  BY <1>1, <1>2, <1>5, DriftKept
<1> QED BY <1>3, <1>6

LEMMA StillKept ==
  ASSUME PlayingTyped, PlayingTyped', SoundInv,
         UNCHANGED <<frames, heard, next, seeks, asking, commands, inner, current_seek, position, pulled, late>>,
         honest' = honest, mixed' = mixed, task' = "relaying" <=> task = "relaying",
         decoder' = decoder \/ (decoder # "flush" /\ decoder' \notin {"push", "seeked", "flush"})
  PROVE  SoundInv'
<1>1. OnTheWay' = OnTheWay /\ (OnTheWay > 0 => Newest' = Newest) /\ Ahead' = Ahead
  BY DEF OnTheWay, Newest, Ahead
<1>2. OnTheWay \in Nat /\ Obeying \in {0, 1} /\ Obeying' \in {0, 1} /\ late \in Nat
  BY NumbersTyped DEF Numbers, Obeying
<1>3. Obeying' <= Obeying
  BY <1>2 DEF Obeying
<1>4. Coming' <= Coming
  <2>1. CASE decoder' = decoder
    <3>1. Coming' = Coming /\ Coming \in Int
      BY <1>1, <1>2, <2>1 DEF Coming, Obeying
    <3> QED BY <3>1
  <2>2. CASE decoder' # decoder
    <3>1. Coming' = OnTheWay - 1 + 0
      BY <1>1, <2>2 DEF Coming, Obeying
    <3>2. Coming \in {OnTheWay - 1 + 0, OnTheWay - 1 + 1}
      BY <1>2 DEF Coming
    <3> QED BY <1>2, <3>1, <3>2
  <2> QED BY <2>1, <2>2
<1>5. Coming' + late <= Coming + late' /\ late' >= late
  <2>1. Coming \in Int /\ Coming' \in Int
    BY <1>1, <1>2 DEF Coming
  <2> DEFINE c == Coming
             d == Coming'
  <2>2. d <= c /\ d \in Int /\ c \in Int
    BY <1>4, <2>1
  <2> HIDE DEF c, d
  <2>3. d + late <= c + late
    BY <1>2, <2>2
  <2> QED BY <1>2, <2>3 DEF c, d
<1> QED BY <1>1, <1>3, <1>5, SoundKept

LEMMA OthersSound ==
  ASSUME PlayingTyped, PlayingTyped', SoundInv,
         \/ SetPaused \/ Opens \/ OpenFails \/ CheckStops \/ DecodeFails \/ EndOfFile \/ TellError
         \/ ResolveFails \/ RelayStop \/ DecoderDone \/ TaskTells \/ MixLoad \/ Report \/ Stuck
         \/ UNCHANGED vars
  PROVE  SoundInv'
<1>1. UNCHANGED <<frames, heard, next, seeks, asking, commands, inner, current_seek, position, late>>
  BY DEF SetPaused, Opens, OpenFails, CheckStops, DecodeFails, EndOfFile, TellError, ResolveFails, RelayStop,
         DecoderDone, TaskTells, MixLoad, Report, Stuck, vars
<1>2. pulled' = pulled
  BY DEF SetPaused, Opens, OpenFails, CheckStops, DecodeFails, EndOfFile, TellError, ResolveFails, RelayStop,
         DecoderDone, TaskTells, MixLoad, Report, Stuck, vars, PlayingTyped, ScalarTyped, Shape
<1>3. honest' = honest /\ mixed' = mixed
  BY DEF SetPaused, Opens, OpenFails, CheckStops, DecodeFails, EndOfFile, TellError, ResolveFails, RelayStop,
         DecoderDone, TaskTells, MixLoad, Report, Stuck, vars
<1>4. task' = "relaying" <=> task = "relaying"
  BY DEF SetPaused, Opens, OpenFails, CheckStops, DecodeFails, EndOfFile, TellError, ResolveFails, RelayStop,
         DecoderDone, TaskTells, MixLoad, Report, Stuck, vars
<1>5. decoder' = decoder \/ (decoder # "flush" /\ decoder' \notin {"push", "seeked", "flush"})
  BY DEF SetPaused, Opens, OpenFails, CheckStops, DecodeFails, EndOfFile, TellError, ResolveFails, RelayStop,
         DecoderDone, TaskTells, MixLoad, Report, Stuck, vars, Reading
<1> QED BY <1>1, <1>2, <1>3, <1>4, <1>5, StillKept

(* What ends the claim: the track is dropped, or no longer honest.         *)
LEMMA BrokenSound ==
  ASSUME PlayingTyped, StopAll \/ MixDrop \/ DecodeSkips
  PROVE  SoundInv'
<1>1. mixed' = FALSE \/ honest' = FALSE
  BY DEF StopAll, MixDrop, DecodeSkips, Keeps
<1> QED BY <1>1 DEF SoundInv

LEMMA MixFilledSound ==
  ASSUME PlayingTyped, PlayingTyped', SoundInv, MixFilled
  PROVE  SoundInv'
<1>1. OnTheWay' = OnTheWay /\ (OnTheWay > 0 => Newest' = Newest) /\ Obeying' = Obeying /\ Coming' = Coming
  BY DEF MixFilled, OnTheWay, Newest, Obeying, Coming
<1>2. Ahead' = Ahead
  BY DEF MixFilled, Ahead, PlayingTyped, ScalarTyped
<1>3. OnTheWay \in Nat /\ Obeying \in {0, 1} /\ late \in Nat /\ Coming \in Int
  BY NumbersTyped DEF Numbers, Coming
<1>4. UNCHANGED <<frames, heard, next, seeks, decoder, late>> /\ honest' = honest /\ mixed' = mixed
  BY DEF MixFilled
<1>5. Obeying' <= Obeying /\ late' >= late /\ Coming' + late <= Coming + late'
  BY <1>1, <1>3, <1>4
<1> QED BY <1>1, <1>2, <1>4, <1>5, SoundKept

(* The request that waited has sent its seek.                              *)
LEMMA SeekSentSound ==
  ASSUME PlayingTyped, PlayingTyped', SoundInv, SeekSent
  PROVE  SoundInv'
<1> SUFFICES ASSUME honest' /\ mixed' PROVE SoundInv'
  BY DEF SoundInv
<1>1. PICK p \in 0 .. Length : asking = <<p>>
  BY DEF SeekSent, PlayingTyped, ChannelsTyped
<1>2. Connected /\ commands' = Append(commands, p) /\ honest /\ asking' = <<>> /\ late' = late
  <2>1. Connected
    BY DEF SeekSent, Send
  <2> QED BY <1>1, <2>1 DEF SeekSent, Send
<1>3. UNCHANGED <<frames, heard, next, seeks, decoder, position, pulled, task, inner, current_seek>> /\ mixed' = mixed
  BY DEF SeekSent
<1>4. commands \in Seq(0 .. Length) /\ inner \in Seq(0 .. Length) /\ Len(inner) \in Nat /\ Len(commands) \in Nat
  BY DEF PlayingTyped, ChannelsTyped
<1>5. commands' # <<>> /\ Len(commands') = Len(commands) + 1 /\ commands'[Len(commands) + 1] = p
  BY <1>2, <1>4
<1>6. OnTheWay' = OnTheWay
  <2>1. Len(asking) = 1 /\ Len(asking') = 0
    BY <1>1, <1>2
  <2> QED BY <1>3, <1>4, <1>5, <2>1 DEF OnTheWay
<1>7. Newest' = Newest
  <2>1. Newest = p
    BY <1>1 DEF Newest
  <2>2. Newest' = p
    BY <1>2, <1>5 DEF Newest
  <2> QED BY <2>1, <2>2
<1>8. Ahead' = Ahead /\ Obeying' = Obeying /\ Coming' = Coming
  BY <1>3, <1>6 DEF Ahead, Obeying, Coming
<1>9. OnTheWay \in Nat /\ Obeying \in {0, 1} /\ late \in Nat /\ Coming \in Int
  BY NumbersTyped DEF Numbers, Coming
<1>10. Obeying' <= Obeying /\ late' >= late /\ Coming' + late <= Coming + late'
  BY <1>2, <1>8, <1>9
<1> QED BY <1>2, <1>3, <1>6, <1>7, <1>8, <1>10, SoundKept


LEMMA ResolvesSound ==
  ASSUME PlayingTyped, PlayingTyped', SoundInv, Resolves
  PROVE  SoundInv'
<1> SUFFICES ASSUME honest' /\ mixed' PROVE SoundInv'
  BY DEF SoundInv
<1>1. honest /\ decoder = "none" /\ late' = late
  BY DEF Resolves, Keeps
<1>2. inner = <<>> /\ next = 0 /\ current_seek = 0 /\ task = "resolving"
  BY <1>1 DEF Resolves, PlayingTyped, Shape
<1>3. /\ inner' = <<>> /\ next' = 0 /\ decoder' = "opening" /\ task' = "playing" /\ current_seek' = current_seek
      /\ UNCHANGED <<frames, heard, seeks, asking, commands, position, pulled>> /\ mixed' = mixed
  BY <1>2 DEF Resolves
<1>4. OnTheWay' = OnTheWay /\ (OnTheWay > 0 => Newest' = Newest) /\ Ahead' = Ahead
  BY <1>2, <1>3 DEF OnTheWay, Newest, Ahead
<1>5. Obeying = 0 /\ Obeying' = 0
  BY <1>1, <1>3 DEF Obeying
<1>6. OnTheWay \in Nat /\ late \in Nat
  BY NumbersTyped DEF Numbers
<1>7. Coming = OnTheWay - 1 + 0 /\ Coming' = OnTheWay - 1 + 0
  BY <1>1, <1>3, <1>4, <1>5 DEF Coming
<1>8. Obeying' <= Obeying /\ late' >= late /\ Coming' + late <= Coming + late'
  BY <1>1, <1>5, <1>6, <1>7
<1> QED BY <1>1, <1>2, <1>3, <1>4, <1>8, SoundKept

(* A seek that is passed on to the decoder's channel stays the newest.     *)
LEMMA RelaySound ==
  ASSUME PlayingTyped, PlayingTyped', SoundInv, Relay \/ RelaySent
  PROVE  SoundInv'
<1> SUFFICES ASSUME honest' /\ mixed' PROVE SoundInv'
  BY DEF SoundInv
<1>1. /\ commands \in Seq(0 .. Length) /\ inner \in Seq(0 .. Length)
      /\ Len(inner) \in Nat /\ Len(commands) \in Nat
  BY DEF PlayingTyped, ChannelsTyped
<1>2. /\ UNCHANGED <<frames, heard, next, seeks, decoder, position, pulled, asking>> /\ mixed' = mixed
      /\ honest /\ late' = late
  BY DEF Relay, RelaySent, ToInner, Keeps
<1>3. OnTheWay' = OnTheWay /\ (OnTheWay > 0 => Newest' = Newest)
  <2>1. CASE Relay /\ InnerTakes
    <3>1. commands # <<>> /\ commands' = Tail(commands) /\ task = "playing" /\ task' = "playing"
      BY <2>1 DEF Relay
    <3>2. ~Over
      BY <2>1 DEF Relay, ToInner, Keeps
    <3>3. inner' = Append(inner, Head(commands))
      BY <2>1, <3>2 DEF Relay, ToInner
    <3>4. Len(commands') = Len(commands) - 1 /\ Head(commands) \in 0 .. Length
      BY <1>1, <3>1
    <3>5. Len(inner') = Len(inner) + 1 /\ inner'[Len(inner) + 1] = Head(commands)
      BY <1>1, <3>3, <3>4
    <3>6. OnTheWay' = OnTheWay
      BY <1>1, <1>2, <3>1, <3>4, <3>5 DEF OnTheWay
    <3>7. Newest' = Newest
      <4>1. CASE asking # <<>>
        BY <1>2, <4>1 DEF Newest
      <4>2. CASE asking = <<>> /\ commands' # <<>>
        <5>1. commands'[Len(commands')] = commands[Len(commands)]
          BY <1>1, <3>1, <4>2
        <5> QED BY <1>2, <3>1, <4>2, <5>1 DEF Newest
      <4>3. CASE asking = <<>> /\ commands' = <<>>
        <5>1. Len(commands) = 1 /\ commands[Len(commands)] = Head(commands)
          <6>1. Len(commands') = 0
            BY <4>3
          <6>2. Len(commands) = 1
            BY <1>1, <3>4, <6>1
          <6>3. Head(commands) = commands[1]
            BY <1>1, <3>1
          <6> QED BY <6>2, <6>3
        <5>2. Newest = Head(commands)
          BY <3>1, <4>3, <5>1 DEF Newest
        <5>3. Newest' = Head(commands)
          BY <1>2, <3>1, <3>5, <4>3 DEF Newest
        <5> QED BY <5>2, <5>3
      <4> QED BY <4>1, <4>2, <4>3
    <3> QED BY <3>6, <3>7
  <2>2. CASE Relay /\ ~InnerTakes
    <3>1. /\ commands # <<>> /\ commands' = Tail(commands) /\ task = "playing" /\ task' = "relaying"
          /\ inner' = inner /\ current_seek' = Head(commands)
      BY <2>2 DEF Relay
    <3>2. Len(commands') = Len(commands) - 1
      BY <1>1, <3>1
    <3>3. OnTheWay' = OnTheWay
      BY <1>1, <1>2, <3>1, <3>2 DEF OnTheWay
    <3>4. Newest' = Newest
      <4>1. CASE asking # <<>>
        BY <1>2, <4>1 DEF Newest
      <4>2. CASE asking = <<>> /\ commands' # <<>>
        <5>1. commands'[Len(commands')] = commands[Len(commands)]
          BY <1>1, <3>1, <4>2
        <5> QED BY <1>2, <3>1, <4>2, <5>1 DEF Newest
      <4>3. CASE asking = <<>> /\ commands' = <<>>
        <5>1. Len(commands) = 1 /\ commands[Len(commands)] = Head(commands)
          <6>1. Len(commands') = 0
            BY <4>3
          <6> QED BY <1>1, <3>1, <3>2, <6>1
        <5> QED BY <1>2, <3>1, <4>3, <5>1 DEF Newest
      <4> QED BY <4>1, <4>2, <4>3
    <3> QED BY <3>3, <3>4
  <2>3. CASE RelaySent
    <3>1. ~Over
      BY <2>3 DEF RelaySent, ToInner, Keeps
    <3>2. /\ task = "relaying" /\ task' = "playing" /\ commands' = commands
          /\ inner' = Append(inner, current_seek)
      BY <2>3, <3>1 DEF RelaySent, ToInner
    <3>3. current_seek \in 0 .. Length
      BY DEF PlayingTyped, ScalarTyped
    <3>4. Len(inner') = Len(inner) + 1 /\ inner'[Len(inner) + 1] = current_seek
      BY <1>1, <3>2, <3>3
    <3>5. OnTheWay' = OnTheWay
      BY <1>1, <1>2, <3>2, <3>4 DEF OnTheWay
    <3>6. Newest' = Newest
      BY <1>2, <3>2, <3>4 DEF Newest
    <3> QED BY <3>5, <3>6
  <2> QED BY <2>1, <2>2, <2>3
<1>4. Ahead' = Ahead /\ Obeying' = Obeying /\ Coming' = Coming
  BY <1>2, <1>3 DEF Ahead, Obeying, Coming
<1>5. OnTheWay \in Nat /\ Obeying \in {0, 1} /\ late \in Nat /\ Coming \in Int
  BY NumbersTyped DEF Numbers, Coming
<1>6. Obeying' <= Obeying /\ late' >= late /\ Coming' + late <= Coming + late'
  BY <1>2, <1>4, <1>5
<1> QED BY <1>2, <1>3, <1>4, <1>6, SoundKept

(* One more packet is late when a seek is still on its way.                *)
LEMMA DecodeSound ==
  ASSUME PlayingTyped, PlayingTyped', SoundInv, Decode
  PROVE  SoundInv'
<1> SUFFICES ASSUME honest' /\ mixed' PROVE SoundInv'
  BY DEF SoundInv
<1>1. /\ UNCHANGED <<frames, heard, next, seeks, position, pulled, asking, commands, inner, task, current_seek>>
      /\ mixed' = mixed /\ honest /\ decoder' = "push" /\ Reading
  BY DEF Decode
<1>2. OnTheWay' = OnTheWay /\ (OnTheWay > 0 => Newest' = Newest) /\ Ahead' = Ahead
  BY <1>1 DEF OnTheWay, Newest, Ahead
<1>3. OnTheWay \in Nat /\ late \in Nat /\ Obeying' = 0 /\ Obeying \in {0, 1}
  BY <1>1, NumbersTyped DEF Numbers, Obeying
<1>4. Coming' = OnTheWay - 1 + 1
  BY <1>1, <1>2 DEF Coming
<1>5. CASE decoder = "seeked"
  <2>1. late' = late /\ Coming = OnTheWay - 1 + 1
    BY <1>1, <1>5 DEF Decode, Coming, Obeying
  <2>2. Obeying' <= Obeying /\ late' >= late /\ Coming' + late <= Coming + late'
    BY <1>3, <1>4, <2>1
  <2> QED BY <1>1, <1>2, <1>5, <2>2, SoundKept
<1>6. CASE decoder = "check"
  <2>1. Coming = OnTheWay - 1 + 0
    BY <1>6 DEF Coming, Obeying
  <2>2. Queue = <<>>
    BY <1>1, <1>6 DEF Reading
  <2>3. OnItsWay <=> OnTheWay > 0
    <3>1. commands \in Seq(0 .. Length) /\ inner \in Seq(0 .. Length)
      BY DEF PlayingTyped, ChannelsTyped
    <3>2. Len(asking) \in Nat /\ (asking = <<>> <=> Len(asking) = 0)
      BY DEF PlayingTyped, ChannelsTyped
    <3>3. Len(commands) \in Nat /\ (commands = <<>> <=> Len(commands) = 0)
      BY <3>1
    <3>4. CASE service = "direct"
      <4>1. asking = <<>> /\ inner = <<>> /\ task = "none" /\ commands = <<>>
        BY <2>2, <3>4 DEF PlayingTyped, Shape, Queue
      <4> QED BY <4>1 DEF OnItsWay, OnTheWay
    <3>5. CASE service # "direct"
      <4>1. inner = <<>>
        BY <2>2, <3>5 DEF Queue
      <4>2. Len(inner) = 0
        BY <4>1
      <4> QED BY <3>2, <3>3, <4>2 DEF OnItsWay, OnTheWay
    <3> QED BY <3>4, <3>5
  <2>4. late' = (IF OnTheWay > 0 THEN late + 1 ELSE late)
    BY <1>1, <1>6, <2>3 DEF Decode
  <2>5. late' >= late /\ (OnTheWay > 0 => Coming' + late <= Coming + late')
    BY <1>3, <1>4, <2>1, <2>4
  <2>6. Obeying' <= Obeying
    BY <1>3
  <2> QED BY <1>1, <1>2, <1>6, <2>5, <2>6, SoundKept
<1> QED BY <1>1, <1>5, <1>6 DEF Reading


(* A new seek sets the position; what is in the channel, in the mixer's    *)
(* hands and with the decoder can still be added to it.                    *)
LEMMA SeekSound ==
  ASSUME PlayingTyped, PlayingTyped', SoundInv, NEW p \in 0 .. Length - 1, Seek(p)
  PROVE  SoundInv'
<1> SUFFICES ASSUME honest' /\ mixed' PROVE InRow' /\ Drift' /\ Counted'
  BY DEF SoundInv
<1>1. /\ UNCHANGED <<frames, heard, next, decoder, pulled, inner, task, current_seek>> /\ mixed' = mixed
      /\ position' = p /\ seeks' = seeks + 1 /\ late' = 0 /\ asking = <<>>
  BY DEF Seek
<1>2. \/ honest /\ asking' = <<p>> /\ commands' = commands
      \/ honest /\ asking' = <<>> /\ commands' = Append(commands, p)
  BY DEF Seek, Send
<1>3. InRow /\ Counted /\ Numbers /\ Numbers'
  BY <1>1, <1>2, NumbersTyped, NumbersTypedNext DEF SoundInv
<1>4. /\ commands \in Seq(0 .. Length) /\ inner \in Seq(0 .. Length)
      /\ Len(inner) \in Nat /\ Len(commands) \in Nat /\ p \in 0 .. Length
  BY DEF PlayingTyped, ChannelsTyped
<1>5. OnTheWay' = OnTheWay + 1 /\ Newest' = p
  <2>1. CASE asking' = <<p>> /\ commands' = commands
    <3>1. Len(asking) = 0 /\ Len(asking') = 1
      BY <1>1, <2>1
    <3>2. OnTheWay' = OnTheWay + 1
      <4>1. PICK r \in Nat : r = (IF task = "relaying" THEN 1 ELSE 0)
        OBVIOUS
      <4>2. Len(asking) = 0 /\ Len(<<>>) = 0
        BY <1>1
      <4>3. OnTheWay = 0 + Len(commands) + r + Len(inner)
        BY <4>1, <4>2 DEF OnTheWay
      <4>4. OnTheWay' = 1 + Len(commands) + r + Len(inner)
        BY <1>1, <2>1, <3>1, <4>1, <4>2 DEF OnTheWay
      <4> QED BY <1>4, <4>3, <4>4
    <3>3. asking' # <<>> /\ asking'[1] = p
      BY <2>1
    <3> QED BY <3>2, <3>3 DEF Newest
  <2>2. CASE asking' = <<>> /\ commands' = Append(commands, p)
    <3>1. Len(commands') = Len(commands) + 1 /\ commands'[Len(commands) + 1] = p /\ commands' # <<>>
      BY <1>4, <2>2
    <3>2. OnTheWay' = OnTheWay + 1
      <4>1. PICK r \in Nat : r = (IF task = "relaying" THEN 1 ELSE 0)
        OBVIOUS
      <4>2. Len(asking) = 0 /\ Len(<<>>) = 0
        BY <1>1
      <4>3. OnTheWay = 0 + Len(commands) + r + Len(inner)
        BY <4>1, <4>2 DEF OnTheWay
      <4>4. OnTheWay' = 0 + (Len(commands) + 1) + r + Len(inner)
        BY <1>1, <2>2, <3>1, <4>1, <4>2 DEF OnTheWay
      <4> QED BY <1>4, <4>3, <4>4
    <3> QED BY <2>2, <3>1, <3>2 DEF Newest
  <2> QED BY <1>2, <2>1, <2>2
<1>6. InRow'
  BY <1>1, <1>3, InRowKept
<1> DEFINE w == OnTheWay
           o == Obeying
           s == Sounding(frames)
           a == Ahead'
           c == Coming'
<1>7. /\ w \in Nat /\ o \in {0, 1} /\ s \in Nat /\ s <= Buffer /\ seeks \in Nat /\ Buffer \in Nat
      /\ w + o <= seeks + 1
  BY <1>3 DEF Numbers, Counted
<1>8. a \in {p, p + 1}
  BY <1>1 DEF Ahead
<1>9. c \in {w + 1, w + o} /\ Obeying' = o
  BY <1>1, <1>5, <1>7 DEF Coming, Obeying
<1>10. Sounding(frames)' = s
  BY <1>1 DEF Sounding
<1>11. OnTheWay' = w + 1
  BY <1>5
<1> HIDE DEF w, o, s, a, c
<1>12. p <= a /\ p \in Nat /\ a <= p + 1 /\ a \in Nat
  BY <1>4, <1>8
<1>13. c <= seeks + 2 /\ c \in Nat /\ w + 1 + o <= seeks + 2
  BY <1>7, <1>9
<1>14. a + s + c <= p + (Buffer + 2 + (seeks + 1) + 0)
  BY <1>7, <1>12, <1>13
<1>15. Limit' = Buffer + 2 + (seeks + 1) + 0
  BY <1>1 DEF Limit
<1>16. w + 1 > 0 /\ (w + 1) + o <= (seeks + 1) + 1
  BY <1>7
<1>17. Drift'
  BY <1>5, <1>10, <1>11, <1>12, <1>14, <1>15, <1>16 DEF Drift, a, c
<1>18. Counted'
  BY <1>1, <1>9, <1>11, <1>16 DEF Counted
<1> QED BY <1>6, <1>17, <1>18

(* The decoder obeys the oldest seek; with the newest it is where the      *)
(* position says.                                                          *)
LEMMA CheckSeeksSound ==
  ASSUME PlayingTyped, PlayingTyped', SoundInv, CheckSeeks
  PROVE  SoundInv'
<1> SUFFICES ASSUME honest' /\ mixed' PROVE InRow' /\ Drift' /\ Counted'
  BY DEF SoundInv
<1>1. /\ UNCHANGED <<frames, heard, seeks, position, pulled, asking, task, current_seek, late>> /\ mixed' = mixed
      /\ honest /\ decoder = "check" /\ decoder' = "flush" /\ next' = Head(Queue) /\ Queue # <<>>
  BY DEF CheckSeeks, Keeps
<1>2. InRow /\ Drift /\ Counted /\ Numbers /\ Numbers'
  BY <1>1, NumbersTyped, NumbersTypedNext DEF SoundInv
<1>3. /\ commands \in Seq(0 .. Length) /\ inner \in Seq(0 .. Length)
      /\ Len(inner) \in Nat /\ Len(commands) \in Nat /\ Len(asking) \in Nat
      /\ asking = <<>> <=> Len(asking) = 0
  BY DEF PlayingTyped, ChannelsTyped
<1>4. InRow'
  BY <1>1, <1>2, InRowKept
<1>5. OnTheWay = OnTheWay' + 1 /\ (OnTheWay' > 0 => Newest' = Newest) /\ (OnTheWay' = 0 => Newest = next')
  <2>1. CASE service = "direct"
    <3>1. commands # <<>> /\ commands' = Tail(commands) /\ inner' = inner /\ next' = Head(commands)
      BY <1>1, <2>1 DEF CheckSeeks, Queue
    <3>2. inner = <<>> /\ task = "none" /\ asking = <<>>
      BY <2>1 DEF PlayingTyped, Shape
    <3>3. Len(commands') = Len(commands) - 1
      BY <1>3, <3>1
    <3>4. Len(inner) = 0 /\ Len(asking) = 0
      BY <3>2
    <3>5. OnTheWay = Len(commands) /\ OnTheWay' = Len(commands')
      BY <1>1, <1>3, <3>1, <3>2, <3>3, <3>4 DEF OnTheWay
    <3>6. ASSUME OnTheWay' > 0 PROVE Newest' = Newest
      <4>1. commands' # <<>>
        BY <3>5, <3>6
      <4>2. commands'[Len(commands')] = commands[Len(commands)]
        BY <1>3, <3>1, <4>1
      <4> QED BY <1>1, <3>1, <3>2, <4>1, <4>2 DEF Newest
    <3>7. ASSUME OnTheWay' = 0 PROVE Newest = next'
      <4>1. Len(commands) = 1
        BY <1>3, <3>3, <3>5, <3>7
      <4>2. Head(commands) = commands[1]
        BY <1>3, <3>1
      <4> QED BY <3>1, <3>2, <4>1, <4>2 DEF Newest
    <3>8. OnTheWay = OnTheWay' + 1
      BY <1>3, <3>3, <3>5
    <3> QED BY <3>6, <3>7, <3>8
  <2>2. CASE service # "direct"
    <3>1. inner # <<>> /\ inner' = Tail(inner) /\ commands' = commands /\ next' = Head(inner)
      BY <1>1, <2>2 DEF CheckSeeks, Queue
    <3>2. Len(inner') = Len(inner) - 1
      BY <1>3, <3>1
    <3>3. OnTheWay = OnTheWay' + 1
      BY <1>1, <1>3, <3>1, <3>2 DEF OnTheWay
    <3>4. ASSUME OnTheWay' > 0 PROVE Newest' = Newest
      <4>1. CASE asking # <<>> \/ commands # <<>> \/ task = "relaying"
        BY <1>1, <3>1, <4>1 DEF Newest
      <4>2. CASE asking = <<>> /\ commands = <<>> /\ task # "relaying"
        <5>1. Len(asking) = 0 /\ Len(commands) = 0
          BY <4>2
        <5>2. OnTheWay' = Len(inner')
          BY <1>1, <1>3, <3>1, <3>2, <4>2, <5>1 DEF OnTheWay
        <5>3. inner'[Len(inner')] = inner[Len(inner)]
          BY <1>3, <3>1, <3>2, <3>4, <5>2
        <5> QED BY <1>1, <3>1, <4>2, <5>3 DEF Newest
      <4> QED BY <4>1, <4>2
    <3>5. ASSUME OnTheWay' = 0 PROVE Newest = next'
      <4>1. Len(inner') \in Nat
        BY <1>3, <3>1
      <4>2. Len(asking) = 0 /\ Len(commands) = 0 /\ task # "relaying" /\ Len(inner') = 0
        <5>1. PICK r \in Nat : r = (IF task = "relaying" THEN 1 ELSE 0)
          OBVIOUS
        <5>2. Len(asking) + Len(commands) + r + Len(inner') = 0
          BY <1>1, <3>1, <3>5, <5>1 DEF OnTheWay
        <5> DEFINE i == Len(inner')
        <5>3. i \in Nat /\ Len(asking) + Len(commands) + r + i = 0
          BY <4>1, <5>2
        <5> HIDE DEF i
        <5>4. Len(asking) = 0 /\ Len(commands) = 0 /\ r = 0 /\ i = 0
          BY <1>3, <5>3
        <5> QED BY <5>1, <5>4 DEF i
      <4>3. Len(inner) = 1 /\ commands = <<>> /\ asking = <<>>
        BY <1>3, <3>2, <4>2
      <4>4. Head(inner) = inner[1]
        BY <1>3, <3>1
      <4> QED BY <3>1, <4>2, <4>3, <4>4 DEF Newest
    <3> QED BY <3>3, <3>4, <3>5
  <2> QED BY <2>1, <2>2
<1> DEFINE w == OnTheWay'
           s == Sounding(frames)
           a == Ahead
           n == Newest
           l == Limit
           x == next'
<1>6. w \in Nat /\ s \in Nat /\ a \in Nat /\ n \in Nat /\ l \in Nat /\ x \in Nat /\ OnTheWay = w + 1
  BY <1>2, <1>5 DEF Numbers, Limit
<1>7. Sounding(frames)' = s /\ Ahead' = a /\ Limit' = l
  BY <1>1 DEF Sounding, Ahead, Limit
<1>8. Coming = OnTheWay - 1 + 0 /\ Coming' = w - 1 + 1 /\ Obeying = 0 /\ Obeying' = 1
  BY <1>1, <1>5 DEF Coming, Obeying
<1>9. OnTheWay > 0 => n <= a /\ a + s + Coming <= n + l
  BY <1>2 DEF Drift
<1>11. w > 0 => Newest' = n
  BY <1>5
<1>12. w = 0 => x = n
  BY <1>5
<1> HIDE DEF w, s, a, n, l, x
<1>10. n <= a /\ a + s + Coming <= n + l
  BY <1>6, <1>9
<1>13. a + s + Coming' <= n + l
  BY <1>6, <1>8, <1>10
<1>14. Drift'
  <2>1. CASE w > 0
    BY <1>7, <1>10, <1>11, <1>13, <2>1 DEF Drift, w
  <2>2. CASE w = 0
    <3>1. x <= a + s /\ a + s <= x + l
      BY <1>6, <1>8, <1>10, <1>12, <2>2
    <3> QED BY <1>7, <2>2, <3>1 DEF Drift, w, x
  <2> QED BY <1>6, <2>1, <2>2
<1>15. Counted'
  <2>1. w + 1 + 0 <= seeks + 1
    BY <1>2, <1>6, <1>8 DEF Counted
  <2> QED BY <1>1, <1>6, <1>8, <2>1 DEF Counted, w
<1> QED BY <1>4, <1>14, <1>15


LEMMA PushFlushSound ==
  ASSUME PlayingTyped, PlayingTyped', SoundInv, PushFlush
  PROVE  SoundInv'
<1> SUFFICES ASSUME honest' /\ mixed' PROVE InRow' /\ Drift' /\ Counted'
  BY DEF SoundInv
<1>1. /\ UNCHANGED <<heard, next, seeks, position, pulled, asking, commands, inner, task, current_seek, late>>
      /\ honest /\ mixed /\ decoder = "flush" /\ decoder' = "seeked" /\ frames' = Append(frames, Flush(next))
  BY DEF PushFlush
<1>2. InRow /\ Drift /\ Counted /\ Numbers /\ Numbers'
  BY <1>1, NumbersTyped, NumbersTypedNext DEF SoundInv
<1>3. frames \in Seq(Nat) /\ next \in Nat /\ heard \in Nat /\ Flush(next) \in Nat /\ IsFlush(Flush(next))
  <2>1. frames \in Seq(Nat)
    BY DEF PlayingTyped, ChannelsTyped, Flush
  <2>2. next \in Nat /\ heard \in Nat
    BY DEF PlayingTyped, ScalarTyped
  <2> QED BY <2>1, <2>2 DEF Flush, IsFlush
<1>4. Drift' /\ Counted'
  <2>1. Sounding(frames)' = Sounding(frames)
    <3>1. Sounding(Append(frames, Flush(next))) = Sounding(frames) + 0
      BY <1>3, SoundingAppend
    <3>2. Sounding(frames)' = Sounding(frames')
      BY DEF Sounding
    <3> QED BY <1>1, <1>2, <3>1, <3>2 DEF Numbers
  <2>2. OnTheWay' = OnTheWay /\ (OnTheWay > 0 => Newest' = Newest) /\ Ahead' = Ahead /\ Limit' = Limit
    BY <1>1 DEF OnTheWay, Newest, Ahead, Limit
  <2>3. Obeying' = Obeying /\ Coming' = Coming
    BY <1>1, <2>2 DEF Obeying, Coming
  <2> QED BY <1>1, <1>2, <2>1, <2>2, <2>3 DEF Drift, Counted
<1>5. InRow'
  <2>1. Follow(frames, heard)
    BY <1>2 DEF InRow
  <2>2. Follow(Append(frames, Flush(next)), heard) /\ EndAt(Append(frames, Flush(next)), heard, next)
    BY <1>3, <2>1, FollowFlush
  <2> QED BY <1>1, <2>2 DEF InRow
<1> QED BY <1>4, <1>5

(* A packet makes the channel a frame longer, and the decoder is a frame   *)
(* further on.                                                             *)
LEMMA PushSound ==
  ASSUME PlayingTyped, PlayingTyped', SoundInv, Push
  PROVE  SoundInv'
<1> SUFFICES ASSUME honest' /\ mixed' PROVE InRow' /\ Drift' /\ Counted'
  BY DEF SoundInv
<1>1. /\ UNCHANGED <<heard, seeks, position, pulled, asking, commands, inner, task, current_seek, late>>
      /\ honest /\ mixed /\ decoder = "push" /\ decoder' = "check"
      /\ frames' = Append(frames, next) /\ next' = next + 1
  BY DEF Push
<1>2. InRow /\ Drift /\ Counted /\ Numbers /\ Numbers'
  BY <1>1, NumbersTyped, NumbersTypedNext DEF SoundInv
<1>3. frames \in Seq(Nat) /\ next \in 0 .. Furthest /\ next \in Nat /\ heard \in Nat /\ ~IsFlush(next)
  <2>1. frames \in Seq(Nat)
    BY DEF PlayingTyped, ChannelsTyped, Flush
  <2>2. next \in 0 .. Furthest /\ heard \in Nat
    BY DEF PlayingTyped, ScalarTyped
  <2> QED BY <2>1, <2>2 DEF IsFlush
<1>4. InRow'
  <2>1. Follow(frames, heard) /\ EndAt(frames, heard, next)
    BY <1>1, <1>2 DEF InRow
  <2>2. Follow(Append(frames, next), heard) /\ EndAt(Append(frames, next), heard, next + 1)
    BY <1>3, <2>1, FollowPush
  <2> QED BY <1>1, <2>2 DEF InRow
<1> DEFINE w == OnTheWay
           s == Sounding(frames)
           a == Ahead
           l == Limit
<1>5. w \in Nat /\ s \in Nat /\ a \in Nat /\ l \in Nat
  BY <1>2 DEF Numbers, Limit
<1>6. Sounding(frames)' = s + 1
  <2>1. Sounding(Append(frames, next)) = Sounding(frames) + 1
    BY <1>3, SoundingAppend
  <2>2. Sounding(frames)' = Sounding(frames')
    BY DEF Sounding
  <2> QED BY <1>1, <2>1, <2>2
<1>7. OnTheWay' = w /\ Ahead' = a /\ Limit' = l /\ (w > 0 => Newest' = Newest)
  BY <1>1 DEF OnTheWay, Newest, Ahead, Limit
<1>8. Coming = w - 1 + 1 /\ Coming' = w - 1 + 0 /\ Obeying = 0 /\ Obeying' = 0
  BY <1>1, <1>7 DEF Coming, Obeying
<1>9. w > 0 => Newest \in Nat /\ Newest <= a /\ a + s + (w - 1 + 1) <= Newest + l
  BY <1>2, <1>8 DEF Drift, Numbers
<1>10. ~(w > 0) => next <= a + s /\ a + s <= next + l
  BY <1>2 DEF Drift
<1> HIDE DEF w, s, a, l
<1>11. Drift'
  <2>1. CASE w > 0
    <3>1. a + (s + 1) + (w - 1 + 0) <= Newest + l
      BY <1>5, <1>9, <2>1
    <3> QED BY <1>6, <1>7, <1>8, <1>9, <2>1, <3>1 DEF Drift
  <2>2. CASE ~(w > 0)
    <3>1. next + 1 <= a + (s + 1) /\ a + (s + 1) <= next + 1 + l
      BY <1>3, <1>5, <1>10, <2>2
    <3> QED BY <1>1, <1>6, <1>7, <2>2, <3>1 DEF Drift
  <2> QED BY <2>1, <2>2
<1>12. Counted'
  BY <1>1, <1>2, <1>7, <1>8 DEF Counted, w
<1> QED BY <1>4, <1>11, <1>12

(* A frame in the mixer's hands counts as heard and has yet to be counted  *)
(* in the position.                                                        *)
LEMMA PullSound ==
  ASSUME PlayingTyped, PlayingTyped', SoundInv, NEW n \in 1 .. Buffer, Pull(n)
  PROVE  SoundInv'
<1> SUFFICES ASSUME honest' /\ mixed' PROVE InRow' /\ Drift' /\ Counted'
  BY DEF SoundInv
<1>1. /\ UNCHANGED <<decoder, next, seeks, position, asking, commands, inner, task, current_seek>>
      /\ honest /\ mixed /\ late' = late /\ ~pulled /\ pulled' = TRUE
      /\ heard' = frames[n] + 1 /\ frames' = SubSeq(frames, n + 1, Len(frames)) /\ Pops(n)
  BY DEF Pull, Keeps
<1>2. InRow /\ Drift /\ Counted /\ Numbers /\ Numbers'
  BY <1>1, NumbersTyped, NumbersTypedNext DEF SoundInv
<1>3. frames \in Seq(Nat) /\ heard \in Nat /\ position \in Nat
  <2>1. frames \in Seq(Nat)
    BY DEF PlayingTyped, ChannelsTyped, Flush
  <2>2. heard \in Nat /\ position \in Nat
    BY DEF PlayingTyped, ScalarTyped
  <2> QED BY <2>1, <2>2
<1>4. n \in 1 .. Len(frames) /\ ~IsFlush(frames[n]) /\ \A i \in 1 .. n - 1 : IsFlush(frames[i])
  BY <1>1 DEF Pops
<1>5. InRow'
  <2>1. Follow(frames, heard) /\ (decoder # "flush" => EndAt(frames, heard, next))
    BY <1>2 DEF InRow
  <2>2. /\ Follow(SubSeq(frames, n + 1, Len(frames)), frames[n] + 1)
        /\ \A x : EndAt(frames, heard, x) => EndAt(SubSeq(frames, n + 1, Len(frames)), frames[n] + 1, x)
    BY <1>3, <1>4, <2>1, FollowPop
  <2>3. Follow(frames', heard') /\ (decoder' # "flush" => EndAt(frames', heard', next'))
    BY <1>1, <2>1, <2>2
  <2> QED BY <2>3 DEF InRow
<1>6. Sounding(frames)' = Sounding(frames) - 1
  <2>1. Sounding(SubSeq(frames, n + 1, Len(frames))) = Sounding(frames) - 1
    BY <1>3, <1>4, SoundingPop
  <2>2. Sounding(frames)' = Sounding(frames')
    BY DEF Sounding
  <2> QED BY <1>1, <2>1, <2>2
<1>7. OnTheWay' = OnTheWay /\ (OnTheWay > 0 => Newest' = Newest) /\ Obeying' = Obeying /\ Coming' = Coming
  BY <1>1 DEF OnTheWay, Newest, Obeying, Coming
<1>8. Ahead = position + 0 /\ Ahead' = position + 1
  BY <1>1 DEF Ahead
<1>9. Ahead' >= Ahead /\ Ahead' + Sounding(frames)' = Ahead + Sounding(frames)
  BY <1>2, <1>3, <1>6, <1>8 DEF Numbers
<1>10. Obeying' <= Obeying /\ late' >= late /\ Coming' + late <= Coming + late'
  <2>1. Coming \in Int /\ Obeying \in {0, 1} /\ late \in Nat
    BY <1>2 DEF Numbers, Coming
  <2> QED BY <1>1, <1>7, <2>1
<1> QED BY <1>1, <1>2, <1>5, <1>7, <1>9, <1>10, DriftKept

(* Only empty frames are left: the last of them says what comes next.      *)
LEMMA MixEmptySound ==
  ASSUME PlayingTyped, PlayingTyped', SoundInv, MixEmpty
  PROVE  SoundInv'
<1> SUFFICES ASSUME honest' /\ mixed' PROVE InRow' /\ Drift' /\ Counted'
  BY DEF SoundInv
<1>1. /\ UNCHANGED <<decoder, next, seeks, position, pulled, asking, commands, inner, task, current_seek, late>>
      /\ honest /\ mixed
  BY DEF MixEmpty
<1>2. InRow /\ Drift /\ Counted /\ Numbers /\ Numbers'
  BY <1>1, NumbersTyped, NumbersTypedNext DEF SoundInv
<1>3. frames \in Seq(Nat) /\ Len(frames) \in Nat
  BY DEF PlayingTyped, ChannelsTyped, Flush
<1>4. frames' = frames \/ (frames' = <<>> /\ \A i \in 1 .. Len(frames) : IsFlush(frames[i]))
  BY DEF MixEmpty
<1>5. frames' = frames => heard' = heard
  BY DEF MixEmpty
<1>6. frames' # frames => heard' = frames[Len(frames)] - Flush(0)
  BY DEF MixEmpty
<1>7. Sounding(frames)' = Sounding(frames)
  <2>1. Sounding(frames)' = Sounding(frames')
    BY DEF Sounding
  <2>2. CASE frames' = frames
    BY <2>1, <2>2
  <2>3. CASE frames' = <<>> /\ \A i \in 1 .. Len(frames) : IsFlush(frames[i])
    <3>1. Sounding(frames) = 0
      BY <1>3, <2>3, SoundingIs
    <3>2. Sounding(<<>>) = 0
      <4>1. <<>> \in Seq(Nat) /\ \A i \in 1 .. Len(<<>>) : IsFlush(<<>>[i])
        OBVIOUS
      <4> QED BY <4>1, SoundingIs
    <3> QED BY <2>1, <2>3, <3>1, <3>2
  <2> QED BY <1>4, <2>2, <2>3
<1>8. InRow'
  <2>1. CASE frames' = frames
    BY <1>1, <1>2, <1>5, <2>1, InRowKept
  <2>2. CASE frames' # frames
    <3>1. frames' = <<>> /\ frames # <<>> /\ Len(frames) \in 1 .. Len(frames) /\ IsFlush(frames[Len(frames)])
      <4>1. frames' = <<>> /\ frames # <<>>
        BY <1>4, <2>2
      <4>2. Len(frames) \in 1 .. Len(frames)
        BY <1>3, <4>1
      <4> QED BY <1>4, <2>2, <4>1, <4>2
    <3>2. Follow(<<>>, heard')
      <4>1. \A k \in 0 .. Len(<<>>), i \in 0 .. Len(<<>>) : ~(i < k)
        OBVIOUS
      <4> QED BY <4>1 DEF Follow
    <3>3. ASSUME decoder # "flush" PROVE EndAt(<<>>, heard', next)
      <4>1. EndAt(frames, heard, next)
        BY <1>2, <3>3 DEF InRow
      <4>2. Starts(frames, Len(frames)) /\ Len(frames) \in 0 .. Len(frames)
        BY <1>3, <3>1 DEF Starts
      <4>3. Unbroken(frames, Len(frames), Len(frames) + 1)
        <5>1. \A j \in Len(frames) + 1 .. Len(frames) + 1 - 1 : FALSE
          BY <1>3
        <5> QED BY <5>1 DEF Unbroken
      <4>4. next = From(frames, heard, Len(frames)) + (Len(frames) - Len(frames))
        BY <4>1, <4>2, <4>3 DEF EndAt
      <4>5. Len(frames) # 0 /\ frames[Len(frames)] \in Nat
        BY <1>3, <3>1
      <4>6. From(frames, heard, Len(frames)) = heard'
        BY <1>6, <2>2, <4>5 DEF From
      <4>7. heard' \in Int
        BY <1>6, <2>2, <4>5 DEF Flush
      <4>8. next = heard' + 0
        BY <1>3, <4>4, <4>6, <4>7
      <4>9. \A i \in 0 .. Len(<<>>) : i = 0
        OBVIOUS
      <4>10. next = From(<<>>, heard', 0) + (0 - 0)
        BY <4>7, <4>8 DEF From
      <4>11. Len(<<>>) = 0
        OBVIOUS
      <4> QED BY <4>9, <4>10, <4>11 DEF EndAt
    <3> QED BY <1>1, <3>1, <3>2, <3>3 DEF InRow
  <2> QED BY <2>1, <2>2
<1>9. OnTheWay' = OnTheWay /\ (OnTheWay > 0 => Newest' = Newest) /\ Obeying' = Obeying /\ Coming' = Coming
      /\ Ahead' = Ahead /\ Limit' = Limit
  BY <1>1 DEF OnTheWay, Newest, Obeying, Coming, Ahead, Limit
<1>10. Drift' /\ Counted'
  BY <1>1, <1>2, <1>7, <1>9 DEF Drift, Counted
<1> QED BY <1>8, <1>10

LEMMA SoundStep ==
  ASSUME PlayingTyped, SoundInv, [Next]_vars
  PROVE  SoundInv'
<1>1. PlayingTyped'
  BY PlayingTypedStep
<1> QED BY <1>1, OthersSound, BrokenSound, MixFilledSound, SeekSentSound, ResolvesSound, RelaySound, DecodeSound,
           SeekSound, CheckSeeksSound, PushFlushSound, PushSound, PullSound, MixEmptySound
        DEF Next, Request, Sending, Decoder, Task, Mixing, Monitor

-----------------------------------------------------------------------------
(* The end                                                                 *)

LEMMA ErrorToldStep ==
  ASSUME PlayingTyped, ErrorTold, [Next]_vars
  PROVE  ErrorTold'
<1> SUFFICES ASSUME monitor' = "watching" PROVE ErrorTold'
  BY DEF ErrorTold
<1> USE DEF ErrorTold
<1>1. ASSUME Opens \/ OpenFails \/ CheckSeeks \/ CheckStops \/ PushFlush \/ Decode PROVE ErrorTold'
  BY <1>1 DEF Opens, OpenFails, CheckSeeks, CheckStops, PushFlush, Decode, Reading
<1>2. ASSUME DecodeSkips \/ DecodeFails \/ EndOfFile \/ Push PROVE ErrorTold'
  BY <1>2 DEF DecodeSkips, DecodeFails, EndOfFile, Push, Reading
<1>3. ASSUME TellError PROVE ErrorTold'
  BY <1>3 DEF TellError, ErrorTaken
<1>4. ASSUME Resolves \/ ResolveFails \/ Relay \/ RelaySent PROVE ErrorTold'
  BY <1>4 DEF Resolves, ResolveFails, Relay, RelaySent, PlayingTyped, Shape, ScalarTyped
<1>5. ASSUME RelayStop \/ DecoderDone PROVE ErrorTold'
  BY <1>5 DEF RelayStop, DecoderDone, PlayingTyped, Shape, ScalarTyped
<1>6. ASSUME TaskTells PROVE ErrorTold'
  BY <1>6 DEF TaskTells, ErrorTaken, PlayingTyped, Shape, ScalarTyped
<1>7. ASSUME \/ SetPaused \/ (\E p \in 0 .. Length - 1 : Seek(p)) \/ SeekSent \/ StopAll \/ Report \/ Stuck
      PROVE  ErrorTold'
  BY <1>7 DEF SetPaused, Seek, SeekSent, StopAll, Report, Stuck
<1>8. ASSUME \/ MixDrop \/ MixLoad \/ (\E n \in 1 .. Buffer : Pull(n)) \/ MixFilled \/ MixEmpty
      PROVE  ErrorTold'
  BY <1>8 DEF MixDrop, MixLoad, Pull, MixFilled, MixEmpty
<1>9. ASSUME UNCHANGED vars PROVE ErrorTold'
  BY <1>9 DEF vars
<1> HIDE DEF ErrorTold
<1> QED BY <1>1, <1>2, <1>3, <1>4, <1>5, <1>6, <1>7, <1>8, <1>9
        DEF Next, Request, Sending, Decoder, Task, Mixing, Monitor

LEMMA PlayingInit ==
  ASSUME Init
  PROVE  PlayingTyped /\ SoundInv /\ ErrorTold
<1>1. /\ inner = <<>> /\ frames = <<>> /\ asking = <<>> /\ position \in 0 .. Length - 1
      /\ commands = (IF position = 0 THEN <<>> ELSE <<position>>)
      /\ next = 0 /\ left = Length /\ heard = 0 /\ seeks = 0 /\ late = 0 /\ pulled = FALSE /\ current_seek = 0
      /\ decoder \in {"opening", "none"} /\ task \in {"none", "resolving"}
  BY DEF Init
<1>2. PlayingTyped
  <2>1. ScalarTyped
    <3>1. honest \in BOOLEAN /\ mixed \in BOOLEAN /\ pulled \in BOOLEAN /\ service \in {"direct", "youtube"}
      BY DEF Init
    <3>2. /\ position \in Nat /\ seeks \in Nat /\ late \in Nat /\ heard \in Nat
          /\ next \in 0 .. Furthest /\ left \in 0 .. Length /\ next + left <= Furthest
          /\ current_seek \in 0 .. Length
      BY <1>1
    <3> QED BY <1>1, <3>1, <3>2 DEF ScalarTyped
  <2>2. commands \in Seq(0 .. Length) /\ inner \in Seq(0 .. Length)
    BY <1>1, ShortTyped
  <2>3. frames \in Seq(0 .. Flush(Furthest)) /\ Len(frames) <= Buffer
    BY <1>1, ShortTyped
  <2>4. ChannelsTyped
    BY <1>1, <2>2, <2>3 DEF ChannelsTyped
  <2>5. Shape
    BY <1>1 DEF Init, Shape
  <2> QED BY <2>1, <2>4, <2>5 DEF PlayingTyped
<1>3. ErrorTold
  BY DEF Init, ErrorTold
<1>4. InRow
  <2>1. Len(frames) = 0
    BY <1>1
  <2>2. \A i, k \in 0 .. Len(frames) : i = 0 /\ ~(i < k)
    BY <2>1
  <2>3. Follow(frames, heard)
    BY <2>2 DEF Follow
  <2>4. next = From(frames, heard, 0) + (0 - 0)
    BY <1>1 DEF From
  <2>5. EndAt(frames, heard, next)
    BY <2>1, <2>2, <2>4 DEF EndAt
  <2> QED BY <2>3, <2>5 DEF InRow
<1>5. Sounding(frames) = 0
  <2>1. frames \in Seq(Nat) /\ \A i \in 1 .. Len(frames) : IsFlush(frames[i])
    BY <1>1
  <2> QED BY <2>1, SoundingIs
<1>6. Ahead = position /\ Obeying = 0 /\ Limit = Buffer + 2 + 0 + 0 /\ position \in Nat
  BY <1>1 DEF Ahead, Obeying, Limit
<1>7. CASE position = 0
  <2>1. OnTheWay = 0
    BY <1>1, <1>7 DEF OnTheWay
  <2> QED BY <1>1, <1>2, <1>3, <1>4, <1>5, <1>6, <1>7, <2>1 DEF SoundInv, Drift, Counted
<1>8. CASE position # 0
  <2>1. OnTheWay = 1 /\ Newest = position
    BY <1>1, <1>8 DEF OnTheWay, Newest
  <2>2. Coming = 1 - 1 + 0
    BY <1>1, <1>6, <2>1 DEF Coming
  <2>3. Drift /\ Counted
    BY <1>1, <1>5, <1>6, <2>1, <2>2 DEF Drift, Counted
  <2> QED BY <1>2, <1>3, <1>4, <2>3 DEF SoundInv
<1> QED BY <1>7, <1>8

(* With no seek on its way the channel holds what comes next.              *)
LEMMA SettledFrames ==
  ASSUME PlayingTyped, SoundInv, honest, Settled, mixed
  PROVE  /\ Sounding(frames) = Len(frames) /\ Len(frames) \in Nat /\ Len(frames) <= Buffer
         /\ next = heard + Len(frames) /\ OnTheWay = 0
<1>1. frames \in Seq(Nat) /\ Len(frames) \in Nat /\ Len(frames) <= Buffer /\ heard \in Nat
  <2>1. frames \in Seq(Nat) /\ Len(frames) \in Nat /\ Len(frames) <= Buffer
    BY DEF PlayingTyped, ChannelsTyped, Flush
  <2> QED BY <2>1 DEF PlayingTyped, ScalarTyped
<1>2. \A i \in 1 .. Len(frames) : ~IsFlush(frames[i])
  BY DEF Settled
<1>3. Sounding(frames) = Len(frames)
  BY <1>1, <1>2, SoundingIs
<1>4. EndAt(frames, heard, next)
  BY DEF SoundInv, InRow, Settled
<1>5. Starts(frames, 0) /\ 0 \in 0 .. Len(frames)
  BY <1>1 DEF Starts
<1>6. Unbroken(frames, 0, Len(frames) + 1)
  <2>1. \A j \in 0 + 1 .. Len(frames) + 1 - 1 : j \in 1 .. Len(frames)
    BY <1>1
  <2> QED BY <1>2, <2>1 DEF Unbroken
<1>7. next = From(frames, heard, 0) + (Len(frames) - 0)
  BY <1>4, <1>5, <1>6 DEF EndAt
<1>8. next = heard + Len(frames)
  BY <1>1, <1>7 DEF From
<1>9. OnTheWay = 0
  BY DEF Settled, OnTheWay
<1> QED BY <1>1, <1>3, <1>8, <1>9

LEMMA SettledPosition ==
  ASSUME PlayingTyped, SoundInv
  PROVE  PositionNearHeard
<1> SUFFICES ASSUME honest, Settled, mixed, ~pulled
             PROVE  position \in heard .. heard + Buffer + 2 + seeks + late
  BY DEF PositionNearHeard
<1>1. /\ Sounding(frames) = Len(frames) /\ Len(frames) \in Nat
      /\ next = heard + Len(frames) /\ OnTheWay = 0
  BY SettledFrames
<1>2. Ahead = position + 0 /\ Limit = Buffer + 2 + seeks + late
  BY DEF Ahead, Limit
<1>3. next <= Ahead + Sounding(frames) /\ Ahead + Sounding(frames) <= next + Limit
  BY <1>1 DEF SoundInv, Drift
<1>4. position \in Nat /\ heard \in Nat /\ seeks \in Nat /\ late \in Nat
  BY DEF PlayingTyped, ScalarTyped
<1> DEFINE f == Len(frames)
<1>5. f \in Nat /\ heard + f <= position + f /\ position + f <= (heard + f) + (Buffer + 2 + seeks + late)
  BY <1>1, <1>2, <1>3, <1>4
<1> HIDE DEF f
<1> QED BY <1>4, <1>5

LEMMA ReportedEnd ==
  ASSUME PlayingTyped, SoundInv, ErrorTold, Report, ~Connected
  PROVE  /\ failed => monitor' = "loadFailed"
         /\ honest /\ Settled /\ mixed => next <= heard + Buffer
<1>1. failed => error
  BY DEF ErrorTold, Report, Connected, PlayingTyped, ScalarTyped
<1>2. failed => monitor' = "loadFailed"
  BY <1>1 DEF Report
<1>3. ASSUME honest, Settled, mixed PROVE next <= heard + Buffer
  <2>1. Len(frames) \in Nat /\ Len(frames) <= Buffer /\ next = heard + Len(frames)
    BY <1>3, SettledFrames
  <2>2. heard \in Nat
    BY DEF PlayingTyped, ScalarTyped
  <2> QED BY <1>3, <2>1, <2>2
<1> QED BY <1>2, <1>3

-----------------------------------------------------------------------------
PlayingInv == PlayingTyped /\ SoundInv /\ ErrorTold

LEMMA PlayingStepOnly == [PlaybackNext]_allVars => [Next]_vars
BY DEF PlaybackNext, RoutingStep, ResolvingStep, PlayingStep, allVars

LEMMA PlayingAlways == PlaybackSpec => []PlayingInv
<1>1. PlaybackInit => PlayingInv
  BY PlayingInit DEF PlaybackInit, PlayingInv
<1>2. PlayingInv /\ [PlaybackNext]_allVars => PlayingInv'
  BY PlayingStepOnly, PlayingTypedStep, SoundStep, ErrorToldStep DEF PlayingInv
<1> QED BY <1>1, <1>2, PTL DEF PlaybackSpec

(* handle.rs, seek, and mixer.rs, mix: while nothing was skipped, faded or *)
(* refused and no seek is on its way, the position told to the client is   *)
(* not behind what was heard, counted from where the last seek had asked   *)
(* to go, and ahead of it by no more than the channel holds, two frames,   *)
(* one for every seek and one for every packet that was decoded before the *)
(* last seek had been passed on.                                           *)
THEOREM PositionNearHeardHolds == PlaybackSpec => []PositionNearHeard
<1>1. PlayingInv => PositionNearHeard
  BY SettledPosition DEF PlayingInv
<1> QED BY <1>1, PlayingAlways, PTL

(* monitor.rs, handle_playback_stopped: when the commands are received no  *)
(* more, a failure that nobody made good is never reported as finished,    *)
(* except that of a direct source in setting its processor up or for want  *)
(* of a URL; and a track that the mixer still has was heard up to what the *)
(* channel holds.                                                          *)
THEOREM EndIsTrueHolds == PlaybackSpec => EndIsTrue
<1>1. PlayingInv /\ [PlaybackNext]_allVars =>
        [Report /\ ~Connected =>
           /\ failed => monitor' = "loadFailed"
           /\ honest /\ Settled /\ mixed => next <= heard + Buffer]_vars
  BY ReportedEnd DEF PlayingInv
<1> QED BY <1>1, PlayingAlways, PTL DEF PlaybackSpec, EndIsTrue

------------------------------------------------------------------------------
(* Which source an identifier and a track go to. What the sources are is a *)
(* table, and the first facts are read off it, one source at a time.       *)

(* The source that a prefix belongs to, and the place of a source in the   *)
(* order.                                                                  *)
Owner ==
  [ytsearch |-> "youtube", ytmsearch |-> "youtube", ytrec |-> "youtube",
   scsearch |-> "soundcloud", spsearch |-> "spotify", sprec |-> "spotify",
   jssearch |-> "jiosaavn", jsrec |-> "jiosaavn", dzsearch |-> "deezer", dzisrc |-> "deezer",
   dzrec |-> "deezer", amsearch |-> "applemusic", gnsearch |-> "gaana", gaanasearch |-> "gaana",
   tdsearch |-> "tidal", tdisrc |-> "tidal", tdrec |-> "tidal", amksearch |-> "audiomack",
   pdsearch |-> "pandora", pdrec |-> "pandora", qbsearch |-> "qobuz", qbisrc |-> "qobuz",
   qbrec |-> "qobuz", agsearch |-> "anghami", shsearch |-> "shazam", szsearch |-> "shazam",
   mcsearch |-> "mixcloud", bcsearch |-> "bandcamp", lfsearch |-> "lastfm",
   lfmsearch |-> "lastfm", ausearch |-> "audius", audsearch |-> "audius",
   ymsearch |-> "yandexmusic", ymrec |-> "yandexmusic", vksearch |-> "vkmusic",
   vkrec |-> "vkmusic", nmsearch |-> "netease", ncsearch |-> "netease", nmrec |-> "netease",
   ncrec |-> "netease", azmsearch |-> "amazonmusic", amznsearch |-> "amazonmusic",
   gtts |-> "google_tts", speak |-> "google_tts", ftts |-> "flowery"]

Place ==
  [youtube |-> 1, soundcloud |-> 2, spotify |-> 3, jiosaavn |-> 4, deezer |-> 5,
   applemusic |-> 6, gaana |-> 7, tidal |-> 8, audiomack |-> 9, pandora |-> 10, qobuz |-> 11,
   anghami |-> 12, shazam |-> 13, mixcloud |-> 14, bandcamp |-> 15, reddit |-> 16,
   lastfm |-> 17, audius |-> 18, yandexmusic |-> 19, vkmusic |-> 20, netease |-> 21,
   twitch |-> 22, amazonmusic |-> 23, http |-> 24, google_tts |-> 25, flowery |-> 26,
   local |-> 27]

Owned(source, s) ==
  \A p \in DOMAIN source.prefixes :
    p \in DOMAIN Owner /\ Owner[p] = s /\ source.prefixes[p] \in {"search", "track", "list"}

(* A pattern loads its pages as what they are, but for those that another  *)
(* pattern has taken before.                                               *)
Skipped == {"short", "mobile", "share", "search", "bare search"}
Kind(page) == IF page \in TrackPages THEN "track" ELSE "list"
Plain(pattern) == \A page \in pattern.pages \ Skipped : pattern.loads = Kind(page)
Arranged(patterns) ==
  /\ DOMAIN patterns \subseteq Nat
  /\ \A n \in DOMAIN patterns : \A page \in patterns[n].pages \ Skipped :
       \/ patterns[n].loads = Kind(page)
       \/ \E m \in DOMAIN patterns : m < n /\ page \in patterns[m].pages

(* The page of a track that it has named is one that it takes and plays.   *)
Takes(patterns, page) == \E n \in DOMAIN patterns : page \in patterns[n].pages
ComesBack(source, page) ==
  /\ source.otherwise # "refused" \/ Takes(source.patterns, page)
  /\ source.refused # NamesOnly => page \notin source.refused

LEMMA PlainPatterns ==
  /\ \A P : (\A page \in P : page \notin TrackPages) => Plain(Lists(P))
  /\ \A P : (\A page \in P : page \in TrackPages) => Plain(Tracks(P))
  /\ \A P : (\A page \in P : page \in Skipped) => Plain(Redirects(P))
  /\ \A P, kind_ : (\A page \in P : page \in Skipped) => Plain([pages |-> P, loads |-> kind_])
BY DEF Plain, Kind, Lists, Tracks, Redirects

LEMMA PlainArranged ==
  /\ Arranged(<<>>)
  /\ \A a : Plain(a) => Arranged(<<a>>)
  /\ \A a, b : Plain(a) /\ Plain(b) => Arranged(<<a, b>>)
  /\ \A a, b, c : Plain(a) /\ Plain(b) /\ Plain(c) => Arranged(<<a, b, c>>)
  /\ \A a, b, c, d : Plain(a) /\ Plain(b) /\ Plain(c) /\ Plain(d) => Arranged(<<a, b, c, d>>)
  /\ \A a, b, c, d, e : Plain(a) /\ Plain(b) /\ Plain(c) /\ Plain(d) /\ Plain(e)
       => Arranged(<<a, b, c, d, e>>)
BY DEF Arranged, Plain

LEMMA Takers ==
  \A page, a, b, c, d, e, f :
    /\ page \in a.pages =>
         /\ Takes(<<a>>, page) /\ Takes(<<a, b>>, page) /\ Takes(<<a, b, c>>, page)
         /\ Takes(<<a, b, c, d>>, page) /\ Takes(<<a, b, c, d, e>>, page)
    /\ page \in b.pages =>
         /\ Takes(<<a, b>>, page) /\ Takes(<<a, b, c>>, page)
    /\ page \in c.pages =>
         /\ Takes(<<a, b, c>>, page) /\ Takes(<<a, b, c, d>>, page)
         /\ Takes(<<a, b, c, d, e>>, page)
    /\ page \in f.pages => Takes(<<a, b, c, d, e, f>>, page)
BY DEF Takes

LEMMA PrefixesOwned == \A s \in Names : Owned(Sources[s], s)
<1> USE DEF Owned, Owner, Source, Search, Speech, Loading
<1>1. Owned(youtube, "youtube")
  BY DEF youtube
<1>2. Owned(soundcloud, "soundcloud")
  BY DEF soundcloud
<1>3. Owned(spotify, "spotify")
  BY DEF spotify
<1>4. Owned(jiosaavn, "jiosaavn")
  BY DEF jiosaavn
<1>5. Owned(deezer, "deezer")
  BY DEF deezer
<1>6. Owned(applemusic, "applemusic")
  BY DEF applemusic
<1>7. Owned(gaana, "gaana")
  BY DEF gaana
<1>8. Owned(tidal, "tidal")
  BY DEF tidal
<1>9. Owned(audiomack, "audiomack")
  BY DEF audiomack
<1>10. Owned(pandora, "pandora")
  BY DEF pandora
<1>11. Owned(qobuz, "qobuz")
  BY DEF qobuz
<1>12. Owned(anghami, "anghami")
  BY DEF anghami
<1>13. Owned(shazam, "shazam")
  BY DEF shazam
<1>14. Owned(mixcloud, "mixcloud")
  BY DEF mixcloud
<1>15. Owned(bandcamp, "bandcamp")
  BY DEF bandcamp
<1>16. Owned(reddit, "reddit")
  BY DEF reddit
<1>17. Owned(lastfm, "lastfm")
  BY DEF lastfm
<1>18. Owned(audius, "audius")
  BY DEF audius
<1>19. Owned(yandexmusic, "yandexmusic")
  BY DEF yandexmusic
<1>20. Owned(vkmusic, "vkmusic")
  BY DEF vkmusic
<1>21. Owned(netease, "netease")
  BY DEF netease
<1>22. Owned(twitch, "twitch")
  BY DEF twitch
<1>23. Owned(amazonmusic, "amazonmusic")
  BY DEF amazonmusic
<1>24. Owned(http, "http")
  BY DEF http
<1>25. Owned(google_tts, "google_tts")
  BY DEF google_tts
<1>26. Owned(flowery, "flowery")
  BY DEF flowery
<1>27. Owned(local, "local")
  BY DEF local
<1> QED BY SMTT(60), <1>1, <1>2, <1>3, <1>4, <1>5, <1>6, <1>7, <1>8, <1>9, <1>10, <1>11, <1>12,
           <1>13, <1>14, <1>15, <1>16, <1>17, <1>18, <1>19, <1>20, <1>21, <1>22, <1>23,
           <1>24, <1>25, <1>26, <1>27
           DEF Names, Sources

LEMMA PagesLoad == \A s \in Names : Arranged(Sources[s].patterns)
<1> USE DEF Source
<1>1. Arranged(youtube.patterns)
  BY PlainArranged, PlainPatterns DEF TrackPages, Skipped, Collections, youtube
<1>2. Arranged(soundcloud.patterns)
  <2>1. PICK a : a = Redirects({"short", "mobile"})
    OBVIOUS
  <2>2. PICK b : b = [pages |-> {"search"}, loads |-> "search"]
    OBVIOUS
  <2>3. PICK c : c = Lists({"likes"})
    OBVIOUS
  <2>4. PICK d : d = Lists({"set"})
    OBVIOUS
  <2>5. PICK e : e = Lists({"user", "user sets", "bare search"})
    OBVIOUS
  <2>6. PICK f : f = Tracks({"track", "likes", "user sets"})
    OBVIOUS
  <2>7. PICK q : q = <<a, b, c, d, e, f>>
    OBVIOUS
  <2>8. q = soundcloud.patterns
    BY <2>1, <2>2, <2>3, <2>4, <2>5, <2>6, <2>7 DEF soundcloud
  <2>9. DOMAIN q = 1 .. 6 /\ q[1] = a /\ q[2] = b /\ q[3] = c /\ q[4] = d /\ q[5] = e /\ q[6] = f
    BY <2>7
  <2>10. Plain(a) /\ Plain(b) /\ Plain(c) /\ Plain(d) /\ Plain(e)
    BY <2>1, <2>2, <2>3, <2>4, <2>5, PlainPatterns DEF TrackPages, Skipped
  <2>11. /\ f.pages = {"track", "likes", "user sets"} /\ f.loads = "track"
        /\ "likes" \in c.pages /\ "user sets" \in e.pages
    BY <2>3, <2>5, <2>6 DEF Tracks, Lists
  <2>12. ASSUME NEW page \in f.pages
        PROVE  Kind(page) = "track" \/ \E m \in 1 .. 5 : page \in q[m].pages
    <3>1. page = "likes" \/ page = "user sets" \/ page = "track"
      BY <2>11, <2>12
    <3>2. Kind("track") = "track"
      BY DEF Kind, TrackPages
    <3>3. 3 \in 1 .. 5 /\ "likes" \in q[3].pages
      <4>1. 3 \in 1 .. 5
        OBVIOUS
      <4>2. q[3] = c
        BY <2>9
      <4> QED BY <2>11, <4>1, <4>2
    <3>4. 5 \in 1 .. 5 /\ "user sets" \in q[5].pages
      <4>1. 5 \in 1 .. 5
        OBVIOUS
      <4>2. q[5] = e
        BY <2>9
      <4> QED BY <2>11, <4>1, <4>2
    <3> HIDE DEF Kind
    <3> QED BY <3>1, <3>2, <3>3, <3>4
  <2>13. \A n \in 1 .. 5 : Plain(q[n])
    BY <2>9, <2>10
  <2>14. ASSUME NEW n \in 1 .. 6, NEW page \in q[n].pages \ Skipped
        PROVE  q[n].loads = Kind(page) \/ \E m \in DOMAIN q : m < n /\ page \in q[m].pages
    <3>1. CASE n \in 1 .. 5
      BY <2>13, <2>14, <3>1 DEF Plain
    <3>2. CASE n = 6
      <4>1. page \in f.pages /\ q[n].loads = "track"
        BY <2>9, <2>11, <2>14, <3>2
      <4>2. CASE Kind(page) = "track"
        BY <4>1, <4>2
      <4>3. CASE \E m \in 1 .. 5 : page \in q[m].pages
        <5>1. PICK m \in 1 .. 5 : page \in q[m].pages
          BY <4>3
        <5>2. m \in DOMAIN q /\ m < n
          BY <2>9, <3>2
        <5> QED BY <5>1, <5>2
      <4> QED BY <2>12, <4>1, <4>2, <4>3
    <3> QED BY <3>1, <3>2
  <2> QED BY <2>8, <2>9, <2>14 DEF Arranged
<1>3. Arranged(spotify.patterns)
  BY PlainArranged, PlainPatterns DEF TrackPages, Skipped, Collections, spotify
<1>4. Arranged(jiosaavn.patterns)
  BY PlainArranged, PlainPatterns DEF TrackPages, Skipped, Collections, jiosaavn
<1>5. Arranged(deezer.patterns)
  BY PlainArranged, PlainPatterns DEF TrackPages, Skipped, Collections, deezer
<1>6. Arranged(applemusic.patterns)
  BY PlainArranged, PlainPatterns DEF TrackPages, Skipped, Collections, applemusic
<1>7. Arranged(gaana.patterns)
  BY PlainArranged, PlainPatterns DEF TrackPages, Skipped, Collections, gaana
<1>8. Arranged(tidal.patterns)
  BY PlainArranged, PlainPatterns DEF TrackPages, Skipped, Collections, tidal
<1>9. Arranged(audiomack.patterns)
  BY PlainArranged, PlainPatterns DEF TrackPages, Skipped, Collections, audiomack
<1>10. Arranged(pandora.patterns)
  BY PlainArranged, PlainPatterns DEF TrackPages, Skipped, Collections, pandora
<1>11. Arranged(qobuz.patterns)
  BY PlainArranged, PlainPatterns DEF TrackPages, Skipped, Collections, qobuz
<1>12. Arranged(anghami.patterns)
  BY PlainArranged, PlainPatterns DEF TrackPages, Skipped, Collections, anghami
<1>13. Arranged(shazam.patterns)
  BY PlainArranged, PlainPatterns DEF TrackPages, Skipped, Collections, shazam
<1>14. Arranged(mixcloud.patterns)
  <2>1. PICK a : a = Lists({"playlist"})
    OBVIOUS
  <2>2. PICK b : b = Lists({"user", "uploads"})
    OBVIOUS
  <2>3. PICK c : c = Tracks({"track", "uploads"})
    OBVIOUS
  <2>4. PICK q : q = <<a, b, c>>
    OBVIOUS
  <2>5. q = mixcloud.patterns
    BY <2>1, <2>2, <2>3, <2>4 DEF mixcloud
  <2>6. DOMAIN q = 1 .. 3 /\ q[1] = a /\ q[2] = b /\ q[3] = c
    BY <2>4
  <2>7. Plain(a) /\ Plain(b)
    BY <2>1, <2>2, PlainPatterns DEF TrackPages, Skipped
  <2>8. /\ c.pages = {"track", "uploads"} /\ c.loads = "track"
        /\ "uploads" \in b.pages
    BY <2>2, <2>3 DEF Tracks, Lists
  <2>9. ASSUME NEW page \in c.pages
        PROVE  Kind(page) = "track" \/ \E m \in 1 .. 2 : page \in q[m].pages
    <3>1. page = "uploads" \/ page = "track"
      BY <2>8, <2>9
    <3>2. Kind("track") = "track"
      BY DEF Kind, TrackPages
    <3>3. 2 \in 1 .. 2 /\ "uploads" \in q[2].pages
      <4>1. 2 \in 1 .. 2
        OBVIOUS
      <4>2. q[2] = b
        BY <2>6
      <4> QED BY <2>8, <4>1, <4>2
    <3> HIDE DEF Kind
    <3> QED BY <3>1, <3>2, <3>3
  <2>10. \A n \in 1 .. 2 : Plain(q[n])
    BY <2>6, <2>7
  <2>11. ASSUME NEW n \in 1 .. 3, NEW page \in q[n].pages \ Skipped
        PROVE  q[n].loads = Kind(page) \/ \E m \in DOMAIN q : m < n /\ page \in q[m].pages
    <3>1. CASE n \in 1 .. 2
      BY <2>10, <2>11, <3>1 DEF Plain
    <3>2. CASE n = 3
      <4>1. page \in c.pages /\ q[n].loads = "track"
        BY <2>6, <2>8, <2>11, <3>2
      <4>2. CASE Kind(page) = "track"
        BY <4>1, <4>2
      <4>3. CASE \E m \in 1 .. 2 : page \in q[m].pages
        <5>1. PICK m \in 1 .. 2 : page \in q[m].pages
          BY <4>3
        <5>2. m \in DOMAIN q /\ m < n
          BY <2>6, <3>2
        <5> QED BY <5>1, <5>2
      <4> QED BY <2>9, <4>1, <4>2, <4>3
    <3> QED BY <3>1, <3>2
  <2> QED BY <2>5, <2>6, <2>11 DEF Arranged
<1>15. Arranged(bandcamp.patterns)
  BY PlainArranged, PlainPatterns DEF TrackPages, Skipped, Collections, bandcamp
<1>16. Arranged(reddit.patterns)
  BY PlainArranged, PlainPatterns DEF TrackPages, Skipped, Collections, reddit
<1>17. Arranged(lastfm.patterns)
  BY PlainArranged, PlainPatterns DEF TrackPages, Skipped, Collections, lastfm
<1>18. Arranged(audius.patterns)
  BY PlainArranged, PlainPatterns DEF TrackPages, Skipped, Collections, audius
<1>19. Arranged(yandexmusic.patterns)
  BY PlainArranged, PlainPatterns DEF TrackPages, Skipped, Collections, yandexmusic
<1>20. Arranged(vkmusic.patterns)
  BY PlainArranged, PlainPatterns DEF TrackPages, Skipped, Collections, vkmusic
<1>21. Arranged(netease.patterns)
  BY PlainArranged, PlainPatterns DEF TrackPages, Skipped, Collections, netease
<1>22. Arranged(twitch.patterns)
  BY PlainArranged, PlainPatterns DEF TrackPages, Skipped, Collections, twitch
<1>23. Arranged(amazonmusic.patterns)
  BY PlainArranged, PlainPatterns DEF TrackPages, Skipped, Collections, amazonmusic
<1>24. Arranged(http.patterns)
  BY PlainArranged, PlainPatterns DEF TrackPages, Skipped, Collections, http
<1>25. Arranged(google_tts.patterns)
  BY PlainArranged, PlainPatterns DEF TrackPages, Skipped, Collections, google_tts
<1>26. Arranged(flowery.patterns)
  BY PlainArranged, PlainPatterns DEF TrackPages, Skipped, Collections, flowery
<1>27. Arranged(local.patterns)
  BY PlainArranged, PlainPatterns DEF TrackPages, Skipped, Collections, local
<1> QED BY <1>1, <1>2, <1>3, <1>4, <1>5, <1>6, <1>7, <1>8, <1>9, <1>10, <1>11, <1>12,
           <1>13, <1>14, <1>15, <1>16, <1>17, <1>18, <1>19, <1>20, <1>21, <1>22, <1>23,
           <1>24, <1>25, <1>26, <1>27
           DEF Names, Sources

LEMMA SourceTable ==
  /\ Sources["youtube"] = youtube /\ Sources["soundcloud"] = soundcloud /\ Sources["spotify"] = spotify
  /\ Sources["jiosaavn"] = jiosaavn /\ Sources["deezer"] = deezer /\ Sources["applemusic"] = applemusic
  /\ Sources["gaana"] = gaana /\ Sources["tidal"] = tidal /\ Sources["audiomack"] = audiomack
  /\ Sources["pandora"] = pandora /\ Sources["qobuz"] = qobuz /\ Sources["anghami"] = anghami
  /\ Sources["shazam"] = shazam /\ Sources["mixcloud"] = mixcloud /\ Sources["bandcamp"] = bandcamp
  /\ Sources["reddit"] = reddit /\ Sources["lastfm"] = lastfm /\ Sources["audius"] = audius
  /\ Sources["yandexmusic"] = yandexmusic /\ Sources["vkmusic"] = vkmusic /\ Sources["netease"] = netease
  /\ Sources["twitch"] = twitch /\ Sources["amazonmusic"] = amazonmusic /\ Sources["http"] = http
  /\ Sources["google_tts"] = google_tts /\ Sources["flowery"] = flowery /\ Sources["local"] = local
BY DEF Sources

LEMMA TrackPageTable ==
  /\ TrackPage("youtube") = "watch" /\ TrackPage("soundcloud") = "track" /\ TrackPage("spotify") = "track"
  /\ TrackPage("jiosaavn") = "song" /\ TrackPage("deezer") = "track" /\ TrackPage("applemusic") = "album track"
  /\ TrackPage("gaana") = "song" /\ TrackPage("tidal") = "track" /\ TrackPage("audiomack") = "song"
  /\ TrackPage("pandora") = "track" /\ TrackPage("qobuz") = "track" /\ TrackPage("anghami") = "song"
  /\ TrackPage("shazam") = "song" /\ TrackPage("mixcloud") = "track" /\ TrackPage("bandcamp") = "track"
  /\ TrackPage("reddit") = "post" /\ TrackPage("lastfm") = "track" /\ TrackPage("audius") = "track"
  /\ TrackPage("yandexmusic") = "track" /\ TrackPage("vkmusic") = "track" /\ TrackPage("netease") = "song"
  /\ TrackPage("twitch") = "channel" /\ TrackPage("amazonmusic") = "track" /\ TrackPage("local") = "file"
BY DEF TrackPage

LEMMA NamesTable ==
  Names = {"youtube", "soundcloud", "spotify", "jiosaavn", "deezer", "applemusic", "gaana", "tidal",
           "audiomack", "pandora", "qobuz", "anghami", "shazam", "mixcloud", "bandcamp", "reddit",
           "lastfm", "audius", "yandexmusic", "vkmusic", "netease", "twitch", "amazonmusic", "http",
           "google_tts", "flowery", "local"}
BY DEF Names, Sources

LEMMA TracksComeBack == \A s \in Names : s \notin Tts \cup {"http"} => ComesBack(Sources[s], TrackPage(s))
<1>1. ComesBack(Sources["youtube"], TrackPage("youtube"))
  <2>1. "watch" \in Tracks({"watch", "short", "live"}).pages
    BY DEF Tracks
  <2>2. Takes(youtube.patterns, "watch")
    BY <2>1, Takers DEF youtube, Source
  <2>3. youtube.refused # NamesOnly => "watch" \notin youtube.refused
    BY DEF youtube, Source, NamesOnly, TrackPages, Collections
  <2> QED BY <2>2, <2>3, SourceTable, TrackPageTable DEF ComesBack
<1>2. ComesBack(Sources["soundcloud"], TrackPage("soundcloud"))
  <2>1. "track" \in Tracks({"track", "likes", "user sets"}).pages
    BY DEF Tracks
  <2>2. Takes(soundcloud.patterns, "track")
    BY <2>1, Takers DEF soundcloud, Source
  <2>3. soundcloud.refused # NamesOnly => "track" \notin soundcloud.refused
    BY DEF soundcloud, Source, NamesOnly, TrackPages, Collections
  <2> QED BY <2>2, <2>3, SourceTable, TrackPageTable DEF ComesBack
<1>3. ComesBack(Sources["spotify"], TrackPage("spotify"))
  <2>1. "track" \in Tracks({"track"}).pages
    BY DEF Tracks
  <2>2. Takes(spotify.patterns, "track")
    BY <2>1, Takers DEF spotify, Source
  <2>3. spotify.refused # NamesOnly => "track" \notin spotify.refused
    BY DEF spotify, Source, NamesOnly, TrackPages, Collections
  <2> QED BY <2>2, <2>3, SourceTable, TrackPageTable DEF ComesBack
<1>4. ComesBack(Sources["jiosaavn"], TrackPage("jiosaavn"))
  <2>1. "song" \in Tracks({"song"}).pages
    BY DEF Tracks
  <2>2. Takes(jiosaavn.patterns, "song")
    BY <2>1, Takers DEF jiosaavn, Source
  <2>3. jiosaavn.refused # NamesOnly => "song" \notin jiosaavn.refused
    BY DEF jiosaavn, Source, NamesOnly, TrackPages, Collections
  <2> QED BY <2>2, <2>3, SourceTable, TrackPageTable DEF ComesBack
<1>5. ComesBack(Sources["deezer"], TrackPage("deezer"))
  <2>1. "track" \in Tracks({"track"}).pages
    BY DEF Tracks
  <2>2. Takes(deezer.patterns, "track")
    BY <2>1, Takers DEF deezer, Source
  <2>3. deezer.refused # NamesOnly => "track" \notin deezer.refused
    BY DEF deezer, Source, NamesOnly, TrackPages, Collections
  <2> QED BY <2>2, <2>3, SourceTable, TrackPageTable DEF ComesBack
<1>6. ComesBack(Sources["applemusic"], TrackPage("applemusic"))
  <2>1. "album track" \in Tracks({"album track"}).pages
    BY DEF Tracks
  <2>2. Takes(applemusic.patterns, "album track")
    BY <2>1, Takers DEF applemusic, Source
  <2>3. applemusic.refused # NamesOnly => "album track" \notin applemusic.refused
    BY DEF applemusic, Source, NamesOnly, TrackPages, Collections
  <2> QED BY <2>2, <2>3, SourceTable, TrackPageTable DEF ComesBack
<1>7. ComesBack(Sources["gaana"], TrackPage("gaana"))
  <2>1. "song" \in Tracks({"song"}).pages
    BY DEF Tracks
  <2>2. Takes(gaana.patterns, "song")
    BY <2>1, Takers DEF gaana, Source
  <2>3. gaana.refused # NamesOnly => "song" \notin gaana.refused
    BY DEF gaana, Source, NamesOnly, TrackPages, Collections
  <2> QED BY <2>2, <2>3, SourceTable, TrackPageTable DEF ComesBack
<1>8. ComesBack(Sources["tidal"], TrackPage("tidal"))
  <2>1. "track" \in Tracks({"track"}).pages
    BY DEF Tracks
  <2>2. Takes(tidal.patterns, "track")
    BY <2>1, Takers DEF tidal, Source
  <2>3. tidal.refused # NamesOnly => "track" \notin tidal.refused
    BY DEF tidal, Source, NamesOnly, TrackPages, Collections
  <2> QED BY <2>2, <2>3, SourceTable, TrackPageTable DEF ComesBack
<1>9. ComesBack(Sources["audiomack"], TrackPage("audiomack"))
  <2>1. "song" \in Tracks({"song"}).pages
    BY DEF Tracks
  <2>2. Takes(audiomack.patterns, "song")
    BY <2>1, Takers DEF audiomack, Source
  <2>3. audiomack.refused # NamesOnly => "song" \notin audiomack.refused
    BY DEF audiomack, Source, NamesOnly, TrackPages, Collections
  <2> QED BY <2>2, <2>3, SourceTable, TrackPageTable DEF ComesBack
<1>10. ComesBack(Sources["pandora"], TrackPage("pandora"))
  <2>1. "track" \in Tracks({"track"}).pages
    BY DEF Tracks
  <2>2. Takes(pandora.patterns, "track")
    BY <2>1, Takers DEF pandora, Source
  <2>3. pandora.refused # NamesOnly => "track" \notin pandora.refused
    BY DEF pandora, Source, NamesOnly, TrackPages, Collections
  <2> QED BY <2>2, <2>3, SourceTable, TrackPageTable DEF ComesBack
<1>11. ComesBack(Sources["qobuz"], TrackPage("qobuz"))
  <2>1. "track" \in Tracks({"track"}).pages
    BY DEF Tracks
  <2>2. Takes(qobuz.patterns, "track")
    BY <2>1, Takers DEF qobuz, Source
  <2>3. qobuz.refused # NamesOnly => "track" \notin qobuz.refused
    BY DEF qobuz, Source, NamesOnly, TrackPages, Collections
  <2> QED BY <2>2, <2>3, SourceTable, TrackPageTable DEF ComesBack
<1>12. ComesBack(Sources["anghami"], TrackPage("anghami"))
  <2>1. "song" \in Tracks({"song"}).pages
    BY DEF Tracks
  <2>2. Takes(anghami.patterns, "song")
    BY <2>1, Takers DEF anghami, Source
  <2>3. anghami.refused # NamesOnly => "song" \notin anghami.refused
    BY DEF anghami, Source, NamesOnly, TrackPages, Collections
  <2> QED BY <2>2, <2>3, SourceTable, TrackPageTable DEF ComesBack
<1>13. ComesBack(Sources["shazam"], TrackPage("shazam"))
  <2>1. "song" \in Tracks({"song"}).pages
    BY DEF Tracks
  <2>2. Takes(shazam.patterns, "song")
    BY <2>1, Takers DEF shazam, Source
  <2>3. shazam.refused # NamesOnly => "song" \notin shazam.refused
    BY DEF shazam, Source, NamesOnly, TrackPages, Collections
  <2> QED BY <2>2, <2>3, SourceTable, TrackPageTable DEF ComesBack
<1>14. ComesBack(Sources["mixcloud"], TrackPage("mixcloud"))
  <2>1. "track" \in Tracks({"track", "uploads"}).pages
    BY DEF Tracks
  <2>2. Takes(mixcloud.patterns, "track")
    BY <2>1, Takers DEF mixcloud, Source
  <2>3. mixcloud.refused # NamesOnly => "track" \notin mixcloud.refused
    BY DEF mixcloud, Source, NamesOnly, TrackPages, Collections
  <2> QED BY <2>2, <2>3, SourceTable, TrackPageTable DEF ComesBack
<1>15. ComesBack(Sources["bandcamp"], TrackPage("bandcamp"))
  <2>1. "track" \in Tracks({"track"}).pages
    BY DEF Tracks
  <2>2. Takes(bandcamp.patterns, "track")
    BY <2>1, Takers DEF bandcamp, Source
  <2>3. bandcamp.refused # NamesOnly => "track" \notin bandcamp.refused
    BY DEF bandcamp, Source, NamesOnly, TrackPages, Collections
  <2> QED BY <2>2, <2>3, SourceTable, TrackPageTable DEF ComesBack
<1>16. ComesBack(Sources["reddit"], TrackPage("reddit"))
  <2>1. "post" \in Tracks({"post"}).pages
    BY DEF Tracks
  <2>2. Takes(reddit.patterns, "post")
    BY <2>1, Takers DEF reddit, Source
  <2>3. reddit.refused # NamesOnly => "post" \notin reddit.refused
    BY DEF reddit, Source, NamesOnly, TrackPages, Collections
  <2> QED BY <2>2, <2>3, SourceTable, TrackPageTable DEF ComesBack
<1>17. ComesBack(Sources["lastfm"], TrackPage("lastfm"))
  <2>1. "track" \in Tracks({"track"}).pages
    BY DEF Tracks
  <2>2. Takes(lastfm.patterns, "track")
    BY <2>1, Takers DEF lastfm, Source
  <2>3. lastfm.refused # NamesOnly => "track" \notin lastfm.refused
    BY DEF lastfm, Source, NamesOnly, TrackPages, Collections
  <2> QED BY <2>2, <2>3, SourceTable, TrackPageTable DEF ComesBack
<1>18. ComesBack(Sources["audius"], TrackPage("audius"))
  <2>1. "track" \in Tracks({"track"}).pages
    BY DEF Tracks
  <2>2. Takes(audius.patterns, "track")
    BY <2>1, Takers DEF audius, Source
  <2>3. audius.refused # NamesOnly => "track" \notin audius.refused
    BY DEF audius, Source, NamesOnly, TrackPages, Collections
  <2> QED BY <2>2, <2>3, SourceTable, TrackPageTable DEF ComesBack
<1>19. ComesBack(Sources["yandexmusic"], TrackPage("yandexmusic"))
  <2>1. "track" \in Tracks({"track", "album track"}).pages
    BY DEF Tracks
  <2>2. Takes(yandexmusic.patterns, "track")
    BY <2>1, Takers DEF yandexmusic, Source
  <2>3. yandexmusic.refused # NamesOnly => "track" \notin yandexmusic.refused
    BY DEF yandexmusic, Source, NamesOnly, TrackPages, Collections
  <2> QED BY <2>2, <2>3, SourceTable, TrackPageTable DEF ComesBack
<1>20. ComesBack(Sources["vkmusic"], TrackPage("vkmusic"))
  <2>1. "track" \in Tracks({"track"}).pages
    BY DEF Tracks
  <2>2. Takes(vkmusic.patterns, "track")
    BY <2>1, Takers DEF vkmusic, Source
  <2>3. vkmusic.refused # NamesOnly => "track" \notin vkmusic.refused
    BY DEF vkmusic, Source, NamesOnly, TrackPages, Collections
  <2> QED BY <2>2, <2>3, SourceTable, TrackPageTable DEF ComesBack
<1>21. ComesBack(Sources["netease"], TrackPage("netease"))
  <2>1. "song" \in Tracks({"song"}).pages
    BY DEF Tracks
  <2>2. Takes(netease.patterns, "song")
    BY <2>1, Takers DEF netease, Source
  <2>3. netease.refused # NamesOnly => "song" \notin netease.refused
    BY DEF netease, Source, NamesOnly, TrackPages, Collections
  <2> QED BY <2>2, <2>3, SourceTable, TrackPageTable DEF ComesBack
<1>22. ComesBack(Sources["twitch"], TrackPage("twitch"))
  <2>1. "channel" \in Tracks({"channel"}).pages
    BY DEF Tracks
  <2>2. Takes(twitch.patterns, "channel")
    BY <2>1, Takers DEF twitch, Source
  <2>3. twitch.refused # NamesOnly => "channel" \notin twitch.refused
    BY DEF twitch, Source, NamesOnly, TrackPages, Collections
  <2> QED BY <2>2, <2>3, SourceTable, TrackPageTable DEF ComesBack
<1>23. ComesBack(Sources["amazonmusic"], TrackPage("amazonmusic"))
  <2>1. "track" \in Tracks({"track"}).pages
    BY DEF Tracks
  <2>2. Takes(amazonmusic.patterns, "track")
    BY <2>1, Takers DEF amazonmusic, Source
  <2>3. amazonmusic.refused # NamesOnly => "track" \notin amazonmusic.refused
    BY DEF amazonmusic, Source, NamesOnly, TrackPages, Collections
  <2> QED BY <2>2, <2>3, SourceTable, TrackPageTable DEF ComesBack
<1>27. ComesBack(Sources["local"], TrackPage("local"))
  <2>1. "file" \in Tracks({"file"}).pages
    BY DEF Tracks
  <2>2. Takes(local.patterns, "file")
    BY <2>1, Takers DEF local, Source
  <2>3. local.refused # NamesOnly => "file" \notin local.refused
    BY DEF local, Source, NamesOnly, TrackPages, Collections
  <2> QED BY <2>2, <2>3, SourceTable, TrackPageTable DEF ComesBack
<1> QED BY NamesTable, <1>1, <1>2, <1>3, <1>4, <1>5, <1>6, <1>7, <1>8, <1>9, <1>10, <1>11, <1>12,
           <1>13, <1>14, <1>15, <1>16, <1>17, <1>18, <1>19, <1>20, <1>21, <1>22, <1>23,
           <1>27
           DEF Tts

LEMMA OrderFacts ==
  /\ DOMAIN Order = 1 .. 27
  /\ \A n \in 1 .. 27 : Order[n] \in Names /\ Place[Order[n]] = n
  /\ \A s \in Names : Place[s] \in 1 .. 27 /\ Order[Place[s]] = s
<1>1. DOMAIN Order = 1 .. 27
  BY DEF Order
<1>2. \A n \in 1 .. 27 : Order[n] \in Names /\ Place[Order[n]] = n
  BY NamesTable DEF Order, Place
<1>3. \A s \in Names : Place[s] \in 1 .. 27 /\ Order[Place[s]] = s
  BY NamesTable DEF Order, Place
<1> QED BY <1>1, <1>2, <1>3

LEMMA PlaceFacts ==
  /\ Place["http"] = 24 /\ Place["local"] = 27
  /\ \A s \in Names : s \notin {"http", "local"} \cup Tts => Place[s] < 24
<1>1. Place["http"] = 24 /\ Place["local"] = 27
  BY DEF Place
<1>2. \A s \in Names : s \notin {"http", "local"} \cup Tts => Place[s] < 24
  BY NamesTable DEF Place, Tts
<1> QED BY <1>1, <1>2

LEMMA PlaceOrder ==
  /\ \A s \in Names : Place[s] <= Place[s]
  /\ \A s \in Names : s \notin {"http", "local"} \cup Tts => Place[s] <= Place["http"]
<1>1. \A s \in Names : Place[s] \in 1 .. 27
  BY OrderFacts
<1> QED BY <1>1, PlaceFacts

LEMMA NotNames ==
  /\ None \notin Names /\ "text" \notin Names /\ "web" \notin Names
  /\ "" \notin DOMAIN Owner
<1>1. None \notin Names /\ "text" \notin Names /\ "web" \notin Names
  BY NamesTable DEF None
<1>2. "" \notin DOMAIN Owner
  BY DEF Owner
<1> QED BY <1>1, <1>2

LEMMA LeastExists ==
  ASSUME NEW T, T \subseteq Nat, T # {}
  PROVE  \E x \in T : \A y \in T : x <= y
<1> DEFINE R == OpToRel(<, Nat)
<1>1. IsWellFoundedOn(R, Nat)
  BY NatLessThanWellFounded
<1>2. \A x, y \in Nat : x < y => <<x, y>> \in R
  BY DEF OpToRel
<1> HIDE DEF R
<1>3. PICK x \in T : \A y \in T : ~ (<<y, x>> \in R)
  BY <1>1, WFMin
<1>4. \A y \in T : x <= y
  <2>1. \A y \in T : y \in Nat /\ x \in Nat /\ ~(y < x)
    BY <1>2, <1>3
  <2> QED BY <2>1
<1> QED BY <1>3, <1>4

LEMMA MinIs ==
  ASSUME NEW T, T \subseteq Nat, T # {}
  PROVE  Min(T) \in T /\ \A y \in T : Min(T) <= y
BY LeastExists, Zenon DEF Min

(* Which sources handle an identifier.                                     *)
LEMMA PatternFacts ==
  /\ \A s, page : page \in PatternPages(s) <=> Takes(Sources[s].patterns, page)
  /\ \A s \in Tts \cup {"http"} : PatternPages(s) = {}
<1>1. \A s, page : page \in PatternPages(s) <=> Takes(Sources[s].patterns, page)
  BY DEF PatternPages, Takes
<1>2. \A s \in Tts \cup {"http"} : DOMAIN Sources[s].patterns = {}
  BY SourceTable DEF Tts, http, google_tts, flowery, Source
<1> QED BY <1>1, <1>2 DEF Takes

LEMMA OwnerFacts ==
  ASSUME NEW s \in Names, NEW p \in DOMAIN Sources[s].prefixes
  PROVE  /\ p # "" /\ Owner[p] = s
         /\ Sources[s].prefixes[p] \in {"search", "track", "list"}
<1>1. Owned(Sources[s], s)
  BY PrefixesOwned
<1>2. /\ p \in DOMAIN Owner /\ Owner[p] = s
      /\ Sources[s].prefixes[p] \in {"search", "track", "list"}
  BY <1>1, Zenon DEF Owned
<1> QED BY <1>2, NotNames

LEMMA PlainHandlers ==
  ASSUME NEW t \in Names, NEW id, id.prefix = ""
  PROVE  Handles(t, id) <=>
           OnSite(t, id) /\ (Sources[t].otherwise # "refused" \/ id.page \in PatternPages(t))
<1>1. id.prefix \notin DOMAIN Sources[t].prefixes
  BY OwnerFacts
<1> QED BY <1>1 DEF Handles

LEMMA AskedType == \A id : Asked(id) \subseteq Nat
BY OrderFacts DEF Asked

LEMMA FirstFacts ==
  ASSUME NEW id, First(id) # None
  PROVE  First(id) \in enabled /\ First(id) \in Names /\ Handles(First(id), id)
<1>1. Asked(id) # {} /\ First(id) = Order[Min(Asked(id))]
  BY DEF First
<1>2. Asked(id) \subseteq Nat
  BY AskedType
<1>3. Min(Asked(id)) \in Asked(id)
  BY <1>1, <1>2, MinIs
<1> QED BY <1>1, <1>3, OrderFacts DEF Asked

LEMMA FirstIs ==
  ASSUME NEW id, NEW s \in enabled, s \in Names, Handles(s, id),
         \A t \in enabled \cap Names : Handles(t, id) => Place[s] <= Place[t]
  PROVE  First(id) = s
<1>1. Place[s] \in Asked(id)
  BY OrderFacts DEF Asked
<1>2. Asked(id) \subseteq Nat
  BY AskedType
<1>3. \A n \in Asked(id) : Place[s] <= n
  <2> TAKE n \in Asked(id)
  <2>1. Order[n] \in enabled \cap Names /\ Handles(Order[n], id) /\ Place[Order[n]] = n
    BY OrderFacts DEF Asked
  <2> QED BY <2>1
<1>4. Min(Asked(id)) = Place[s]
  <2>1. Min(Asked(id)) \in Asked(id) /\ Min(Asked(id)) <= Place[s]
    BY <1>1, <1>2, MinIs
  <2>2. Place[s] <= Min(Asked(id)) /\ Min(Asked(id)) \in Nat /\ Place[s] \in Nat
    BY <1>2, <1>1, <1>3, <2>1
  <2> QED BY <2>1, <2>2
<1> QED BY <1>1, <1>4, OrderFacts DEF First

(* An identifier without a prefix is one for the source of its site, or    *)
(* for http, which comes after all of those whose pages are on the web.    *)
LEMMA SiteFirst ==
  ASSUME NEW id, id.prefix = "", NEW s \in enabled, id.site = s, enabled \subseteq Names,
         s \notin Tts \cup {"http"}, Handles(s, id)
  PROVE  First(id) = s
<1>1. ASSUME NEW t \in enabled, Handles(t, id)
      PROVE  Place[s] <= Place[t]
  <2>1. OnSite(t, id) /\ t \in Names /\ s \in Names
    BY <1>1, PlainHandlers
  <2>2. CASE t = "http"
    <3>1. s # "local"
      BY <2>1, <2>2 DEF OnSite
    <3>2. s \in Names /\ s \notin {"http", "local"} \cup Tts
      BY <2>1, <3>1
    <3> QED BY <2>2, <3>2, PlaceOrder, Zenon
  <2>3. CASE t # "http"
    <3>1. t = s
      BY <2>1, <2>3 DEF OnSite
    <3> QED BY <2>1, <3>1, PlaceOrder, Zenon
  <2> QED BY <2>2, <2>3
<1> QED BY <1>1, FirstIs

(* A query goes to the source of its prefix.                               *)
LEMMA PrefixFirst ==
  ASSUME NEW id, id.site = "text", NEW s \in enabled, enabled \subseteq Names,
         id.prefix \in DOMAIN Sources[s].prefixes
  PROVE  First(id) = s
<1>1. Handles(s, id)
  BY DEF Handles
<1>2. ASSUME NEW t \in enabled, Handles(t, id)
      PROVE  Place[s] <= Place[t]
  <2>1. ~OnSite(t, id) /\ t \in Names /\ s \in Names
    BY NotNames DEF OnSite
  <2>2. id.prefix \in DOMAIN Sources[t].prefixes
    BY <1>2, <2>1 DEF Handles
  <2>3. Owner[id.prefix] = t /\ Owner[id.prefix] = s
    <3>1. Owner[id.prefix] = t
      BY <2>1, <2>2, OwnerFacts
    <3>2. Owner[id.prefix] = s
      BY <2>1, OwnerFacts
    <3> QED BY <3>1, <3>2
  <2> QED BY <2>1, <2>3, PlaceOrder, Zenon
<1> QED BY <1>1, <1>2, FirstIs

LEMMA NotBelow == \A m, n \in Nat : ~(m < n /\ n <= m)
OBVIOUS

(* What a load makes of a page whose patterns can all be used.             *)
LEMMA LoadsAsItIs ==
  ASSUME NEW s \in Names, NEW id, id.prefix = "", NEW known,
         id.page \in PatternPages(s), id.page \notin Skipped,
         \A n \in DOMAIN Sources[s].patterns :
           id.page \in Sources[s].patterns[n].pages => Usable(s, n, known)
  PROVE  Loaded(s, id, known) = Kind(id.page)
<1> DEFINE hits == {n \in DOMAIN Sources[s].patterns :
                      id.page \in Sources[s].patterns[n].pages /\ Usable(s, n, known)}
<1>1. id.prefix \notin DOMAIN Sources[s].prefixes
  BY OwnerFacts
<1>2. Arranged(Sources[s].patterns)
  BY PagesLoad
<1>3. hits # {} /\ hits \subseteq Nat
  BY <1>2, PatternFacts DEF Takes, Arranged
<1>4. PICK n : n = Min(hits)
  OBVIOUS
<1>5. n \in hits /\ \A m \in hits : n <= m
  BY <1>3, <1>4, MinIs
<1>6. \A m \in DOMAIN Sources[s].patterns : m < n => id.page \notin Sources[s].patterns[m].pages
  <2> SUFFICES ASSUME NEW m \in DOMAIN Sources[s].patterns, m < n,
                      id.page \in Sources[s].patterns[m].pages
               PROVE  FALSE
    OBVIOUS
  <2>1. m \in hits
    OBVIOUS
  <2>2. n <= m /\ m \in Nat /\ n \in Nat
    BY <2>1, <1>3, <1>5
  <2> QED BY <2>2, NotBelow, Zenon
<1>7. Sources[s].patterns[n].loads = Kind(id.page)
  <2>1. n \in DOMAIN Sources[s].patterns /\ id.page \in Sources[s].patterns[n].pages \ Skipped
    BY <1>5
  <2> HIDE DEF hits
  <2> QED BY <1>2, <1>6, <2>1, Zenon DEF Arranged
<1>8. Loaded(s, id, known) = Sources[s].patterns[Min(hits)].loads
  BY <1>1, <1>3, Zenon DEF Loaded
<1> QED BY <1>4, <1>7, <1>8

(* Audiomack has compiled the pattern of a page by the time it loads it.   *)
LEMMA FiveOf ==
  \A a, b, c, d, e : \A n \in DOMAIN <<a, b, c, d, e>> :
    <<a, b, c, d, e>>[n] \in {a, b, c, d, e}
OBVIOUS

LEMMA SinglePages ==
  \A n \in DOMAIN audiomack.patterns :
    \E page \in {"song", "album", "playlist", "likes", "artist"} :
      audiomack.patterns[n].pages = {page}
<1>1. \A n \in DOMAIN audiomack.patterns :
        audiomack.patterns[n] \in
          {Tracks({"song"}), Lists({"album"}), Lists({"playlist"}), Lists({"likes"}),
           Lists({"artist"})}
  BY FiveOf DEF audiomack, Source
<1> QED BY <1>1 DEF Tracks, Lists

LEMMA CompiledOnce ==
  \A page \in {"song", "album", "playlist", "likes", "artist"} :
    \E m \in DOMAIN CompileOrder :
      CompileOrder[m] = page /\ \A k \in 1 .. m - 1 : CompileOrder[k] # page
<1>1. /\ DOMAIN CompileOrder = 1 .. 5
      /\ CompileOrder[1] = "song" /\ CompileOrder[2] = "album" /\ CompileOrder[3] = "playlist"
      /\ CompileOrder[4] = "artist" /\ CompileOrder[5] = "likes"
  BY DEF CompileOrder
<1> QED BY <1>1

LEMMA CompiledInTime ==
  ASSUME NEW id, id.prefix = "", id.site = "audiomack", "audiomack" \in enabled,
         enabled \subseteq Names, First(id) = "audiomack",
         NEW n \in DOMAIN Sources["audiomack"].patterns,
         id.page \in Sources["audiomack"].patterns[n].pages
  PROVE  Usable("audiomack", n, Compiles(id))
<1>1. /\ Sources["audiomack"].patterns[n].pages = {id.page}
      /\ id.page \in {"song", "album", "playlist", "likes", "artist"}
  <2>1. Sources["audiomack"] = audiomack
    BY SourceTable
  <2> QED BY ZenonT(60), <2>1, SinglePages
<1>2. Reaches(id)
  <2>1. Asked(id) # {} /\ Order[Min(Asked(id))] = "audiomack"
    BY NotNames DEF First
  <2>2. Asked(id) \subseteq 1 .. 27
    BY OrderFacts DEF Asked
  <2>3. Min(Asked(id)) \in Asked(id) /\ \A k \in Asked(id) : Min(Asked(id)) <= k
    <3>1. Asked(id) \subseteq Nat
      BY AskedType, Zenon
    <3> QED BY <2>1, <3>1, MinIs
  <2>4. \A m \in DOMAIN Order : Order[m] = "audiomack" => m = Min(Asked(id))
    <3>1. \A m \in 1 .. 27 : Place[Order[m]] = m
      BY OrderFacts
    <3>2. Place[Order[Min(Asked(id))]] = Min(Asked(id))
      BY <2>2, <2>3, <3>1
    <3>3. DOMAIN Order = 1 .. 27
      BY OrderFacts
    <3> QED BY <2>1, <3>1, <3>2, <3>3, Zenon
  <2>5. \A k \in Asked(id), m \in DOMAIN Order : Order[m] = "audiomack" => k >= m
    <3> TAKE k \in Asked(id), m \in DOMAIN Order
    <3> HAVE Order[m] = "audiomack"
    <3>1. m = Min(Asked(id)) /\ Min(Asked(id)) <= k
      BY <2>3, <2>4
    <3> QED BY <3>1
  <2> QED BY <2>5 DEF Reaches
<1>3. id.prefix \notin DOMAIN audiomack.prefixes
  <2>1. "audiomack" \in Names /\ Sources["audiomack"] = audiomack
    BY SourceTable, NamesTable
  <2> QED BY <2>1, OwnerFacts
<1>4. \E m \in DOMAIN CompileOrder :
        CompileOrder[m] = id.page /\ \A k \in 1 .. m - 1 : CompileOrder[k] # id.page
  BY <1>1, CompiledOnce
<1>5. id.page \in Compiles(id)
  BY <1>2, <1>3, <1>4 DEF Compiles
<1> QED BY <1>1, <1>5 DEF Usable

-----------------------------------------------------------------------------
(* The invariant of routing: the track that the client has got is one that *)
(* the source of the load has named, and it is asked of the first source   *)
(* that handles its URI.                                                   *)
Traced ==
  /\ enabled \subseteq Names
  /\ asked = NoTrack => uri = NoTrack /\ player = None
  /\ uri # NoTrack => loader \in enabled /\ loader = First(asked) /\ uri = Uri(loader, asked)
  /\ player # None => uri # NoTrack /\ player = First(uri)
RoutingInv == Traced /\ RightLoad

LEMMA SiteOf ==
  \A p, s, page : /\ Identifier(p, s, page).prefix = p /\ Identifier(p, s, page).site = s
                  /\ Identifier(p, s, page).page = page
BY DEF Identifier

LEMMA IdentifierTypes ==
  ASSUME NEW id \in Identifiers
  PROVE  id # NoTrack
<1>1. CASE id \in Queries
  <2>1. PICK p \in AllPrefixes : id.prefix = p
    BY <1>1 DEF Queries, Identifier
  <2>2. p # ""
    <3>1. PICK s \in Names : p \in DOMAIN Sources[s].prefixes
      BY DEF AllPrefixes, Names
    <3> QED BY <3>1, OwnerFacts
  <2>3. NoTrack.prefix = ""
    BY DEF NoTrack, Identifier
  <2> QED BY <2>1, <2>2, <2>3
<1>2. CASE id \in Urls
  <2>1. id.site \in Names \cup {"web"}
    <3>1. "local" \in DOMAIN Sources
      BY NamesTable DEF Names
    <3>2. CASE id = Identifier("", "web", "page") \/ id = Identifier("", "local", "file")
      <4>1. CASE id = Identifier("", "web", "page")
        BY <4>1 DEF Identifier
      <4>2. CASE id = Identifier("", "local", "file")
        <5>1. id.site = "local"
          BY <4>2 DEF Identifier
        <5> QED BY <3>1, <5>1 DEF Names
      <4> QED BY <3>2, <4>1, <4>2
    <3>3. CASE \E s \in DOMAIN Sources \ (Tts \cup {"http", "local"}) :
                 id \in {Identifier("", s, page) : page \in PatternPages(s) \cup {"other"}}
      <4>1. PICK s \in DOMAIN Sources :
                   \E page \in PatternPages(s) \cup {"other"} : id = Identifier("", s, page)
        BY <3>3, Zenon
      <4>2. PICK page \in PatternPages(s) \cup {"other"} : id = Identifier("", s, page)
        BY <4>1, Zenon
      <4>3. id.site = s
        BY <4>2 DEF Identifier
      <4> QED BY <4>3 DEF Names
    <3>4. \/ id \in UNION {{Identifier("", s, page) : page \in PatternPages(s) \cup {"other"}} :
                            s \in DOMAIN Sources \ (Tts \cup {"http", "local"})}
          \/ id \in {Identifier("", "web", "page"), Identifier("", "local", "file")}
      BY <1>2, Zenon DEF Urls
    <3>5. CASE id \in {Identifier("", "web", "page"), Identifier("", "local", "file")}
      BY <3>2, <3>5, Zenon
    <3>6. CASE id \in UNION {{Identifier("", s, page) : page \in PatternPages(s) \cup {"other"}} :
                            s \in DOMAIN Sources \ (Tts \cup {"http", "local"})}
      <4>1. \E s \in DOMAIN Sources \ (Tts \cup {"http", "local"}) :
               id \in {Identifier("", s, page) : page \in PatternPages(s) \cup {"other"}}
        BY <3>6, Zenon
      <4> QED BY <4>1, <3>3
    <3> QED BY <3>4, <3>5, <3>6
  <2>2. NoTrack.site = None
    BY DEF NoTrack, Identifier
  <2> QED BY <2>1, <2>2, NotNames DEF None
<1> QED BY <1>1, <1>2 DEF Identifiers

(* Nothing asked is right.                                                 *)
LEMMA NothingIsRight ==
  ASSUME asked = NoTrack, enabled \subseteq Names
  PROVE  RightLoad
<1>1. asked.prefix = "" /\ asked.site = None
  BY DEF NoTrack, Identifier
<1>2. asked.site \notin enabled
  BY <1>1, NotNames
<1>3. \A s \in enabled : asked.prefix \notin DOMAIN Sources[s].prefixes
  BY <1>1, OwnerFacts
<1> QED BY <1>2, <1>3 DEF RightLoad

LEMMA KindFacts ==
  \A page : Kind(page) = (IF page \in TrackPages THEN "track" ELSE "list") /\ Kind(page) # "redirect"
BY DEF Kind

(* Where a load without a prefix goes, and what it makes of a page.        *)
LEMMA SiteLoad ==
  ASSUME NEW id, id.prefix = "", id.site \in enabled, enabled \subseteq Names,
         id.page \in Pages(id.site)
  PROVE  First(id) = id.site /\ Loaded(id.site, id, Compiles(id)) = Kind(id.page)
<1>1. PICK s \in enabled : s = id.site
  OBVIOUS
<1>2. s \in Names /\ id.page \in PatternPages(s) /\ id.page \notin Skipped
  BY <1>1 DEF Pages, Skipped
<1>3. s \notin Tts \cup {"http"}
  BY <1>2, PatternFacts
<1>4. Handles(s, id)
  BY <1>1, <1>2, <1>3 DEF Handles, OnSite
<1>5. First(id) = s
  BY <1>1, <1>3, <1>4, SiteFirst
<1>6. ASSUME NEW n \in DOMAIN Sources[s].patterns, id.page \in Sources[s].patterns[n].pages
      PROVE  Usable(s, n, Compiles(id))
  <2>1. CASE s = "audiomack"
    BY <1>1, <1>5, <1>6, <2>1, CompiledInTime
  <2>2. CASE s # "audiomack"
    BY <2>2 DEF Usable
  <2> QED BY <2>1, <2>2
<1>7. Loaded(s, id, Compiles(id)) = Kind(id.page)
  BY <1>2, <1>6, LoadsAsItIs
<1> QED BY <1>1, <1>5, <1>7

(* Where a query goes, and what its prefix loads.                          *)
LEMMA QueryLoad ==
  ASSUME NEW id, NEW known, NEW s \in enabled, enabled \subseteq Names,
         id.prefix \in DOMAIN Sources[s].prefixes, id.site = "text"
  PROVE  /\ First(id) = s /\ Loaded(s, id, known) = Sources[s].prefixes[id.prefix]
         /\ Loaded(s, id, known) # "redirect"
<1>1. First(id) = s
  BY PrefixFirst
<1>2. Loaded(s, id, known) = Sources[s].prefixes[id.prefix]
  BY Zenon DEF Loaded
<1>3. Sources[s].prefixes[id.prefix] \in {"search", "track", "list"}
  BY OwnerFacts
<1> QED BY <1>1, <1>2, <1>3

LEMMA RoutingStarts == RoutingInit /\ RoutingAssumption => RoutingInv
<1> SUFFICES ASSUME RoutingInit, RoutingAssumption PROVE RoutingInv
  OBVIOUS
<1>1. Traced
  BY DEF RoutingInit, RoutingAssumption, Traced, Names
<1> QED BY <1>1, NothingIsRight DEF RoutingInv, RoutingInit, Traced

LEMMA LoadIsRight ==
  ASSUME RoutingInv, NEW id \in Identifiers, Load(id)
  PROVE  RoutingInv'
<1>1. /\ asked = NoTrack /\ asked' = id /\ loader' = First(id) /\ compiled' = Compiles(id)
      /\ enabled' = enabled /\ player' = player
      /\ uri' = NoTrack \/ (result' # "empty" /\ uri' = Uri(loader', id))
  BY DEF Load
<1>2. enabled \subseteq Names /\ player = None
  BY <1>1 DEF RoutingInv, Traced
<1>3. loader' = None => result' = "empty"
  BY DEF Load
<1>4. loader' # None /\ Loaded(loader', id, compiled') # "redirect"
        => result' = Loaded(loader', id, compiled')
  BY DEF Load
<1>5. First(id)' = First(id)
  BY <1>1 DEF First, Asked
<1>6. Traced'
  <2>1. asked' # NoTrack
    BY <1>1, IdentifierTypes
  <2>2. uri' # NoTrack => loader' # None /\ uri' = Uri(loader', id)
    BY <1>1, <1>3
  <2>3. loader' # None => loader' \in enabled
    BY <1>1, FirstFacts
  <2>4. First(asked)' = First(id)
    BY <1>1, <1>5 DEF First, Asked
  <2>5. Uri(loader, asked)' = Uri(loader', id)
    BY <1>1 DEF Uri
  <2> QED BY <1>1, <1>2, <2>1, <2>2, <2>3, <2>4, <2>5 DEF Traced
<1>7. RightLoad'
  <2>1. ASSUME id.prefix = "", id.site \in enabled, id.page \in Pages(id.site)
        PROVE  /\ loader' = id.site
               /\ result' = IF id.page \in TrackPages THEN "track" ELSE "list"
    <3>1. First(id) = id.site /\ Loaded(id.site, id, Compiles(id)) = Kind(id.page)
      BY <1>2, <2>1, SiteLoad
    <3>2. id.site # None
      BY <1>2, <2>1, NotNames
    <3> QED BY <1>1, <1>4, <3>1, <3>2, KindFacts
  <2>2. ASSUME NEW s \in enabled, id.prefix \in DOMAIN Sources[s].prefixes, id.site = "text"
        PROVE  loader' = s /\ result' = Sources[s].prefixes[id.prefix]
    <3>1. /\ First(id) = s /\ Loaded(s, id, compiled') = Sources[s].prefixes[id.prefix]
          /\ Loaded(s, id, compiled') # "redirect"
      BY <1>2, <2>2, QueryLoad
    <3>2. s # None
      BY <1>2, <2>2, NotNames
    <3> QED BY <1>1, <1>4, <3>1, <3>2
  <2> QED BY <1>1, <2>1, <2>2 DEF RightLoad
<1> QED BY <1>6, <1>7 DEF RoutingInv

LEMMA PlayIsRight ==
  ASSUME RoutingInv, Play
  PROVE  RoutingInv'
<1>1. /\ uri # NoTrack /\ player' = First(uri)
      /\ enabled' = enabled /\ asked' = asked /\ loader' = loader /\ result' = result /\ uri' = uri
  BY DEF Play
<1>2. asked # NoTrack
  BY <1>1 DEF RoutingInv, Traced
<1>3. First(uri)' = First(uri) /\ First(asked)' = First(asked) /\ Uri(loader, asked)' = Uri(loader, asked)
  BY <1>1 DEF First, Asked, Uri
<1>4. Traced'
  BY <1>1, <1>2, <1>3 DEF RoutingInv, Traced
<1>5. RightLoad'
  BY <1>1 DEF RoutingInv, RightLoad
<1> QED BY <1>4, <1>5 DEF RoutingInv

LEMMA TurnIsRight ==
  ASSUME RoutingInv, Turn
  PROVE  RoutingInv'
<1>1. /\ asked' = NoTrack /\ uri' = NoTrack /\ player' = None /\ enabled' = enabled
  BY DEF Turn
<1>2. Traced'
  BY <1>1 DEF RoutingInv, Traced
<1>3. RightLoad'
  <2>1. asked'.prefix = "" /\ asked'.site = None
    BY <1>1 DEF NoTrack, Identifier
  <2>2. enabled' \subseteq Names
    BY <1>2 DEF Traced
  <2>3. asked'.site \notin enabled'
    BY <2>1, <2>2, NotNames
  <2>4. \A s \in enabled' : asked'.prefix \notin DOMAIN Sources[s].prefixes
    BY <2>1, <2>2, OwnerFacts
  <2> QED BY <2>3, <2>4 DEF RightLoad
<1> QED BY <1>2, <1>3 DEF RoutingInv

LEMMA StillIsRight ==
  ASSUME RoutingInv, UNCHANGED routingVars
  PROVE  RoutingInv'
<1>1. /\ enabled' = enabled /\ asked' = asked /\ loader' = loader /\ result' = result /\ uri' = uri
      /\ player' = player
  BY DEF routingVars
<1>2. First(uri)' = First(uri) /\ First(asked)' = First(asked) /\ Uri(loader, asked)' = Uri(loader, asked)
  BY <1>1 DEF First, Asked, Uri
<1>3. Traced'
  BY <1>1, <1>2 DEF RoutingInv, Traced
<1>4. RightLoad'
  BY <1>1 DEF RoutingInv, RightLoad
<1> QED BY <1>3, <1>4 DEF RoutingInv

(* A track goes back to the source that has named it.                      *)
LEMMA NamedComesBack ==
  ASSUME NEW s \in enabled, enabled \subseteq Names, s \notin Tts \cup {"http"},
         NEW id, id = Identifier("", s, TrackPage(s))
  PROVE  /\ First(id) = s
         /\ Sources[s].refused # NamesOnly => id.page \notin Sources[s].refused
<1>1. id.prefix = "" /\ id.site = s /\ id.page = TrackPage(s) /\ s \in Names
  BY DEF Identifier
<1>2. ComesBack(Sources[s], TrackPage(s))
  BY <1>1, TracksComeBack
<1>3. Handles(s, id)
  BY <1>1, <1>2, PatternFacts DEF ComesBack, Handles, OnSite
<1>4. First(id) = s
  BY <1>1, <1>3, SiteFirst
<1> QED BY <1>1, <1>2, <1>4 DEF ComesBack

LEMMA WebIsHttps ==
  ASSUME NEW id, id = Identifier("", "web", "speech"), First(id) # None
  PROVE  First(id) = "http"
<1>1. id.prefix = "" /\ id.site = "web"
  BY DEF Identifier
<1>2. First(id) \in Names /\ Handles(First(id), id)
  BY FirstFacts
<1>3. OnSite(First(id), id)
  BY <1>1, <1>2, PlainHandlers
<1> QED BY <1>1, <1>2, <1>3, NotNames DEF OnSite

LEMMA RoutedRightFollows == RoutingInv => RoutedRight
<1> SUFFICES ASSUME RoutingInv, player # None
             PROVE  IF loader \in Tts THEN player = "http"
                    ELSE /\ player = loader
                         /\ Sources[player].refused # NamesOnly => uri.page \notin Sources[player].refused
  BY DEF RoutedRight, WayBack, RoutingInv
<1>1. /\ loader \in enabled /\ enabled \subseteq Names /\ loader = First(asked)
      /\ uri = Uri(loader, asked) /\ player = First(uri)
  BY DEF RoutingInv, Traced
<1>2. CASE loader \in Tts
  BY <1>1, <1>2, WebIsHttps DEF Uri
<1>3. CASE loader = "http"
  <2>1. player = loader /\ loader \notin Tts
    BY <1>1, <1>3 DEF Uri, Tts
  <2>2. Sources["http"].refused = {}
    BY SourceTable DEF http, Source
  <2> QED BY <1>3, <2>1, <2>2
<1>4. CASE loader \notin Tts \cup {"http"}
  <2>1. uri = Identifier("", loader, TrackPage(loader))
    BY <1>1, <1>4 DEF Uri
  <2> QED BY <1>1, <1>4, <2>1, NamedComesBack
<1> QED BY <1>2, <1>3, <1>4

LEMMA RoutingAlways == PlaybackSpec => []RoutingInv
<1>1. PlaybackInit => RoutingInv
  BY RoutingStarts, PlaybackAssumption DEF PlaybackInit
<1>2. RoutingInv /\ [PlaybackNext]_allVars => RoutingInv'
  <2> SUFFICES ASSUME RoutingInv, [PlaybackNext]_allVars PROVE RoutingInv'
    OBVIOUS
  <2>1. [RoutingNext]_routingVars
    BY DEF PlaybackNext, RoutingStep, ResolvingStep, PlayingStep, allVars
  <2>2. CASE \E id \in Identifiers : Load(id)
    BY <2>2, LoadIsRight
  <2>3. CASE Play
    BY <2>3, PlayIsRight
  <2>4. CASE Turn
    BY <2>4, TurnIsRight
  <2>5. CASE UNCHANGED routingVars
    BY <2>5, StillIsRight
  <2> QED BY <2>1, <2>2, <2>3, <2>4, <2>5 DEF RoutingNext
<1> QED BY <1>1, <1>2, PTL DEF PlaybackSpec

(* manager/mod.rs, load and resolve_track, and registration.rs: whatever   *)
(* sources are registered and whatever was loaded before, a page of a site *)
(* goes to the source of that site and is loaded as what it is, a search   *)
(* goes to the source of its prefix, and a track goes back to the source   *)
(* that has named it, which plays it unless it only names tracks.          *)
THEOREM RoutedRightHolds == PlaybackSpec => []RoutedRight
<1>1. RoutingInv => RoutedRight
  BY RoutedRightFollows
<1> QED BY <1>1, RoutingAlways, PTL
=============================================================================
