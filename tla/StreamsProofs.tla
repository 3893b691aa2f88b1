---------------------------- MODULE StreamsProofs ----------------------------
(***************************************************************************)
(* Proofs about the readers a decoder may be given, each alone and in the  *)
(* run that joins them, for a file of any length, any sizes of buffer,     *)
(* chunks and reads and any number of workers.                             *)
(*   HttpPrefetch: until a seek is served by reading on, the buffer        *)
(* continues the decoder's position and the thread's position continues    *)
(* the buffer, whenever no command is on its way; Match says so.           *)
(*   SegmentedSource: a chunk that is being downloaded has a worker at it, *)
(* and what the decoder sees is a source of bytes, every step of the       *)
(* detailed specification being one of ByteSource or none.                 *)
(*   HlsPrefetch: what is still to be read, from the start of the decoder's*)
(* buffer, is one line of segments in order, and the decoder stands in it  *)
(* before the one due next; Lined says so, and HlsInv when it holds.       *)
(* That reads and seeks come back is left to the runs.                     *)
(***************************************************************************)
EXTENDS MCStreams, SequenceTheorems, WellFoundedInduction, TLAPS

-----------------------------------------------------------------------------
(* HttpPrefetch                                                            *)

Data == 0 .. FileLen - 1

(* Where the thread is, and what it has made sure of before it got there.  *)
Flow ==
  /\ done => pc \in {"command", "gone"}
  /\ pc = "chunk" => buffered < MaxBuf
  /\ pc \in {"room", "chunk"} => response # NoResponse
  /\ pc = "skip" => buffered = 0 /\ target > current_pos /\ response # NoResponse
  /\ response # NoResponse => response >= current_pos

Match ==
  ~skipped =>
    /\ pos + buffered <= FileLen
    /\ chunks = Bytes(pos, buffered)
    /\ command.op = "Seek" => buffered = 0 /\ command.at = pos
    /\ command = Continue /\ pc = "skip" => target = pos
    /\ command = Continue /\ pc \notin {"skip", "gone"} =>
         current_pos = pos + buffered /\ response \in {NoResponse, current_pos}

IInv == TypeOK /\ BufferedIsLength /\ Flow /\ Match /\ RightBytesUnlessSkipped

-----------------------------------------------------------------------------
(* Stretches of the file                                                   *)

LEMMA BytesType ==
  ASSUME NEW from \in Nat, NEW n \in Nat, from + n <= FileLen
  PROVE  /\ Bytes(from, n) \in Seq(Data) /\ Len(Bytes(from, n)) = n
         /\ \A i \in 1 .. n : Bytes(from, n)[i] = from + i - 1
<1>1. Bytes(from, n) \in [1 .. n -> Data]
  BY PrefetchAssumption DEF Bytes, Data
<1>2. Bytes(from, n) \in Seq(Data)
  BY <1>1, SeqDef
<1>3. Len(Bytes(from, n)) = n
  BY <1>1, <1>2, LenProperties
<1> QED BY <1>2, <1>3 DEF Bytes

LEMMA BytesEmpty == ASSUME NEW from \in Nat PROVE Bytes(from, 0) = <<>>
BY DEF Bytes

(* A buffer that holds the bytes of a stretch is that stretch.             *)
LEMMA BytesEqual ==
  ASSUME NEW from \in Nat, NEW m \in Nat, from + m <= FileLen,
         NEW w \in Seq(Data), Len(w) = m, \A i \in 1 .. m : w[i] = from + i - 1
  PROVE  w = Bytes(from, m)
<1> DEFINE u == Bytes(from, m)
<1>1. u \in Seq(Data) /\ Len(u) = m /\ \A i \in 1 .. m : u[i] = from + i - 1
  BY BytesType
<1> HIDE DEF u
<1>2. \A i \in 1 .. Len(w) : w[i] = u[i]
  BY <1>1
<1> QED BY <1>1, <1>2, SeqEqual DEF u

(* The beginning of a stretch, and the rest of it.                         *)
LEMMA BytesSplit ==
  ASSUME NEW from \in Nat, NEW m \in Nat, NEW n \in 0 .. m, from + m <= FileLen
  PROVE  /\ SubSeq(Bytes(from, m), 1, n) = Bytes(from, n)
         /\ SubSeq(Bytes(from, m), n + 1, m) = Bytes(from + n, m - n)
<1> DEFINE s == Bytes(from, m)
           t == Bytes(from, n)
           u == Bytes(from + n, m - n)
<1>1. /\ s \in Seq(Data) /\ Len(s) = m /\ \A i \in 1 .. m : s[i] = from + i - 1
      /\ t \in Seq(Data) /\ Len(t) = n /\ \A i \in 1 .. n : t[i] = from + i - 1
      /\ u \in Seq(Data) /\ Len(u) = m - n
      /\ \A i \in 1 .. m - n : u[i] = from + n + i - 1
  BY BytesType, PrefetchAssumption
<1> HIDE DEF s, t, u
<1>2. \A i \in 1 .. m : s[i] \in Data
  BY <1>1, ElementOfSeq
<1>3. SubSeq(s, 1, n) = t
  <2>1. /\ SubSeq(s, 1, n) \in Seq(Data) /\ Len(SubSeq(s, 1, n)) = n
        /\ \A i \in 1 .. n : SubSeq(s, 1, n)[i] = s[i]
    BY <1>2, SubSeqProperties
  <2> QED BY <1>1, <2>1, SeqEqual
<1>4. SubSeq(s, n + 1, m) = u
  <2>1. /\ SubSeq(s, n + 1, m) \in Seq(Data) /\ Len(SubSeq(s, n + 1, m)) = m - n
        /\ \A i \in 1 .. m - n : SubSeq(s, n + 1, m)[i] = s[n + i]
    BY <1>2, SubSeqProperties
  <2>2. \A i \in 1 .. Len(SubSeq(s, n + 1, m)) : SubSeq(s, n + 1, m)[i] = u[i]
    BY <1>1, <2>1
  <2> QED BY <1>1, <2>1, <2>2, SeqEqual
<1> QED BY <1>3, <1>4 DEF s, t, u

(* What is left of the buffer after some of it is taken.                   *)
LEMMA RestType ==
  ASSUME NEW s \in Seq(Data), NEW n \in 0 .. Len(s)
  PROVE  SubSeq(s, n + 1, Len(s)) \in Seq(Data) /\ Len(SubSeq(s, n + 1, Len(s))) = Len(s) - n
<1>1. Len(s) \in Nat /\ \A i \in 1 .. Len(s) : s[i] \in Data
  BY LenProperties, ElementOfSeq
<1> QED BY <1>1, SubSeqProperties
-----------------------------------------------------------------------------
(* The invariant                                                           *)

(* The commands are told apart by their op.                                *)
LEMMA Commands ==
  /\ Continue.op = "Continue" /\ Stop.op = "Stop" /\ Stop # Continue
  /\ \A p : SeekTo(p).op = "Seek" /\ SeekTo(p).at = p /\ SeekTo(p) # Continue
BY DEF Continue, Stop, SeekTo

(* The first response is open at 0, where the decoder and the buffer are.  *)
LEMMA InitInv == Init => IInv
<1> SUFFICES ASSUME Init PROVE IInv
  OBVIOUS
<1>1. TypeOK
  <2>1. <<>> \in Seq(Data)
    OBVIOUS
  <2>2. command \in {Continue, Stop} \cup {SeekTo(p) : p \in Position}
    BY DEF Init
  <2>3. chunks \in Seq(Data)
    BY <2>1 DEF Init
  <2>4. /\ done \in BOOLEAN /\ error \in BOOLEAN /\ wrong \in BOOLEAN
        /\ early \in BOOLEAN /\ skipped \in BOOLEAN
    BY Zenon DEF Init
  <2>5. /\ buffered \in 0 .. MaxBuf + MaxChunk - 1
        /\ pos \in Position /\ target \in Position /\ current_pos \in Position
        /\ retry_count \in 0 .. MaxRetries /\ response \in Position \cup {NoResponse}
        /\ reader \in {"idle", "reading", "failed", "closed"}
        /\ pc \in {"command", "skip", "fetch", "room", "chunk", "gone"}
    BY PrefetchAssumption DEF Init, Position
  <2> QED BY <2>2, <2>3, <2>4, <2>5, Zenon DEF TypeOK, Data
<1>2. Flow /\ BufferedIsLength
  BY PrefetchAssumption DEF Init, Flow, NoResponse, BufferedIsLength
<1>3. Match
  BY PrefetchAssumption, BytesEmpty, Commands DEF Init, Match, NoResponse
<1> QED BY <1>1, <1>2, <1>3 DEF Init, IInv, RightBytesUnlessSkipped

(* Reads and seeks; a seek beyond the buffer leaves it empty.              *)
LEMMA DecoderInv ==
  ASSUME IInv, Decoder
  PROVE  IInv'
<1> USE Commands, PrefetchAssumption
    DEF Position, NoResponse, sharedVars, readerVars, threadVars, historyVars
<1>1. CASE BeginRead
  <2>1. TypeOK'
    BY <1>1 DEF IInv, TypeOK, BeginRead
  <2>2. BufferedIsLength' /\ Flow' /\ RightBytesUnlessSkipped'
    BY <1>1 DEF IInv, TypeOK, BufferedIsLength, Flow, RightBytesUnlessSkipped, BeginRead
  <2>3. Match'
    BY <1>1 DEF IInv, TypeOK, Flow, Match, BeginRead
  <2> QED BY <2>1, <2>2, <2>3 DEF IInv
<1>2. CASE ReadError
  <2>1. TypeOK'
    BY <1>2 DEF IInv, TypeOK, ReadError
  <2>2. BufferedIsLength' /\ Flow' /\ RightBytesUnlessSkipped'
    BY <1>2 DEF IInv, TypeOK, BufferedIsLength, Flow, RightBytesUnlessSkipped, ReadError
  <2>3. Match'
    BY <1>2 DEF IInv, TypeOK, Flow, Match, ReadError
  <2> QED BY <2>1, <2>2, <2>3 DEF IInv
<1>3. ASSUME NEW want \in 1 .. MaxRead, ReadBytes(want)
      PROVE  IInv'
  <2> DEFINE n == IF Len(chunks) < want THEN Len(chunks) ELSE want
  <2>1. /\ n \in 0 .. Len(chunks) /\ Len(chunks) = buffered /\ chunks \in Seq(Data)
        /\ buffered \in Nat /\ pos \in 0 .. FileLen
    BY SMTT(60), <1>3 DEF IInv, TypeOK, BufferedIsLength, Data
  <2>2. /\ wrong' = (wrong \/ SubSeq(chunks, 1, n) # Bytes(pos, n))
        /\ early' = (early \/ (n = 0 /\ pos < FileLen))
        /\ chunks' = SubSeq(chunks, n + 1, Len(chunks)) /\ buffered' = buffered - n
        /\ pos' = IF pos + n > FileLen THEN FileLen ELSE pos + n
        /\ reader' = "idle"
        /\ UNCHANGED <<done, error, command, pc, threadVars, skipped>>
    BY <1>3 DEF ReadBytes
  <2> HIDE DEF n
  <2>3. chunks' \in Seq(Data) /\ Len(chunks') = Len(chunks) - n
    BY <2>1, <2>2, RestType
  <2>4. TypeOK'
    <3>1. wrong' \in BOOLEAN /\ early' \in BOOLEAN
      BY <2>2, Zenon
    <3>2. pos' \in Position /\ buffered' \in 0 .. MaxBuf + MaxChunk - 1
      <4>1. pos' \in 0 .. FileLen
        BY <2>1, <2>2
      <4>2. buffered \in 0 .. MaxBuf + MaxChunk - 1
        BY DEF IInv, TypeOK
      <4>3. buffered' \in 0 .. MaxBuf + MaxChunk - 1
        BY <2>1, <2>2, <4>2
      <4> QED BY <4>1, <4>3
    <3> QED BY <2>2, <2>3, <3>1, <3>2 DEF IInv, TypeOK, Data
  <2>5. BufferedIsLength' /\ Flow'
    BY <2>1, <2>2, <2>3 DEF IInv, TypeOK, BufferedIsLength, Flow
  <2>6. ASSUME ~skipped
        PROVE  /\ chunks' = Bytes(pos', buffered') /\ pos' = pos + n
               /\ SubSeq(chunks, 1, n) = Bytes(pos, n)
    <3>1. pos + buffered <= FileLen /\ chunks = Bytes(pos, buffered)
      BY <2>6 DEF IInv, Match
    <3>2. pos' = pos + n
      BY <2>1, <2>2, <3>1
    <3>3. /\ SubSeq(Bytes(pos, buffered), 1, n) = Bytes(pos, n)
          /\ SubSeq(Bytes(pos, buffered), n + 1, buffered) = Bytes(pos + n, buffered - n)
      <4>1. pos \in Nat /\ buffered \in Nat /\ n \in 0 .. buffered
        BY <2>1
      <4> QED BY ZenonT(60), <3>1, <4>1, BytesSplit
    <3> QED BY <2>1, <2>2, <3>1, <3>2, <3>3
  <2>7. Match'
    BY <2>1, <2>2, <2>6 DEF IInv, TypeOK, Flow, Match
  <2>8. RightBytesUnlessSkipped'
    BY <2>2, <2>6 DEF IInv, RightBytesUnlessSkipped
  <2> QED BY <2>4, <2>5, <2>7, <2>8 DEF IInv
<1>4. ASSUME NEW p \in Position, SeekBuffered(p)
      PROVE  IInv'
  <2> DEFINE n == p - pos
  <2>1. /\ n \in 1 .. Len(chunks) /\ Len(chunks) = buffered /\ chunks \in Seq(Data)
        /\ buffered \in Nat /\ pos \in 0 .. FileLen
    BY <1>4 DEF IInv, TypeOK, BufferedIsLength, Data, SeekBuffered
  <2>2. /\ chunks' = SubSeq(chunks, n + 1, Len(chunks)) /\ buffered' = buffered - n
        /\ pos' = pos + n /\ pos' = p
        /\ UNCHANGED <<done, error, command, reader, pc, threadVars, historyVars>>
    BY <1>4, <2>1 DEF SeekBuffered
  <2> HIDE DEF n
  <2>3. chunks' \in Seq(Data) /\ Len(chunks') = Len(chunks) - n
    BY <2>1, <2>2, RestType
  <2>4. TypeOK'
    BY <2>1, <2>2, <2>3 DEF IInv, TypeOK, Data
  <2>5. BufferedIsLength' /\ Flow'
    BY <2>1, <2>2, <2>3 DEF IInv, TypeOK, BufferedIsLength, Flow
  <2>6. ASSUME ~skipped
        PROVE  chunks' = Bytes(pos', buffered')
    <3>1. pos + buffered <= FileLen /\ chunks = Bytes(pos, buffered)
      BY <2>6 DEF IInv, Match
    <3>2. SubSeq(Bytes(pos, buffered), n + 1, buffered) = Bytes(pos + n, buffered - n)
      <4>1. pos \in Nat /\ buffered \in Nat /\ n \in 0 .. buffered
        BY <2>1
      <4> QED BY ZenonT(60), <3>1, <4>1, BytesSplit
    <3> QED BY <2>1, <2>2, <3>1, <3>2
  <2>7. Match'
    BY <2>1, <2>2, <2>6 DEF IInv, TypeOK, Flow, Match
  <2> QED BY <2>2, <2>4, <2>5, <2>7 DEF IInv, RightBytesUnlessSkipped
<1>5. ASSUME NEW p \in Position, SeekHard(p)
      PROVE  IInv'
  <2>1. chunks' = <<>> /\ <<>> \in Seq(Data) /\ Len(<<>>) = 0 /\ Bytes(p, 0) = <<>>
    BY <1>5, BytesEmpty DEF SeekHard
  <2>2. TypeOK'
    <3>1. /\ chunks' \in Seq(Data) /\ buffered' = 0 /\ done' = FALSE /\ error' = FALSE
          /\ pos' \in Position /\ UNCHANGED <<reader, pc, threadVars, historyVars>>
      BY <1>5, <2>1 DEF SeekHard
    <3>2. command' \in {Continue, Stop} \cup {SeekTo(q) : q \in Position}
      BY <1>5 DEF SeekHard
    <3>3. buffered' \in 0 .. MaxBuf + MaxChunk - 1
      BY <3>1
    <3> QED BY <3>1, <3>2, <3>3, Zenon DEF IInv, TypeOK, Data
  <2>3. BufferedIsLength' /\ Flow'
    BY <1>5, <2>1 DEF IInv, TypeOK, BufferedIsLength, Flow, SeekHard
  <2>4. Match'
    BY <1>5, <2>1 DEF IInv, TypeOK, Match, SeekHard
  <2> QED BY <1>5, <2>2, <2>3, <2>4 DEF IInv, RightBytesUnlessSkipped, SeekHard
<1>6. CASE Close
  <2>1. TypeOK'
    BY <1>6 DEF IInv, TypeOK, Close
  <2>2. BufferedIsLength' /\ Flow' /\ RightBytesUnlessSkipped'
    BY <1>6 DEF IInv, TypeOK, BufferedIsLength, Flow, RightBytesUnlessSkipped, Close
  <2>3. Match'
    BY <1>6 DEF IInv, TypeOK, Flow, Match, Close
  <2> QED BY <2>1, <2>2, <2>3 DEF IInv
<1> QED BY <1>1, <1>2, <1>3, <1>4, <1>5, <1>6 DEF Decoder

(* The thread's steps between its waits for the network.                   *)
LEMMA ThreadInv ==
  ASSUME IInv, ObeyStop \/ ObeySeek \/ ObeyContinue \/ HasResponse \/ Room
  PROVE  IInv'
<1> USE Commands, PrefetchAssumption
    DEF Position, NoResponse, sharedVars, readerVars, threadVars, historyVars
<1>1. CASE ObeyStop
  <2>1. TypeOK'
    BY <1>1 DEF IInv, TypeOK, ObeyStop
  <2>2. BufferedIsLength' /\ Flow' /\ RightBytesUnlessSkipped'
    BY <1>1 DEF IInv, TypeOK, BufferedIsLength, Flow, RightBytesUnlessSkipped, ObeyStop
  <2>3. Match'
    BY <1>1 DEF IInv, TypeOK, Flow, Match, ObeyStop
  <2> QED BY <2>1, <2>2, <2>3 DEF IInv
<1>2. CASE ObeySeek
  <2>1. /\ chunks' = <<>> /\ <<>> \in Seq(Data) /\ Len(<<>>) = 0
        /\ \A p \in Position : Bytes(p, 0) = <<>>
    BY <1>2, BytesEmpty DEF ObeySeek
  <2>2. command.at \in Position
    BY <1>2 DEF IInv, TypeOK, ObeySeek
  <2>3. TypeOK'
    <3>1. chunks' \in Seq(Data) /\ buffered' = 0 /\ done' = FALSE /\ command' = Continue
          /\ target' \in Position
      BY <1>2, <2>1, <2>2 DEF ObeySeek
    <3>2. /\ pc' \in {"skip", "fetch"} /\ current_pos' \in Position
          /\ response' \in Position \cup {NoResponse} /\ retry_count' \in 0 .. MaxRetries
      <4>1. /\ current_pos \in Position /\ response \in Position \cup {NoResponse}
            /\ retry_count \in 0 .. MaxRetries /\ 0 \in 0 .. MaxRetries
        BY DEF IInv, TypeOK
      <4>2. \/ /\ pc' = "skip" /\ UNCHANGED <<current_pos, response, retry_count>>
            \/ /\ pc' = "fetch" /\ current_pos' = command.at /\ response' = NoResponse
               /\ retry_count' = 0
        BY <1>2 DEF ObeySeek
      <4> QED BY <2>2, <4>1, <4>2
    <3>3. UNCHANGED <<error, readerVars, historyVars>>
      BY <1>2 DEF ObeySeek
    <3>4. command' \in {Continue, Stop} \cup {SeekTo(p) : p \in Position}
      BY <3>1
    <3>5. buffered' \in 0 .. MaxBuf + MaxChunk - 1
      BY <3>1
    <3> QED BY <3>1, <3>2, <3>3, <3>4, <3>5, Zenon DEF IInv, TypeOK, Data
  <2>4. BufferedIsLength' /\ Flow'
    BY <1>2, <2>1, <2>2 DEF IInv, TypeOK, BufferedIsLength, Flow, ObeySeek
  <2>5. Match'
    BY <1>2, <2>1, <2>2 DEF IInv, TypeOK, Match, ObeySeek
  <2> QED BY <1>2, <2>3, <2>4, <2>5 DEF IInv, RightBytesUnlessSkipped, ObeySeek
<1>3. CASE ObeyContinue
  <2>1. TypeOK'
    BY <1>3 DEF IInv, TypeOK, ObeyContinue
  <2>2. BufferedIsLength' /\ Flow' /\ RightBytesUnlessSkipped'
    BY <1>3 DEF IInv, TypeOK, BufferedIsLength, Flow, RightBytesUnlessSkipped, ObeyContinue
  <2>3. Match'
    BY <1>3 DEF IInv, TypeOK, Flow, Match, ObeyContinue
  <2> QED BY <2>1, <2>2, <2>3 DEF IInv
<1>4. CASE HasResponse
  <2>1. TypeOK'
    BY <1>4 DEF IInv, TypeOK, HasResponse
  <2>2. BufferedIsLength' /\ Flow' /\ RightBytesUnlessSkipped'
    BY <1>4 DEF IInv, TypeOK, BufferedIsLength, Flow, RightBytesUnlessSkipped, HasResponse
  <2>3. Match'
    BY <1>4 DEF IInv, TypeOK, Flow, Match, HasResponse
  <2> QED BY <2>1, <2>2, <2>3 DEF IInv
<1>5. CASE Room
  <2>1. TypeOK'
    BY <1>5 DEF IInv, TypeOK, Room
  <2>2. BufferedIsLength' /\ Flow' /\ RightBytesUnlessSkipped'
    BY <1>5 DEF IInv, TypeOK, BufferedIsLength, Flow, RightBytesUnlessSkipped, Room
  <2>3. Match'
    BY <1>5 DEF IInv, TypeOK, Flow, Match, Room
  <2> QED BY <2>1, <2>2, <2>3 DEF IInv
<1> QED BY <1>1, <1>2, <1>3, <1>4, <1>5

(* A retry stays in its limit, and changes no position.                    *)
LEMMA RetryType ==
  ASSUME TypeOK, GiveUpOrRetry
  PROVE  /\ error' \in BOOLEAN /\ retry_count' \in 0 .. MaxRetries
         /\ pc' \in {"command", "gone"} /\ UNCHANGED <<target, current_pos>>
<1>1. retry_count \in 0 .. MaxRetries /\ error \in BOOLEAN
  BY DEF TypeOK
<1>2. CASE retry_count >= MaxRetries
  BY <1>1, <1>2 DEF GiveUpOrRetry
<1>3. CASE ~(retry_count >= MaxRetries)
  <2>1. retry_count' \in 0 .. MaxRetries
    BY <1>1, <1>3, PrefetchAssumption DEF GiveUpOrRetry
  <2> QED BY <1>1, <1>3, <2>1 DEF GiveUpOrRetry
<1> QED BY <1>2, <1>3

(* What the network brings, in a response's order or not at all.           *)
LEMMA NetworkInv ==
  ASSUME IInv, Network
  PROVE  IInv'
<1> USE Commands, PrefetchAssumption
    DEF Position, NoResponse, sharedVars, readerVars, threadVars, historyVars
<1>1. ASSUME NEW rest \in 0 .. MaxChunk - 1, SkipTo(rest)
      PROVE  IInv'
  <2> DEFINE there == response + (target - current_pos)
  <2>1. /\ response \in 0 .. FileLen /\ target \in 0 .. FileLen /\ current_pos \in 0 .. FileLen
        /\ target > current_pos /\ response >= current_pos /\ buffered = 0 /\ chunks = <<>>
    BY <1>1 DEF IInv, TypeOK, BufferedIsLength, Flow, SkipTo
  <2>2. /\ there \in Nat /\ there >= target /\ there + rest <= FileLen
        /\ chunks' = Bytes(there, rest) \o chunks /\ response' = there + rest
        /\ buffered' = rest /\ current_pos' = target /\ retry_count' = 0
        /\ skipped' = TRUE /\ pc' = "fetch"
        /\ UNCHANGED <<done, error, command, readerVars, target, wrong, early>>
    BY <1>1, <2>1 DEF SkipTo
  <2> HIDE DEF there
  <2>3. chunks' \in Seq(Data) /\ Len(chunks') = rest
    <3>1. Bytes(there, rest) \in Seq(Data) /\ Len(Bytes(there, rest)) = rest
      BY <2>2, BytesType
    <3> QED BY <2>1, <2>2, <3>1
  <2>4. TypeOK'
    BY <2>1, <2>2, <2>3 DEF IInv, TypeOK, Data
  <2>5. BufferedIsLength' /\ Flow'
    BY <1>1, <2>1, <2>2, <2>3 DEF IInv, TypeOK, BufferedIsLength, Flow, SkipTo
  <2> QED BY <2>2, <2>4, <2>5 DEF IInv, Match, RightBytesUnlessSkipped
<1>2. CASE FetchOpens
  <2>1. TypeOK'
    BY <1>2 DEF IInv, TypeOK, FetchOpens
  <2>2. BufferedIsLength' /\ Flow' /\ RightBytesUnlessSkipped'
    BY <1>2 DEF IInv, TypeOK, BufferedIsLength, Flow, RightBytesUnlessSkipped, FetchOpens
  <2>3. Match'
    BY <1>2 DEF IInv, TypeOK, Flow, Match, FetchOpens
  <2> QED BY <2>1, <2>2, <2>3 DEF IInv
<1>3. CASE FetchBeyond
  <2>1. TypeOK'
    BY <1>3 DEF IInv, TypeOK, FetchBeyond
  <2>2. BufferedIsLength' /\ Flow' /\ RightBytesUnlessSkipped'
    BY <1>3 DEF IInv, TypeOK, BufferedIsLength, Flow, RightBytesUnlessSkipped, FetchBeyond
  <2>3. Match'
    BY <1>3 DEF IInv, TypeOK, Flow, Match, FetchBeyond
  <2> QED BY <2>1, <2>2, <2>3 DEF IInv
<1>4. ASSUME NEW n \in 1 .. MaxChunk, Chunk(n)
      PROVE  IInv'
  <2>1. CASE command # Continue
    <3>1. TypeOK'
      BY <1>4, <2>1 DEF IInv, TypeOK, Chunk
    <3>2. BufferedIsLength' /\ Flow' /\ RightBytesUnlessSkipped'
      BY <1>4, <2>1 DEF IInv, TypeOK, BufferedIsLength, Flow, RightBytesUnlessSkipped, Chunk
    <3>3. Match'
      BY <1>4, <2>1 DEF IInv, TypeOK, Flow, Match, Chunk
    <3> QED BY <3>1, <3>2, <3>3 DEF IInv
  <2>2. CASE command = Continue
    <3>1. /\ response \in 0 .. FileLen /\ response + n <= FileLen
          /\ current_pos \in 0 .. FileLen /\ response >= current_pos
          /\ buffered \in 0 .. MaxBuf - 1 /\ pos \in 0 .. FileLen
          /\ chunks \in Seq(Data) /\ Len(chunks) = buffered
      BY <1>4 DEF IInv, TypeOK, BufferedIsLength, Flow, Chunk, Data
    <3>2. /\ response' = response + n /\ current_pos' = current_pos + n
          /\ chunks' = chunks \o Bytes(response, n) /\ buffered' = buffered + n
          /\ pc' = "command"
          /\ UNCHANGED <<done, error, command, readerVars, target, retry_count, historyVars>>
      BY <1>4, <2>2 DEF Chunk
    <3>3. Bytes(response, n) \in Seq(Data) /\ Len(Bytes(response, n)) = n
      BY <3>1, BytesType
    <3>4. chunks' \in Seq(Data) /\ Len(chunks') = buffered + n
      <4>1. /\ chunks \o Bytes(response, n) \in Seq(Data)
            /\ Len(chunks \o Bytes(response, n)) = Len(chunks) + Len(Bytes(response, n))
        BY <3>1, <3>3, ConcatProperties
      <4> QED BY <3>1, <3>2, <3>3, <4>1
    <3>5. TypeOK'
      BY <3>1, <3>2, <3>4 DEF IInv, TypeOK, Data
    <3>6. BufferedIsLength' /\ Flow'
      BY <3>1, <3>2, <3>4 DEF IInv, BufferedIsLength, Flow
    <3>7. ASSUME ~skipped
          PROVE  /\ pos' + buffered' <= FileLen /\ chunks' = Bytes(pos', buffered')
                 /\ current_pos' = pos' + buffered' /\ response' = current_pos'
      <4>1. /\ chunks = Bytes(pos, buffered) /\ response = pos + buffered
            /\ current_pos = response
        BY <1>4, <2>2, <3>1, <3>7 DEF IInv, Match, Chunk
      <4>2. \A i \in 1 .. buffered : chunks[i] = pos + i - 1
        BY <3>1, <4>1, BytesType
      <4>3. \A i \in 1 .. n : Bytes(response, n)[i] = pos + buffered + i - 1
        BY <3>1, <4>1, BytesType
      <4>4. ASSUME NEW i \in 1 .. buffered + n PROVE chunks'[i] = pos + i - 1
        <5>1. chunks'[i] = IF i <= buffered THEN chunks[i] ELSE Bytes(response, n)[i - buffered]
          <6>1. \A j \in 1 .. Len(chunks) + Len(Bytes(response, n)) :
                  (chunks \o Bytes(response, n))[j] =
                    IF j <= Len(chunks) THEN chunks[j] ELSE Bytes(response, n)[j - Len(chunks)]
            BY <3>1, <3>3, ConcatProperties
          <6>2. i \in 1 .. Len(chunks) + Len(Bytes(response, n))
            BY <3>1, <3>3
          <6> QED BY <3>1, <3>2, <6>1, <6>2
        <5>2. CASE i <= buffered
          <6>1. i \in 1 .. buffered
            BY <3>1, <5>2
          <6> QED BY <4>2, <5>1, <5>2, <6>1
        <5>3. CASE ~(i <= buffered)
          <6>1. i - buffered \in 1 .. n /\ pos + buffered + (i - buffered) - 1 = pos + i - 1
            BY <3>1, <5>3
          <6> QED BY <4>3, <5>1, <5>3, <6>1
        <5> QED BY <5>2, <5>3
      <4>5. chunks' = Bytes(pos, buffered + n)
        <5>1. pos \in Nat /\ buffered + n \in Nat /\ pos + (buffered + n) <= FileLen
          BY <3>1, <4>1
        <5> QED BY <3>4, <4>4, <5>1, BytesEqual
      <4> QED BY <3>1, <3>2, <4>1, <4>5
    <3>8. Match'
      BY <2>2, <3>2, <3>7 DEF Match
    <3> QED BY <3>2, <3>5, <3>6, <3>8 DEF IInv, RightBytesUnlessSkipped
  <2> QED BY <2>1, <2>2
<1>5. CASE EndsAtEnd \/ EndsEarly
  <2>1. done' \in BOOLEAN
    BY <1>5, Zenon DEF EndsAtEnd, EndsEarly, ResponseEnds
  <2>2. TypeOK'
    BY SMTT(60), <1>5, <2>1 DEF IInv, TypeOK, EndsAtEnd, EndsEarly, ResponseEnds
  <2>3. BufferedIsLength' /\ Flow' /\ RightBytesUnlessSkipped'
    BY <1>5 DEF IInv, TypeOK, BufferedIsLength, Flow, RightBytesUnlessSkipped,
                EndsAtEnd, EndsEarly, ResponseEnds
  <2>4. Match'
    BY <1>5 DEF IInv, TypeOK, Match, EndsAtEnd, EndsEarly, ResponseEnds
  <2> QED BY <2>2, <2>3, <2>4 DEF IInv
<1>6. CASE SkipFails
  <2>1. TypeOK'
    BY <1>6 DEF IInv, TypeOK, SkipFails
  <2>2. BufferedIsLength' /\ Flow' /\ RightBytesUnlessSkipped'
    BY <1>6 DEF IInv, TypeOK, BufferedIsLength, Flow, RightBytesUnlessSkipped, SkipFails
  <2>3. Match'
    BY <1>6 DEF IInv, TypeOK, Flow, Match, SkipFails
  <2> QED BY <2>1, <2>2, <2>3 DEF IInv
<1>7. CASE FetchFails \/ ChunkFails
  <2>1. TypeOK'
    BY <1>7, RetryType DEF IInv, TypeOK, FetchFails, ChunkFails
  <2>2. /\ pc' \in {"command", "gone"} /\ response' = NoResponse
        /\ UNCHANGED <<chunks, buffered, done, command, pos, target, current_pos, wrong, skipped>>
    BY <1>7, RetryType DEF IInv, FetchFails, ChunkFails
  <2>3. pc \in {"fetch", "chunk"} /\ response' >= current_pos
    BY <1>7, <2>2 DEF IInv, TypeOK, FetchFails, ChunkFails
  <2>4. BufferedIsLength' /\ Flow'
    BY <2>2, <2>3 DEF IInv, BufferedIsLength, Flow
  <2>5. Match'
    BY <2>2, <2>3 DEF IInv, Match
  <2>6. RightBytesUnlessSkipped'
    BY <2>2 DEF IInv, RightBytesUnlessSkipped
  <2> QED BY <2>1, <2>4, <2>5, <2>6 DEF IInv
<1> QED BY <1>1, <1>2, <1>3, <1>4, <1>5, <1>6, <1>7 DEF Network, Fault

(* IInv holds of every state.                                              *)
LEMMA Invariance == Spec => []IInv
<1>1. IInv /\ [Next]_vars => IInv'
  <2> SUFFICES ASSUME IInv, [Next]_vars PROVE IInv'
    OBVIOUS
  <2>1. CASE Next
    BY <2>1, DecoderInv, ThreadInv, NetworkInv DEF Next
  <2>2. CASE UNCHANGED vars
    <3> USE <2>2 DEF vars, sharedVars, readerVars, threadVars, historyVars
    <3>1. TypeOK'
      BY DEF IInv, TypeOK
    <3>2. BufferedIsLength' /\ Flow' /\ RightBytesUnlessSkipped'
      BY DEF IInv, BufferedIsLength, Flow, RightBytesUnlessSkipped
    <3>3. Match'
      BY DEF IInv, Match
    <3> QED BY <3>1, <3>2, <3>3 DEF IInv
  <2> QED BY <2>1, <2>2
<1> QED BY InitInv, <1>1, PTL DEF Spec

-----------------------------------------------------------------------------
(* SegmentedSource                                                         *)

(* The bytes that fetch_worker puts into a chunk.                          *)
Whole(idx) == [i \in 1 .. Segmented!Size(idx) |-> idx * ChunkSize + i - 1]

(* Every chunk that can be read is whole, and the decoder is in the file.  *)
ReadyIsWhole ==
  /\ \A i \in DOMAIN s_chunks : s_chunks[i].is = "Ready" => s_chunks[i].bytes = Whole(i)
  /\ s_pos \in 0 .. SegFileLen
  /\ s_client \in {"idle", "reading", "closed"}

WorkInv == DOMAIN s_worker = Workers /\ Segmented!DownloadingHasWorker

-----------------------------------------------------------------------------
(* Positions and chunks                                                    *)

LEMMA Division ==
  ASSUME NEW a \in Nat, NEW b \in Nat \ {0}
  PROVE  a \div b \in Nat /\ a % b \in 0 .. b - 1 /\ a = (a \div b) * b + (a % b)
<1> DEFINE q == a \div b
           r == a % b
<1>1. q \in Nat /\ r \in 0 .. b - 1
  OBVIOUS
<1>2. r = a - b * q
  BY SMTT(20)
<1> HIDE DEF q, r
<1>3. a = q * b + r
  BY <1>1, <1>2
<1> QED BY <1>1, <1>3 DEF q, r

LEMMA MinOfTwo ==
  ASSUME NEW a \in Int, NEW b \in Int
  PROVE  Segmented!Min({a, b}) = IF a <= b THEN a ELSE b
BY DEF Segmented!Min

(* A position in the file lies inside the chunk that it is looked up in.   *)
LEMMA InsideChunk ==
  ASSUME Segmented!SegmentedAssumption, s_pos \in Nat, s_pos < SegFileLen
  PROVE  /\ Segmented!At \in Nat /\ s_pos % ChunkSize \in Nat
         /\ s_pos = Segmented!At * ChunkSize + (s_pos % ChunkSize)
         /\ Segmented!Size(Segmented!At) \in Nat
         /\ (s_pos % ChunkSize) < Segmented!Size(Segmented!At)
         /\ Segmented!At * ChunkSize \in Nat
         /\ Segmented!At * ChunkSize + Segmented!Size(Segmented!At) <= SegFileLen
<1>1. ChunkSize \in Nat \ {0} /\ SegFileLen \in Nat
  BY DEF Segmented!SegmentedAssumption
<1>2. /\ Segmented!At \in Nat /\ s_pos % ChunkSize \in 0 .. ChunkSize - 1
      /\ s_pos = Segmented!At * ChunkSize + (s_pos % ChunkSize)
  BY <1>1, Division DEF Segmented!At
<1> DEFINE start == Segmented!At * ChunkSize
           offset == s_pos % ChunkSize
           size == Segmented!Size(Segmented!At)
<1>3. start \in Nat /\ offset \in 0 .. ChunkSize - 1 /\ s_pos = start + offset
  BY <1>1, <1>2
<1>4. size = IF ChunkSize <= SegFileLen - start THEN ChunkSize ELSE SegFileLen - start
  BY <1>1, <1>3, MinOfTwo DEF Segmented!Size
<1> HIDE DEF start, offset, size
<1>5. size \in Nat /\ offset < size /\ start + size <= SegFileLen
  BY <1>1, <1>3, <1>4
<1> QED BY <1>2, <1>3, <1>5 DEF start, offset, size

(* What a read takes out of a whole chunk is a stretch of the file.        *)
LEMMA ReadIsStretch ==
  ASSUME Segmented!SegmentedAssumption, ReadyIsWhole,
         NEW want \in 1 .. MaxRead, Segmented!ReadReady(want)
  PROVE  /\ \E n \in 1 .. SegFileLen - s_pos :
              s_handed' = Segmented!Source!Stretch(s_pos, n) /\ s_pos' = s_pos + n
         /\ s_client = "reading" /\ ~s_fatal_error /\ s_client' = "idle"
         /\ UNCHANGED s_fatal_error
<1>1. s_pos \in Nat /\ s_pos < SegFileLen /\ want \in Nat \ {0} /\ SegFileLen \in Nat
  BY DEF Segmented!SegmentedAssumption, ReadyIsWhole, Segmented!ReadReady
<1> DEFINE bytes == s_chunks[Segmented!At].bytes
           offset == s_pos % ChunkSize
           start == Segmented!At * ChunkSize
           size == Segmented!Size(Segmented!At)
           n == Segmented!Min({want, Len(bytes) - offset})
<1>2. /\ offset \in Nat /\ start \in Nat /\ s_pos = start + offset
      /\ size \in Nat /\ offset < size /\ start + size <= SegFileLen
  <2> HIDE DEF offset, start, size
  <2> QED BY <1>1, InsideChunk DEF offset, start, size
<1>3. bytes = Whole(Segmented!At)
  BY DEF Segmented!ReadReady, Segmented!Is, Segmented!Known, ReadyIsWhole
<1>4. Len(bytes) = size /\ \A i \in 1 .. size : bytes[i] = start + i - 1
  BY <1>2, <1>3 DEF Whole
<1> HIDE DEF bytes, offset, start, size
<1>5. n \in 1 .. SegFileLen - s_pos /\ offset + n <= size
  <2>1. n = IF want <= Len(bytes) - offset THEN want ELSE Len(bytes) - offset
    BY <1>1, <1>2, <1>4, MinOfTwo
  <2> HIDE DEF n
  <2> QED BY <1>1, <1>2, <1>4, <2>1
<1>6. s_handed' = SubSeq(bytes, offset + 1, offset + n) /\ s_pos' = s_pos + n
  BY DEF Segmented!ReadReady, n, bytes, offset
<1> HIDE DEF n
<1>7. SubSeq(bytes, offset + 1, offset + n) = Segmented!Source!Stretch(s_pos, n)
  <2>1. SubSeq(bytes, offset + 1, offset + n) = [i \in 1 .. n |-> bytes[offset + i]]
    BY <1>1, <1>2, <1>5
  <2>2. \A i \in 1 .. n : bytes[offset + i] = s_pos + i - 1
    BY <1>1, <1>2, <1>4, <1>5
  <2> QED BY <2>1, <2>2 DEF Segmented!Source!Stretch
<1>8. s_client = "reading" /\ ~s_fatal_error /\ s_client' = "idle" /\ UNCHANGED s_fatal_error
  BY DEF Segmented!ReadReady
<1> QED BY <1>5, <1>6, <1>7, <1>8

-----------------------------------------------------------------------------
(* The chunks and the workers                                              *)

LEMMA WorkInit == Segmented!Init => WorkInv
BY DEF Segmented!Init, WorkInv, Segmented!DownloadingHasWorker, Segmented!Empty,
   Segmented!Downloading

LEMMA WorkStep == WorkInv /\ [Segmented!Next]_(Segmented!vars) => WorkInv'
<1> SUFFICES ASSUME WorkInv, [Segmented!Next]_(Segmented!vars) PROVE WorkInv'
  OBVIOUS
<1> USE DEF WorkInv, Segmented!DownloadingHasWorker
<1>1. CASE \/ Segmented!BeginRead \/ Segmented!ReadEnd \/ Segmented!ReadFatal
           \/ (\E p \in 0 .. SegFileLen : Segmented!Seek(p))
           \/ Segmented!Close \/ UNCHANGED Segmented!vars
  <2>1. UNCHANGED <<s_chunks, s_fatal_error, s_worker>>
    BY <1>1 DEF Segmented!BeginRead, Segmented!ReadEnd, Segmented!ReadFatal, Segmented!Seek,
       Segmented!Close, Segmented!vars, Segmented!sharedVars
  <2> QED BY <2>1
<1>2. CASE Segmented!ReadMissing
  BY <1>2 DEF Segmented!ReadMissing, Segmented!Insert, Segmented!Empty, Segmented!Downloading
<1>3. ASSUME NEW want \in 1 .. MaxRead, Segmented!ReadReady(want) PROVE WorkInv'
  <2>1. UNCHANGED <<s_worker, s_fatal_error>>
    BY <1>3 DEF Segmented!ReadReady
  <2>2. \A i \in DOMAIN s_chunks' : i \in DOMAIN s_chunks /\ s_chunks'[i] = s_chunks[i]
    BY <1>3 DEF Segmented!ReadReady, Segmented!Restrict
  <2> QED BY <2>1, <2>2
<1>4. ASSUME NEW w \in Workers, Segmented!Leave(w) PROVE WorkInv'
  BY <1>4 DEF Segmented!Leave, Segmented!Looking, Segmented!Gone, Segmented!sharedVars
<1>5. ASSUME NEW w \in Workers, Segmented!Claim(w) PROVE WorkInv'
  <2>1. PICK idx \in Segmented!ToClaim :
          /\ s_worker' = [s_worker EXCEPT
                            ![w] = Segmented!Fetching(idx, Segmented!Retries(idx))]
          /\ Segmented!Insert(idx, Segmented!Downloading)
    BY <1>5 DEF Segmented!Claim
  <2>2. s_worker[w].at = "look" /\ s_worker'[w].at = "fetch" /\ s_worker'[w].idx = idx
    BY <1>5, <2>1 DEF Segmented!Claim, Segmented!Looking, Segmented!Fetching
  <2>3. \A v \in Workers : v # w => s_worker'[v] = s_worker[v]
    BY <2>1
  <2> QED BY <1>5, <2>1, <2>2, <2>3 DEF Segmented!Insert, Segmented!Claim
<1>6. ASSUME NEW w \in Workers, Segmented!Fetched(w) PROVE WorkInv'
  <2>1. \A v \in Workers : v # w => s_worker'[v] = s_worker[v]
    BY <1>6 DEF Segmented!Fetched
  <2>2. \A i \in DOMAIN s_chunks' : s_chunks'[i] = Segmented!Downloading =>
          i \in DOMAIN s_chunks /\ s_chunks[i] = Segmented!Downloading /\ i # s_worker[w].idx
    BY <1>6 DEF Segmented!Fetched, Segmented!Insert, Segmented!Ready, Segmented!Downloading
  <2> QED BY <1>6, <2>1, <2>2 DEF Segmented!Fetched
<1>7. ASSUME NEW w \in Workers, Segmented!FetchFails(w) PROVE WorkInv'
  <2>1. CASE s_worker[w].prior >= MaxRetries
    BY <1>7, <2>1 DEF Segmented!FetchFails
  <2>2. CASE ~(s_worker[w].prior >= MaxRetries)
    <3>1. \A v \in Workers : v # w => s_worker'[v] = s_worker[v]
      BY <1>7 DEF Segmented!FetchFails
    <3>2. \A i \in DOMAIN s_chunks' : s_chunks'[i] = Segmented!Downloading =>
            i \in DOMAIN s_chunks /\ s_chunks[i] = Segmented!Downloading /\ i # s_worker[w].idx
      BY <1>7, <2>2 DEF Segmented!FetchFails, Segmented!Insert, Segmented!Empty,
         Segmented!Downloading
    <3> QED BY <1>7, <2>2, <3>1, <3>2 DEF Segmented!FetchFails
  <2> QED BY <2>1, <2>2
<1> QED BY <1>1, <1>2, <1>3, <1>4, <1>5, <1>6, <1>7 DEF Segmented!Next, Segmented!Read,
           Segmented!Work

-----------------------------------------------------------------------------
(* The refinement                                                          *)

LEMMA WholeInit == Segmented!SegmentedAssumption /\ Segmented!Init => ReadyIsWhole
BY DEF Segmented!SegmentedAssumption, Segmented!Init, ReadyIsWhole, Segmented!Empty

LEMMA WholeStep ==
  Segmented!SegmentedAssumption /\ ReadyIsWhole /\ [Segmented!Next]_(Segmented!vars)
    => ReadyIsWhole'
<1> SUFFICES ASSUME Segmented!SegmentedAssumption, ReadyIsWhole,
                    [Segmented!Next]_(Segmented!vars)
             PROVE  ReadyIsWhole'
  OBVIOUS
<1> USE DEF ReadyIsWhole
<1>0. \A i : Whole(i)' = Whole(i)
  BY DEF Whole, Segmented!Size
<1>1. CASE \/ Segmented!BeginRead \/ Segmented!ReadEnd \/ Segmented!ReadFatal
           \/ (\E p \in 0 .. SegFileLen : Segmented!Seek(p))
           \/ Segmented!Close \/ UNCHANGED Segmented!vars
  BY <1>1 DEF Segmented!BeginRead, Segmented!ReadEnd, Segmented!ReadFatal, Segmented!Seek,
     Segmented!Close, Segmented!vars, Segmented!sharedVars, Segmented!clientVars, Whole,
     Segmented!Size
<1>2. CASE Segmented!ReadMissing
  BY <1>2 DEF Segmented!ReadMissing, Segmented!Insert, Segmented!Empty, Segmented!clientVars,
     Whole, Segmented!Size
<1>3. ASSUME NEW want \in 1 .. MaxRead, Segmented!ReadReady(want) PROVE ReadyIsWhole'
  <2>1. s_pos' \in 0 .. SegFileLen /\ s_client' = "idle"
    BY <1>3, ReadIsStretch DEF Segmented!SegmentedAssumption
  <2>2. \A i \in DOMAIN s_chunks' : i \in DOMAIN s_chunks /\ s_chunks'[i] = s_chunks[i]
    BY <1>3 DEF Segmented!ReadReady, Segmented!Restrict
  <2> QED BY <2>1, <2>2 DEF Whole, Segmented!Size
<1>4. ASSUME NEW w \in Workers, Segmented!Leave(w) PROVE ReadyIsWhole'
  BY <1>4 DEF Segmented!Leave, Segmented!sharedVars, Segmented!clientVars, Whole, Segmented!Size
<1>5. ASSUME NEW w \in Workers, Segmented!Claim(w) PROVE ReadyIsWhole'
  BY <1>5 DEF Segmented!Claim, Segmented!Insert, Segmented!Downloading, Segmented!clientVars,
     Whole, Segmented!Size
<1>6. ASSUME NEW w \in Workers, Segmented!Fetched(w) PROVE ReadyIsWhole'
  <2>1. s_chunks' = [i \in DOMAIN s_chunks \cup {s_worker[w].idx} |->
                     IF i = s_worker[w].idx THEN Segmented!Ready(Whole(i)) ELSE s_chunks[i]]
    BY <1>6 DEF Segmented!Fetched, Segmented!Insert, Whole
  <2>2. \A i : Segmented!Ready(Whole(i)).bytes = Whole(i)
    BY DEF Segmented!Ready
  <2>3. UNCHANGED Segmented!clientVars
    BY <1>6 DEF Segmented!Fetched
  <2> QED BY <2>1, <2>2, <2>3 DEF Segmented!clientVars, Whole, Segmented!Size
<1>7. ASSUME NEW w \in Workers, Segmented!FetchFails(w) PROVE ReadyIsWhole'
  BY <1>7 DEF Segmented!FetchFails, Segmented!Insert, Segmented!Empty, Segmented!clientVars,
     Whole, Segmented!Size
<1> QED BY <1>1, <1>2, <1>3, <1>4, <1>5, <1>6, <1>7 DEF Segmented!Next, Segmented!Read,
           Segmented!Work

LEMMA RefinementInit == Segmented!Init => Segmented!Source!Init
BY DEF Segmented!Init, Segmented!Source!Init

LEMMA RefinementStep ==
  Segmented!SegmentedAssumption /\ ReadyIsWhole /\ [Segmented!Next]_(Segmented!vars)
    => [Segmented!Source!Next]_(Segmented!Source!vars)
<1> SUFFICES ASSUME Segmented!SegmentedAssumption, ReadyIsWhole,
                    [Segmented!Next]_(Segmented!vars)
             PROVE  Segmented!Source!Next \/ UNCHANGED Segmented!Source!vars
  OBVIOUS
<1>1. CASE Segmented!BeginRead
  BY <1>1 DEF Segmented!BeginRead, Segmented!Source!Next, Segmented!Source!Ask
<1>2. CASE Segmented!ReadEnd
  <2>1. s_pos = SegFileLen
    BY <1>2 DEF Segmented!ReadEnd, ReadyIsWhole, Segmented!SegmentedAssumption
  <2> QED BY <1>2, <2>1 DEF Segmented!ReadEnd, Segmented!sharedVars, Segmented!Source!Next,
             Segmented!Source!End
<1>3. CASE Segmented!ReadFatal
  BY <1>3 DEF Segmented!ReadFatal, Segmented!sharedVars, Segmented!Failed, Segmented!Source!Next,
     Segmented!Source!Fail, Segmented!Source!Failed
<1>4. ASSUME NEW want \in 1 .. MaxRead, Segmented!ReadReady(want) PROVE Segmented!Source!Next
  BY <1>4, ReadIsStretch DEF Segmented!Source!Next, Segmented!Source!Bytes
<1>5. ASSUME NEW p \in 0 .. SegFileLen, Segmented!Seek(p) PROVE Segmented!Source!Next
  BY <1>5 DEF Segmented!Seek, Segmented!Source!Next, Segmented!Source!SeekTo
<1>6. CASE Segmented!Close
  BY <1>6 DEF Segmented!Close, Segmented!Source!Next, Segmented!Source!Close
<1>7. ASSUME NEW w \in Workers, Segmented!FetchFails(w)
      PROVE  Segmented!Source!Next \/ UNCHANGED Segmented!Source!vars
  <2>1. CASE s_worker[w].prior >= MaxRetries
    BY <1>7, <2>1 DEF Segmented!FetchFails, Segmented!clientVars, Segmented!Source!Next,
       Segmented!Source!Break
  <2>2. CASE ~(s_worker[w].prior >= MaxRetries)
    BY <1>7, <2>2 DEF Segmented!FetchFails, Segmented!clientVars, Segmented!Source!vars
  <2> QED BY <2>1, <2>2
<1>8. CASE \/ Segmented!ReadMissing \/ UNCHANGED Segmented!vars
           \/ \E w \in Workers : Segmented!Leave(w) \/ Segmented!Claim(w) \/ Segmented!Fetched(w)
  BY <1>8 DEF Segmented!ReadMissing, Segmented!Leave, Segmented!Claim, Segmented!Fetched,
     Segmented!vars, Segmented!sharedVars, Segmented!clientVars, Segmented!Source!vars
<1> QED BY <1>1, <1>2, <1>3, <1>4, <1>5, <1>6, <1>7, <1>8 DEF Segmented!Next, Segmented!Read,
           Segmented!Work

-----------------------------------------------------------------------------
(* HlsPrefetch                                                             *)

(* The playlist at its segments, and the initialisation section before it. *)
Stuff == 0 .. Segments

(* All that is still to be read, from the start of the decoder's buffer.   *)
Glued(b, n, t, a, p) == b \o (n \o (t \o (a \o p)))
Line == Glued(buf, next_buf, tmp_buf, batch, pending)

(* What was fetched of a playlist, read up to "at": d is due next and the  *)
(* segments f were left out.                                               *)
Lined(w, at, d, f) ==
  /\ \A i \in 1 .. Len(w) : w[i] = Segments => i = 1
  /\ \A i, j \in 1 .. Len(w) : i < j /\ w[i] # Segments => w[i] < w[j]
  /\ \A x \in Hls!All \ f : \A i \in 1 .. Len(w) : w[i] < x => \E j \in 1 .. Len(w) : w[j] = x
  /\ \A i \in 1 .. Len(w) : i <= at /\ w[i] # Segments => w[i] < d
  /\ \A i \in 1 .. Len(w) : i > at => w[i] >= d
  /\ \A x \in Hls!All \ f : x >= d => \E j \in 1 .. Len(w) : w[j] = x
  /\ \A i \in 1 .. Len(w) : w[i] \notin f

Unmapped(w) == \A i \in 1 .. Len(w) : w[i] # Segments
Running(w, at, d) == \A i \in 1 .. Len(w) : w[i] + at + 1 = d + i

AtReader ==
  /\ h_command = Hls!Continue /\ ~abort_flag /\ thread \in {"wait", "batch"}
  /\ h_reader = "reading" => h_pos = Len(buf)
  /\ Lined(Line, h_pos, due, failed)
  /\ eos => batch = <<>> /\ tmp_buf = <<>> /\ pending = <<>>
  /\ service = "soundcloud" =>
       /\ Unmapped(Line)
       /\ failed = {} => Running(Line, h_pos, due) /\ total_bytes_read = due

Moving ==
  /\ buf = <<>> /\ h_pos = 0 /\ total_bytes_read = h_target
  /\ service = "youtube" => abort_flag /\ h_target < Segments

Asked ==
  /\ h_command = Hls!SeekTo(due) /\ ~seek_done /\ failed = {} /\ thread \in {"wait", "batch"}

Obeyed ==
  /\ h_command = Hls!Continue
  /\ \/ thread = "seek" /\ ~seek_done /\ ~eos
     \/ thread = "wait" /\ ~need_data /\ (eos => pending = <<>>)
  /\ Lined(Line, 0, due, failed)
  /\ \A i \in 1 .. Len(pending) : pending[i] > due
  /\ service = "soundcloud" =>
       /\ Unmapped(Line)
       /\ failed = {} => Running(Line, 0, due)

HlsInv ==
  /\ Hls!TypeOK
  /\ thread = "wait" => batch = <<>> /\ tmp_buf = <<>>
  /\ h_reader \in {"idle", "reading"} => AtReader
  /\ h_reader \in {"seek", "seeking"} => Moving
  /\ h_reader = "seek" => h_command = Hls!Continue /\ thread \in {"wait", "batch"}
  /\ h_reader = "seeking" => due = Hls!TargetIndex /\ (Asked \/ Obeyed)

-----------------------------------------------------------------------------
LEMMA SegmentsType ==
  /\ Segments \in Nat \ {0} /\ Batch \in Nat \ {0} /\ MaxRead \in Nat \ {0} /\ LowWater \in Nat
  /\ Hls!All = 0 .. Segments - 1 /\ Hls!Map = Segments
  /\ Hls!All \cup {Hls!Map} = Stuff
  /\ Seq(Hls!All) \subseteq Seq(Stuff)
<1>1. /\ Segments \in Nat \ {0} /\ Batch \in Nat \ {0} /\ MaxRead \in Nat \ {0} /\ LowWater \in Nat
      /\ Hls!All = 0 .. Segments - 1 /\ Hls!Map = Segments
  BY StreamsAssumption DEF Hls!HlsAssumption, Hls!All, Hls!Map
<1>2. Hls!All \cup {Hls!Map} = Stuff
  BY <1>1 DEF Stuff
<1>3. Hls!All \subseteq Stuff
  BY <1>2
<1>4. Seq(Hls!All) \subseteq Seq(Stuff)
  BY <1>3, SeqMonotonic
<1> QED BY <1>1, <1>2, <1>4

(* What the steps of the decoder are about, named together.                *)
Placed(w, at, d, f) ==
  /\ w \in Seq(Stuff) /\ at \in 0 .. Len(w) /\ d \in Stuff /\ f \in SUBSET Hls!All
  /\ Lined(w, at, d, f)

NextDue(w, k, d, e) ==
  k \in 1 .. Len(w) /\ e = IF w[k] = Segments THEN d ELSE w[k] + 1

(* The decoder reads on.                                                   *)
LEMMA Advance ==
  \A w, at, d, f, n, e : Placed(w, at, d, f) /\ n \in Nat \ {0} /\ NextDue(w, at + n, d, e) =>
    /\ Placed(w, at + n, e, f)
    /\ Unmapped(w) /\ Running(w, at, d) => e = d + n /\ Running(w, at + n, e)
<1> SUFFICES ASSUME NEW w, NEW at, NEW d, NEW f, NEW n, NEW e, Placed(w, at, d, f),
                    n \in Nat \ {0}, NextDue(w, at + n, d, e)
             PROVE  /\ Placed(w, at + n, e, f)
                    /\ Unmapped(w) /\ Running(w, at, d) => e = d + n /\ Running(w, at + n, e)
  OBVIOUS
<1> /\ w \in Seq(Stuff) /\ at \in Nat /\ Len(w) \in Nat /\ d \in Stuff /\ f \in SUBSET Hls!All
  BY LenProperties DEF Placed
<1>0. /\ Lined(w, at, d, f) /\ at + n <= Len(w) /\ at + n \in 0 .. Len(w)
      /\ e = IF w[at + n] = Segments THEN d ELSE w[at + n] + 1
  BY DEF Placed, NextDue
<1> DEFINE k == at + n
<1>1. Len(w) \in Nat /\ \A i \in 1 .. Len(w) : w[i] \in 0 .. Segments
  BY LenProperties, ElementOfSeq DEF Stuff
<1>2. k \in 1 .. Len(w) /\ k > at /\ Segments \in Nat \ {0} /\ Hls!All = 0 .. Segments - 1
  BY <1>0, <1>1, SegmentsType
<1>3. d \in 0 .. Segments /\ e \in 0 .. Segments /\ e >= d
        /\ e = IF w[k] = Segments THEN d ELSE w[k] + 1
  BY <1>0, <1>1, <1>2 DEF Stuff, Lined
<1>4. Unmapped(w) /\ Running(w, at, d) => e = d + n /\ Running(w, at + n, e)
  <2> SUFFICES ASSUME Unmapped(w), Running(w, at, d)
               PROVE  e = d + n /\ Running(w, at + n, e)
    OBVIOUS
  <2>1. w[k] + at + 1 = d + k /\ w[k] # Segments
    BY <1>2 DEF Unmapped, Running
  <2>2. e = d + n
    BY SMTT(60), <1>1, <1>2, <1>3, <2>1
  <2>3. ASSUME NEW i \in 1 .. Len(w) PROVE w[i] + (at + n) + 1 = e + i
    <3>1. PICK v \in Nat : v = w[i]
      BY <1>1
    <3>2. v + at + 1 = d + i /\ d \in Nat /\ i \in Nat
      BY <1>1, <1>3, <3>1 DEF Running
    <3>3. v + (at + n) + 1 = e + i
      BY <2>2, <3>2
    <3> QED BY <3>1, <3>3
  <2> QED BY <2>2, <2>3 DEF Running
<1> HIDE DEF k
<1>5. \A i \in 1 .. Len(w) : i <= k /\ w[i] # Segments => w[i] < e
  <2> SUFFICES ASSUME NEW i \in 1 .. Len(w), i <= k, w[i] # Segments
               PROVE  w[i] < e
    OBVIOUS
  <2>1. CASE w[k] = Segments
    <3>1. k = 1
      BY <1>0, <1>2, <2>1 DEF Lined
    <3> QED BY <1>1, <1>2, <2>1, <3>1
  <2>2. CASE w[k] # Segments
    <3>1. i = k \/ (i < k /\ w[i] < w[k])
      BY <1>0, <1>1, <1>2 DEF Lined
    <3> QED BY <1>1, <1>2, <1>3, <2>2, <3>1
  <2> QED BY <2>1, <2>2
<1>6. \A i \in 1 .. Len(w) : i > k => w[i] >= e
  <2> SUFFICES ASSUME NEW i \in 1 .. Len(w), i > k
               PROVE  w[i] >= e
    OBVIOUS
  <2>1. i > at /\ w[i] >= d
    BY <1>0, <1>1, <1>2 DEF Lined
  <2>2. w[k] # Segments => w[k] < w[i]
    BY <1>0, <1>1, <1>2 DEF Lined
  <2> QED BY <1>1, <1>2, <1>3, <2>1, <2>2
<1>7. \A x \in Hls!All \ f : x >= e => \E j \in 1 .. Len(w) : w[j] = x
  BY <1>0, <1>2, <1>3 DEF Lined
<1>8. Lined(w, k, e, f)
  BY <1>5, <1>6, <1>7, <1>0 DEF Lined
<1> QED BY <1>0, <1>3, <1>4, <1>8 DEF Placed, Stuff, k

(* A buffer that was read to its end is let go.                            *)
LEMMA LinedDrop ==
  ASSUME NEW b \in Seq(Stuff), NEW r \in Seq(Stuff), NEW d \in Stuff, NEW f \in SUBSET Hls!All,
         Lined(b \o r, Len(b), d, f)
  PROVE  /\ Lined(r, 0, d, f)
         /\ Unmapped(b \o r) => Unmapped(r)
         /\ Running(b \o r, Len(b), d) => Running(r, 0, d)
<1> DEFINE w == b \o r
           m == Len(b)
<1>1. /\ m \in Nat /\ Len(r) \in Nat /\ Len(w) = m + Len(r)
      /\ \A i \in 1 .. Len(w) : w[i] \in 0 .. Segments
      /\ \A i \in 1 .. Len(r) : r[i] \in 0 .. Segments
  BY LenProperties, ElementOfSeq, ConcatProperties DEF Stuff
<1>2. \A i \in 1 .. Len(r) : i + m \in 1 .. Len(w) /\ i + m > m /\ r[i] = w[i + m]
  BY <1>1, ConcatProperties
<1>3. \A j \in 1 .. Len(w) : j > m => j - m \in 1 .. Len(r) /\ r[j - m] = w[j]
  BY <1>1, ConcatProperties
<1>4. d \in 0 .. Segments /\ Hls!All = 0 .. Segments - 1 /\ Segments \in Nat \ {0}
  BY SegmentsType DEF Stuff
<1>5. Lined(w, m, d, f)
  OBVIOUS
<1> HIDE DEF w, m
<1>6. \A i \in 1 .. Len(r) : r[i] = Segments => i = 1
  BY <1>1, <1>2, <1>5 DEF Lined
<1>7. \A i, j \in 1 .. Len(r) : i < j /\ r[i] # Segments => r[i] < r[j]
  <2> SUFFICES ASSUME NEW i \in 1 .. Len(r), NEW j \in 1 .. Len(r), i < j, r[i] # Segments
               PROVE  r[i] < r[j]
    OBVIOUS
  <2>1. i + m \in 1 .. Len(w) /\ j + m \in 1 .. Len(w) /\ i + m < j + m
    BY <1>1, <1>2
  <2>2. w[i + m] < w[j + m]
    BY <1>2, <1>5, <2>1 DEF Lined
  <2> QED BY <1>2, <2>2
<1>8. \A i \in 1 .. Len(r) : r[i] >= d /\ r[i] \notin f
  BY <1>1, <1>2, <1>5 DEF Lined
<1>9. \A x \in Hls!All \ f : x >= d => \E j \in 1 .. Len(r) : r[j] = x
  <2> SUFFICES ASSUME NEW x \in Hls!All \ f, x >= d PROVE \E j \in 1 .. Len(r) : r[j] = x
    OBVIOUS
  <2>1. PICK j \in 1 .. Len(w) : w[j] = x
    BY <1>5 DEF Lined
  <2>2. x # Segments /\ ~(x < d)
    BY <1>4
  <2>3. j > m
    BY <1>1, <1>5, <2>1, <2>2 DEF Lined
  <2> QED BY <1>3, <2>1, <2>3
<1>10. \A x \in Hls!All \ f : \A i \in 1 .. Len(r) : r[i] < x => \E j \in 1 .. Len(r) : r[j] = x
  BY <1>1, <1>4, <1>8, <1>9
<1>11. Lined(r, 0, d, f)
  BY <1>1, <1>6, <1>7, <1>8, <1>9, <1>10 DEF Lined
<1>12. Unmapped(w) => Unmapped(r)
  BY <1>2 DEF Unmapped
<1>13. Running(w, m, d) => Running(r, 0, d)
  <2> SUFFICES ASSUME Running(w, m, d), NEW i \in 1 .. Len(r) PROVE r[i] + 0 + 1 = d + i
    BY DEF Running
  <2>1. i + m \in 1 .. Len(w) /\ r[i] = w[i + m] /\ r[i] \in Nat /\ i \in Nat
    BY <1>1, <1>2
  <2>2. w[i + m] + m + 1 = d + (i + m)
    BY <2>1 DEF Running
  <2> QED BY SMTT(60), <1>1, <1>4, <2>1, <2>2
<1> QED BY <1>11, <1>12, <1>13 DEF w, m

LEMMA Shift ==
  ASSUME NEW v \in Nat, NEW at \in Nat, NEW to \in Nat, NEW d \in Nat, NEW e \in Nat, NEW i \in Nat,
         e + at = d + to, v + at + 1 = d + i
  PROVE  v + to + 1 = e + i
OBVIOUS

(* A seek within the decoder's buffer.                                     *)
LEMMA LinedMove ==
  ASSUME NEW w \in Seq(Stuff), NEW m \in 0 .. Len(w), NEW at \in 0 .. m, NEW to \in 0 .. m,
         NEW d \in Stuff, NEW f \in SUBSET Hls!All, Lined(w, at, d, f), Unmapped(w),
         NEW e, e = IF to < m THEN w[to + 1] ELSE IF m = 0 THEN d ELSE w[m] + 1
  PROVE  /\ e \in Stuff /\ Lined(w, to, e, f)
         /\ Running(w, at, d) => e + at = d + to /\ Running(w, to, e)
<1>1. Len(w) \in Nat /\ \A i \in 1 .. Len(w) : w[i] \in 0 .. Segments - 1
  BY LenProperties, ElementOfSeq, SegmentsType DEF Stuff, Unmapped
<1>2. d \in 0 .. Segments /\ Hls!All = 0 .. Segments - 1 /\ Segments \in Nat \ {0}
  BY SegmentsType DEF Stuff
<1>3. e \in 0 .. Segments
  BY <1>1, <1>2
<1>4. Running(w, at, d) => e + at = d + to /\ Running(w, to, e)
  <2> SUFFICES ASSUME Running(w, at, d) PROVE e + at = d + to /\ Running(w, to, e)
    OBVIOUS
  <2>1. e + at = d + to
    <3>1. CASE to < m
      <4>1. to + 1 \in 1 .. Len(w)
        BY <1>1, <3>1
      <4>2. w[to + 1] + at + 1 = d + (to + 1)
        BY <4>1 DEF Running
      <4> QED BY <1>1, <1>2, <3>1, <4>1, <4>2
    <3>2. CASE to = m /\ m = 0
      BY <1>2, <3>2
    <3>3. CASE to = m /\ m # 0
      <4>1. m \in 1 .. Len(w)
        BY <1>1, <3>3
      <4>2. w[m] + at + 1 = d + m
        BY <4>1 DEF Running
      <4> QED BY <1>1, <1>2, <3>3, <4>1, <4>2
    <3> QED BY <1>1, <3>1, <3>2, <3>3
  <2>2. ASSUME NEW i \in 1 .. Len(w) PROVE w[i] + to + 1 = e + i
    <3>1. PICK v \in Nat : v = w[i]
      BY <1>1
    <3>2. v + at + 1 = d + i /\ i \in Nat /\ d \in Nat /\ e \in Nat /\ at \in Nat /\ to \in Nat
      BY <1>1, <1>2, <1>3, <3>1 DEF Running
    <3>3. v + to + 1 = e + i
      BY SMTT(60), <2>1, <3>2, Shift
    <3> QED BY <3>1, <3>3
  <2> QED BY <2>1, <2>2 DEF Running
<1>5. \A i, j \in 1 .. Len(w) : i < j => w[i] < w[j]
  BY <1>1, <1>2 DEF Lined
<1>6. CASE to < m
  <2>1. to + 1 \in 1 .. Len(w) /\ e = w[to + 1]
    BY <1>1, <1>6
  <2>2. \A i \in 1 .. Len(w) : i <= to => w[i] < e
    BY <1>1, <1>5, <2>1
  <2>3. \A i \in 1 .. Len(w) : i > to => w[i] >= e
    <3> SUFFICES ASSUME NEW i \in 1 .. Len(w), i > to PROVE w[i] >= e
      OBVIOUS
    <3>1. i = to + 1 \/ to + 1 < i
      BY <1>1
    <3> QED BY <1>1, <1>5, <2>1, <3>1
  <2>4. \A x \in Hls!All \ f : x >= e => \E j \in 1 .. Len(w) : w[j] = x
    <3> SUFFICES ASSUME NEW x \in Hls!All \ f, x >= e PROVE \E j \in 1 .. Len(w) : w[j] = x
      OBVIOUS
    <3>1. x = w[to + 1] \/ w[to + 1] < x
      BY <1>1, <1>2, <2>1
    <3> QED BY <2>1, <3>1 DEF Lined
  <2> QED BY <1>3, <1>4, <2>2, <2>3, <2>4 DEF Lined, Stuff
<1>7. CASE to = m /\ m = 0
  BY <1>3, <1>4, <1>7 DEF Stuff
<1>8. CASE to = m /\ m # 0
  <2>1. m \in 1 .. Len(w) /\ e = w[m] + 1
    BY <1>1, <1>8
  <2>2. \A i \in 1 .. Len(w) : i <= to => w[i] < e
    <3> SUFFICES ASSUME NEW i \in 1 .. Len(w), i <= to PROVE w[i] < e
      OBVIOUS
    <3>1. i = m \/ i < m
      BY <1>1, <1>8
    <3> QED BY <1>1, <1>5, <2>1, <3>1
  <2>3. \A i \in 1 .. Len(w) : i > to => w[i] >= e
    BY <1>1, <1>5, <1>8, <2>1
  <2>4. \A x \in Hls!All \ f : x >= e => \E j \in 1 .. Len(w) : w[j] = x
    BY <1>1, <1>2, <2>1 DEF Lined
  <2> QED BY <1>3, <1>4, <2>2, <2>3, <2>4 DEF Lined, Stuff
<1> QED BY <1>1, <1>6, <1>7, <1>8

(* A segment is left out.                                                  *)
LEMMA LinedLess ==
  ASSUME NEW l \in Seq(Stuff), NEW h \in Hls!All, NEW r \in Seq(Stuff), NEW at \in 0 .. Len(l),
         NEW d \in Stuff, NEW f \in SUBSET Hls!All, Lined(l \o (<<h>> \o r), at, d, f)
  PROVE  /\ Lined(l \o r, at, d, f \cup {h})
         /\ Unmapped(l \o (<<h>> \o r)) => Unmapped(l \o r)
<1> DEFINE w == l \o (<<h>> \o r)
           u == l \o r
           m == Len(l)
           n == Len(r)
<1>1. Hls!All = 0 .. Segments - 1 /\ Segments \in Nat \ {0} /\ d \in 0 .. Segments
  BY SegmentsType DEF Stuff
<1>2. <<h>> \in Seq(Stuff) /\ Len(<<h>>) = 1 /\ <<h>>[1] = h
  BY <1>1 DEF Stuff
<1>3. m \in Nat /\ n \in Nat
  BY LenProperties
<1>4. /\ <<h>> \o r \in Seq(Stuff) /\ Len(<<h>> \o r) = 1 + n
      /\ \A i \in 1 .. 1 + n : (<<h>> \o r)[i] = IF i <= 1 THEN <<h>>[i] ELSE r[i - 1]
  BY <1>2, ConcatProperties
<1>5. /\ w \in Seq(Stuff) /\ Len(w) = m + (1 + n)
      /\ \A i \in 1 .. m + (1 + n) : w[i] = IF i <= m THEN l[i] ELSE (<<h>> \o r)[i - m]
  BY <1>4, ConcatProperties
<1>6. /\ u \in Seq(Stuff) /\ Len(u) = m + n
      /\ \A i \in 1 .. m + n : u[i] = IF i <= m THEN l[i] ELSE r[i - m]
  BY ConcatProperties
<1>7. Lined(w, at, d, f)
  OBVIOUS
<1> DEFINE k == m + 1
           Orig(i) == IF i <= m THEN i ELSE i + 1
<1>8. Len(w) = Len(u) + 1 /\ k \in 1 .. Len(w) /\ Len(u) \in Nat /\ w[k] = h /\ at \in Nat /\ at < k
  BY <1>2, <1>3, <1>4, <1>5, <1>6
<1>9. \A i \in 1 .. Len(u) : u[i] = w[Orig(i)] /\ Orig(i) \in 1 .. Len(w) /\ Orig(i) # k
  BY <1>3, <1>4, <1>5, <1>6
<1>10. \A j \in 1 .. Len(w) : j # k => \E i \in 1 .. Len(u) : Orig(i) = j
  <2> SUFFICES ASSUME NEW j \in 1 .. Len(w), j # k PROVE \E i \in 1 .. Len(u) : Orig(i) = j
    OBVIOUS
  <2>1. CASE j <= m
    BY <1>3, <1>8, <2>1
  <2>2. CASE j > m
    <3>1. j - 1 \in 1 .. Len(u) /\ Orig(j - 1) = j
      BY <1>3, <1>8, <2>2
    <3> QED BY <3>1
  <2> QED BY <1>3, <2>1, <2>2
<1>11. \A i, j \in 1 .. Len(u) : i < j => Orig(i) < Orig(j)
  BY <1>3, <1>6
<1>12. \A i \in 1 .. Len(u) : (i <= at <=> Orig(i) <= at) /\ (Orig(i) = 1 => i = 1)
  BY <1>3, <1>6, <1>8
<1>13. \A i \in 1 .. Len(u) : Orig(i) \in Nat /\ w[Orig(i)] \in 0 .. Segments
  <2>1. \A i \in 1 .. Len(w) : w[i] \in 0 .. Segments
    BY <1>5, ElementOfSeq DEF Stuff
  <2> HIDE DEF w
  <2>2. \A i \in 1 .. Len(u) : Orig(i) \in Nat
    BY <1>3, <1>6
  <2> QED BY <1>9, <2>1, <2>2
<1> HIDE DEF w, u, m, n, k, Orig
(* The segment is in its place once.                                       *)
<1>15. \A i \in 1 .. Len(w) : i # k => w[i] # h
  <2> SUFFICES ASSUME NEW i \in 1 .. Len(w), i # k, w[i] = h PROVE FALSE
    OBVIOUS
  <2>1. h # Segments /\ h \in Nat
    BY <1>1
  <2>2. i < k \/ k < i
    BY <1>8
  <2>3. h < h
    BY <1>7, <1>8, <2>1, <2>2 DEF Lined
  <2> QED BY <2>1, <2>3
<1>16. \A i \in 1 .. Len(u) : u[i] = Segments => i = 1
  BY <1>7, <1>9, <1>12 DEF Lined
<1>17. \A i, j \in 1 .. Len(u) : i < j /\ u[i] # Segments => u[i] < u[j]
  <2> SUFFICES ASSUME NEW i \in 1 .. Len(u), NEW j \in 1 .. Len(u), i < j, u[i] # Segments
               PROVE  u[i] < u[j]
    OBVIOUS
  <2>1. Orig(i) \in 1 .. Len(w) /\ Orig(j) \in 1 .. Len(w) /\ Orig(i) < Orig(j)
    BY <1>9, <1>11
  <2>2. w[Orig(i)] < w[Orig(j)]
    BY <1>7, <1>9, <2>1 DEF Lined
  <2> QED BY <1>9, <2>2
<1>18. \A x \in Hls!All \ (f \cup {h}) : (\E j \in 1 .. Len(w) : w[j] = x)
         => \E j \in 1 .. Len(u) : u[j] = x
  <2> SUFFICES ASSUME NEW x \in Hls!All \ (f \cup {h}), NEW j \in 1 .. Len(w), w[j] = x
               PROVE  \E i \in 1 .. Len(u) : u[i] = x
    OBVIOUS
  <2>1. j # k
    BY <1>8
  <2> QED BY <1>9, <1>10, <2>1
<1>19. \A x \in Hls!All \ (f \cup {h}) : \A i \in 1 .. Len(u) : u[i] < x
         => \E j \in 1 .. Len(u) : u[j] = x
  <2> SUFFICES ASSUME NEW x \in Hls!All \ (f \cup {h}), NEW i \in 1 .. Len(u), u[i] < x
               PROVE  \E j \in 1 .. Len(u) : u[j] = x
    OBVIOUS
  <2>1. Orig(i) \in 1 .. Len(w) /\ w[Orig(i)] < x /\ x \in Hls!All \ f
    BY <1>9
  <2>2. \E j \in 1 .. Len(w) : w[j] = x
    BY <1>7, <2>1 DEF Lined
  <2> QED BY <1>18, <2>2
<1>20. \A i \in 1 .. Len(u) : i <= at /\ u[i] # Segments => u[i] < d
  BY <1>7, <1>9, <1>12 DEF Lined
<1>21. \A i \in 1 .. Len(u) : i > at => u[i] >= d
  <2> SUFFICES ASSUME NEW i \in 1 .. Len(u), i > at PROVE u[i] >= d
    OBVIOUS
  <2>1. Orig(i) > at /\ Orig(i) \in 1 .. Len(w)
    BY <1>8, <1>9, <1>12, <1>13
  <2> QED BY <1>7, <1>9, <2>1 DEF Lined
<1>22. \A x \in Hls!All \ (f \cup {h}) : x >= d => \E j \in 1 .. Len(u) : u[j] = x
  BY <1>7, <1>18 DEF Lined
<1>23. \A i \in 1 .. Len(u) : u[i] \notin f \cup {h}
  BY <1>7, <1>9, <1>15 DEF Lined
<1>24. Lined(u, at, d, f \cup {h})
  BY <1>16, <1>17, <1>19, <1>20, <1>21, <1>22, <1>23 DEF Lined
<1>25. Unmapped(w) => Unmapped(u)
  BY <1>9 DEF Unmapped
<1> QED BY <1>24, <1>25 DEF w, u

-----------------------------------------------------------------------------
(* The buffers end to end                                                  *)

LEMMA HeadFirst ==
  ASSUME NEW S, NEW a \in Seq(S), a # <<>>
  PROVE  Head(a) \in S /\ <<Head(a)>> \in Seq(S) /\ Tail(a) \in Seq(S) /\ a = <<Head(a)>> \o Tail(a)
<1>1. Head(a) \in S /\ Tail(a) \in Seq(S) /\ Len(Tail(a)) = Len(a) - 1
        /\ \A i \in 1 .. Len(Tail(a)) : Tail(a)[i] = a[i + 1]
  BY HeadTailProperties
<1>2. <<Head(a)>> \in Seq(S) /\ Len(<<Head(a)>>) = 1 /\ <<Head(a)>>[1] = a[1]
  BY <1>1
<1>3. Len(a) \in Nat \ {0}
  BY EmptySeq
<1> DEFINE u == <<Head(a)>>
           t == Tail(a)
           w == u \o t
<1>4. /\ w \in Seq(S) /\ Len(w) = 1 + Len(t)
      /\ \A i \in 1 .. 1 + Len(t) : w[i] = IF i <= 1 THEN u[i] ELSE t[i - 1]
  BY <1>1, <1>2, ConcatProperties
<1>5. u[1] = a[1]
  BY <1>2
<1>6. \A i \in 1 .. Len(t) : t[i] = a[i + 1]
  BY <1>1
<1>7. Len(t) = Len(a) - 1
  BY <1>1
<1> HIDE DEF u, t, w
<1>8. ASSUME NEW i \in 1 .. Len(a) PROVE a[i] = w[i]
  <2>1. CASE i = 1
    BY <1>3, <1>4, <1>5, <1>7, <2>1
  <2>2. CASE i # 1
    <3>1. i - 1 \in 1 .. Len(t) /\ i \in 1 .. 1 + Len(t)
      BY <1>3, <1>7, <2>2
    <3>2. t[i - 1] = a[(i - 1) + 1]
      BY <1>6, <3>1
    <3> QED BY <1>3, <1>4, <2>2, <3>1, <3>2
  <2> QED BY <2>1, <2>2
<1>9. a = w
  BY <1>3, <1>4, <1>7, <1>8, SeqEqual
<1> QED BY <1>1, <1>2, <1>9 DEF w, u, t

LEMMA Associative ==
  \A s, t, u \in Seq(Stuff) : (s \o t) \o u = s \o (t \o u)
BY ConcatAssociative

(* The two parts of what is put together.                                  *)
LEMMA PartsOf ==
  ASSUME NEW s \in Seq(Stuff), NEW t \in Seq(Stuff)
  PROVE  /\ s \o t \in Seq(Stuff) /\ Len(s) \in Nat /\ Len(t) \in Nat /\ Len(s \o t) = Len(s) + Len(t)
         /\ \A i \in 1 .. Len(s) : i \in 1 .. Len(s \o t) /\ (s \o t)[i] = s[i]
         /\ \A i \in 1 .. Len(t) :
              Len(s) + i \in 1 .. Len(s \o t) /\ (s \o t)[Len(s) + i] = t[i]
         /\ \A i \in 1 .. Len(s \o t) : i \in 1 .. Len(s) \/ \E j \in 1 .. Len(t) : i = Len(s) + j
<1> DEFINE w == s \o t
           m == Len(s)
           n == Len(t)
<1>1. m \in Nat /\ n \in Nat
  BY LenProperties
<1>2. /\ w \in Seq(Stuff) /\ Len(w) = m + n
      /\ \A i \in 1 .. m + n : w[i] = IF i <= m THEN s[i] ELSE t[i - m]
  BY ConcatProperties
<1> HIDE DEF w, m, n
<1>3. \A i \in 1 .. m : i \in 1 .. Len(w) /\ w[i] = s[i]
  BY <1>1, <1>2
<1>4. \A i \in 1 .. n : m + i \in 1 .. Len(w) /\ w[m + i] = t[i]
  <2> SUFFICES ASSUME NEW i \in 1 .. n PROVE m + i \in 1 .. Len(w) /\ w[m + i] = t[i]
    OBVIOUS
  <2>1. m + i \in 1 .. m + n /\ ~(m + i <= m) /\ (m + i) - m = i
    BY <1>1
  <2> QED BY <1>2, <2>1
<1>5. \A i \in 1 .. Len(w) : i \in 1 .. m \/ \E j \in 1 .. n : i = m + j
  <2> SUFFICES ASSUME NEW i \in 1 .. Len(w), i \notin 1 .. m PROVE \E j \in 1 .. n : i = m + j
    OBVIOUS
  <2>1. i - m \in 1 .. n /\ i = m + (i - m)
    BY <1>1, <1>2
  <2> QED BY <2>1
<1> QED BY <1>1, <1>2, <1>3, <1>4, <1>5 DEF w, m, n

(* Lemmas on several sequences name them together, so that the provers     *)
(* need not try them in every order.                                       *)
Seqs3(b, n, t) == b \in Seq(Stuff) /\ n \in Seq(Stuff) /\ t \in Seq(Stuff)
Seqs4(b, n, t, q) == Seqs3(b, n, t) /\ q \in Seq(Stuff)
Seqs5(b, n, t, a, p) == Seqs4(b, n, t, a) /\ p \in Seq(Stuff)
Seqs6(b, n, t, h, v, p) == Seqs3(b, n, t) /\ Seqs3(h, v, p)

LEMMA FourParts ==
  \A b, n, t, q : Seqs4(b, n, t, q) => b \o (n \o (t \o q)) = (b \o (n \o t)) \o q
<1> SUFFICES ASSUME NEW b, NEW n, NEW t, NEW q, Seqs4(b, n, t, q)
             PROVE  b \o (n \o (t \o q)) = (b \o (n \o t)) \o q
  OBVIOUS
<1>0. b \in Seq(Stuff) /\ n \in Seq(Stuff) /\ t \in Seq(Stuff) /\ q \in Seq(Stuff)
  BY DEF Seqs3, Seqs4, Seqs6
<1> DEFINE nt == n \o t
<1>1. nt \in Seq(Stuff)
  BY <1>0, ConcatProperties
<1>2. nt \o q = n \o (t \o q)
  BY <1>0, Associative, ZenonT(60)
<1> HIDE DEF nt
<1>3. (b \o nt) \o q = b \o (nt \o q)
  BY <1>0, <1>1, Associative, ZenonT(60)
<1> QED BY <1>2, <1>3 DEF nt

LEMMA ThreeParts ==
  \A b, n, t : Seqs3(b, n, t) => b \o (n \o t) = (b \o n) \o t
<1> SUFFICES ASSUME NEW b, NEW n, NEW t, Seqs3(b, n, t)
             PROVE  b \o (n \o t) = (b \o n) \o t
  OBVIOUS
<1>0. b \in Seq(Stuff) /\ n \in Seq(Stuff) /\ t \in Seq(Stuff)
  BY DEF Seqs3, Seqs4, Seqs6
<1> QED BY <1>0, Associative, Zenon

Begins(w, b) ==
  w \in Seq(Stuff) /\ Len(b) <= Len(w) /\ \A i \in 1 .. Len(b) : w[i] = b[i]

LEMMA GluedType ==
  \A b, n, t, a, p : Seqs5(b, n, t, a, p) => Begins(Glued(b, n, t, a, p), b)
<1> SUFFICES ASSUME NEW b, NEW n, NEW t, NEW a, NEW p, Seqs5(b, n, t, a, p)
             PROVE  Begins(Glued(b, n, t, a, p), b)
  OBVIOUS
<1>0. /\ b \in Seq(Stuff) /\ n \in Seq(Stuff) /\ t \in Seq(Stuff) /\ a \in Seq(Stuff)
      /\ p \in Seq(Stuff)
  BY DEF Seqs3, Seqs4, Seqs5
<1>1. a \o p \in Seq(Stuff)
  BY <1>0, ConcatProperties
<1>2. t \o (a \o p) \in Seq(Stuff)
  BY <1>0, <1>1, ConcatProperties
<1>3. n \o (t \o (a \o p)) \in Seq(Stuff)
  BY <1>0, <1>2, ConcatProperties
<1> DEFINE r == n \o (t \o (a \o p))
<1>4. Len(b) \in Nat /\ Len(r) \in Nat
  BY <1>0, <1>3, LenProperties
<1>5. b \o r \in Seq(Stuff) /\ Len(b \o r) = Len(b) + Len(r)
        /\ \A i \in 1 .. Len(b) + Len(r) : (b \o r)[i] = IF i <= Len(b) THEN b[i] ELSE r[i - Len(b)]
  BY <1>0, <1>3, ConcatProperties
<1> HIDE DEF r
<1>6. Len(b) <= Len(b \o r) /\ \A i \in 1 .. Len(b) : (b \o r)[i] = b[i]
  BY <1>4, <1>5
<1> QED BY <1>5, <1>6 DEF Begins, Glued, r

(* Whatever the thread and the decoder pass on stays in its place.         *)
Moves(b, n, t, a, p) ==
  /\ Glued(b, n \o t, <<>>, a, p) = Glued(b, n, t, a, p)
  /\ Glued(n, <<>>, t, a, p) = Glued(<<>>, n, t, a, p)
  /\ Glued(b, n, t, a, p) = b \o Glued(<<>>, n, t, a, p)
  /\ \A c \in 1 .. Len(p) :
       Glued(b, n, t, SubSeq(p, 1, c), SubSeq(p, c + 1, Len(p))) = Glued(b, n, t, <<>>, p)

LEMMA GluedMoves ==
  \A b, n, t, a, p : Seqs5(b, n, t, a, p) => Moves(b, n, t, a, p)
<1> SUFFICES ASSUME NEW b, NEW n, NEW t, NEW a, NEW p, Seqs5(b, n, t, a, p)
             PROVE  Moves(b, n, t, a, p)
  OBVIOUS
<1>0. /\ b \in Seq(Stuff) /\ n \in Seq(Stuff) /\ t \in Seq(Stuff) /\ a \in Seq(Stuff)
      /\ p \in Seq(Stuff)
  BY DEF Seqs3, Seqs4, Seqs5
<1>1. a \o p \in Seq(Stuff)
  BY <1>0, ConcatProperties
<1>2. t \o (a \o p) \in Seq(Stuff)
  BY <1>0, <1>1, ConcatProperties
<1>3. n \o (t \o (a \o p)) \in Seq(Stuff)
  BY <1>0, <1>2, ConcatProperties
<1>4. (n \o t) \o (a \o p) = n \o (t \o (a \o p))
  <2> DEFINE u == a \o p
  <2>1. Seqs3(n, t, u)
    BY <1>0, <1>1 DEF Seqs3
  <2> HIDE DEF u
  <2>2. n \o (t \o u) = (n \o t) \o u
    BY <2>1, ThreeParts
  <2> QED BY <2>2 DEF u
<1>5. <<>> \o (a \o p) = a \o p /\ <<>> \o (t \o (a \o p)) = t \o (a \o p)
        /\ <<>> \o (n \o (t \o (a \o p))) = n \o (t \o (a \o p))
  BY <1>1, <1>2, <1>3, ConcatEmptySeq
<1>6. Glued(b, n \o t, <<>>, a, p) = Glued(b, n, t, a, p)
  BY <1>4, <1>5 DEF Glued
<1>7. Glued(n, <<>>, t, a, p) = Glued(<<>>, n, t, a, p)
  BY <1>5 DEF Glued
<1>8. Glued(b, n, t, a, p) = b \o Glued(<<>>, n, t, a, p)
  BY <1>5 DEF Glued
<1>9. ASSUME NEW c \in 1 .. Len(p)
      PROVE  Glued(b, n, t, SubSeq(p, 1, c), SubSeq(p, c + 1, Len(p))) = Glued(b, n, t, <<>>, p)
  <2>1. Len(p) \in Nat
    BY <1>0, LenProperties
  <2>2. SubSeq(p, 1, c) \o SubSeq(p, c + 1, Len(p)) = SubSeq(p, 1, Len(p))
    BY <1>0, <2>1, ConcatAdjacentSubSeq
  <2>3. SubSeq(p, 1, Len(p)) = p /\ <<>> \o p = p
    BY <1>0, SubSeqFull, ConcatEmptySeq
  <2> QED BY <2>2, <2>3 DEF Glued
<1> QED BY <1>6, <1>7, <1>8, <1>9 DEF Moves

Splits(b, n, t, h, v, p) ==
    /\ b \o (n \o t) \in Seq(Stuff) /\ Len(b) <= Len(b \o (n \o t)) /\ v \o p \in Seq(Stuff)
    /\ Glued(b, n, t, h \o v, p) = (b \o (n \o t)) \o (h \o (v \o p))
    /\ Glued(b, n, t \o h, v, p) = Glued(b, n, t, h \o v, p)
    /\ Glued(b, n, t, v, p) = (b \o (n \o t)) \o (v \o p)

LEMMA GluedSplit ==
  \A b, n, t, h, v, p : Seqs6(b, n, t, h, v, p) => Splits(b, n, t, h, v, p)
<1> SUFFICES ASSUME NEW b, NEW n, NEW t, NEW h, NEW v, NEW p, Seqs6(b, n, t, h, v, p)
             PROVE  Splits(b, n, t, h, v, p)
  OBVIOUS
<1>0. /\ b \in Seq(Stuff) /\ n \in Seq(Stuff) /\ t \in Seq(Stuff) /\ h \in Seq(Stuff)
      /\ v \in Seq(Stuff) /\ p \in Seq(Stuff)
  BY DEF Seqs3, Seqs4, Seqs6
<1> DEFINE r == v \o p
           q == h \o r
<1>1. r \in Seq(Stuff)
  BY <1>0, ConcatProperties
<1>2. q \in Seq(Stuff)
  BY <1>0, <1>1, ConcatProperties
<1>3. (h \o v) \o p = q
  <2>1. Seqs3(h, v, p)
    BY <1>0 DEF Seqs3, Seqs4, Seqs6
  <2> QED BY <2>1, ThreeParts
<1> HIDE DEF r
<1>4. (t \o h) \o r = t \o q
  <2>1. Seqs3(t, h, r)
    BY <1>0, <1>1 DEF Seqs3, Seqs4, Seqs6
  <2> QED BY <2>1, ThreeParts
<1> HIDE DEF q
<1>5. b \o (n \o (t \o q)) = (b \o (n \o t)) \o q
  <2>1. Seqs4(b, n, t, q)
    BY <1>0, <1>2 DEF Seqs3, Seqs4, Seqs6
  <2> QED BY <2>1, FourParts
<1>6. b \o (n \o (t \o r)) = (b \o (n \o t)) \o r
  <2>1. Seqs4(b, n, t, r)
    BY <1>0, <1>1 DEF Seqs3, Seqs4, Seqs6
  <2> QED BY <2>1, FourParts
<1>7. n \o t \in Seq(Stuff)
  BY <1>0, ConcatProperties
<1>8. /\ b \o (n \o t) \in Seq(Stuff) /\ Len(b) \in Nat /\ Len(n \o t) \in Nat
      /\ Len(b \o (n \o t)) = Len(b) + Len(n \o t)
  BY <1>0, <1>7, PartsOf
<1>9. Len(b) <= Len(b \o (n \o t))
  BY <1>8
<1>10. Glued(b, n, t, h \o v, p) = (b \o (n \o t)) \o q
  BY <1>3, <1>5 DEF Glued
<1>11. Glued(b, n, t \o h, v, p) = b \o (n \o (t \o q))
  BY <1>4 DEF Glued, r
<1>12. Glued(b, n, t, v, p) = (b \o (n \o t)) \o r
  BY <1>6 DEF Glued, r
<1> QED BY <1>1, <1>5, <1>8, <1>9, <1>10, <1>11, <1>12 DEF Splits, r, q

(* The next segment of a batch, fetched or left out.                       *)
Fetches(b, n, t, a, p) ==
  /\ Glued(b, n, Append(t, Head(a)), Tail(a), p) = Glued(b, n, t, a, p)
  /\ \E l, r \in Seq(Stuff) :
       /\ Len(b) <= Len(l)
       /\ Glued(b, n, t, a, p) = l \o (<<Head(a)>> \o r)
       /\ Glued(b, n, t, Tail(a), p) = l \o r

LEMMA GluedFetch ==
  \A b, n, t, a, p : Seqs5(b, n, t, a, p) /\ a # <<>> => Fetches(b, n, t, a, p)
<1> SUFFICES ASSUME NEW b, NEW n, NEW t, NEW a, NEW p, Seqs5(b, n, t, a, p), a # <<>>
             PROVE  Fetches(b, n, t, a, p)
  OBVIOUS
<1>0. /\ b \in Seq(Stuff) /\ n \in Seq(Stuff) /\ t \in Seq(Stuff) /\ a \in Seq(Stuff)
      /\ p \in Seq(Stuff)
  BY DEF Seqs3, Seqs4, Seqs5
<1>1. Head(a) \in Stuff /\ <<Head(a)>> \in Seq(Stuff) /\ Tail(a) \in Seq(Stuff)
        /\ a = <<Head(a)>> \o Tail(a)
  BY <1>0, HeadFirst
<1>2. Append(t, Head(a)) = t \o <<Head(a)>>
  BY <1>0, <1>1, AppendIsConcat
<1> DEFINE h == <<Head(a)>>
           v == Tail(a)
<1>3. h \in Seq(Stuff) /\ v \in Seq(Stuff) /\ a = h \o v
  BY <1>1
<1> HIDE DEF h, v
<1>4. Seqs6(b, n, t, h, v, p)
  BY <1>0, <1>3 DEF Seqs3, Seqs6
<1>5. /\ b \o (n \o t) \in Seq(Stuff) /\ Len(b) <= Len(b \o (n \o t)) /\ v \o p \in Seq(Stuff)
      /\ Glued(b, n, t, h \o v, p) = (b \o (n \o t)) \o (h \o (v \o p))
      /\ Glued(b, n, t \o h, v, p) = Glued(b, n, t, h \o v, p)
      /\ Glued(b, n, t, v, p) = (b \o (n \o t)) \o (v \o p)
  <2>1. Splits(b, n, t, h, v, p)
    BY <1>4, GluedSplit, Zenon
  <2> QED BY <2>1, Zenon DEF Splits
<1>6. Glued(b, n, Append(t, Head(a)), v, p) = Glued(b, n, t, a, p)
  BY <1>2, <1>3, <1>5 DEF h
<1>7. Glued(b, n, t, a, p) = (b \o (n \o t)) \o (h \o (v \o p))
  BY <1>3, <1>5
<1> QED BY <1>5, <1>6, <1>7 DEF Fetches, h, v

-----------------------------------------------------------------------------
(* A playlist from a segment on                                            *)

LEMMA FromType ==
  ASSUME NEW c \in Stuff
  PROVE  /\ Hls!From(c) \in Seq(Hls!All) /\ Len(Hls!From(c)) = Segments - c
         /\ \A i \in 1 .. Segments - c : Hls!From(c)[i] = c + i - 1
<1>1. c \in 0 .. Segments /\ Segments \in Nat /\ Hls!All = 0 .. Segments - 1
  BY SegmentsType DEF Stuff
<1>2. Hls!From(c) \in [1 .. Segments - c -> Hls!All]
  BY <1>1 DEF Hls!From
<1>3. Hls!From(c) \in Seq(Hls!All)
  BY <1>1, <1>2, SeqDef
<1>4. Len(Hls!From(c)) = Segments - c
  BY <1>1, <1>2, <1>3, LenProperties
<1> QED BY <1>3, <1>4 DEF Hls!From

(* The start of the playlist after what was fetched of a first stretch.    *)
LEMMA LinedStart ==
  ASSUME NEW m \in Seq(Stuff), m = <<>> \/ m = <<Segments>>,
         NEW lo \in Stuff, NEW c \in Stuff, lo <= c,
         NEW g \in Seq(lo .. c - 1), Hls!InOrder(g)
  PROVE  LET w == m \o (g \o Hls!From(c))
             f == (lo .. c - 1) \ Hls!Range(g)
         IN /\ w \in Seq(Stuff) /\ Lined(w, 0, lo, f)
            /\ m = <<>> => Unmapped(w)
<1> DEFINE q == Hls!From(c)
           k == g \o q
           w == m \o k
           f == (lo .. c - 1) \ Hls!Range(g)
<1>1. /\ lo \in 0 .. Segments /\ c \in 0 .. Segments /\ Segments \in Nat \ {0}
      /\ Hls!All = 0 .. Segments - 1 /\ Hls!Map = Segments
  BY SegmentsType DEF Stuff
<1>2. /\ q \in Seq(Stuff) /\ Len(q) = Segments - c /\ \A i \in 1 .. Len(q) : q[i] = c + i - 1
  BY FromType, SegmentsType
<1>3. g \in Seq(Stuff) /\ Len(g) \in Nat /\ DOMAIN g = 1 .. Len(g)
        /\ \A i \in 1 .. Len(g) : g[i] \in lo .. c - 1
  <2>1. lo .. c - 1 \subseteq Stuff
    BY <1>1 DEF Stuff
  <2> QED BY <2>1, SeqMonotonic, LenProperties, ElementOfSeq
<1>4. /\ k \in Seq(Stuff) /\ Len(g) \in Nat /\ Len(q) \in Nat /\ Len(k) = Len(g) + Len(q)
      /\ \A i \in 1 .. Len(g) : i \in 1 .. Len(k) /\ k[i] = g[i]
      /\ \A i \in 1 .. Len(q) : Len(g) + i \in 1 .. Len(k) /\ k[Len(g) + i] = q[i]
      /\ \A i \in 1 .. Len(k) : i \in 1 .. Len(g) \/ \E j \in 1 .. Len(q) : i = Len(g) + j
  BY <1>2, <1>3, PartsOf
<1>5. \A i, j \in 1 .. Len(g) : i < j => g[i] < g[j]
  <2> SUFFICES ASSUME NEW i \in 1 .. Len(g), NEW j \in 1 .. Len(g), i < j PROVE g[i] < g[j]
    OBVIOUS
  <2>1. g[i] \in lo .. c - 1 /\ g[j] \in lo .. c - 1
    BY <1>3
  <2>2. g[i] # Hls!Map /\ g[j] # Hls!Map
    BY SMTT(60), <1>1, <2>1
  <2> QED BY <1>3, <2>2 DEF Hls!InOrder
<1>6. f = {x \in lo .. c - 1 : \A i \in 1 .. Len(g) : g[i] # x}
  BY <1>3 DEF Hls!Range
<1> HIDE DEF q, k, f
<1>7. \A i \in 1 .. Len(k) : k[i] \in lo .. Segments - 1 /\ k[i] \notin f
  <2>1. ASSUME NEW i \in 1 .. Len(g) PROVE g[i] \in lo .. Segments - 1 /\ g[i] \notin f
    <3>1. g[i] \in lo .. c - 1
      BY <1>3
    <3> QED BY <1>1, <1>6, <3>1
  <2>2. ASSUME NEW i \in 1 .. Len(q) PROVE q[i] \in lo .. Segments - 1 /\ q[i] \notin f
    <3>1. q[i] = c + i - 1 /\ i \in 1 .. Segments - c
      BY <1>2
    <3>2. q[i] \in c .. Segments - 1
      BY <1>1, <3>1
    <3> QED BY <1>1, <1>6, <3>2
  <2> QED BY ZenonT(60), <1>4, <2>1, <2>2
<1>8. \A i, j \in 1 .. Len(k) : i < j => k[i] < k[j]
  <2> SUFFICES ASSUME NEW i \in 1 .. Len(k), NEW j \in 1 .. Len(k), i < j PROVE k[i] < k[j]
    OBVIOUS
  <2>1. CASE i \in 1 .. Len(g) /\ j \in 1 .. Len(g)
    BY <1>4, <1>5, <2>1
  <2>2. CASE j \notin 1 .. Len(g)
    <3>1. PICK y \in 1 .. Len(q) : j = Len(g) + y
      BY <1>4, <2>2
    <3>2. k[j] = c + y - 1
      BY <1>2, <1>4, <3>1
    <3>3. CASE i \in 1 .. Len(g)
      <4>1. k[i] = g[i] /\ g[i] \in lo .. c - 1
        BY <1>3, <1>4, <3>3
      <4> QED BY SMTT(60), <1>1, <3>2, <4>1
    <3>4. CASE i \notin 1 .. Len(g)
      <4>1. PICK z \in 1 .. Len(q) : i = Len(g) + z
        BY <1>4, <3>4
      <4>2. k[i] = c + z - 1
        BY <1>2, <1>4, <4>1
      <4> QED BY <1>1, <1>4, <3>1, <3>2, <4>1, <4>2
    <3> QED BY <3>3, <3>4
  <2>3. CASE i \notin 1 .. Len(g) /\ j \in 1 .. Len(g)
    BY <1>4, <2>3
  <2> QED BY <2>1, <2>2, <2>3
<1>9. \A x \in Hls!All \ f : x >= lo => \E j \in 1 .. Len(k) : k[j] = x
  <2> SUFFICES ASSUME NEW x \in Hls!All \ f, x >= lo PROVE \E j \in 1 .. Len(k) : k[j] = x
    OBVIOUS
  <2>1. CASE x < c
    <3>1. PICK j \in 1 .. Len(g) : g[j] = x
      BY <1>1, <1>6, <2>1
    <3> QED BY <1>4, <3>1
  <2>2. CASE x >= c
    <3>1. x - c + 1 \in 1 .. Len(q) /\ q[x - c + 1] = x
      BY <1>1, <1>2, <2>2
    <3> QED BY <1>4, <3>1
  <2> QED BY <1>1, <2>1, <2>2
<1>10. Len(k) \in Nat
  BY <1>4, LenProperties
<1>11. Segments \notin f
  BY <1>1, <1>6
<1>12. CASE m = <<>>
  <2>1. w = k
    BY <1>4, <1>12, ConcatEmptySeq
  <2>2. Lined(k, 0, lo, f)
    BY SMTT(60), <1>1, <1>7, <1>8, <1>9, <1>10 DEF Lined
  <2>3. Unmapped(k)
    BY <1>1, <1>7 DEF Unmapped
  <2> HIDE DEF w
  <2> QED BY <1>4, <2>1, <2>2, <2>3 DEF w, k, q, f
<1>13. CASE m = <<Segments>>
  <2>1. Len(m) = 1 /\ m[1] = Segments /\ m # <<>>
    BY <1>13
  <2>a. /\ w \in Seq(Stuff) /\ Len(m) \in Nat /\ Len(w) = Len(m) + Len(k)
        /\ \A i \in 1 .. Len(m) : i \in 1 .. Len(w) /\ w[i] = m[i]
        /\ \A i \in 1 .. Len(k) : Len(m) + i \in 1 .. Len(w) /\ w[Len(m) + i] = k[i]
        /\ \A i \in 1 .. Len(w) : i \in 1 .. Len(m) \/ \E j \in 1 .. Len(k) : i = Len(m) + j
    BY <1>4, PartsOf
  <2> HIDE DEF w
  <2>2. /\ w \in Seq(Stuff) /\ Len(w) = 1 + Len(k)
        /\ \A i \in 1 .. Len(k) : 1 + i \in 1 .. Len(w) /\ w[1 + i] = k[i]
    BY <2>1, <2>a
  <2>3. w[1] = Segments /\ \A i \in 1 .. Len(w) : i = 1 \/ \E j \in 1 .. Len(k) : i = 1 + j
    BY <2>1, <2>a
  <2>4. \A x : (\E j \in 1 .. Len(k) : k[j] = x) => \E j \in 1 .. Len(w) : w[j] = x
    <3> SUFFICES ASSUME NEW j \in 1 .. Len(k) PROVE \E i \in 1 .. Len(w) : w[i] = k[j]
      OBVIOUS
    <3> QED BY <2>2
  <2>5. \A i \in 1 .. Len(w) : w[i] = Segments => i = 1
    <3> SUFFICES ASSUME NEW i \in 1 .. Len(w), w[i] = Segments, i # 1 PROVE FALSE
      OBVIOUS
    <3>1. PICK j \in 1 .. Len(k) : i = 1 + j
      BY <2>3
    <3>2. w[i] = k[j] /\ k[j] \in lo .. Segments - 1
      BY <1>7, <2>2, <3>1
    <3> QED BY <1>1, <3>2
  <2>6. \A i, j \in 1 .. Len(w) : i < j /\ w[i] # Segments => w[i] < w[j]
    <3> SUFFICES ASSUME NEW i \in 1 .. Len(w), NEW j \in 1 .. Len(w), i < j, w[i] # Segments
                 PROVE  w[i] < w[j]
      OBVIOUS
    <3>1. i # 1 /\ j # 1
      BY <1>10, <2>2, <2>3
    <3>2. PICK y \in 1 .. Len(k) : i = 1 + y
      BY <2>3, <3>1
    <3>3. PICK z \in 1 .. Len(k) : j = 1 + z
      BY <2>3, <3>1
    <3>4. y < z /\ w[i] = k[y] /\ w[j] = k[z]
      BY <1>10, <2>2, <3>2, <3>3
    <3> QED BY <1>8, <3>4
  <2>7. \A i \in 1 .. Len(w) : w[i] >= lo /\ w[i] \notin f /\ w[i] \in lo .. Segments
    <3> SUFFICES ASSUME NEW i \in 1 .. Len(w)
                 PROVE  w[i] >= lo /\ w[i] \notin f /\ w[i] \in lo .. Segments
      OBVIOUS
    <3>1. CASE i = 1
      BY <1>1, <1>11, <2>3, <3>1
    <3>2. CASE i # 1
      <4>1. PICK j \in 1 .. Len(k) : i = 1 + j
        BY <2>3, <3>2
      <4>2. w[i] = k[j] /\ k[j] \in lo .. Segments - 1 /\ k[j] \notin f
        BY <1>7, <2>2, <4>1
      <4> QED BY <1>1, <4>2
    <3> QED BY <3>1, <3>2
  <2>8. \A x \in Hls!All \ f : x >= lo => \E j \in 1 .. Len(w) : w[j] = x
    BY <1>9, <2>4
  <2>9. \A x \in Hls!All \ f : \A i \in 1 .. Len(w) : w[i] < x => \E j \in 1 .. Len(w) : w[j] = x
    BY <1>1, <2>7, <2>8
  <2>10. \A i \in 1 .. Len(w) : ~(i <= 0)
    BY <1>10, <2>2
  <2>11. Lined(w, 0, lo, f)
    BY <2>5, <2>6, <2>7, <2>8, <2>9, <2>10 DEF Lined
  <2> QED BY <2>1, <2>2, <2>11 DEF w, k, q, f
<1> QED BY <1>12, <1>13

-----------------------------------------------------------------------------
(* The invariant of the HLS readers                                        *)

LEMMA HlsCommands ==
  /\ Hls!Stop # Hls!Continue /\ Hls!Continue[1] # "Seek" /\ Hls!Stop[1] # "Seek"
  /\ \A i : Hls!SeekTo(i)[1] = "Seek" /\ Hls!SeekTo(i)[2] = i
  /\ \A i : Hls!SeekTo(i) # Hls!Continue /\ Hls!SeekTo(i) # Hls!Stop
<1>1. Hls!Continue[1] = "Continue" /\ Hls!Stop[1] = "Stop"
  BY DEF Hls!Continue, Hls!Stop
<1>2. \A i : Hls!SeekTo(i)[1] = "Seek" /\ Hls!SeekTo(i)[2] = i
  BY DEF Hls!SeekTo
<1> QED BY <1>1, <1>2

LEMMA SmallerOfTwo ==
  ASSUME NEW a \in Int, NEW b \in Int
  PROVE  Hls!Min({a, b}) = IF a <= b THEN a ELSE b
BY DEF Hls!Min

LEMMA HlsTypes ==
  ASSUME Hls!TypeOK
  PROVE  /\ buf \in Seq(Stuff) /\ next_buf \in Seq(Stuff) /\ tmp_buf \in Seq(Stuff)
         /\ batch \in Seq(Stuff) /\ pending \in Seq(Stuff) /\ <<>> \in Seq(Stuff)
         /\ Seqs5(buf, next_buf, tmp_buf, batch, pending)
         /\ due \in Stuff /\ failed \in SUBSET Hls!All
         /\ Len(buf) \in Nat /\ Len(next_buf) \in Nat /\ h_pos \in 0 .. Len(buf)
         /\ h_pos \in Nat /\ total_bytes_read \in Nat /\ h_target \in Nat /\ h_target \in 0 .. Segments
         /\ Line \in Seq(Stuff) /\ Len(Line) \in Nat /\ Len(buf) <= Len(Line)
         /\ \A i \in 1 .. Len(buf) : Line[i] = buf[i]
<1>1. /\ buf \in Seq(Stuff) /\ next_buf \in Seq(Stuff) /\ tmp_buf \in Seq(Stuff)
      /\ batch \in Seq(Stuff) /\ pending \in Seq(Stuff) /\ <<>> \in Seq(Stuff)
  BY SegmentsType, EmptySeq DEF Hls!TypeOK
<1>2. /\ due \in Stuff /\ failed \in SUBSET Hls!All
      /\ h_pos \in 0 .. Len(buf) /\ total_bytes_read \in Nat /\ h_target \in 0 .. Segments
  BY DEF Hls!TypeOK, Stuff
<1>3. Len(buf) \in Nat /\ Len(next_buf) \in Nat
  BY <1>1, LenProperties
<1>4. h_pos \in Nat /\ h_target \in Nat
  BY <1>2, <1>3, SegmentsType
<1>5. Seqs5(buf, next_buf, tmp_buf, batch, pending)
  BY <1>1 DEF Seqs3, Seqs4, Seqs5
<1>6. Begins(Line, buf)
  BY <1>5, GluedType DEF Line
<1>7. /\ Line \in Seq(Stuff) /\ Len(buf) <= Len(Line)
      /\ \A i \in 1 .. Len(buf) : Line[i] = buf[i]
  BY <1>6 DEF Begins
<1>8. Len(Line) \in Nat
  BY <1>7, LenProperties
<1> QED BY <1>1, <1>2, <1>3, <1>4, <1>5, <1>7, <1>8

-----------------------------------------------------------------------------
(* The decoder                                                             *)

LEMMA ReadBufferedKeeps ==
  ASSUME HlsInv, NEW want \in 1 .. MaxRead, NEW locked \in BOOLEAN, Hls!ReadBuffered(want, locked)
  PROVE  HlsInv'
<1> DEFINE n == Hls!Min({want, Len(buf) - h_pos})
<1>1. Hls!TypeOK /\ AtReader /\ h_reader = "idle" /\ h_pos < Len(buf)
  BY DEF HlsInv, Hls!ReadBuffered
<1>2. n \in Nat \ {0} /\ h_pos + n <= Len(buf) /\ h_pos + n \in 1 .. Len(buf)
  <2>1. want \in Nat \ {0} /\ Len(buf) \in Nat /\ h_pos \in Nat /\ h_pos < Len(buf)
    BY <1>1, HlsTypes, SegmentsType
  <2>2. n = IF want <= Len(buf) - h_pos THEN want ELSE Len(buf) - h_pos
    BY <2>1, SmallerOfTwo
  <2> HIDE DEF n
  <2> QED BY <2>1, <2>2
<1>3. /\ h_pos' = h_pos + n /\ total_bytes_read' = total_bytes_read + n
      /\ due' = IF buf[h_pos + n] = Hls!Map THEN due ELSE buf[h_pos + n] + 1
  BY DEF Hls!ReadBuffered, Hls!Handed
<1>4. /\ UNCHANGED <<service, next_buf, pending, h_command, seek_done, eos, abort_flag, buf, h_reader,
                     h_target, thread, batch, tmp_buf, failed>>
      /\ need_data' \in BOOLEAN
  BY <1>1 DEF Hls!ReadBuffered, Hls!threadVars, Hls!TypeOK
<1> HIDE DEF n
<1>5. h_pos + n <= Len(Line) /\ Line[h_pos + n] = buf[h_pos + n]
  BY <1>1, <1>2, HlsTypes
<1>6. due' = IF Line[h_pos + n] = Segments THEN due ELSE Line[h_pos + n] + 1
  BY <1>3, <1>5, SegmentsType
<1>7. /\ due' \in Stuff /\ Lined(Line, h_pos + n, due', failed)
      /\ Unmapped(Line) /\ Running(Line, h_pos, due) =>
           due' = due + n /\ Running(Line, h_pos + n, due')
  <2> DEFINE w == Line
             d == due'
  <2>1. Placed(w, h_pos, due, failed)
    BY <1>1, HlsTypes DEF AtReader, Placed
  <2>2. NextDue(w, h_pos + n, due, d)
    BY <1>1, <1>2, <1>6, HlsTypes DEF NextDue
  <2> HIDE DEF w, d
  <2>3. /\ Placed(w, h_pos + n, d, failed)
        /\ Unmapped(w) /\ Running(w, h_pos, due) => d = due + n /\ Running(w, h_pos + n, d)
    BY <1>2, <2>1, <2>2, Advance
  <2> QED BY <2>3 DEF w, d, Placed
<1>8. Line' = Line
  BY <1>4 DEF Line
<1>9. Hls!TypeOK'
  BY <1>1, <1>2, <1>3, <1>4, <1>7, HlsTypes DEF Hls!TypeOK, Stuff
<1>10. AtReader'
  BY <1>1, <1>3, <1>4, <1>7, <1>8 DEF AtReader
<1> QED BY <1>1, <1>4, <1>9, <1>10 DEF HlsInv

LEMMA WaitsKeep ==
  ASSUME HlsInv, Hls!ReadWaits \/ Hls!ReadEnd
  PROVE  HlsInv'
<1>1. Hls!TypeOK /\ AtReader /\ h_reader \in {"idle", "reading"}
  BY DEF HlsInv, Hls!ReadWaits, Hls!ReadEnd
<1>2. /\ UNCHANGED <<service, next_buf, pending, h_command, seek_done, eos, abort_flag, buf, h_pos,
                     total_bytes_read, h_target, thread, batch, tmp_buf, due, failed>>
      /\ need_data' \in BOOLEAN /\ h_reader' \in {"idle", "reading"}
      /\ h_reader' = "reading" => h_pos >= Len(buf)
  BY <1>1 DEF Hls!ReadWaits, Hls!ReadEnd, Hls!threadVars, Hls!sharedVars, Hls!historyVars, Hls!TypeOK
<1>3. h_reader' = "reading" => h_pos = Len(buf)
  BY <1>1, <1>2, HlsTypes
<1>4. Line' = Line
  BY <1>2 DEF Line
<1>5. Hls!TypeOK'
  BY <1>1, <1>2 DEF Hls!TypeOK
<1>6. AtReader'
  BY <1>1, <1>2, <1>3, <1>4 DEF AtReader
<1> QED BY <1>1, <1>2, <1>5, <1>6 DEF HlsInv

LEMMA ReadSwapKeeps ==
  ASSUME HlsInv, NEW want \in 1 .. MaxRead, Hls!ReadSwap(want)
  PROVE  HlsInv'
<1> DEFINE n == Hls!Min({want, Len(next_buf)})
           r == Glued(<<>>, next_buf, tmp_buf, batch, pending)
           d == due'
<1>1. Hls!TypeOK /\ AtReader /\ h_reader = "reading" /\ next_buf # <<>> /\ h_pos = Len(buf)
  BY DEF HlsInv, AtReader, Hls!ReadSwap
<1>2. n \in Nat \ {0} /\ n <= Len(next_buf) /\ n \in 1 .. Len(next_buf)
  <2>1. want \in Nat \ {0} /\ Len(next_buf) \in Nat \ {0}
    BY <1>1, HlsTypes, SegmentsType, EmptySeq
  <2>2. n = IF want <= Len(next_buf) THEN want ELSE Len(next_buf)
    BY <2>1, SmallerOfTwo
  <2> HIDE DEF n
  <2> QED BY <2>1, <2>2
<1>3. /\ h_pos' = n /\ total_bytes_read' = total_bytes_read + n
      /\ d = IF next_buf[n] = Hls!Map THEN due ELSE next_buf[n] + 1
      /\ buf' = next_buf /\ next_buf' = <<>> /\ need_data' = TRUE /\ h_reader' = "idle"
  BY DEF Hls!ReadSwap, Hls!Handed
<1>4. UNCHANGED <<service, pending, h_command, seek_done, eos, abort_flag, h_target, thread, batch,
                  tmp_buf, failed>>
  BY DEF Hls!ReadSwap, Hls!threadVars
<1>5. /\ Begins(r, next_buf) /\ Line = buf \o r
      /\ Glued(next_buf, <<>>, tmp_buf, batch, pending) = r
  <2>1. /\ Seqs5(buf, next_buf, tmp_buf, batch, pending)
        /\ Seqs5(next_buf, <<>>, tmp_buf, batch, pending)
    BY <1>1, HlsTypes DEF Seqs3, Seqs4, Seqs5
  <2>2. Moves(buf, next_buf, tmp_buf, batch, pending)
    BY <2>1, GluedMoves
  <2>3. Begins(Glued(next_buf, <<>>, tmp_buf, batch, pending), next_buf)
    BY <2>1, GluedType
  <2> QED BY <2>2, <2>3 DEF Moves, Line
<1>6. Line' = r
  BY <1>3, <1>4, <1>5 DEF Line
<1> HIDE DEF r, n, d
<1>7. /\ r \in Seq(Stuff) /\ Len(r) \in Nat /\ Len(next_buf) <= Len(r)
      /\ \A i \in 1 .. Len(next_buf) : r[i] = next_buf[i]
  BY <1>5, LenProperties DEF Begins
<1>8. /\ Lined(r, 0, due, failed)
      /\ Unmapped(Line) => Unmapped(r)
      /\ Running(Line, h_pos, due) => Running(r, 0, due)
  <2>1. Lined(buf \o r, Len(buf), due, failed)
    BY <1>1, <1>5 DEF AtReader
  <2>2. buf \in Seq(Stuff) /\ due \in Stuff /\ failed \in SUBSET Hls!All
    BY <1>1, HlsTypes
  <2>3. /\ Lined(r, 0, due, failed)
        /\ Unmapped(buf \o r) => Unmapped(r)
        /\ Running(buf \o r, Len(buf), due) => Running(r, 0, due)
    BY <1>7, <2>1, <2>2, LinedDrop
  <2> QED BY <1>1, <1>5, <2>3
<1>9. Placed(r, 0, due, failed) /\ NextDue(r, 0 + n, due, d)
  <2>1. 0 + n = n /\ n \in 1 .. Len(r) /\ r[n] = next_buf[n] /\ 0 \in 0 .. Len(r)
    BY <1>1, <1>2, <1>7, HlsTypes
  <2>2. d = IF r[n] = Segments THEN due ELSE r[n] + 1
    BY <1>3, <2>1, SegmentsType
  <2>3. due \in Stuff /\ failed \in SUBSET Hls!All
    BY <1>1, HlsTypes
  <2> QED BY <1>7, <1>8, <2>1, <2>2, <2>3 DEF Placed, NextDue
<1>10. /\ d \in Stuff /\ Lined(r, 0 + n, d, failed)
       /\ Unmapped(r) /\ Running(r, 0, due) => d = due + n /\ Running(r, 0 + n, d)
  <2>1. /\ Placed(r, 0 + n, d, failed)
        /\ Unmapped(r) /\ Running(r, 0, due) => d = due + n /\ Running(r, 0 + n, d)
    BY <1>2, <1>9, Advance
  <2> QED BY <2>1 DEF Placed
<1>11. 0 + n = n
  BY <1>2
<1>12. Hls!TypeOK'
  <2>1. next_buf' \in Seq(Hls!All \cup {Hls!Map}) /\ buf' \in Seq(Hls!All \cup {Hls!Map})
    BY <1>1, <1>3, EmptySeq DEF Hls!TypeOK
  <2>2. h_pos' \in 0 .. Len(buf') /\ total_bytes_read' \in Nat /\ due' \in 0 .. Segments
    BY SMTT(60), <1>1, <1>2, <1>3, <1>10, HlsTypes DEF d, Stuff
  <2> QED BY <1>1, <1>3, <1>4, <2>1, <2>2 DEF Hls!TypeOK
<1>13. AtReader'
  BY <1>1, <1>3, <1>4, <1>6, <1>8, <1>10, <1>11 DEF AtReader, d
<1> QED BY <1>1, <1>3, <1>4, <1>12, <1>13 DEF HlsInv

(* A seek within the buffer of SoundCloud's reader.                        *)
LEMMA SeekBufferedKeeps ==
  ASSUME HlsInv, NEW p \in 0 .. Segments, Hls!SeekBuffered(p)
  PROVE  HlsInv'
<1> DEFINE at == p + h_pos - total_bytes_read
           m == Len(buf)
           d == due'
<1>1. /\ Hls!TypeOK /\ AtReader /\ h_reader = "idle" /\ service = "soundcloud"
      /\ p + h_pos >= total_bytes_read /\ at <= m
  BY DEF HlsInv, Hls!SeekBuffered, Hls!Within
<1>2. /\ h_pos' = at /\ total_bytes_read' = p
      /\ d = IF at < m THEN buf[at + 1] ELSE IF buf = <<>> THEN due ELSE buf[m] + 1
  BY DEF Hls!SeekBuffered, Hls!Last
<1>3. UNCHANGED <<service, next_buf, need_data, pending, h_command, seek_done, eos, abort_flag, buf,
                  h_reader, h_target, thread, batch, tmp_buf, failed>>
  BY DEF Hls!SeekBuffered, Hls!sharedVars, Hls!threadVars
<1>4. /\ m \in 0 .. Len(Line) /\ at \in 0 .. m /\ h_pos \in 0 .. m /\ p \in Nat /\ m \in Nat
      /\ \A i \in 1 .. m : Line[i] = buf[i]
      /\ total_bytes_read \in Nat
  BY SMTT(60), <1>1, HlsTypes, SegmentsType
<1>5. buf = <<>> <=> m = 0
  BY <1>1, HlsTypes, EmptySeq
<1>6. at + total_bytes_read = p + h_pos
  BY <1>1, <1>4
<1> HIDE DEF at, m, d
<1>7. d = IF at < m THEN Line[at + 1] ELSE IF m = 0 THEN due ELSE Line[m] + 1
  <2>1. at < m => at + 1 \in 1 .. m
    BY <1>4
  <2>2. m # 0 => m \in 1 .. m
    BY <1>4
  <2> QED BY <1>2, <1>4, <1>5, <2>1, <2>2
<1>8. Lined(Line, h_pos, due, failed) /\ Unmapped(Line)
  BY <1>1 DEF AtReader
<1>9. /\ d \in Stuff /\ Lined(Line, at, d, failed)
      /\ Running(Line, h_pos, due) => d + h_pos = due + at /\ Running(Line, at, d)
  <2>1. Line \in Seq(Stuff) /\ due \in Stuff /\ failed \in SUBSET Hls!All
    BY <1>1, HlsTypes
  <2>2. m \in 0 .. Len(Line) /\ at \in 0 .. m /\ h_pos \in 0 .. m
    BY <1>4
  <2> DEFINE w == Line
  <2> HIDE DEF w
  <2>3. /\ d \in Stuff /\ Lined(w, at, d, failed)
        /\ Running(w, h_pos, due) => d + h_pos = due + at /\ Running(w, at, d)
    <3>1. w \in Seq(Stuff) /\ m \in 0 .. Len(w) /\ Lined(w, h_pos, due, failed) /\ Unmapped(w)
      BY <1>8, <2>1, <2>2 DEF w
    <3>2. d = IF at < m THEN w[at + 1] ELSE IF m = 0 THEN due ELSE w[m] + 1
      BY <1>7 DEF w
    <3> QED BY <2>1, <2>2, <3>1, <3>2, LinedMove
  <2> QED BY <2>3 DEF w
<1>10. failed = {} => Running(Line, at, d) /\ p = d
  <2> SUFFICES ASSUME failed = {} PROVE Running(Line, at, d) /\ p = d
    OBVIOUS
  <2>1. Running(Line, h_pos, due) /\ total_bytes_read = due
    BY <1>1 DEF AtReader
  <2>2. d + h_pos = due + at /\ Running(Line, at, d)
    BY <1>9, <2>1
  <2>3. d \in Nat /\ due \in Nat /\ at \in Nat /\ h_pos \in Nat
    BY <1>1, <1>4, <1>9, HlsTypes, SegmentsType DEF Stuff
  <2> QED BY <1>4, <1>6, <2>1, <2>2, <2>3
<1>11. Line' = Line
  BY <1>3 DEF Line
<1>12. Hls!TypeOK'
  <2>1. h_pos' \in 0 .. Len(buf') /\ total_bytes_read' \in Nat /\ due' \in 0 .. Segments
    BY <1>2, <1>3, <1>4, <1>9 DEF d, Stuff, m
  <2> QED BY <1>1, <1>3, <2>1 DEF Hls!TypeOK
<1>13. AtReader'
  BY <1>1, <1>2, <1>3, <1>9, <1>10, <1>11 DEF AtReader, d
<1> QED BY <1>1, <1>3, <1>12, <1>13 DEF HlsInv

LEMMA TargetIndexType ==
  ASSUME Hls!TypeOK
  PROVE  /\ Hls!TargetIndex \in 0 .. Segments - 1
         /\ Hls!TargetIndex = IF h_target <= Segments - 1 THEN h_target ELSE Segments - 1
         /\ h_target - Hls!TargetIndex \in {0, 1}
         /\ h_target < Segments => Hls!TargetIndex = h_target
<1>1. h_target \in 0 .. Segments /\ Segments \in Nat \ {0}
  BY SegmentsType DEF Hls!TypeOK
<1>2. Hls!TargetIndex = IF h_target <= Segments - 1 THEN h_target ELSE Segments - 1
  BY <1>1, SmallerOfTwo DEF Hls!TargetIndex
<1> QED BY <1>1, <1>2

LEMMA SeekAsksKeeps ==
  ASSUME HlsInv, (\E p \in 0 .. Segments : Hls!SeekHard(p)) \/ Hls!SeekCommand
  PROVE  HlsInv'
<1>1. Hls!TypeOK
  BY DEF HlsInv
<1>2. CASE \E p \in 0 .. Segments : Hls!SeekHard(p)
  <2>1. PICK p \in 0 .. Segments : Hls!SeekHard(p)
    BY <1>2
  <2>2. AtReader /\ h_reader = "idle"
    BY <2>1 DEF HlsInv, Hls!SeekHard
  <2>3. /\ service = "youtube" => p < Segments
        /\ abort_flag' = (service = "youtube")
        /\ buf' = <<>> /\ h_pos' = 0 /\ total_bytes_read' = p /\ h_target' = p /\ h_reader' = "seek"
        /\ UNCHANGED <<service, next_buf, need_data, pending, h_command, seek_done, eos, thread, batch,
                       tmp_buf, due, failed>>
    BY <2>1 DEF Hls!SeekHard, Hls!threadVars, Hls!historyVars
  <2>4. Hls!TypeOK'
    <3>1. buf' \in Seq(Hls!All \cup {Hls!Map}) /\ h_pos' \in 0 .. Len(buf')
      BY <2>3, EmptySeq
    <3>2. total_bytes_read' \in Nat /\ h_target' \in 0 .. Segments /\ abort_flag' \in BOOLEAN
      BY <2>3, SegmentsType
    <3> QED BY <1>1, <2>3, <3>1, <3>2 DEF Hls!TypeOK
  <2>5. Moving'
    BY <2>3 DEF Moving
  <2> QED BY <2>2, <2>3, <2>4, <2>5 DEF HlsInv, AtReader
<1>3. CASE Hls!SeekCommand
  <2>1. /\ h_reader = "seek" /\ Moving /\ h_command = Hls!Continue /\ thread \in {"wait", "batch"}
    BY <1>3 DEF HlsInv, Hls!SeekCommand
  <2>2. /\ h_command' = Hls!SeekTo(Hls!TargetIndex) /\ need_data' = TRUE /\ seek_done' = FALSE
        /\ failed' = {} /\ due' = Hls!TargetIndex /\ h_reader' = "seeking"
        /\ UNCHANGED <<service, next_buf, pending, eos, abort_flag, buf, h_pos, total_bytes_read,
                       h_target, thread, batch, tmp_buf>>
    BY <1>3 DEF Hls!SeekCommand, Hls!threadVars
  <2>3. Hls!TargetIndex \in 0 .. Segments - 1 /\ Hls!TargetIndex' = Hls!TargetIndex
    BY <1>1, <2>2, TargetIndexType DEF Hls!TargetIndex
  <2>4. Hls!TypeOK'
    <3>1. Hls!TargetIndex \in Hls!All /\ due' \in 0 .. Segments
      BY <2>2, <2>3, SegmentsType
    <3> QED BY <1>1, <2>2, <3>1 DEF Hls!TypeOK
  <2>5. Moving' /\ Asked'
    BY <2>1, <2>2 DEF Moving, Asked
  <2> QED BY <2>1, <2>2, <2>3, <2>4, <2>5 DEF HlsInv
<1> QED BY <1>2, <1>3

(* The decoder takes what was fetched for a seek.                          *)
LEMMA SeekSwapKeeps ==
  ASSUME HlsInv, Hls!SeekSwap
  PROVE  HlsInv'
<1> DEFINE k == h_target - Hls!TargetIndex
           skip == Hls!Min({k, Len(next_buf)})
           d == due'
           w == Line
<1>1. /\ Hls!TypeOK /\ Moving /\ h_reader = "seeking" /\ due = Hls!TargetIndex /\ seek_done
      /\ Obeyed /\ thread = "wait" /\ batch = <<>> /\ tmp_buf = <<>>
  BY DEF HlsInv, Hls!SeekSwap, Asked, Obeyed
<1>2. /\ seek_done' = FALSE /\ abort_flag' = FALSE /\ buf' = next_buf /\ next_buf' = <<>>
      /\ h_pos' = skip /\ d = due + skip /\ need_data' = TRUE /\ h_reader' = "idle"
      /\ UNCHANGED <<service, pending, h_command, eos, total_bytes_read, h_target, thread, batch,
                     tmp_buf, failed>>
  BY DEF Hls!SeekSwap, Hls!threadVars
<1>3. k \in {0, 1} /\ due \in 0 .. Segments - 1 /\ h_target = due + k /\ (k = 1 => due = Segments - 1)
        /\ (service = "youtube" => k = 0)
  BY <1>1, TargetIndexType, SegmentsType, HlsTypes DEF Moving
<1>4. /\ w \in Seq(Stuff) /\ Len(w) \in Nat /\ Len(next_buf) \in Nat /\ Len(next_buf) <= Len(w)
      /\ \A i \in 1 .. Len(next_buf) : w[i] = next_buf[i]
      /\ w = next_buf \o pending
      /\ Line' = w
  <2>1. /\ Seqs5(buf, next_buf, tmp_buf, batch, pending)
        /\ Seqs5(next_buf, <<>>, tmp_buf, batch, pending)
    BY <1>1, HlsTypes DEF Seqs3, Seqs4, Seqs5
  <2>2. Moves(buf, next_buf, tmp_buf, batch, pending)
    BY <2>1, GluedMoves
  <2>3. Begins(Glued(next_buf, <<>>, tmp_buf, batch, pending), next_buf)
    BY <2>1, GluedType
  <2>4. w = Glued(next_buf, <<>>, tmp_buf, batch, pending)
    BY <1>1, <2>2 DEF Moves, Moving, Line
  <2>5. Line' = w
    BY <1>2, <2>4 DEF Line
  <2>6. w = next_buf \o pending
    <3>1. <<>> \o (<<>> \o pending) = pending
      BY <1>1, HlsTypes, ConcatEmptySeq
    <3>2. <<>> \o (next_buf \o pending) = next_buf \o pending
      BY <1>1, HlsTypes, ConcatEmptySeq, ConcatProperties
    <3> QED BY <1>1, <3>1, <3>2 DEF Line, Glued, Moving
  <2> HIDE DEF w
  <2> QED BY <1>1, <2>3, <2>4, <2>5, <2>6, HlsTypes, LenProperties DEF Begins
<1>5. skip = (IF k <= Len(next_buf) THEN k ELSE Len(next_buf)) /\ skip \in {0, 1} /\ skip \in 0 .. Len(next_buf)
  <2>1. skip = IF k <= Len(next_buf) THEN k ELSE Len(next_buf)
    <3>1. k \in Int /\ Len(next_buf) \in Int
      BY <1>3, <1>4
    <3> HIDE DEF k
    <3> QED BY <3>1, SmallerOfTwo
  <2> HIDE DEF skip, k
  <2> QED BY <1>3, <1>4, <2>1
<1>6. /\ Lined(w, 0, due, failed) /\ \A i \in 1 .. Len(pending) : pending[i] > due
      /\ h_command = Hls!Continue /\ (eos => pending = <<>>)
      /\ service = "soundcloud" => Unmapped(w) /\ (failed = {} => Running(w, 0, due))
      /\ total_bytes_read = h_target
  BY <1>1 DEF Obeyed, Moving
<1> HIDE DEF skip, k, d, w
<1>7. service \in {"youtube", "soundcloud"} /\ Hls!All = 0 .. Segments - 1 /\ Segments \in Nat \ {0}
  BY <1>1, SegmentsType DEF Hls!TypeOK
<1>8. d \in 0 .. Segments /\ Lined(w, skip, d, failed)
      /\ (service = "soundcloud" /\ failed = {} => Running(w, skip, d))
  <2>1. CASE skip = 0
    <3>1. d = due
      BY <1>2, <1>3, <2>1
    <3> QED BY <1>3, <1>6, <1>7, <2>1, <3>1
  <2>2. CASE skip = 1
    <3>1. k = 1 /\ Len(next_buf) >= 1
      <4>1. PICK m \in Nat : m = Len(next_buf)
        BY <1>4
      <4>2. (skip = IF k <= m THEN k ELSE m) /\ skip = 1 /\ k \in {0, 1}
        BY <1>3, <1>5, <2>2, <4>1
      <4>3. k = 1 /\ m >= 1
        BY <4>1, <4>2
      <4> QED BY <4>1, <4>3
    <3>2. due = Segments - 1 /\ service = "soundcloud" /\ d = Segments
      BY <1>2, <1>3, <1>7, <2>2, <3>1
    <3>3. /\ k = 1 /\ due = Segments - 1 /\ service = "soundcloud" /\ d = Segments
          /\ 1 \in 1 .. Len(next_buf) /\ 1 \in 1 .. Len(w)
      BY <1>4, <3>1, <3>2
    <3>4. w[1] \in 0 .. Segments /\ w[1] # Segments /\ w[1] >= due
      <4>1. w[1] \in 0 .. Segments
        BY <1>4, <3>3, ElementOfSeq DEF Stuff
      <4>2. w[1] # Segments
        BY <1>6, <3>3 DEF Unmapped
      <4>3. 1 > 0 /\ w[1] >= due
        BY <1>6, <3>3 DEF Lined
      <4> QED BY <4>1, <4>2, <4>3
    <3>5. w[1] = due
      BY <1>7, <3>3, <3>4
    <3>6. Placed(w, 0, due, failed) /\ NextDue(w, 0 + 1, due, d)
      <4>1. failed \in SUBSET Hls!All /\ due \in Stuff
        BY <1>1, HlsTypes
      <4> QED BY <1>4, <1>6, <1>7, <3>3, <3>4, <3>5, <4>1 DEF Placed, NextDue
    <3>7. /\ Placed(w, 0 + 1, d, failed)
          /\ Unmapped(w) /\ Running(w, 0, due) => Running(w, 0 + 1, d)
      BY <3>6, Advance
    <3> QED BY <1>6, <1>7, <2>2, <3>3, <3>7 DEF Placed
  <2> QED BY <1>5, <2>1, <2>2
(* Were nothing left of the last segment, it would have failed.            *)
<1>9. service = "soundcloud" /\ failed = {} => total_bytes_read = d
  <2> SUFFICES ASSUME service = "soundcloud", failed = {}, total_bytes_read # d PROVE FALSE
    OBVIOUS
  <2>1. k = 1 /\ skip = 0 /\ due = Segments - 1 /\ Len(next_buf) = 0
    BY <1>2, <1>3, <1>4, <1>5, <1>6, <1>7
  <2>2. PICK j \in 1 .. Len(w) : w[j] = due
    <3>1. due \in Hls!All \ failed /\ due >= due
      BY <1>3, <1>7
    <3> QED BY <1>6, <3>1 DEF Lined
  <2>3. w = pending
    <3>1. next_buf = <<>>
      BY <1>1, <2>1, HlsTypes, EmptySeq
    <3> QED BY <1>1, <1>4, <3>1, HlsTypes, ConcatEmptySeq
  <2>4. due > due
    BY <1>6, <2>2, <2>3
  <2> QED BY <1>3, <1>7, <2>4
<1>10. Hls!TypeOK'
  <2>1. next_buf' \in Seq(Hls!All \cup {Hls!Map}) /\ buf' \in Seq(Hls!All \cup {Hls!Map})
    BY <1>1, <1>2, EmptySeq DEF Hls!TypeOK
  <2>2. h_pos' \in 0 .. Len(buf') /\ due' \in 0 .. Segments
    BY <1>2, <1>5, <1>8 DEF d
  <2> QED BY <1>1, <1>2, <2>1, <2>2 DEF Hls!TypeOK
<1>11. AtReader'
  BY <1>1, <1>2, <1>4, <1>6, <1>8, <1>9 DEF AtReader, d
<1> QED BY <1>1, <1>2, <1>10, <1>11 DEF HlsInv

LEMMA CloseKeeps ==
  ASSUME HlsInv, Hls!Close \/ Hls!Joined
  PROVE  HlsInv'
<1>1. Hls!TypeOK /\ (thread = "wait" => batch = <<>> /\ tmp_buf = <<>>)
  BY DEF HlsInv
<1>2. /\ h_reader' \in {"closing", "closed"} /\ abort_flag' \in BOOLEAN /\ need_data' \in BOOLEAN
      /\ h_command' \in {h_command, Hls!Stop}
      /\ UNCHANGED <<service, next_buf, pending, seek_done, eos, buf, h_pos, total_bytes_read, h_target,
                     thread, batch, tmp_buf, due, failed>>
  BY <1>1 DEF Hls!Close, Hls!Joined, Hls!threadVars, Hls!sharedVars, Hls!historyVars, Hls!TypeOK
<1>3. Hls!TypeOK'
  BY <1>1, <1>2 DEF Hls!TypeOK
<1> QED BY <1>1, <1>2, <1>3 DEF HlsInv

-----------------------------------------------------------------------------
(* The thread                                                              *)

LEMMA IdleStepsKeep ==
  ASSUME HlsInv, Hls!ObeyStop \/ Hls!NothingPending
  PROVE  HlsInv'
<1>1. Hls!TypeOK /\ thread = "wait" /\ need_data /\ batch = <<>> /\ tmp_buf = <<>>
  BY DEF HlsInv, Hls!ObeyStop, Hls!NothingPending
<1>2. UNCHANGED <<service, next_buf, pending, seek_done, abort_flag, buf, h_pos, total_bytes_read,
                  h_reader, h_target, batch, tmp_buf, due, failed>>
  BY DEF Hls!ObeyStop, Hls!NothingPending, Hls!decoderVars, Hls!threadVars, Hls!historyVars
<1>3. Line' = Line /\ Hls!TargetIndex' = Hls!TargetIndex
  BY <1>2 DEF Line, Hls!TargetIndex
<1>4. CASE Hls!ObeyStop
  <2>1. /\ h_command = Hls!Stop /\ h_command' = Hls!Continue /\ thread' = "gone"
        /\ UNCHANGED <<need_data, eos>>
    BY <1>4 DEF Hls!ObeyStop
  <2>2. h_reader \notin {"idle", "reading", "seek", "seeking"}
    BY <2>1, HlsCommands DEF HlsInv, AtReader, Asked, Obeyed
  <2>3. Hls!TypeOK'
    BY <1>1, <1>2, <2>1 DEF Hls!TypeOK
  <2> QED BY <1>2, <2>1, <2>2, <2>3 DEF HlsInv
<1>5. CASE Hls!NothingPending
  <2>1. /\ h_command = Hls!Continue /\ pending = <<>> /\ eos' = TRUE /\ need_data' = FALSE
        /\ UNCHANGED <<h_command, thread>>
    BY <1>5 DEF Hls!NothingPending, Hls!threadVars
  <2>2. Hls!TypeOK'
    BY <1>1, <1>2, <2>1 DEF Hls!TypeOK
  <2>3. h_reader # "seeking"
    BY <1>1, <2>1, HlsCommands DEF HlsInv, Asked, Obeyed
  <2>4. h_reader \in {"idle", "reading"} => AtReader'
    BY <1>1, <1>2, <1>3, <2>1 DEF HlsInv, AtReader
  <2>5. h_reader = "seek" => Moving'
    BY <1>2 DEF HlsInv, Moving
  <2> QED BY <1>1, <1>2, <2>1, <2>2, <2>3, <2>4, <2>5 DEF HlsInv
<1> QED BY <1>4, <1>5

LEMMA ObeySeekKeeps ==
  ASSUME HlsInv, Hls!ObeySeek
  PROVE  HlsInv'
<1> DEFINE c == h_command[2]
           m == Hls!MapData
           q == Hls!From(c)
<1>1. Hls!TypeOK /\ thread = "wait" /\ h_command[1] = "Seek"
  BY DEF HlsInv, Hls!ObeySeek
<1>2. c \in 0 .. Segments - 1 /\ c \in Stuff /\ Segments \in Nat \ {0} /\ Hls!Map = Segments
  <2>1. PICK i \in Hls!All : h_command = Hls!SeekTo(i)
    BY <1>1, HlsCommands DEF Hls!TypeOK
  <2> QED BY <2>1, HlsCommands, SegmentsType DEF Stuff
<1>3. /\ h_command' = Hls!Continue /\ next_buf' = m /\ eos' = FALSE
      /\ pending' = Tail(q) /\ batch' = <<Head(q)>> /\ tmp_buf' = <<>> /\ thread' = "seek"
      /\ UNCHANGED <<service, need_data, seek_done, abort_flag, buf, h_pos, total_bytes_read, h_reader,
                     h_target, due, failed>>
  BY DEF Hls!ObeySeek, Hls!decoderVars, Hls!historyVars
<1>4. /\ q \in Seq(Hls!All) /\ Len(q) = Segments - c /\ q # <<>>
      /\ \A i \in 1 .. Segments - c : q[i] = c + i - 1
  BY <1>2, FromType, EmptySeq
<1>5. /\ Head(q) \in Hls!All /\ Tail(q) \in Seq(Hls!All) /\ Len(Tail(q)) = Len(q) - 1
      /\ \A i \in 1 .. Len(Tail(q)) : Tail(q)[i] = q[i + 1]
      /\ q = <<Head(q)>> \o Tail(q) /\ <<Head(q)>> \in Seq(Hls!All)
  BY <1>4, HeadTailProperties, HeadFirst
<1>6. /\ m \in Seq(Stuff) /\ (m = <<>> \/ m = <<Segments>>) /\ (service # "youtube" => m = <<>>)
      /\ m \in Seq(Hls!All \cup {Hls!Map})
  <2>1. m = IF service = "youtube" THEN <<Segments>> ELSE <<>>
    BY <1>2 DEF Hls!MapData
  <2> HIDE DEF m
  <2>2. Segments \in Stuff
    BY <1>2 DEF Stuff
  <2>3. <<Segments>> \in Seq(Stuff) /\ <<>> \in Seq(Stuff)
    BY <2>2, EmptySeq
  <2> QED BY <2>1, <2>3, SegmentsType
<1>7. \A i \in 1 .. Len(Tail(q)) : Tail(q)[i] > c
  <2> SUFFICES ASSUME NEW i \in 1 .. Len(Tail(q)) PROVE Tail(q)[i] > c
    OBVIOUS
  <2>1. i + 1 \in 1 .. Segments - c /\ i \in Nat
    BY <1>2, <1>4, <1>5
  <2>2. Tail(q)[i] = c + (i + 1) - 1
    BY <1>4, <1>5, <2>1
  <2> QED BY <1>2, <2>1, <2>2
<1>8. /\ m \o q \in Seq(Stuff) /\ Lined(m \o q, 0, c, {})
      /\ m = <<>> => Unmapped(m \o q) /\ Running(m \o q, 0, c)
  <2> DEFINE g == <<>>
             f == (c .. c - 1) \ Hls!Range(g)
  <2>1. g \in Seq(c .. c - 1) /\ Hls!InOrder(g) /\ c <= c
    BY <1>2 DEF Hls!InOrder
  <2>2. /\ m \o (g \o q) \in Seq(Stuff) /\ Lined(m \o (g \o q), 0, c, f)
        /\ m = <<>> => Unmapped(m \o (g \o q))
    <3> HIDE DEF g, m, c
    <3> QED BY <1>2, <1>6, <2>1, LinedStart
  <2>3. f = {}
    BY <1>2
  <2>4. g \o q = q
    BY <1>4, ConcatEmptySeq
  <2>5. ASSUME m = <<>> PROVE Running(m \o q, 0, c)
    <3>1. m \o q = q
      BY <1>4, <2>5, ConcatEmptySeq
    <3>2. \A i \in 1 .. Len(q) : q[i] + 0 + 1 = c + i
      BY <1>2, <1>4
    <3> HIDE DEF q, m, c
    <3> QED BY <3>1, <3>2 DEF Running
  <2> QED BY <2>2, <2>3, <2>4, <2>5
<1>9. Hls!TypeOK'
  <2>1. next_buf' \in Seq(Hls!All \cup {Hls!Map}) /\ tmp_buf' \in Seq(Hls!All)
    BY <1>3, <1>6, EmptySeq
  <2> QED BY <1>1, <1>3, <1>5, <2>1 DEF Hls!TypeOK
<1>10. CASE h_reader = "seeking"
  <2>1. Moving /\ Asked /\ due = Hls!TargetIndex /\ c = due
    BY <1>1, <1>10, HlsCommands DEF HlsInv, Asked, Obeyed
  <2>2. Line' = m \o q
    <3>1. Line' = <<>> \o (m \o (<<>> \o (<<Head(q)>> \o Tail(q))))
      BY <1>3, <2>1 DEF Line, Glued, Moving
    <3> HIDE DEF q, m
    <3>2. q \in Seq(Stuff)
      BY <1>4, SegmentsType
    <3>3. Line' = <<>> \o (m \o (<<>> \o q))
      BY <1>5, <3>1
    <3>4. <<>> \o q = q /\ <<>> \o (m \o q) = m \o q
      BY <1>8, <3>2, ConcatEmptySeq
    <3> QED BY <3>3, <3>4
  <2> HIDE DEF m, c, q
  <2>3. Lined(Line', 0, due, failed) /\ (service = "soundcloud" => Unmapped(Line') /\ Running(Line', 0, due))
    BY <1>6, <1>8, <2>1, <2>2 DEF Asked
  <2>4. Obeyed'
    BY <1>3, <1>7, <2>1, <2>3 DEF Obeyed, Asked
  <2>5. Moving' /\ Hls!TargetIndex' = Hls!TargetIndex
    BY <1>3, <2>1 DEF Moving, Hls!TargetIndex
  <2> QED BY <1>3, <1>9, <1>10, <2>1, <2>4, <2>5 DEF HlsInv
<1>11. CASE h_reader # "seeking"
  <2>1. h_reader \notin {"idle", "reading", "seek"}
    BY <1>1, HlsCommands DEF HlsInv, AtReader
  <2> QED BY <1>3, <1>9, <1>11, <2>1 DEF HlsInv
<1> QED BY <1>10, <1>11

LEMMA TakeBatchKeeps ==
  ASSUME HlsInv, Hls!TakeBatch
  PROVE  HlsInv'
<1> DEFINE k == Hls!Min({Batch, Len(pending)})
<1>1. /\ Hls!TypeOK /\ thread = "wait" /\ need_data /\ h_command = Hls!Continue /\ pending # <<>>
      /\ batch = <<>> /\ tmp_buf = <<>>
  BY DEF HlsInv, Hls!TakeBatch
<1>2. k \in 1 .. Len(pending) /\ Len(pending) \in Nat
  <2>1. Batch \in Nat \ {0} /\ Len(pending) \in Nat \ {0}
    BY <1>1, HlsTypes, SegmentsType, EmptySeq
  <2>2. k = IF Batch <= Len(pending) THEN Batch ELSE Len(pending)
    BY <2>1, SmallerOfTwo
  <2> HIDE DEF k
  <2> QED BY <2>1, <2>2
<1>3. /\ batch' = SubSeq(pending, 1, k) /\ pending' = SubSeq(pending, k + 1, Len(pending))
      /\ tmp_buf' = <<>> /\ thread' = "batch"
      /\ UNCHANGED <<service, next_buf, need_data, h_command, seek_done, eos, abort_flag, buf, h_pos,
                     total_bytes_read, h_reader, h_target, due, failed>>
  BY DEF Hls!TakeBatch, Hls!decoderVars, Hls!historyVars
<1> HIDE DEF k
<1>4. Line' = Line
  <2>1. Moves(buf, next_buf, tmp_buf, batch, pending)
    BY <1>1, HlsTypes, GluedMoves
  <2> QED BY <1>1, <1>2, <1>3, <2>1 DEF Moves, Line
<1>5. Hls!TypeOK'
  <2>1. \A i \in 1 .. Len(pending) : pending[i] \in Hls!All
    BY <1>1, ElementOfSeq DEF Hls!TypeOK
  <2>2. batch' \in Seq(Hls!All)
    <3>1. k \in Int /\ 1 \in Int /\ \A i \in 1 .. k : pending[i] \in Hls!All
      BY <1>2, <2>1
    <3> QED BY <1>3, <3>1, SubSeqProperties
  <2>3. pending' \in Seq(Hls!All)
    <3>1. k + 1 \in Int /\ Len(pending) \in Int /\ \A i \in k + 1 .. Len(pending) : pending[i] \in Hls!All
      BY <1>2, <2>1
    <3> QED BY <1>3, <3>1, SubSeqProperties
  <2> QED BY <1>1, <1>3, <2>2, <2>3 DEF Hls!TypeOK
<1>6. h_reader # "seeking"
  BY <1>1, HlsCommands DEF HlsInv, Asked, Obeyed
<1>7. h_reader \in {"idle", "reading"} => AtReader'
  BY <1>1, <1>3, <1>4 DEF HlsInv, AtReader
<1>8. h_reader = "seek" => Moving'
  BY <1>3 DEF HlsInv, Moving
<1> QED BY <1>1, <1>3, <1>5, <1>6, <1>7, <1>8 DEF HlsInv

(* While a seek is asked for, no segment is fetched for the old position.  *)
LEMMA FetchesFor ==
  ASSUME HlsInv, Hls!MayFetch
  PROVE  /\ Hls!TypeOK /\ thread \in {"seek", "batch"} /\ batch # <<>>
         /\ h_reader = "seeking" => Obeyed /\ thread = "seek"
<1>1. /\ Hls!TypeOK /\ batch # <<>> /\ (thread = "seek" \/ (thread = "batch" /\ ~Hls!Aborted))
  BY DEF HlsInv, Hls!MayFetch
<1>2. h_reader = "seeking" /\ Asked => Hls!Aborted
  BY <1>1, HlsCommands DEF HlsInv, Asked, Moving, Hls!Aborted, Hls!TypeOK
<1> QED BY <1>1, <1>2, HlsCommands DEF HlsInv, Asked, Obeyed

LEMMA SegmentArrivesKeeps ==
  ASSUME HlsInv, Hls!SegmentArrives
  PROVE  HlsInv'
<1>1. /\ Hls!TypeOK /\ thread \in {"seek", "batch"} /\ batch # <<>>
      /\ h_reader = "seeking" => Obeyed /\ thread = "seek"
  BY FetchesFor DEF Hls!SegmentArrives
<1>2. /\ tmp_buf' = Append(tmp_buf, Head(batch)) /\ batch' = Tail(batch)
      /\ UNCHANGED <<service, next_buf, need_data, pending, h_command, seek_done, eos, abort_flag, buf,
                     h_pos, total_bytes_read, h_reader, h_target, thread, due, failed>>
  BY DEF Hls!SegmentArrives, Hls!sharedVars, Hls!decoderVars, Hls!historyVars
<1>3. Line' = Line
  <2>1. Fetches(buf, next_buf, tmp_buf, batch, pending)
    BY <1>1, HlsTypes, GluedFetch
  <2> QED BY <1>2, <2>1 DEF Line, Fetches
<1>4. Hls!TypeOK'
  <2>1. Head(batch) \in Hls!All /\ Tail(batch) \in Seq(Hls!All) /\ tmp_buf \in Seq(Hls!All)
    BY <1>1, HeadTailProperties DEF Hls!TypeOK
  <2>2. Append(tmp_buf, Head(batch)) \in Seq(Hls!All)
    BY <2>1, AppendProperties
  <2> QED BY <1>1, <1>2, <2>1, <2>2 DEF Hls!TypeOK
<1>5. h_reader \in {"idle", "reading"} => AtReader'
  BY <1>1, <1>2, <1>3 DEF HlsInv, AtReader
<1>6. h_reader \in {"seek", "seeking"} => Moving'
  BY <1>2 DEF HlsInv, Moving
<1>7. h_reader = "seeking" => due' = Hls!TargetIndex' /\ Obeyed'
  BY <1>1, <1>2, <1>3 DEF HlsInv, Obeyed, Hls!TargetIndex
<1> QED BY <1>1, <1>2, <1>4, <1>5, <1>6, <1>7 DEF HlsInv

LEMMA SegmentFailsKeeps ==
  ASSUME HlsInv, Hls!SegmentFails
  PROVE  HlsInv'
<1> DEFINE h == Head(batch)
<1>1. /\ Hls!TypeOK /\ thread \in {"seek", "batch"} /\ batch # <<>>
      /\ h_reader = "seeking" => Obeyed /\ thread = "seek"
  BY FetchesFor DEF Hls!SegmentFails
<1>2. /\ batch' = Tail(batch) /\ failed' = failed \cup {h}
      /\ UNCHANGED <<service, next_buf, need_data, pending, h_command, seek_done, eos, abort_flag, buf,
                     h_pos, total_bytes_read, h_reader, h_target, thread, tmp_buf, due>>
  BY DEF Hls!SegmentFails, Hls!sharedVars, Hls!decoderVars
<1>3. h \in Hls!All /\ Tail(batch) \in Seq(Hls!All)
  BY <1>1, HeadTailProperties DEF Hls!TypeOK
<1>4. PICK l \in Seq(Stuff), r \in Seq(Stuff) :
        /\ Len(buf) <= Len(l) /\ Line = l \o (<<h>> \o r) /\ Line' = l \o r
  <2>1. Fetches(buf, next_buf, tmp_buf, batch, pending)
    BY <1>1, HlsTypes, GluedFetch
  <2> QED BY <1>2, <2>1 DEF Line, Fetches
<1> HIDE DEF h
<1>5. \A at \in 0 .. Len(buf) : Lined(Line, at, due, failed) => Lined(Line', at, due, failed')
  <2> SUFFICES ASSUME NEW at \in 0 .. Len(buf), Lined(l \o (<<h>> \o r), at, due, failed)
               PROVE  Lined(l \o r, at, due, failed \cup {h})
    BY <1>2, <1>4
  <2>1. at \in 0 .. Len(l) /\ due \in Stuff /\ failed \in SUBSET Hls!All
    BY <1>1, <1>4, HlsTypes, LenProperties
  <2> QED BY <1>3, <2>1, LinedLess
<1>6. Unmapped(Line) /\ (\E at \in 0 .. Len(buf) : Lined(Line, at, due, failed)) => Unmapped(Line')
  <2> SUFFICES ASSUME NEW at \in 0 .. Len(buf), Lined(l \o (<<h>> \o r), at, due, failed),
                      Unmapped(l \o (<<h>> \o r))
               PROVE  Unmapped(l \o r)
    BY <1>2, <1>4
  <2>1. at \in 0 .. Len(l) /\ due \in Stuff /\ failed \in SUBSET Hls!All
    BY <1>1, <1>4, HlsTypes, LenProperties
  <2> QED BY <1>3, <2>1, LinedLess
<1>7. h_pos \in 0 .. Len(buf) /\ 0 \in 0 .. Len(buf) /\ failed' # {}
  BY <1>1, <1>2, HlsTypes
<1>8. Hls!TypeOK'
  BY <1>1, <1>2, <1>3 DEF Hls!TypeOK
<1>9. h_reader \in {"idle", "reading"} => AtReader'
  <2> SUFFICES ASSUME AtReader PROVE AtReader'
    BY DEF HlsInv
  <2>1. Lined(Line', h_pos, due, failed') /\ (Unmapped(Line) => Unmapped(Line'))
    BY <1>5, <1>6, <1>7 DEF AtReader
  <2>2. ~eos
    BY <1>1 DEF AtReader
  <2> QED BY <1>1, <1>2, <1>7, <2>1, <2>2 DEF AtReader
<1>10. h_reader \in {"seek", "seeking"} => Moving'
  BY <1>2 DEF HlsInv, Moving
<1>11. h_reader = "seeking" => due' = Hls!TargetIndex' /\ Obeyed'
  <2> SUFFICES ASSUME h_reader = "seeking" PROVE due' = Hls!TargetIndex' /\ Obeyed'
    OBVIOUS
  <2>1. Obeyed /\ due = Hls!TargetIndex
    BY <1>1 DEF HlsInv
  <2>2. Lined(Line', 0, due, failed') /\ (Unmapped(Line) => Unmapped(Line'))
    BY <1>5, <1>6, <1>7, <2>1 DEF Obeyed
  <2> QED BY <1>2, <1>7, <2>1, <2>2 DEF Obeyed, Hls!TargetIndex
<1> QED BY <1>1, <1>2, <1>8, <1>9, <1>10, <1>11 DEF HlsInv

LEMMA StoreBatchKeeps ==
  ASSUME HlsInv, Hls!StoreBatch
  PROVE  HlsInv'
<1>1. Hls!TypeOK /\ thread = "batch" /\ (batch = <<>> \/ Hls!Aborted)
  BY DEF HlsInv, Hls!StoreBatch
<1>2. /\ thread' = "wait" /\ batch' = <<>> /\ tmp_buf' = <<>>
      /\ UNCHANGED <<service, pending, h_command, seek_done, abort_flag, buf, h_pos, total_bytes_read,
                     h_reader, h_target, due, failed>>
      /\ IF h_command = Hls!Continue
            THEN next_buf' = next_buf \o tmp_buf /\ eos' = (pending = <<>>) /\ need_data' = FALSE
            ELSE UNCHANGED <<next_buf, eos, need_data>>
  BY DEF Hls!StoreBatch, Hls!decoderVars
<1>3. Hls!TypeOK'
  <2>1. tmp_buf \in Seq(Hls!All \cup {Hls!Map}) /\ next_buf \in Seq(Hls!All \cup {Hls!Map})
    BY <1>1, SeqMonotonic DEF Hls!TypeOK
  <2>2. next_buf \o tmp_buf \in Seq(Hls!All \cup {Hls!Map})
    BY <2>1, ConcatProperties
  <2>3. next_buf' \in Seq(Hls!All \cup {Hls!Map}) /\ batch' \in Seq(Hls!All) /\ tmp_buf' \in Seq(Hls!All)
    BY <1>2, <2>1, <2>2, EmptySeq
  <2>4. eos' \in BOOLEAN /\ need_data' \in BOOLEAN
    BY <1>1, <1>2 DEF Hls!TypeOK
  <2> QED BY <1>1, <1>2, <2>3, <2>4 DEF Hls!TypeOK
<1>4. h_reader \in {"idle", "reading"} => AtReader'
  <2> SUFFICES ASSUME AtReader PROVE AtReader'
    BY DEF HlsInv
  <2>1. h_command = Hls!Continue /\ batch = <<>>
    BY <1>1 DEF AtReader, Hls!Aborted
  <2>2. Line' = Line
    <3>1. Moves(buf, next_buf, tmp_buf, batch, pending)
      BY <1>1, HlsTypes, GluedMoves
    <3> QED BY <1>2, <2>1, <3>1 DEF Moves, Line
  <2> QED BY <1>2, <2>1, <2>2 DEF AtReader
<1>5. h_reader \in {"seek", "seeking"} => Moving'
  BY <1>2 DEF HlsInv, Moving
<1>6. h_reader = "seeking" => due' = Hls!TargetIndex' /\ Asked'
  BY <1>1, <1>2 DEF HlsInv, Asked, Obeyed, Hls!TargetIndex
<1> QED BY <1>2, <1>3, <1>4, <1>5, <1>6 DEF HlsInv

LEMMA StoreSeekKeeps ==
  ASSUME HlsInv, Hls!StoreSeek
  PROVE  HlsInv'
<1>1. Hls!TypeOK /\ thread = "seek" /\ batch = <<>>
  BY DEF HlsInv, Hls!StoreSeek
<1>2. /\ next_buf' = next_buf \o tmp_buf /\ eos' = (pending = <<>>) /\ need_data' = FALSE
      /\ seek_done' = TRUE /\ thread' = "wait" /\ tmp_buf' = <<>>
      /\ UNCHANGED <<service, pending, h_command, abort_flag, buf, h_pos, total_bytes_read, h_reader,
                     h_target, batch, due, failed>>
  BY DEF Hls!StoreSeek, Hls!decoderVars, Hls!historyVars
<1>3. Hls!TypeOK'
  <2>1. tmp_buf \in Seq(Hls!All \cup {Hls!Map}) /\ next_buf \in Seq(Hls!All \cup {Hls!Map})
    BY <1>1, SeqMonotonic DEF Hls!TypeOK
  <2>2. next_buf' \in Seq(Hls!All \cup {Hls!Map}) /\ tmp_buf' \in Seq(Hls!All)
    BY <1>2, <2>1, ConcatProperties, EmptySeq
  <2>3. eos' \in BOOLEAN
    BY <1>2
  <2> QED BY <1>1, <1>2, <2>2, <2>3 DEF Hls!TypeOK
<1>4. Line' = Line
  <2>1. Moves(buf, next_buf, tmp_buf, batch, pending)
    BY <1>1, HlsTypes, GluedMoves
  <2> QED BY <1>1, <1>2, <2>1 DEF Moves, Line
<1>5. h_reader \notin {"idle", "reading", "seek"}
  BY <1>1 DEF HlsInv, AtReader
<1>6. h_reader = "seeking" => Moving' /\ due' = Hls!TargetIndex' /\ Obeyed'
  <2> SUFFICES ASSUME h_reader = "seeking" PROVE Moving' /\ due' = Hls!TargetIndex' /\ Obeyed'
    OBVIOUS
  <2>1. Moving /\ Obeyed /\ due = Hls!TargetIndex
    BY <1>1 DEF HlsInv, Asked
  <2> QED BY <1>2, <1>4, <2>1 DEF Moving, Obeyed, Hls!TargetIndex
<1> QED BY <1>1, <1>2, <1>3, <1>5, <1>6 DEF HlsInv

-----------------------------------------------------------------------------
LEMMA LeastPlace ==
  ASSUME NEW T, T \subseteq Nat, T # {}
  PROVE  \E least \in T : \A i \in T : least <= i
<1> DEFINE R == OpToRel(<, Nat)
<1>1. IsWellFoundedOn(R, Nat)
  BY NatLessThanWellFounded
<1>2. \A i, j \in Nat : i < j => <<i, j>> \in R
  BY DEF OpToRel
<1> HIDE DEF R
<1>3. PICK least \in T : \A i \in T : ~ (<<i, least>> \in R)
  BY <1>1, WFMin
<1>4. \A i \in T : i \in Nat /\ least \in Nat /\ ~ (i < least)
  BY <1>2, <1>3
<1> QED BY <1>4

(* A playlist of which nothing was left out runs on: the first segment out *)
(* of its place would leave the one that belongs there without any.        *)
LEMMA LinedRuns ==
  ASSUME NEW w \in Seq(Stuff), Lined(w, 0, 0, {}), Unmapped(w)
  PROVE  Running(w, 0, 0)
<1> DEFINE Out == {i \in 1 .. Len(w) : w[i] # i - 1}
<1>1. /\ Len(w) \in Nat /\ Segments \in Nat \ {0} /\ Hls!All = 0 .. Segments - 1
      /\ \A i \in 1 .. Len(w) : w[i] \in 0 .. Segments - 1
  <2>1. \A i \in 1 .. Len(w) : w[i] \in 0 .. Segments /\ w[i] # Segments
    BY ElementOfSeq DEF Stuff, Unmapped
  <2> QED BY <2>1, SegmentsType, LenProperties
<1>2. Out = {}
  <2> SUFFICES ASSUME Out # {} PROVE FALSE
    OBVIOUS
  <2>1. Out \subseteq Nat
    BY <1>1
  <2>2. PICK j \in Out : \A i \in Out : j <= i
    BY <2>1, LeastPlace
  <2>3. /\ j \in 1 .. Len(w) /\ j \in Nat \ {0} /\ w[j] # j - 1
        /\ \A i \in 1 .. Len(w) : i < j => w[i] = i - 1
    BY <1>1, <2>2
  <2>4. \A i, k \in 1 .. Len(w) : i < k => w[i] < w[k]
    BY DEF Lined, Unmapped
  <2>5. w[j] > j - 1
    <3>1. CASE j = 1
      BY <1>1, <2>3, <3>1
    <3>2. CASE j # 1
      <4>1. j - 1 \in 1 .. Len(w) /\ j - 1 < j
        BY <1>1, <2>3, <3>2
      <4>2. w[j - 1] = (j - 1) - 1 /\ w[j - 1] < w[j]
        BY <2>3, <2>4, <4>1
      <4> QED BY <1>1, <2>3, <4>2
    <3> QED BY <3>1, <3>2
  <2>6. j - 1 \in Hls!All \ {} /\ j - 1 >= 0
    BY <1>1, <2>3, <2>5
  <2>7. PICK k \in 1 .. Len(w) : w[k] = j - 1
    BY <2>6 DEF Lined
  <2>8. CASE k < j
    <3>1. w[k] = k - 1
      BY <2>3, <2>8
    <3> QED BY <1>1, <2>3, <2>7, <2>8, <3>1
  <2>9. CASE k = j
    BY <2>3, <2>7, <2>9
  <2>10. CASE k > j
    <3>1. w[j] < w[k]
      BY <2>3, <2>4, <2>10
    <3> QED BY <1>1, <2>3, <2>5, <2>7, <3>1
  <2> QED BY <1>1, <2>3, <2>8, <2>9, <2>10
<1>3. \A i \in 1 .. Len(w) : w[i] = i - 1
  BY <1>2
<1> QED BY <1>1, <1>3 DEF Running

(* The first stretch of the playlist is fetched before the thread starts.  *)
LEMMA HlsStart == Hls!Init => HlsInv
<1> SUFFICES ASSUME Hls!Init PROVE HlsInv
  OBVIOUS
<1> DEFINE c == IF service = "youtube" THEN 1 ELSE Hls!Min({Batch, Segments})
           m == Hls!MapData
<1>1. /\ service \in Services /\ next_buf = <<>> /\ need_data = TRUE /\ h_command = Hls!Continue
      /\ seek_done = FALSE /\ eos = FALSE /\ abort_flag = FALSE
      /\ h_pos = 0 /\ total_bytes_read = 0 /\ h_reader = "idle" /\ h_target = 0
      /\ thread = "wait" /\ batch = <<>> /\ tmp_buf = <<>> /\ due = 0
  BY DEF Hls!Init
<1>2. PICK g \in Hls!SeqOf(0 .. c - 1, c) :
        /\ Hls!InOrder(g) /\ failed = (0 .. c - 1) \ Hls!Range(g)
        /\ service = "youtube" => failed = {}
        /\ buf = m \o g /\ pending = Hls!From(c)
  BY DEF Hls!Init
<1>3. Segments \in Nat \ {0} /\ Hls!Map = Segments /\ Hls!All = 0 .. Segments - 1
        /\ service \in {"youtube", "soundcloud"}
  BY <1>1, SegmentsType, StreamsAssumption DEF Hls!HlsAssumption
<1>4. c \in 1 .. Segments
  <2>1. Batch \in Nat \ {0}
    BY SegmentsType
  <2>2. Hls!Min({Batch, Segments}) = IF Batch <= Segments THEN Batch ELSE Segments
    BY <1>3, <2>1, SmallerOfTwo
  <2> QED BY <1>3, <2>1, <2>2
<1>5. /\ m \in Seq(Stuff) /\ (m = <<>> \/ m = <<Segments>>) /\ (service # "youtube" => m = <<>>)
  <2>1. m = IF service = "youtube" THEN <<Segments>> ELSE <<>>
    BY <1>3 DEF Hls!MapData
  <2> HIDE DEF m
  <2>2. Segments \in Stuff
    BY <1>3 DEF Stuff
  <2>3. <<Segments>> \in Seq(Stuff) /\ <<>> \in Seq(Stuff)
    BY <2>2, EmptySeq
  <2> QED BY <2>1, <2>3
<1> HIDE DEF c, m
<1>6. g \in Seq(0 .. c - 1) /\ g \in Seq(Stuff) /\ 0 \in Stuff /\ c \in Stuff /\ 0 <= c
  <2>1. PICK n \in 0 .. c : g \in [1 .. n -> 0 .. c - 1]
    BY <1>2 DEF Hls!SeqOf
  <2>2. n \in Nat
    BY <1>4, <2>1
  <2>3. g \in Seq(0 .. c - 1)
    BY <2>1, <2>2, SeqDef
  <2>4. 0 .. c - 1 \subseteq Stuff
    BY <1>3, <1>4 DEF Stuff
  <2> QED BY <1>3, <1>4, <2>3, <2>4, SeqMonotonic DEF Stuff
<1>7. Hls!From(c) \in Seq(Hls!All) /\ Hls!From(c) \in Seq(Stuff)
  BY <1>6, FromType, SegmentsType
<1> DEFINE w == m \o (g \o Hls!From(c))
<1>8. /\ w \in Seq(Stuff) /\ Lined(w, 0, 0, failed)
      /\ m = <<>> => Unmapped(w)
  BY <1>2, <1>5, <1>6, LinedStart
<1>9. Line = w
  <2>1. Line = (m \o g) \o (<<>> \o (<<>> \o (<<>> \o Hls!From(c))))
    BY <1>1, <1>2 DEF Line, Glued
  <2> DEFINE q == Hls!From(c)
  <2>2. q \in Seq(Stuff)
    BY <1>7
  <2> HIDE DEF q
  <2>3. <<>> \o q = q
    BY <2>2, ConcatEmptySeq
  <2>4. Seqs3(m, g, q)
    BY <1>5, <1>6, <2>2 DEF Seqs3
  <2>5. m \o (g \o q) = (m \o g) \o q
    BY <2>4, ThreeParts
  <2>6. Line = (m \o g) \o (<<>> \o (<<>> \o (<<>> \o q)))
    BY <2>1 DEF q
  <2>7. Line = (m \o g) \o q
    BY <2>3, <2>6
  <2> QED BY <2>5, <2>7 DEF q
<1> HIDE DEF w
<1>10. Hls!TypeOK
  <2>1. m \o g \in Seq(Stuff) /\ Len(m \o g) \in Nat
    BY <1>5, <1>6, ConcatProperties, LenProperties
  <2>2. buf \in Seq(Hls!All \cup {Hls!Map}) /\ h_pos \in 0 .. Len(buf)
    BY <1>1, <1>2, <2>1, SegmentsType
  <2>3. next_buf \in Seq(Hls!All \cup {Hls!Map}) /\ tmp_buf \in Seq(Hls!All) /\ batch \in Seq(Hls!All)
    BY <1>1, EmptySeq
  <2>4. pending \in Seq(Hls!All)
    BY <1>2, <1>7
  <2>5. failed \subseteq Hls!All /\ due \in 0 .. Segments /\ h_target \in 0 .. Segments
    BY <1>1, <1>2, <1>3, <1>4
  <2> QED BY <1>1, <1>3, <2>2, <2>3, <2>4, <2>5 DEF Hls!TypeOK
(* The first stretch runs on if all of it came.                            *)
<1>11. failed = {} /\ service = "soundcloud" => Running(Line, 0, 0)
  <2> SUFFICES ASSUME failed = {}, service = "soundcloud" PROVE Running(Line, 0, 0)
    OBVIOUS
  <2>1. w \in Seq(Stuff) /\ Lined(w, 0, 0, {}) /\ Unmapped(w)
    BY <1>3, <1>5, <1>8
  <2> QED BY <1>9, <2>1, LinedRuns
<1>12. AtReader
  BY <1>1, <1>3, <1>5, <1>8, <1>9, <1>11 DEF AtReader
<1> QED BY <1>1, <1>10, <1>12 DEF HlsInv

LEMMA HlsKept == HlsInv /\ [Hls!Next]_(Hls!vars) => HlsInv'
<1> SUFFICES ASSUME HlsInv, [Hls!Next]_(Hls!vars) PROVE HlsInv'
  OBVIOUS
<1>1. ASSUME NEW want \in 1 .. MaxRead, NEW locked \in BOOLEAN, Hls!ReadBuffered(want, locked)
      PROVE  HlsInv'
  BY <1>1, ReadBufferedKeeps
<1>2. CASE Hls!ReadWaits \/ Hls!ReadEnd
  BY <1>2, WaitsKeep
<1>3. ASSUME NEW want \in 1 .. MaxRead, Hls!ReadSwap(want)
      PROVE  HlsInv'
  BY <1>3, ReadSwapKeeps
<1>4. ASSUME NEW p \in 0 .. Segments, Hls!SeekBuffered(p)
      PROVE  HlsInv'
  BY <1>4, SeekBufferedKeeps
<1>5. CASE (\E p \in 0 .. Segments : Hls!SeekHard(p)) \/ Hls!SeekCommand
  BY <1>5, SeekAsksKeeps
<1>6. CASE Hls!SeekSwap
  BY <1>6, SeekSwapKeeps
<1>7. CASE Hls!Close \/ Hls!Joined
  BY <1>7, CloseKeeps
<1>8. CASE Hls!ObeyStop \/ Hls!NothingPending
  BY <1>8, IdleStepsKeep
<1>9. CASE Hls!ObeySeek
  BY <1>9, ObeySeekKeeps
<1>10. CASE Hls!TakeBatch
  BY <1>10, TakeBatchKeeps
<1>11. CASE Hls!SegmentArrives
  BY <1>11, SegmentArrivesKeeps
<1>12. CASE Hls!SegmentFails
  BY <1>12, SegmentFailsKeeps
<1>13. CASE Hls!StoreBatch
  BY <1>13, StoreBatchKeeps
<1>14. CASE Hls!StoreSeek
  BY <1>14, StoreSeekKeeps
<1>15. CASE UNCHANGED Hls!vars
  BY <1>15 DEF HlsInv, AtReader, Moving, Asked, Obeyed, Line, Hls!TypeOK, Hls!TargetIndex, Hls!vars,
          Hls!sharedVars, Hls!decoderVars, Hls!threadVars, Hls!historyVars
<1>16. CASE Hls!ReaderAwake
  BY <1>1, <1>2, <1>3, <1>5, <1>6, <1>7, <1>16 DEF Hls!ReaderAwake
<1>17. CASE Hls!Thread
  BY <1>8, <1>9, <1>10, <1>11, <1>12, <1>13, <1>14, <1>17 DEF Hls!Thread
<1> QED
  BY <1>1, <1>2, <1>3, <1>4, <1>5, <1>6, <1>7, <1>15, <1>16, <1>17 DEF Hls!Next

(* What is ahead of the decoder is the part of the whole that it has not   *)
(* read.                                                                   *)
LEMMA InvInOrder == HlsInv => SegmentsInOrder
<1> SUFFICES ASSUME HlsInv, Hls!Settled
             PROVE  /\ Hls!InOrder(Hls!Ahead)
                    /\ Hls!Media(Hls!Ahead) = (due .. Segments - 1) \ failed
                    /\ eos => batch = <<>> /\ tmp_buf = <<>> /\ pending = <<>>
                    /\ service = "soundcloud" /\ failed = {} => total_bytes_read = due
  BY DEF SegmentsInOrder, Hls!SegmentsInOrder
<1>1. Hls!TypeOK /\ AtReader
  BY DEF HlsInv, Hls!Settled
<1> DEFINE r == Glued(<<>>, next_buf, tmp_buf, batch, pending)
           u == SubSeq(buf, h_pos + 1, Len(buf))
           n == Len(buf) - h_pos
           a == u \o r
           w == Line
<1>2. Segments \in Nat \ {0} /\ Hls!Map = Segments /\ Hls!All = 0 .. Segments - 1 /\ due \in 0 .. Segments
  BY <1>1, SegmentsType, HlsTypes DEF Stuff
<1>3. /\ buf \in Seq(Stuff) /\ r \in Seq(Stuff) /\ w = buf \o r /\ n \in Nat /\ h_pos \in Nat
      /\ Len(buf) = h_pos + n
  <2>1. /\ Seqs5(buf, next_buf, tmp_buf, batch, pending)
        /\ Seqs5(<<>>, next_buf, tmp_buf, batch, pending)
    BY <1>1, HlsTypes DEF Seqs3, Seqs4, Seqs5
  <2>2. Moves(buf, next_buf, tmp_buf, batch, pending)
    BY <2>1, GluedMoves
  <2>3. Begins(r, <<>>)
    BY <2>1, GluedType
  <2>4. n \in Nat /\ h_pos \in Nat /\ Len(buf) = h_pos + n
    BY <1>1, HlsTypes
  <2> QED BY <1>1, <2>2, <2>3, <2>4, HlsTypes DEF Moves, Begins, Line
<1>4. /\ u \in Seq(Stuff) /\ Len(u) = n
      /\ \A i \in 1 .. n : u[i] = buf[h_pos + i]
  <2>1. h_pos + 1 \in Int /\ Len(buf) \in Int /\ \A i \in h_pos + 1 .. Len(buf) : buf[i] \in Stuff
    BY <1>3, ElementOfSeq
  <2>2. /\ u \in Seq(Stuff) /\ Len(u) = IF h_pos + 1 <= Len(buf) THEN Len(buf) - (h_pos + 1) + 1 ELSE 0
        /\ \A i \in 1 .. Len(buf) - (h_pos + 1) + 1 : u[i] = buf[(h_pos + 1) + i - 1]
    BY <2>1, SubSeqProperties
  <2>3. Len(buf) - (h_pos + 1) + 1 = n /\ \A i \in 1 .. n : (h_pos + 1) + i - 1 = h_pos + i
    BY <1>3
  <2> HIDE DEF u, n
  <2> QED BY <1>3, <2>2, <2>3
<1>5. Hls!Ahead = a
  <2>1. Hls!Ahead = (((u \o next_buf) \o tmp_buf) \o batch) \o pending
    BY DEF Hls!Ahead
  <2> HIDE DEF u
  <2>2. Seqs3(u, next_buf, tmp_buf)
    BY <1>1, <1>4, HlsTypes DEF Seqs3
  <2>3. Seqs6(u, next_buf, tmp_buf, batch, pending, <<>>)
    BY <1>1, <2>2, HlsTypes DEF Seqs3, Seqs6
  <2> DEFINE unt == u \o (next_buf \o tmp_buf)
  <2>4. (u \o next_buf) \o tmp_buf = unt
    BY <2>2, ThreeParts
  <2>5. unt \in Seq(Stuff)
    BY <1>1, <1>4, HlsTypes, ConcatProperties
  <2> HIDE DEF unt
  <2>6. Seqs3(unt, batch, pending)
    BY <1>1, <2>5, HlsTypes DEF Seqs3
  <2>7. unt \o (batch \o pending) = (unt \o batch) \o pending
    BY <2>6, ThreeParts
  <2> DEFINE bp == batch \o pending
  <2>8. bp \in Seq(Stuff)
    BY <1>1, HlsTypes, ConcatProperties
  <2> HIDE DEF bp
  <2>9. Seqs4(u, next_buf, tmp_buf, bp)
    BY <2>2, <2>8 DEF Seqs4
  <2>10. u \o (next_buf \o (tmp_buf \o bp)) = unt \o bp
    BY <2>9, FourParts DEF unt
  <2>11. r = next_buf \o (tmp_buf \o bp)
    <3>1. next_buf \o (tmp_buf \o bp) \in Seq(Stuff)
      BY <1>1, <2>8, HlsTypes, ConcatProperties
    <3>2. <<>> \o (next_buf \o (tmp_buf \o bp)) = next_buf \o (tmp_buf \o bp)
      BY <3>1, ConcatEmptySeq
    <3> QED BY <3>2 DEF Glued, bp
  <2> QED BY <2>1, <2>4, <2>7, <2>10, <2>11 DEF bp
<1>6. /\ Lined(w, h_pos, due, failed)
      /\ eos => batch = <<>> /\ tmp_buf = <<>> /\ pending = <<>>
      /\ service = "soundcloud" /\ failed = {} => total_bytes_read = due
  BY <1>1 DEF AtReader
<1>7. /\ a \in Seq(Stuff) /\ Len(a) \in Nat /\ DOMAIN a = 1 .. Len(a)
      /\ \A i \in 1 .. Len(a) : h_pos + i \in 1 .. Len(w) /\ a[i] = w[h_pos + i]
      /\ \A j \in 1 .. Len(w) : j > h_pos => \E i \in 1 .. Len(a) : j = h_pos + i
  <2> DEFINE k == Len(r)
  <2>0. a = u \o r /\ r \in Seq(Stuff) /\ u \in Seq(Stuff) /\ Len(u) = n /\ k = Len(r)
    BY <1>3, <1>4
  <2> HIDE DEF a, k, u, r, n
  <2>1. /\ a \in Seq(Stuff) /\ k \in Nat /\ Len(a) = n + k
        /\ \A i \in 1 .. n + k : a[i] = IF i <= n THEN u[i] ELSE r[i - n]
    BY <2>0, ConcatProperties, LenProperties
  <2>2. /\ w \in Seq(Stuff) /\ Len(w) = (h_pos + n) + k
        /\ \A i \in 1 .. (h_pos + n) + k : w[i] = IF i <= h_pos + n THEN buf[i] ELSE r[i - (h_pos + n)]
    <3>1. buf \in Seq(Stuff) /\ Len(buf) = h_pos + n /\ w = buf \o r
      BY <1>3
    <3> HIDE DEF w
    <3>2. /\ w \in Seq(Stuff) /\ Len(w) = Len(buf) + Len(r)
          /\ \A i \in 1 .. Len(buf) + Len(r) : w[i] = IF i <= Len(buf) THEN buf[i] ELSE r[i - Len(buf)]
      BY SMTT(60), <2>0, <3>1, ConcatProperties
    <3> QED BY SMTT(60), <2>0, <3>1, <3>2
  <2>3. DOMAIN a = 1 .. Len(a)
    BY <2>1, LenProperties
  <2> HIDE DEF w
  <2>4. ASSUME NEW i \in 1 .. n + k
        PROVE  h_pos + i \in 1 .. Len(w) /\ a[i] = w[h_pos + i]
    <3>1. h_pos + i \in 1 .. (h_pos + n) + k
      BY <1>3, <2>1
    <3>2. CASE i <= n
      <4>1. h_pos + i <= h_pos + n /\ i \in 1 .. n
        BY <1>3, <2>1, <3>2
      <4> QED BY <1>4, <2>1, <2>2, <3>1, <3>2, <4>1
    <3>3. CASE ~(i <= n)
      <4>1. ~(h_pos + i <= h_pos + n) /\ (h_pos + i) - (h_pos + n) = i - n
        BY <1>3, <2>1, <3>3
      <4> QED BY <2>1, <2>2, <3>1, <3>3, <4>1
    <3> QED BY <3>2, <3>3
  <2>5. ASSUME NEW j \in 1 .. Len(w), j > h_pos
        PROVE  \E i \in 1 .. Len(a) : j = h_pos + i
    <3>1. j - h_pos \in 1 .. Len(a) /\ j = h_pos + (j - h_pos)
      BY <1>3, <2>1, <2>2, <2>5
    <3> QED BY <3>1
  <2>6. Len(a) \in Nat
    BY <1>3, <2>1
  <2> QED BY <2>1, <2>3, <2>4, <2>5, <2>6
<1> HIDE DEF a, w, r, u, n
<1>8. Hls!InOrder(a)
  <2> SUFFICES ASSUME NEW i \in 1 .. Len(a), NEW j \in 1 .. Len(a), i < j, a[i] # Segments
               PROVE  a[i] < a[j]
    BY <1>2, <1>7 DEF Hls!InOrder
  <2>1. h_pos + i \in 1 .. Len(w) /\ h_pos + j \in 1 .. Len(w) /\ h_pos + i < h_pos + j
    BY SMTT(60), <1>3, <1>7
  <2>2. w[h_pos + i] < w[h_pos + j]
    BY <1>6, <1>7, <2>1 DEF Lined
  <2> QED BY <1>7, <2>2
<1>9. \A x \in Hls!Media(a) : x \in (due .. Segments - 1) \ failed
  <2> SUFFICES ASSUME NEW i \in 1 .. Len(a), a[i] # Segments
               PROVE  a[i] \in (due .. Segments - 1) \ failed
    BY <1>2, <1>7 DEF Hls!Media, Hls!Range
  <2>1. a[i] \in 0 .. Segments
    BY <1>7, ElementOfSeq DEF Stuff
  <2>2. h_pos + i \in 1 .. Len(w) /\ h_pos + i > h_pos /\ a[i] = w[h_pos + i]
    BY <1>3, <1>7
  <2>3. a[i] >= due /\ a[i] \notin failed
    BY <1>6, <2>2 DEF Lined
  <2> QED BY <1>2, <2>1, <2>3
<1>10. \A x \in (due .. Segments - 1) \ failed : x \in Hls!Media(a)
  <2> SUFFICES ASSUME NEW x \in (due .. Segments - 1) \ failed PROVE x \in Hls!Media(a)
    OBVIOUS
  <2>1. x \in Hls!All \ failed /\ x >= due /\ x # Segments
    BY <1>2
  <2>2. PICK j \in 1 .. Len(w) : w[j] = x
    BY <1>6, <2>1 DEF Lined
  <2>3. j > h_pos
    <3>1. ~(x < due)
      BY <1>2, <2>1
    <3>2. ~(j <= h_pos)
      BY <1>6, <2>1, <2>2, <3>1 DEF Lined
    <3> QED BY <1>3, <2>2, <3>2
  <2>4. PICK i \in 1 .. Len(a) : j = h_pos + i
    BY <1>7, <2>3
  <2>5. i \in DOMAIN a /\ a[i] = x
    BY <1>7, <2>2, <2>4
  <2> QED BY <1>2, <2>1, <2>5 DEF Hls!Media, Hls!Range
<1>11. Hls!Media(a) = (due .. Segments - 1) \ failed
  BY <1>9, <1>10
<1> QED BY <1>5, <1>6, <1>8, <1>11

-----------------------------------------------------------------------------
(* The three readers in one run                                            *)

(* A step of the run is one of the reader that the track was given, or it  *)
(* leaves each of them as it is.                                           *)
LEMMA StreamsStep ==
  ASSUME [StreamsNext]_allVars
  PROVE  [Next]_vars /\ [Segmented!Next]_(Segmented!vars) /\ [Hls!Next]_(Hls!vars)
<1> USE DEF segVars, Segmented!vars, Segmented!sharedVars, Segmented!clientVars
<1>0. UNCHANGED hlsVars => UNCHANGED Hls!vars
  BY DEF hlsVars, Hls!vars, Hls!sharedVars, Hls!decoderVars, Hls!threadVars, Hls!historyVars
<1>1. CASE HttpStep(Next)
  BY <1>0, <1>1 DEF HttpStep
<1>2. CASE SegmentedStep(Segmented!Next)
  BY <1>0, <1>2 DEF SegmentedStep
<1>3. CASE HlsStep(Hls!Next)
  BY <1>3 DEF HlsStep
<1>4. CASE UNCHANGED allVars
  BY <1>0, <1>4 DEF allVars
<1> QED BY <1>1, <1>2, <1>3, <1>4 DEF StreamsNext

LEMMA StreamsStart == StreamsInit => Init /\ Segmented!Init /\ Hls!Init
BY DEF StreamsInit

LEMMA StreamsRunTheReaders == StreamsSpec => Spec /\ Segmented!Spec /\ Hls!Spec
<1>1. StreamsInit => Init /\ Segmented!Init /\ Hls!Init
  BY StreamsStart
<1>2. [StreamsNext]_allVars
        => [Next]_vars /\ [Segmented!Next]_(Segmented!vars) /\ [Hls!Next]_(Hls!vars)
  BY StreamsStep
<1> QED BY <1>1, <1>2, PTL DEF StreamsSpec, Spec, Segmented!Spec, Hls!Spec

(* http/prefetcher.rs, prefetch_loop and fetch_stream: every variable keeps*)
(* its type: buffered stays under MAX_HTTP_BUF_BYTES and one chunk, and no *)
(* position leaves the file.                                               *)
THEOREM PrefetchTypeCorrect == StreamsSpec => []TypeOK
<1>1. IInv => TypeOK
  BY DEF IInv
<1> QED BY StreamsRunTheReaders, Invariance, <1>1, PTL

(* The count that decides whether the thread may fetch, and whether a seek *)
(* stays in the buffer, is the number of bytes in it: reads, seeks, skips, *)
(* chunks and failures in any order keep the two together.                 *)
THEOREM BufferedIsLengthHolds == StreamsSpec => []BufferedIsLength
<1>1. IInv => BufferedIsLength
  BY DEF IInv
<1> QED BY StreamsRunTheReaders, Invariance, <1>1, PTL

(* A read returns the bytes of the decoder's position, whatever seeks,     *)
(* retries and late chunks come between, until a seek is served by reading *)
(* on in an open response.                                                 *)
THEOREM RightBytesUnlessSkippedHolds == StreamsSpec => []RightBytesUnlessSkipped
<1>1. IInv => RightBytesUnlessSkipped
  BY DEF IInv
<1> QED BY StreamsRunTheReaders, Invariance, <1>1, PTL

(* segmented.rs, fetch_worker: while no read is about to fail, a chunk that*)
(* is being downloaded has a worker at it, however often it was pruned and *)
(* claimed by others meanwhile.                                            *)
THEOREM DownloadingHasWorkerHolds == StreamsSpec => []DownloadingHasWorker
<1>1. WorkInv => DownloadingHasWorker
  BY DEF WorkInv, DownloadingHasWorker
<1> QED BY StreamsRunTheReaders, WorkInit, WorkStep, <1>1, PTL DEF Segmented!Spec

(* hls/mod.rs and soundcloud/reader.rs, read, seek and prefetch_loop: when *)
(* no seek is on its way, what lies ahead of the decoder, in the buffers   *)
(* and still to be fetched, is every segment from the one due next to the  *)
(* last, in order and once, less those that could not be fetched; the end  *)
(* is told after the last of them; and SoundCloud's reader, while none was *)
(* left out, tells the position it has read to.  However reads, batches,   *)
(* failures and seeks follow each other, for a playlist, batches and reads *)
(* of any length.                                                          *)
THEOREM SegmentsInOrderHolds == StreamsSpec => []SegmentsInOrder
<1> QED BY StreamsRunTheReaders, HlsStart, HlsKept, InvInOrder, PTL DEF Hls!Spec

(* segmented.rs: whatever the workers do and in what order, the decoder    *)
(* sees a source of bytes: it is handed the bytes of its position, at      *)
(* least one before the end, and an error is for good.  ServesBytes says   *)
(* besides that every read returns.                                        *)
THEOREM ServesBytesSafely ==
  StreamsSpec => Segmented!Source!Init /\ [][Segmented!Source!Next]_(Segmented!Source!vars)
<1>0. Segmented!SegmentedAssumption
  BY StreamsAssumption
<1>1. Segmented!Init => ReadyIsWhole /\ Segmented!Source!Init
  BY <1>0, WholeInit, RefinementInit
<1>2. ReadyIsWhole /\ [Segmented!Next]_(Segmented!vars) => ReadyIsWhole'
  BY <1>0, WholeStep
<1>3. ReadyIsWhole /\ [Segmented!Next]_(Segmented!vars)
        => [Segmented!Source!Next]_(Segmented!Source!vars)
  BY <1>0, RefinementStep
<1> QED BY StreamsRunTheReaders, <1>1, <1>2, <1>3, PTL DEF Segmented!Spec
=============================================================================
