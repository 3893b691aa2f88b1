--------------------------- MODULE SegmentedSource ---------------------------
(***************************************************************************)
(* SegmentedSource: a remote file is fetched in chunks by concurrent       *)
(* workers (fetch_worker), ahead of a decoder that reads and seeks in it.  *)
(* They share ReaderState under a mutex; a worker lets go of it for the    *)
(* whole of a request, so that the chunk it brings may meanwhile have been *)
(* pruned, asked for again and claimed by another worker.                  *)
(***************************************************************************)
EXTENDS Naturals, Sequences, FiniteSetsExt, Functions

CONSTANTS
  FileLen,     \* total_len, which the probe has found
  ChunkSize,   \* CHUNK_SIZE
  Prefetch,    \* PREFETCH_CHUNKS
  MaxRetries,  \* MAX_FETCH_RETRIES
  MaxRead,     \* bound: bytes the decoder asks for at once
  Workers      \* as many as MAX_CONCURRENT_FETCHES

SegmentedAssumption ==
  /\ FileLen \in Nat /\ ChunkSize \in Nat \ {0} /\ Prefetch \in Nat
  /\ MaxRetries \in Nat /\ MaxRead \in Nat \ {0}

VARIABLES
  chunks,         \* the map from chunk numbers to their states
  current_pos, is_terminated, fatal_error,
  pos,            \* SegmentedSource::pos
  client,         \* the decoder: "idle" | "reading" | "closed"
  handed,         \* what the last read returned
  worker          \* what each worker is at

sharedVars == <<chunks, current_pos, is_terminated, fatal_error>>
clientVars == <<pos, client, handed>>
vars == <<sharedVars, clientVars, worker>>

Failed == <<"failed">>

Empty(retries) == [is |-> "Empty", retries |-> retries]
Downloading == [is |-> "Downloading"]
Ready(bytes) == [is |-> "Ready", bytes |-> bytes]

Looking == [at |-> "look"]
Fetching(idx, prior) == [at |-> "fetch", idx |-> idx, prior |-> prior]
Gone == [at |-> "gone"]

InFile(idx) == idx * ChunkSize < FileLen
Size(idx) == Min({ChunkSize, FileLen - idx * ChunkSize})
Known(idx) == idx \in DOMAIN chunks
Is(idx, state) == Known(idx) /\ chunks[idx].is = state

(* HashMap::insert.                                                        *)
Insert(idx, state) ==
  chunks' = [i \in DOMAIN chunks \cup {idx} |-> IF i = idx THEN state ELSE chunks[i]]

Init ==
  /\ chunks = [i \in {0} |-> Empty(0)]
  /\ current_pos = 0 /\ is_terminated = FALSE /\ fatal_error = FALSE
  /\ pos = 0 /\ client = "idle" /\ handed = <<>>
  /\ worker = [w \in Workers |-> Looking]

-----------------------------------------------------------------------------
(* The decoder                                                             *)

(* Below the end of the file, the workers are shown the position first.    *)
BeginRead ==
  /\ client = "idle"
  /\ client' = "reading" /\ handed' = <<>>
  /\ current_pos' = IF pos >= FileLen THEN current_pos ELSE pos
  /\ UNCHANGED <<chunks, is_terminated, fatal_error, pos, worker>>

ReadEnd ==
  /\ client = "reading" /\ pos >= FileLen
  /\ client' = "idle" /\ handed' = <<>>
  /\ UNCHANGED <<sharedVars, pos, worker>>

ReadFatal ==
  /\ client = "reading" /\ pos < FileLen /\ fatal_error
  /\ client' = "idle" /\ handed' = Failed
  /\ UNCHANGED <<sharedVars, pos, worker>>

At == pos \div ChunkSize

(* Mistake kept for checking: the end of a short read is rounded up to the *)
(* next chunk.                                                             *)
ReadReadyRounded(want) ==
  /\ client = "reading" /\ pos < FileLen /\ ~fatal_error
  /\ Is(At, "Ready")
  /\ LET bytes == chunks[At].bytes
         offset == pos % ChunkSize
         n == Min({want, Len(bytes) - offset})
     IN /\ handed' = SubSeq(bytes, offset + 1, offset + n)
        /\ pos' = (At + 1) * ChunkSize /\ current_pos' = (At + 1) * ChunkSize
  /\ chunks' = IF At > 1 THEN Restrict(chunks, {i \in DOMAIN chunks : i >= At - 1}) ELSE chunks
  /\ client' = "idle"
  /\ UNCHANGED <<is_terminated, fatal_error, worker>>

(* The bytes of the chunk from the position on; the chunks before the      *)
(* preceding one are forgotten.                                            *)
ReadReady(want) ==
  /\ client = "reading" /\ pos < FileLen /\ ~fatal_error
  /\ Is(At, "Ready")
  /\ LET bytes == chunks[At].bytes
         offset == pos % ChunkSize
         n == Min({want, Len(bytes) - offset})
     IN /\ handed' = SubSeq(bytes, offset + 1, offset + n)
        /\ pos' = pos + n /\ current_pos' = pos + n
  /\ chunks' = IF At > 1 THEN Restrict(chunks, {i \in DOMAIN chunks : i >= At - 1}) ELSE chunks
  /\ client' = "idle"
  /\ UNCHANGED <<is_terminated, fatal_error, worker>>

(* A chunk nobody has asked for is asked for; otherwise read waits.        *)
ReadMissing ==
  /\ client = "reading" /\ pos < FileLen /\ ~fatal_error
  /\ ~Known(At)
  /\ Insert(At, Empty(0))
  /\ UNCHANGED <<current_pos, is_terminated, fatal_error, clientVars, worker>>

Seek(p) ==
  /\ client = "idle"
  /\ pos' = p /\ current_pos' = p
  /\ UNCHANGED <<chunks, is_terminated, fatal_error, client, handed, worker>>

Close ==
  /\ client = "idle"
  /\ client' = "closed" /\ is_terminated' = TRUE
  /\ UNCHANGED <<chunks, current_pos, fatal_error, pos, handed, worker>>

-----------------------------------------------------------------------------
(* A worker                                                                *)

Leave(w) ==
  /\ worker[w] = Looking /\ is_terminated
  /\ worker' = [worker EXCEPT ![w] = Gone]
  /\ UNCHANGED <<sharedVars, clientVars>>

(* try_claim_chunk: nobody is at it and nobody has it.                     *)
Claimable(idx) == InFile(idx) /\ (~Known(idx) \/ Is(idx, "Empty"))
Retries(idx) == IF Known(idx) THEN chunks[idx].retries ELSE 0

Cursor == current_pos \div ChunkSize
Window == IF Is(Cursor, "Ready") THEN Prefetch ELSE 2

(* The chunk at the cursor comes first, then the first in the window.      *)
ToClaim ==
  IF Claimable(Cursor)
    THEN {Cursor}
    ELSE LET free == {i \in Cursor + 1 .. Cursor + Window - 1 : Claimable(i)}
         IN IF free = {} THEN {} ELSE {Min(free)}

Claim(w) ==
  /\ worker[w] = Looking /\ ~is_terminated
  /\ \E idx \in ToClaim :
       /\ worker' = [worker EXCEPT ![w] = Fetching(idx, Retries(idx))]
       /\ Insert(idx, Downloading)
  /\ UNCHANGED <<current_pos, is_terminated, fatal_error, clientVars>>

(* Whatever the entry is by now, the whole chunk is put there.             *)
Fetched(w) ==
  /\ worker[w].at = "fetch"
  /\ LET idx == worker[w].idx
     IN Insert(idx, Ready([i \in 1 .. Size(idx) |-> idx * ChunkSize + i - 1]))
  /\ worker' = [worker EXCEPT ![w] = Looking]
  /\ UNCHANGED <<current_pos, is_terminated, fatal_error, clientVars>>

(* Mistake kept for checking: the last retry is given up in silence.       *)
FetchFailsQuiet(w) ==
  /\ worker[w].at = "fetch"
  /\ LET idx == worker[w].idx prior == worker[w].prior
     IN IF prior >= MaxRetries
          THEN UNCHANGED <<chunks, fatal_error>>
          ELSE Insert(idx, Empty(prior + 1)) /\ UNCHANGED fatal_error
  /\ worker' = [worker EXCEPT ![w] = Looking]
  /\ UNCHANGED <<current_pos, is_terminated, clientVars>>

(* requeue_or_fatal, after an error or an answer of another size.          *)
FetchFails(w) ==
  /\ worker[w].at = "fetch"
  /\ LET idx == worker[w].idx prior == worker[w].prior
     IN IF prior >= MaxRetries
          THEN fatal_error' = TRUE /\ UNCHANGED chunks
          ELSE Insert(idx, Empty(prior + 1)) /\ UNCHANGED fatal_error
  /\ worker' = [worker EXCEPT ![w] = Looking]
  /\ UNCHANGED <<current_pos, is_terminated, clientVars>>

-----------------------------------------------------------------------------
Read == ReadEnd \/ ReadFatal \/ ReadMissing \/ \E want \in 1 .. MaxRead : ReadReady(want)
Work(w) == Leave(w) \/ Claim(w) \/ Fetched(w) \/ FetchFails(w)

Next ==
  \/ BeginRead \/ Read
  \/ \E p \in 0 .. FileLen : Seek(p)
  \/ Close
  \/ \E w \in Workers : Work(w)

Spec == Init /\ [][Next]_vars

(* Every worker runs and every request is answered or fails; the decoder   *)
(* wakes up at least every FETCH_WAIT_MS.                                  *)
FairSpec == Spec /\ WF_vars(Read) /\ \A w \in Workers : WF_vars(Work(w))

-----------------------------------------------------------------------------
TypeOK ==
  /\ DOMAIN chunks \subseteq {i \in 0 .. FileLen : InFile(i)}
  /\ \A i \in DOMAIN chunks :
       \/ chunks[i] = Downloading
       \/ \E r \in 0 .. MaxRetries : chunks[i] = Empty(r)
       \/ chunks[i].is = "Ready" /\ Len(chunks[i].bytes) = Size(i)
  /\ current_pos = pos /\ pos \in 0 .. FileLen
  /\ is_terminated = (client = "closed") /\ fatal_error \in BOOLEAN
  /\ client \in {"idle", "reading", "closed"}
  /\ \A w \in Workers :
       \/ worker[w] \in {Looking, Gone}
       \/ \E i \in 0 .. FileLen, r \in 0 .. MaxRetries : worker[w] = Fetching(i, r)

(* A chunk that is being downloaded has a worker at it, however often it   *)
(* was pruned and claimed again meanwhile: a read never waits for a chunk  *)
(* nobody will bring, unless it is about to fail.                          *)
DownloadingHasWorker ==
  \A i \in DOMAIN chunks : chunks[i] = Downloading =>
    fatal_error \/ \E w \in Workers : worker[w].at = "fetch" /\ worker[w].idx = i

(* The decoder sees a source of bytes: whatever the workers do and in what *)
(* order, it is handed the bytes of its position, every read returns, and  *)
(* an error is for good.                                                   *)
Source == INSTANCE ByteSource WITH
  at <- pos, asking <- (client = "reading"), answer <- handed,
  broken <- fatal_error, closed <- (client = "closed")
ServesBytes == Source!Spec

(* The workers end once the source is dropped.                             *)
WorkersLeave == client = "closed" ~> \A w \in Workers : worker[w] = Gone
=============================================================================
