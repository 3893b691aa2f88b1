---------------------------- MODULE HttpPrefetch ----------------------------
(***************************************************************************)
(* HttpSource: a decoder thread reads and seeks a remote file while a      *)
(* prefetch thread (prefetch_loop) fills a buffer from a streamed HTTP     *)
(* response.  The two share SharedState under a mutex: the chunks, a done  *)
(* flag, an error and a command.  The prefetch thread lets go of the mutex *)
(* whenever it waits for the network, so the decoder may seek between any  *)
(* two of its steps.                                                       *)
(*                                                                         *)
(* The file is the sequence of its positions 0 .. FileLen - 1; a byte is   *)
(* the position it was taken from, so that a byte handed to the decoder at *)
(* the wrong position can be told.  Where the buffer's chunks begin and    *)
(* end makes no difference to what drain_into and skip do to their bytes.  *)
(***************************************************************************)
EXTENDS Naturals, Sequences

CONSTANTS
  FileLen,    \* total_len, known: a file of unknown length is not seekable
  MaxBuf,     \* MAX_HTTP_BUF_BYTES
  SkipLimit,  \* the 256 KiB up to which a seek reads on in the same response
  MaxChunk,   \* bound: bytes that arrive at once
  MaxRead,    \* bound: bytes the decoder asks for at once
  MaxRetries  \* MAX_FETCH_RETRIES

ASSUME PrefetchAssumption ==
  /\ FileLen \in Nat \ {0}
  /\ MaxBuf \in Nat \ {0}
  /\ SkipLimit \in Nat
  /\ MaxChunk \in Nat \ {0}
  /\ MaxRead \in Nat \ {0}
  /\ MaxRetries \in Nat

VARIABLES
  chunks, buffered, done, error, command,    \* SharedState
  pos,           \* HttpSource::pos
  reader,        \* the decoder: "idle" | "reading" (in read) | "failed" | "closed"
  pc,            \* the thread: "command" | "skip" | "fetch" | "room" | "chunk" | "gone"
  target,        \* the seek being served
  current_pos, retry_count,
  response,      \* the open response's next byte, or NoResponse
  wrong,         \* history: a read returned bytes of another position
  early,         \* history: a read reported the end before the end
  skipped        \* history: a seek was served by reading on in the response

sharedVars == <<chunks, buffered, done, error, command>>
readerVars == <<pos, reader>>
threadVars == <<target, current_pos, retry_count, response>>
historyVars == <<wrong, early, skipped>>
vars == <<sharedVars, readerVars, pc, threadVars, historyVars>>

Position == 0 .. FileLen
NoResponse == FileLen + 1

Continue == [op |-> "Continue", at |-> 0]
Stop == [op |-> "Stop", at |-> 0]
SeekTo(p) == [op |-> "Seek", at |-> p]

Bytes(from, n) == [i \in 1 .. n |-> from + i - 1]

TypeOK ==
  /\ chunks \in Seq(0 .. FileLen - 1)
  /\ buffered \in 0 .. MaxBuf + MaxChunk - 1
  /\ done \in BOOLEAN /\ error \in BOOLEAN
  /\ command \in {Continue, Stop} \cup {SeekTo(p) : p \in Position}
  /\ pos \in Position
  /\ reader \in {"idle", "reading", "failed", "closed"}
  /\ pc \in {"command", "skip", "fetch", "room", "chunk", "gone"}
  /\ target \in Position /\ current_pos \in Position
  /\ retry_count \in 0 .. MaxRetries
  /\ response \in Position \cup {NoResponse}
  /\ wrong \in BOOLEAN /\ early \in BOOLEAN /\ skipped \in BOOLEAN

(* HttpSource::new has opened the first response.                          *)
Init ==
  /\ chunks = <<>> /\ buffered = 0 /\ done = FALSE /\ error = FALSE
  /\ command = Continue
  /\ pos = 0 /\ reader = "idle"
  /\ pc = "command" /\ target = 0 /\ current_pos = 0 /\ retry_count = 0
  /\ response = 0
  /\ wrong = FALSE /\ early = FALSE /\ skipped = FALSE

-----------------------------------------------------------------------------
(* The decoder                                                             *)

BeginRead ==
  /\ reader = "idle"
  /\ reader' = "reading"
  /\ UNCHANGED <<sharedVars, pos, pc, threadVars, historyVars>>

(* read returns the error first, whatever is buffered.                     *)
ReadError ==
  /\ reader = "reading" /\ error
  /\ error' = FALSE
  /\ reader' = "failed"
  /\ UNCHANGED <<chunks, buffered, done, command, pos, pc, threadVars, historyVars>>

(* drain_into; with nothing buffered and done set, read returns 0.         *)
ReadBytes(want) ==
  /\ reader = "reading" /\ ~error
  /\ chunks # <<>> \/ done
  /\ LET n == IF Len(chunks) < want THEN Len(chunks) ELSE want
     IN /\ wrong' = (wrong \/ SubSeq(chunks, 1, n) # Bytes(pos, n))
        /\ early' = (early \/ (n = 0 /\ pos < FileLen))
        /\ chunks' = SubSeq(chunks, n + 1, Len(chunks))
        /\ buffered' = buffered - n
        /\ pos' = IF pos + n > FileLen THEN FileLen ELSE pos + n
  /\ reader' = "idle"
  /\ UNCHANGED <<done, error, command, pc, threadVars, skipped>>

(* Mistake kept for checking: skip forgets the count.                      *)
SeekUncounted(p) ==
  /\ reader = "idle"
  /\ p > pos /\ p - pos <= buffered
  /\ chunks' = SubSeq(chunks, p - pos + 1, Len(chunks))
  /\ pos' = p
  /\ UNCHANGED <<buffered, done, error, command, reader, pc, threadVars, historyVars>>

(* A seek within what is buffered.                                         *)
SeekBuffered(p) ==
  /\ reader = "idle"
  /\ p > pos /\ p - pos <= buffered
  /\ chunks' = SubSeq(chunks, p - pos + 1, Len(chunks))
  /\ buffered' = buffered - (p - pos)
  /\ pos' = p
  /\ UNCHANGED <<done, error, command, reader, pc, threadVars, historyVars>>

SeekHard(p) ==
  /\ reader = "idle"
  /\ p < pos \/ p - pos > buffered
  /\ chunks' = <<>> /\ buffered' = 0
  /\ done' = FALSE /\ error' = FALSE
  /\ command' = SeekTo(p)
  /\ pos' = p
  /\ UNCHANGED <<reader, pc, threadVars, historyVars>>

(* HttpSource is dropped.                                                  *)
Close ==
  /\ reader \in {"idle", "failed"}
  /\ reader' = "closed"
  /\ command' = Stop
  /\ UNCHANGED <<chunks, buffered, done, error, pos, pc, threadVars, historyVars>>

-----------------------------------------------------------------------------
(* The prefetch thread: the command at the top of its loop                 *)

ObeyStop ==
  /\ pc = "command" /\ command = Stop
  /\ pc' = "gone" /\ command' = Continue
  /\ UNCHANGED <<chunks, buffered, done, error, readerVars, threadVars, historyVars>>

(* The seek is taken; it is served by reading on if it goes a little way   *)
(* forward from current_pos and a response is open.                        *)
ObeySeek ==
  /\ pc = "command" /\ command.op = "Seek"
  /\ done' = FALSE /\ chunks' = <<>> /\ buffered' = 0 /\ command' = Continue
  /\ target' = command.at
  /\ IF /\ command.at > current_pos
        /\ command.at - current_pos <= SkipLimit
        /\ response # NoResponse
       THEN pc' = "skip" /\ UNCHANGED <<current_pos, response, retry_count>>
       ELSE /\ pc' = "fetch"
            /\ current_pos' = command.at /\ response' = NoResponse /\ retry_count' = 0
  /\ UNCHANGED <<error, readerVars, historyVars>>

(* Nothing to obey: go on unless the buffer is full or the file is done.   *)
ObeyContinue ==
  /\ pc = "command" /\ command = Continue
  /\ buffered < MaxBuf /\ ~done
  /\ pc' = "fetch"
  /\ UNCHANGED <<sharedVars, readerVars, threadVars, historyVars>>

-----------------------------------------------------------------------------
(* Reading on in the response.  The chunk that contains the target may     *)
(* reach beyond it; its rest is put into the buffer, and current_pos is    *)
(* the target nevertheless.                                                *)

SkipTo(rest) ==
  /\ pc = "skip"
  /\ LET there == response + (target - current_pos)
     IN /\ there + rest <= FileLen
        /\ response' = there + rest
        /\ chunks' = Bytes(there, rest) \o chunks
  /\ buffered' = buffered + rest
  /\ current_pos' = target /\ retry_count' = 0
  /\ skipped' = TRUE
  /\ pc' = "fetch"
  /\ UNCHANGED <<done, error, command, readerVars, target, wrong, early>>

(* The response fails or ends on the way.                                  *)
SkipFails ==
  /\ pc = "skip"
  /\ current_pos' = target /\ response' = NoResponse /\ retry_count' = 0
  /\ pc' = "fetch"
  /\ UNCHANGED <<sharedVars, readerVars, target, historyVars>>

-----------------------------------------------------------------------------
(* Opening a response at current_pos                                       *)

HasResponse ==
  /\ pc = "fetch" /\ response # NoResponse
  /\ pc' = "room"
  /\ UNCHANGED <<sharedVars, readerVars, threadVars, historyVars>>

FetchOpens ==
  /\ pc = "fetch" /\ response = NoResponse /\ current_pos < FileLen
  /\ response' = current_pos /\ retry_count' = 0
  /\ pc' = "room"
  /\ UNCHANGED <<sharedVars, readerVars, target, current_pos, historyVars>>

(* Mistake kept for checking: nobody is told of the end.                   *)
FetchBeyondQuiet ==
  /\ pc = "fetch" /\ response = NoResponse /\ current_pos >= FileLen
  /\ pc' = "command"
  /\ UNCHANGED <<sharedVars, readerVars, threadVars, historyVars>>

(* 416: the position is the end of the file, or beyond it.                 *)
FetchBeyond ==
  /\ pc = "fetch" /\ response = NoResponse /\ current_pos >= FileLen
  /\ done' = TRUE
  /\ pc' = "command"
  /\ UNCHANGED <<chunks, buffered, error, command, readerVars, threadVars, historyVars>>

(* Mistake kept for checking: the retries are not limited.                 *)
GiveUpNever ==
  /\ retry_count' = retry_count + 1
  /\ pc' = IF command = Stop THEN "gone" ELSE "command"
  /\ UNCHANGED <<error, target, current_pos>>

(* After the last retry the error is left for the reader and the thread    *)
(* ends; before it, it sleeps and looks for a Stop.                        *)
GiveUpOrRetry ==
  /\ IF retry_count >= MaxRetries
       THEN error' = TRUE /\ pc' = "gone" /\ UNCHANGED retry_count
       ELSE /\ retry_count' = retry_count + 1
            /\ pc' = IF command = Stop THEN "gone" ELSE "command"
            /\ UNCHANGED error
  /\ UNCHANGED <<target, current_pos>>

FetchFails ==
  /\ pc = "fetch" /\ response = NoResponse
  /\ GiveUpOrRetry
  /\ UNCHANGED <<chunks, buffered, done, command, readerVars, response, historyVars>>

-----------------------------------------------------------------------------
(* The buffer has room, or a command is waiting.                           *)
Room ==
  /\ pc = "room"
  /\ buffered < MaxBuf \/ command # Continue \/ done
  /\ pc' = IF command = Continue THEN "chunk" ELSE "command"
  /\ UNCHANGED <<sharedVars, readerVars, threadVars, historyVars>>

(* Mistake kept for checking: the chunk goes into the buffer although the  *)
(* decoder has asked for another position.                                 *)
ChunkAlways(n) ==
  /\ pc = "chunk"
  /\ response + n <= FileLen
  /\ response' = response + n
  /\ current_pos' = current_pos + n
  /\ chunks' = chunks \o Bytes(response, n)
  /\ buffered' = buffered + n
  /\ pc' = "command"
  /\ UNCHANGED <<done, error, command, readerVars, target, retry_count, historyVars>>

(* A chunk arrives.  With a command waiting it is thrown away, and         *)
(* current_pos stays.                                                      *)
Chunk(n) ==
  /\ pc = "chunk"
  /\ response + n <= FileLen
  /\ response' = response + n
  /\ IF command = Continue
       THEN /\ current_pos' = current_pos + n
            /\ chunks' = chunks \o Bytes(response, n)
            /\ buffered' = buffered + n
       ELSE UNCHANGED <<current_pos, chunks, buffered>>
  /\ pc' = "command"
  /\ UNCHANGED <<done, error, command, readerVars, target, retry_count, historyVars>>

(* The response ends, at the end of the file or before it.                 *)
ResponseEnds ==
  /\ pc = "chunk"
  /\ response' = NoResponse /\ retry_count' = 0
  /\ done' = (done \/ current_pos >= FileLen)
  /\ pc' = "command"
  /\ UNCHANGED <<chunks, buffered, error, command, readerVars, target, current_pos,
                 historyVars>>

EndsAtEnd == response = FileLen /\ ResponseEnds
EndsEarly == response < FileLen /\ ResponseEnds

ChunkFails ==
  /\ pc = "chunk"
  /\ response' = NoResponse
  /\ GiveUpOrRetry
  /\ UNCHANGED <<chunks, buffered, done, command, readerVars, historyVars>>

-----------------------------------------------------------------------------
Fault == SkipFails \/ FetchFails \/ EndsEarly \/ ChunkFails

Network ==
  \/ \E rest \in 0 .. MaxChunk - 1 : SkipTo(rest)
  \/ FetchOpens \/ FetchBeyond
  \/ \E n \in 1 .. MaxChunk : Chunk(n)
  \/ EndsAtEnd
  \/ Fault

Decoder ==
  \/ BeginRead \/ ReadError \/ \E n \in 1 .. MaxRead : ReadBytes(n)
  \/ \E p \in Position : SeekBuffered(p) \/ SeekHard(p)
  \/ Close

Next ==
  \/ Decoder
  \/ ObeyStop \/ ObeySeek \/ ObeyContinue \/ HasResponse \/ Room
  \/ Network

Spec == Init /\ [][Next]_vars

ThreadRuns == ObeyStop \/ ObeySeek \/ ObeyContinue \/ HasResponse \/ Room \/ Network
ReadRuns == ReadError \/ \E n \in 1 .. MaxRead : ReadBytes(n)

(* Both threads run, and the client's read timeout makes an answer of      *)
(* every silence: something comes of each request, if only an error.       *)
FairSpec == Spec /\ WF_vars(ThreadRuns) /\ WF_vars(ReadRuns)

-----------------------------------------------------------------------------
(* The count kept beside the chunks is the number of bytes in them.        *)
BufferedIsLength == buffered = Len(chunks)

(* Whatever fails and wherever the decoder seeks, a read returns the bytes *)
(* of the decoder's position, as long as no seek was served by reading on  *)
(* in an open response.                                                    *)
RightBytesUnlessSkipped == wrong => skipped

(* A read returns once the network stops failing, unless the thread is     *)
(* gone: the error it left behind may have been cleared by a seek.         *)
ReadReturns ==
  <>[][~Fault]_vars => (reader = "reading" ~> reader # "reading" \/ pc = "gone")

(* api.mdx:214, position is the seek position: what is read after a seek   *)
(* is what the file holds at that position.                                *)
RightBytes == ~wrong

(* track-end.mdx:27, finished means that the track finished naturally: the *)
(* decoder is told of an end at the end of the file only.                  *)
TrueEnd == ~early
=============================================================================
