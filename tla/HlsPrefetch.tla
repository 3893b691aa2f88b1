----------------------------- MODULE HlsPrefetch -----------------------------
(***************************************************************************)
(* HlsReader (YouTube) and SoundCloudHlsReader: a decoder reads one buffer *)
(* while a prefetch thread fills the next from the segments of a playlist. *)
(* The two share SharedState under a mutex and one condition variable; the *)
(* thread lets go of both while it fetches.                                *)
(*                                                                         *)
(* A segment stands for its bytes.  A segment that cannot be fetched is    *)
(* left out, and the decoder goes on with the next one.                    *)
(***************************************************************************)
EXTENDS Naturals, Sequences, FiniteSetsExt, SequencesExt

CONSTANTS
  Services,   \* which of the two readers: {"youtube", "soundcloud"}
  Segments,   \* the length of the playlist
  Batch,      \* PREFETCH_SEGMENTS
  LowWater,   \* LOW_WATER_BYTES
  MaxRead     \* bound: how much the decoder asks for at once

HlsAssumption ==
  /\ Services \subseteq {"youtube", "soundcloud"}
  /\ Segments \in Nat \ {0} /\ Batch \in Nat \ {0}
  /\ LowWater \in Nat /\ MaxRead \in Nat \ {0}

VARIABLES
  service,
  next_buf, need_data, pending, command, seek_done, eos,   \* SharedState
  abort_flag,                  \* read without the mutex, by YouTube's thread
  buf, pos, total_bytes_read,  \* the decoder's
  reader,      \* "idle" | "reading" | "seek" | "seeking" | "closing" | "closed"
  target,      \* the seek it is about to ask for
  thread,      \* "wait" | "seek" | "batch" | "gone"
  batch,       \* the segments still to be fetched before the buffer is filled
  tmp_buf,
  due,         \* history: the segment the decoder is to get next
  failed,      \* history: the segments that were left out since the last seek
  lost         \* history: a batch brought nothing since the last read began to wait

sharedVars == <<next_buf, need_data, pending, command, seek_done, eos, abort_flag>>
decoderVars == <<buf, pos, total_bytes_read, reader, target>>
threadVars == <<thread, batch, tmp_buf>>
historyVars == <<due, failed, lost>>
vars == <<service, sharedVars, decoderVars, threadVars, historyVars>>

All == 0 .. Segments - 1
Map == Segments          \* the initialisation section, before the first segment
Continue == <<"Continue">>
Stop == <<"Stop">>
SeekTo(i) == <<"Seek", i>>

From(i) == [k \in 1 .. Segments - i |-> i + k - 1]
Media(s) == Range(s) \ {Map}
InOrder(s) == \A i, j \in DOMAIN s : i < j /\ s[i] # Map /\ s[j] # Map => s[i] < s[j]
MapData == IF service = "youtube" THEN <<Map>> ELSE <<>>

(* YouTube's constructor fails if the first segment does; SoundCloud's     *)
(* leaves out what it cannot fetch of the first batch.                     *)
Init ==
  /\ service \in Services
  /\ next_buf = <<>> /\ need_data = TRUE /\ command = Continue
  /\ seek_done = FALSE /\ eos = FALSE /\ abort_flag = FALSE
  /\ LET first == IF service = "youtube" THEN 1 ELSE Min({Batch, Segments})
     IN \E fetched \in SeqOf(0 .. first - 1, first) :
          /\ InOrder(fetched)
          /\ failed = (0 .. first - 1) \ Range(fetched)
          /\ service = "youtube" => failed = {}
          /\ buf = MapData \o fetched /\ pending = From(first)
  /\ pos = 0 /\ total_bytes_read = 0 /\ reader = "idle" /\ target = 0
  /\ thread = "wait" /\ batch = <<>> /\ tmp_buf = <<>>
  /\ due = 0 /\ lost = FALSE

-----------------------------------------------------------------------------
(* The decoder                                                             *)

Handed(last) == due' = IF last = Map THEN due ELSE last + 1

(* Low on data, it wakes the thread, unless try_lock finds the lock held.  *)
ReadBuffered(want, locked) ==
  /\ reader = "idle" /\ pos < Len(buf)
  /\ LET n == Min({want, Len(buf) - pos})
     IN /\ pos' = pos + n /\ total_bytes_read' = total_bytes_read + n
        /\ Handed(buf[pos + n])
  /\ need_data' = (need_data \/ (Len(buf) - pos <= LowWater /\ ~locked /\ ~eos))
  /\ UNCHANGED <<service, next_buf, pending, command, seek_done, eos, abort_flag,
                 buf, reader, target, threadVars, failed, lost>>

(* Mistake kept for checking: the thread is not told.                      *)
ReadWaitsQuietly ==
  /\ reader = "idle" /\ pos >= Len(buf)
  /\ reader' = "reading"
  /\ lost' = FALSE
  /\ UNCHANGED <<service, sharedVars, buf, pos, total_bytes_read, target, threadVars, due, failed>>

(* Nothing is left: the thread is told once, before the wait.              *)
ReadWaits ==
  /\ reader = "idle" /\ pos >= Len(buf)
  /\ reader' = "reading"
  /\ need_data' = (need_data \/ (next_buf = <<>> /\ ~eos))
  /\ lost' = FALSE
  /\ UNCHANGED <<service, next_buf, pending, command, seek_done, eos, abort_flag,
                 buf, pos, total_bytes_read, target, threadVars, due, failed>>

ReadEnd ==
  /\ reader = "reading" /\ next_buf = <<>> /\ eos
  /\ reader' = "idle"
  /\ UNCHANGED <<service, sharedVars, buf, pos, total_bytes_read, target, threadVars,
                 historyVars>>

(* The buffers change places and the read is served from the new one.      *)
ReadSwap(want) ==
  /\ reader = "reading" /\ next_buf # <<>>
  /\ LET n == Min({want, Len(next_buf)})
     IN /\ pos' = n /\ total_bytes_read' = total_bytes_read + n
        /\ Handed(next_buf[n])
  /\ buf' = next_buf /\ next_buf' = <<>>
  /\ need_data' = TRUE
  /\ reader' = "idle"
  /\ UNCHANGED <<service, pending, command, seek_done, eos, abort_flag, target, threadVars,
                 failed, lost>>

(* A position within SoundCloud's buffer is only moved to.                 *)
Within(p) == p + pos >= total_bytes_read /\ p + pos - total_bytes_read <= Len(buf)

SeekBuffered(p) ==
  /\ reader = "idle" /\ service = "soundcloud" /\ Within(p)
  /\ LET at == p + pos - total_bytes_read
     IN /\ pos' = at
        /\ due' = IF at < Len(buf) THEN buf[at + 1] ELSE IF buf = <<>> THEN due ELSE Last(buf) + 1
  /\ total_bytes_read' = p
  /\ UNCHANGED <<service, sharedVars, buf, reader, target, threadVars, failed, lost>>

(* YouTube raises abort_flag before it has the lock.                       *)
SeekHard(p) ==
  /\ reader = "idle"
  /\ service = "soundcloud" => ~Within(p)
  /\ service = "youtube" => p < Segments
  /\ abort_flag' = (service = "youtube")
  /\ buf' = <<>> /\ pos' = 0 /\ total_bytes_read' = p
  /\ target' = p
  /\ reader' = "seek"
  /\ UNCHANGED <<service, next_buf, need_data, pending, command, seek_done, eos, threadVars,
                 historyVars>>

(* A position at the end belongs to the last segment.                      *)
TargetIndex == Min({target, Segments - 1})

SeekCommand ==
  /\ reader = "seek"
  /\ command' = SeekTo(TargetIndex) /\ need_data' = TRUE /\ seek_done' = FALSE
  /\ failed' = {} /\ due' = TargetIndex
  /\ reader' = "seeking"
  /\ UNCHANGED <<service, next_buf, pending, eos, abort_flag, buf, pos, total_bytes_read,
                 target, threadVars, lost>>

(* SoundCloud skips to the byte within the segment.                        *)
SeekSwap ==
  /\ reader = "seeking" /\ seek_done
  /\ seek_done' = FALSE /\ abort_flag' = FALSE
  /\ buf' = next_buf /\ next_buf' = <<>>
  /\ LET skip == Min({target - TargetIndex, Len(next_buf)})
     IN /\ pos' = skip
        /\ due' = due + skip
  /\ need_data' = TRUE
  /\ reader' = "idle"
  /\ UNCHANGED <<service, pending, command, eos, total_bytes_read, target, threadVars, failed, lost>>

(* Drop: the thread is told and joined.                                    *)
Close ==
  /\ reader = "idle"
  /\ abort_flag' = TRUE /\ command' = Stop /\ need_data' = TRUE
  /\ reader' = "closing"
  /\ UNCHANGED <<service, next_buf, pending, seek_done, eos, buf, pos, total_bytes_read, target,
                 threadVars, historyVars>>

Joined ==
  /\ reader = "closing" /\ thread = "gone"
  /\ reader' = "closed"
  /\ UNCHANGED <<service, sharedVars, buf, pos, total_bytes_read, target, threadVars,
                 historyVars>>

-----------------------------------------------------------------------------
(* The thread                                                              *)

ObeyStop ==
  /\ thread = "wait" /\ need_data /\ command = Stop
  /\ command' = Continue /\ thread' = "gone"
  /\ UNCHANGED <<service, next_buf, need_data, pending, seek_done, eos, abort_flag,
                 decoderVars, batch, tmp_buf, historyVars>>

(* Mistake kept for checking: what was prefetched for the old position is  *)
(* left in the buffer.                                                     *)
ObeySeekKept ==
  /\ thread = "wait" /\ need_data /\ command[1] = "Seek"
  /\ command' = Continue
  /\ next_buf' = next_buf \o MapData /\ eos' = FALSE
  /\ pending' = Tail(From(command[2])) /\ batch' = <<Head(From(command[2]))>>
  /\ tmp_buf' = <<>>
  /\ thread' = "seek"
  /\ UNCHANGED <<service, need_data, seek_done, abort_flag, decoderVars, historyVars>>

(* The playlist starts over at the segment; one segment is fetched first.  *)
ObeySeek ==
  /\ thread = "wait" /\ need_data /\ command[1] = "Seek"
  /\ command' = Continue
  /\ next_buf' = MapData /\ eos' = FALSE
  /\ pending' = Tail(From(command[2])) /\ batch' = <<Head(From(command[2]))>>
  /\ tmp_buf' = <<>>
  /\ thread' = "seek"
  /\ UNCHANGED <<service, need_data, seek_done, abort_flag, decoderVars, historyVars>>

NothingPending ==
  /\ thread = "wait" /\ need_data /\ command = Continue /\ pending = <<>>
  /\ eos' = TRUE /\ need_data' = FALSE
  /\ UNCHANGED <<service, next_buf, pending, command, seek_done, abort_flag, decoderVars,
                 threadVars, historyVars>>

TakeBatch ==
  /\ thread = "wait" /\ need_data /\ command = Continue /\ pending # <<>>
  /\ LET count == Min({Batch, Len(pending)})
     IN batch' = SubSeq(pending, 1, count) /\ pending' = SubSeq(pending, count + 1, Len(pending))
  /\ tmp_buf' = <<>>
  /\ thread' = "batch"
  /\ UNCHANGED <<service, next_buf, need_data, command, seek_done, eos, abort_flag,
                 decoderVars, historyVars>>

(* Looked at before each segment of a batch.                               *)
Aborted == IF service = "youtube" THEN abort_flag ELSE command # Continue

MayFetch ==
  /\ batch # <<>>
  /\ thread = "seek" \/ (thread = "batch" /\ ~Aborted)

SegmentArrives ==
  /\ MayFetch
  /\ tmp_buf' = Append(tmp_buf, Head(batch)) /\ batch' = Tail(batch)
  /\ UNCHANGED <<service, sharedVars, decoderVars, thread, historyVars>>

SegmentFails ==
  /\ MayFetch
  /\ batch' = Tail(batch) /\ failed' = failed \cup {Head(batch)}
  /\ UNCHANGED <<service, sharedVars, decoderVars, thread, tmp_buf, due, lost>>

(* Mistake kept for checking: need_data is reset although the decoder has  *)
(* asked for a seek.                                                       *)
StoreBatchDeaf ==
  /\ thread = "batch" /\ (batch = <<>> \/ Aborted)
  /\ next_buf' = next_buf \o tmp_buf /\ eos' = (pending = <<>>) /\ need_data' = FALSE
  /\ thread' = "wait" /\ batch' = <<>> /\ tmp_buf' = <<>>
  /\ lost' = (lost \/ tmp_buf = <<>>)
  /\ UNCHANGED <<service, pending, command, seek_done, abort_flag, decoderVars, due, failed>>

(* With a command waiting the batch is thrown away and need_data stays.    *)
StoreBatch ==
  /\ thread = "batch" /\ (batch = <<>> \/ Aborted)
  /\ IF command = Continue
       THEN next_buf' = next_buf \o tmp_buf /\ eos' = (pending = <<>>) /\ need_data' = FALSE
       ELSE UNCHANGED <<next_buf, eos, need_data>>
  /\ thread' = "wait" /\ batch' = <<>> /\ tmp_buf' = <<>>
  /\ lost' = (lost \/ tmp_buf = <<>>)
  /\ UNCHANGED <<service, pending, command, seek_done, abort_flag, decoderVars, due, failed>>

StoreSeek ==
  /\ thread = "seek" /\ batch = <<>>
  /\ next_buf' = next_buf \o tmp_buf /\ eos' = (pending = <<>>) /\ need_data' = FALSE
  /\ seek_done' = TRUE
  /\ thread' = "wait" /\ tmp_buf' = <<>>
  /\ UNCHANGED <<service, pending, command, abort_flag, decoderVars, batch, historyVars>>

-----------------------------------------------------------------------------
ReaderAwake == ReadEnd \/ (\E n \in 1 .. MaxRead : ReadSwap(n)) \/ SeekCommand \/ SeekSwap \/ Joined
Thread ==
  \/ ObeyStop \/ ObeySeek \/ NothingPending \/ TakeBatch
  \/ SegmentArrives \/ SegmentFails \/ StoreBatch \/ StoreSeek

Next ==
  \/ \E n \in 1 .. MaxRead, locked \in BOOLEAN : ReadBuffered(n, locked)
  \/ ReadWaits
  \/ \E p \in 0 .. Segments : SeekBuffered(p) \/ SeekHard(p)
  \/ Close
  \/ ReaderAwake
  \/ Thread

Spec == Init /\ [][Next]_vars

(* Both threads run, and the client's timeout ends every request.          *)
FairSpec == Spec /\ WF_vars(ReaderAwake) /\ WF_vars(Thread)

-----------------------------------------------------------------------------
TypeOK ==
  /\ service \in {"youtube", "soundcloud"}
  /\ next_buf \in Seq(All \cup {Map}) /\ buf \in Seq(All \cup {Map}) /\ tmp_buf \in Seq(All)
  /\ pending \in Seq(All) /\ batch \in Seq(All)
  /\ need_data \in BOOLEAN /\ seek_done \in BOOLEAN /\ eos \in BOOLEAN /\ abort_flag \in BOOLEAN
  /\ command \in {Continue, Stop} \cup {SeekTo(i) : i \in All}
  /\ pos \in 0 .. Len(buf) /\ total_bytes_read \in Nat
  /\ reader \in {"idle", "reading", "seek", "seeking", "closing", "closed"}
  /\ target \in 0 .. Segments
  /\ thread \in {"wait", "seek", "batch", "gone"}
  /\ due \in 0 .. Segments /\ failed \subseteq All

Settled == reader \in {"idle", "reading"}
Ahead == SubSeq(buf, pos + 1, Len(buf)) \o next_buf \o tmp_buf \o batch \o pending

(* Whatever the decoder does while a batch is under way, what it will be   *)
(* handed is every segment from the one that is due to the last, in order, *)
(* less those that could not be fetched; when the end is announced nothing *)
(* is left to come that is not in its buffers; and the byte position that  *)
(* SoundCloud's reader tells is the one it reads at, while every segment   *)
(* could be fetched.                                                       *)
SegmentsInOrder == Settled =>
  /\ InOrder(Ahead) /\ Media(Ahead) = (due .. Segments - 1) \ failed
  /\ eos => batch = <<>> /\ tmp_buf = <<>> /\ pending = <<>>
  /\ service = "soundcloud" /\ failed = {} => total_bytes_read = due

(* A seek comes back, and so does the drop that joins the thread, at       *)
(* whatever moment they find the thread.                                   *)
SeekAndDropReturn ==
  /\ reader \in {"seek", "seeking"} ~> reader = "idle"
  /\ reader = "closing" ~> reader = "closed"

(* A read comes back, whatever was lost before it, unless nothing of a     *)
(* batch could be fetched while it waited.                                 *)
ReadReturnsUnlessLost == reader = "reading" ~> reader = "idle" \/ lost

(* youtube/hls/mod.rs:332, the background thread has been signalled and    *)
(* will finish: a read that waits for it comes back.                       *)
ReadReturns == reader = "reading" ~> reader = "idle"
=============================================================================
