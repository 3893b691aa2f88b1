------------------------------ MODULE MCStreams ------------------------------
(* The three readers a decoder may be given, in one run: the source of the *)
(* track decides which of them it gets, and the others stay as they are.   *)
EXTENDS HttpPrefetch

CONSTANTS SegFileLen, ChunkSize, Prefetch, Workers, Services, Segments, Batch, LowWater

VARIABLES
  kind,
  s_chunks, s_current_pos, s_is_terminated, s_fatal_error, s_pos, s_client, s_handed, s_worker,
  service, next_buf, need_data, pending, h_command, seek_done, eos, abort_flag, buf, h_pos,
  total_bytes_read, h_reader, h_target, thread, batch, tmp_buf, due, failed, lost

Segmented == INSTANCE SegmentedSource WITH
  FileLen <- SegFileLen, chunks <- s_chunks, current_pos <- s_current_pos,
  is_terminated <- s_is_terminated, fatal_error <- s_fatal_error, pos <- s_pos,
  client <- s_client, handed <- s_handed, worker <- s_worker

Hls == INSTANCE HlsPrefetch WITH
  command <- h_command, pos <- h_pos, reader <- h_reader, target <- h_target

ASSUME StreamsAssumption == Segmented!SegmentedAssumption /\ Hls!HlsAssumption

segVars == <<s_chunks, s_current_pos, s_is_terminated, s_fatal_error, s_pos, s_client, s_handed,
             s_worker>>
hlsVars == <<service, next_buf, need_data, pending, h_command, seek_done, eos, abort_flag, buf,
             h_pos, total_bytes_read, h_reader, h_target, thread, batch, tmp_buf, due, failed,
             lost>>
allVars == <<kind, vars, segVars, hlsVars>>

StreamsInit ==
  /\ kind \in {"http", "segmented", "hls"}
  /\ Init /\ Segmented!Init /\ Hls!Init
  /\ kind # "hls" => service = "youtube"

HttpStep(A) == kind = "http" /\ A /\ UNCHANGED <<kind, segVars, hlsVars>>
SegmentedStep(A) == kind = "segmented" /\ A /\ UNCHANGED <<kind, vars, hlsVars>>
HlsStep(A) == kind = "hls" /\ A /\ UNCHANGED <<kind, vars, segVars>>

StreamsNext == HttpStep(Next) \/ SegmentedStep(Segmented!Next) \/ HlsStep(Hls!Next)

StreamsSpec ==
  /\ StreamsInit /\ [][StreamsNext]_allVars
  /\ WF_allVars(HttpStep(ThreadRuns)) /\ WF_allVars(HttpStep(ReadRuns))
  /\ WF_allVars(SegmentedStep(Segmented!Read))
  /\ \A w \in Workers : WF_allVars(SegmentedStep(Segmented!Work(w)))
  /\ WF_allVars(HlsStep(Hls!ReaderAwake)) /\ WF_allVars(HlsStep(Hls!Thread))

-----------------------------------------------------------------------------
(* segmented.rs, fetch_worker: a chunk that is being downloaded has a      *)
(* worker at it.                                                           *)
DownloadingHasWorker == Segmented!DownloadingHasWorker

(* segmented.rs, read and seek: the decoder sees a source of bytes.        *)
ServesBytes == Segmented!ServesBytes

(* hls/mod.rs and soundcloud/reader.rs, read and prefetch_loop: segments   *)
(* come in order, less those that failed, the end comes last, and the      *)
(* position told is the position read.                                     *)
SegmentsInOrder == Hls!SegmentsInOrder

(* read, seek and drop of the three readers: a read comes back, that of an *)
(* HLS reader unless a batch brought nothing while it waited; a seek comes *)
(* back; and when a source is dropped its threads end: the HLS thread,     *)
(* which is joined, and the workers of a SegmentedSource.                  *)
CallsReturn ==
  /\ ReadReturns
  /\ Hls!ReadReturnsUnlessLost /\ Hls!SeekAndDropReturn
  /\ Segmented!WorkersLeave
=============================================================================
