# Rustalink: specification and proofs

Rustalink is a Lavalink-compatible audio node written in Rust on tokio: clients open a WebSocket,
drive players over REST, and the node finds the tracks and streams their audio to voice servers.
This directory holds TLA+ modules of its core, the TLC configurations that check them on small
instances, and proofs, checked by TLAPS, about fourteen of the modules.

Paths below are relative to the crate's own `src/`, unless they begin with `docs/`.

## 1. The system

### 1.1 Components

| Component | State it keeps | Operations | Talks to |
|---|---|---|---|
| Session registry (`server/app_state.rs`, `server/session.rs`, `ws/handler.rs`) | maps `sessions` and `resumable_sessions`; per session `resumable`, `resume_timeout`, `paused`, `sender` | open, resume, serve, close, resume timer, PATCH of a session | every REST request by a map guard; players and gateways through the session |
| Session players (`server/session.rs`, `protocol/opcodes.rs`, `rest/routes/player`) | `players`, `task_handles`, each player's `gateway_task` | PATCH and DELETE of a player, `voiceUpdate` and `destroy` of the WebSocket, `shutdown` | registry (guards), voice gateway (spawn, abort) |
| Event delivery (`Session::send_json`, `ws/handler.rs`) | `event_queue`, one channel per connection | send, queue, drain on resumption, forward | players and gateways send, the connection reads |
| Player lifecycle (`player/manager`, `player/context.rs`) | the `PlayerContext` under a write lock; per track a state atomic, a `stop_signal`, a monitor task | start, replace, stop, pause, destroy, monitor tick | mixer, decoder, events |
| Playback of a track (`audio/processor.rs`, `audio/flow`, `audio/mix`, `audio/effects/tape.rs`, `audio/playback/handle.rs`, `sources/youtube/track.rs`) | frame and command channels, the handle's atomics, tape rate, the clients left to try | seek, pause, resume; decode, mix, fall back; monitor | stream readers, speak loop |
| Voice gateway (`gateway/session/{mod,handler,backoff,policy}.rs`) | backoff, `is_resume`, `seq_ack`, `PersistentSessionState`; per connection `SessionState` and its speak task | connect, hello, identify, resume, ready, description, resumed, close | voice server, speak loop, events |
| Voice heartbeat (`gateway/session/heartbeat.rs`) | `missed_acks`, `last_nonce`, the connection's token | tick, ack | gateway loop |
| DAVE (`gateway/encryption.rs`) | MLS session, transitions, proposals and handshakes kept for the external sender, recognized users | every MLS message, users coming and going | gateway loop, speak loop |
| Speak loop and UDP (`gateway/session/voice.rs`, `gateway/udp_link.rs`) | RTP sequence, timestamp, nonce, silence frames, announcements | one frame every 20 ms | mixer, voice server |
| HTTP prefetch (`audio/source/http`) | `SharedState` under a mutex: chunks, `done`, error, command | read, seek, drop; fetch, skip, chunk, retry | decoder thread, HTTP server |
| Segmented source (`audio/source/segmented.rs`) | chunk table shared by four workers and the reader | read, seek, fetch, prune | decoder thread, HTTP server |
| HLS prefetch (`sources/youtube/hls`, `sources/soundcloud/reader.rs`) | two buffers, `need_data`, a command, `eos` | read, seek, drop; fetch a batch | decoder thread, HTTP server |
| Source manager and routing (`sources/manager`, the `can_handle` of 27 sources) | registered sources, compiled patterns | load, resolve a track, search mirrors | REST, player |
| Sources: loading (`sources/*/{manager,mod,...}.rs`) | nothing that outlives a load | track, search, album, playlist, artist | music services |
| Sources: tokens (`sources/*/token.rs`, `*/oauth.rs`, ...) | a token with the end of its life, behind locks | look, ask, store, forget | music services |
| YouTube clients (`sources/youtube/mod.rs`, `clients`) | pools of clients | search, list, name, play, stream | InnerTube, cipher server |
| Lyrics (`lyrics/`, `player/manager/lyrics.rs`) | lines and index of the current track | race of providers, subscribe, tell | monitor, events, services |
| Buffers (`audio/buffer`) | free lists, ring indices | acquire, release, push, pop | decoder, mixer |
| Route planner (`routeplanner/`) | banned addresses | pick, ban, free | HTTP clients |
| REST information, codecs, filters, monitoring, configuration | caches and counters, or none | HTTP and JSON, arithmetic on samples | |

`PROJECT.json` lists every component with the files it stands for and whether it is modelled.

### 1.2 How they interact, and what is hard

* **Everything is a task on a multi-threaded runtime.** Connection tasks, resume timers, requests,
  monitors, gateway loops, heartbeats, speak loops, searches run in parallel. Prefetch and decoder
  threads are OS threads.
* **DashMap guards.** A PATCH request keeps a `Ref` into `sessions` over several awaits, so a
  connection that has to write the same shard waits for it, even for another session's sake.
* **Flags read before, acted on after.** `send_json` reads `paused` and then queues or sends;
  `handle_session_close` reads `resumable` and later parks or drops; a monitor looks at
  `stop_signal`, then at the state, then at `stop_signal` again, then waits for the lock; the mixer
  stores a state it has computed from the one it loaded.
* **Locks released in the middle.** `voiceUpdate` releases the player's lock while it connects.
  DELETE tells the client before it takes the lock. A worker lets go of a chunk it then brings.
* **Locks held too long.** A seek blocks on a bounded channel while it has the player's lock.
* **Timers that outlive their reason.** A resume timer is never cancelled.
* **A peer that is silent, late, or closes with any code.** The gateway resumes with state left by
  an earlier connection; MLS messages come before what they need.
* **Two threads that share a command.** A decoder seeks while the prefetch thread is in a network
  call and has its own idea of the position.
* **Answers in any order.** Mirror providers, lyrics providers and pages are asked together; the
  first good answer cancels the others.
* **What outlives its track, its connection or its life.** Lyrics, RTP numbers, recognized users
  and tokens are kept past what they were got for.

`PROJECT.json` "hazards" names these at their lines, with the property that would notice each.

### 1.3 What makes each component correct

* Registry: one connection works for a session at a time; a session is never lost and never comes
  back after its end; a session that waits has a timer and waits in `paused`.
* Players: a shutdown leaves nothing running, whatever requests overlap it, and completes.
* Events: in order, at most once, accounted for; the queue keeps the newest.
* Player: one track is heard at a time; every announced track's end is told; a track that was cut
  is not called finished; a watched track stays reachable through its player.
* Playback: the position told is near what is heard; the end told is what happened; a track ends.
* Gateway: no speak loop survives its connection; what is kept belongs to the server's session; a
  connection with voice speaks; a final close code is told; retrying without voice ends.
* Heartbeat: a quiet server costs a bounded number of heartbeats and is left; a connection is given
  up for cause.
* DAVE: what was kept for an external sender goes to the session it came for; who is connected is
  recognized.
* Speak loop: the server is told who speaks; speech ends in frames without input; RTP numbers
  continue.
* Readers: what is read is what the file holds there, or the segments in order; calls return.
* Routing and resolution: a track goes back to the source that named it; the match does not depend
  on who answers faster; nobody is left out before an error is reported.
* Loading: a list is the service's, in order and whole up to the limit, unless a request failed.
* Tokens: a token that the cache was told is refused is not given again, nor one past its stated
  life.
* Lyrics: the best form is found; no line is missed.

## 2. Modules

```
SessionLease  <--implements--  SessionRegistry  <--EXTENDS--  SessionPlayers
                                     ^    ^-------EXTENDS--  SessionEvents
SessionRegistryProofs  <--used by--  SessionPlayersProofs,  SessionEventsProofs

VoiceHeartbeat   VoiceGateway   DaveHandler   SpeakLoop   --EXTENDed by-->  MCGateway
                                                                GatewayProofs

HttpPrefetch   SegmentedSource --implements--> ByteSource
HlsPrefetch                                               --used by-->      MCStreams
                                                                StreamsProofs

SourceRouting --prefixes--> Resolution      TrackPlayback --used by-->      MCPlayback
                                                                PlaybackProofs

PlayerLifecycle         YoutubeClients   Collections   TokenCaches
PlayerLifecycleProofs   LyricsSearch     LyricsSync       --used by-->      MCParts
                                                                PartsProofs
```

The modules of proofs extend what stands above them: `GatewayProofs`, `StreamsProofs`,
`PlaybackProofs` and `PartsProofs` prove the theorems of the parts of one `MC` module, for the
specification that its run checks.

Every `MC...` module holds the definitions its configurations need. Four of them put several
modules into one run: a variable (`part` or `kind`) that never changes says which component a
behaviour is of, and the variables of the others stay at one value. Nothing is shared between
them, as nothing is in the code at this level: the run is the union of their state spaces, and a
fairness condition speaks of its own component only. The components that do share state are
composed by `EXTENDS`: players and events take steps together with the registry.

`PROJECT.json` "map" gives, for every definition, the source lines it stands for. Definitions
that say "Mistake kept for checking" or "A plausible bug" are no part of any specification:
"mutants" names the property each of them breaks when it takes the place of the right definition.

### SessionLease
The promise to a client: a session is opened by one connection, held while nobody is connected,
resumed by one connection, and ended once. No maps, flags or timers.

### SessionRegistry
One connection is one `Conn`, opened at most once; its `pc` walks through `resolve_session`,
`send_initial_state`, the select loop and `handle_session_close`, one step per access to a map, an
atomic or the sender lock. `OpenNew` and `TakeResumable` are the two branches of `resolve_session`;
`Unpause`, `SwapSender`, `InsertResumed` the three writes of a resumption; `LeaveLoop`,
`ReadResumable` to `Park` and `ArmTimer`, or `DropSession`, those of the close. `FireTimer` is the
spawned task that sleeps for `resume_timeout`; `Tick` is time. `TakeGuard`/`DropGuard` are a REST
request's `Ref`; steps that write a shard need `Writable`. `UpdateSession` is the PATCH of a
session.

### SessionPlayers
Extends the registry and takes steps together with it: a PATCH of a player is a request with a
guard, a voice operation keeps its connection in `op`, a DELETE has a clone of the `Arc` only.
Player objects and gateway tasks are numbered, so a task that a stale pointer has overwritten
stays visible in `running`. `shutdown` is `StopAllPlayers`, which aborts `task_handles`, one
`ShutdownDestroy` per player it collected, and `ShutdownEnd`.

### SessionEvents
Extends the registry with `send_json` in two steps (`ReadPaused`, then `PushBack` or
`SendToChannel`), the drain of the queue on resumption, and the receive arm of the select loop. A
socket may break at any time; a drain may stop at any event.

### PlayerLifecycle
One player. PATCH and WebSocket requests queue for its write lock (`Ask`) and hold it over
`start_playback` (`StopCurrent`, `Replace`, `Resolved` or `ResolveFails`, `Announce`) or over
`stop_player` (`StopSignal`, `StopHandle`, `StopTold`); a monitor task per track runs without it until
it clears the player (`MonClear`). A PATCH whose client goes away is dropped at any await at which it
holds the lock (`Disconnect`): the track's data, the mixer's lock on both ways, the resolution, the
start. Dropped at the mixer's lock of `stop_player` it has stopped its track and never tells so;
`dropped` says which tracks that are. A DELETE is dropped while it waits for the player or the mixer
(`DeleteDropped`). `Troubled` are the tracks that may get stuck, fail or have an end time, of which
the larger instance has one. Seeks and the tape ramps are in `TrackPlayback`, lyrics in `LyricsSync`;
volume and filters are left out. `dropped` and `cut` are history variables.

### TrackPlayback
The inside of one track: the decoder's loop with its commands, the bounded frame channel, the mixer
in the steps in which it loads, pulls and stores, the tape ramp, the monitor, the requests that
write the same atomics, and for YouTube the task between handle and decoder, which falls back on
another client. A frame is the position it counts as: that which the last seek obeyed had asked for,
and the frames since, so what is heard after any tangle of seeks can be compared with the position
told. A seek is coarse, and the code throws away where it landed: `left`, the packets that are left
of the stream, becomes anything with each seek, and a frame may count as up to `Furthest`. `asking`
is a request that holds the player's lock. `honest` and `late` are history variables: whether
anything was skipped, faded or refused, and how many packets were decoded before the last seek had
been passed on to the decoder.

### VoiceGateway
`run` and one connection at a time. The voice server is modelled from what the code expects of it:
it numbers the sessions it opens, and an address, key, ssrc or sequence number is represented by
the session it belongs to, so "stale" is "of another number". `Leave` is the way out of every
connection and contains the whole of `run`'s reaction. `Close` covers every code: the instance has
one of each kind that the two tables of `policy.rs` tell apart.

### VoiceHeartbeat
The heartbeat task and the ack handler, one step per atomic access, with the server in between. A
nonce is a clock reading of which only identity matters; a value is used again when nothing refers
to it. The connection's writer task ends when the socket breaks (`WriterEnds`); the next heartbeat
then fails and ends the task without cancelling the connection (`BeatFails`), which the socket's end
has to end (`LeaveBroken`). `BeginDiscovery`/`EndDiscovery` is `discover_ip`, during which the loop
reads nothing.

### DaveHandler
One action per message of the group key exchange and per user that comes or goes, each with all
the ways it can fail. `session` is the number of the setup that made it, and what is kept until the
external sender comes carries the number it was received in. A reconnection loses
`connected_users`, as `SessionState` does, and keeps the handler.

### SpeakLoop
A tick of `speak_loop` in the steps between which it can be aborted: the looks at the mixer, the
filters, each frame that is sent. A frame is silence, input, or what the filters make of a frame of
zeros (`Echo`: an echo or a reverb sounds on). `outgoing` are the frames still to be sent,
`speaking_rx` the announcements the gateway has not passed on. RTP numbers are small and wrap
(`SeqWidth`).

### HttpPrefetch
The file is the sequence of its positions, and a byte is the position it was taken from. The thread
is at `command`, `skip`, `fetch`, `room` or `chunk`; between two of them the mutex is free and the
decoder may read, seek or drop the source. The length is known: without one there is no seek.

### ByteSource, SegmentedSource
`ByteSource` is what a decoder may expect of a source of known length: bytes of its position, or an
error for good, and always an answer. `SegmentedSource` implements it (`ServesBytes`): `fetch_worker`
in the steps between which it has no lock, so that a chunk can be pruned and claimed again while a
slow worker still brings it.

### HlsPrefetch
Both HLS readers, told apart by `service` where their code differs (what the first batch may lack,
who looks at `abort_flag`, how a seek is obeyed). A segment stands for its bytes, and a segment
that cannot be fetched is left out, which `lost` and `failed` remember.

### SourceRouting
The `can_handle` and the `load` dispatch of all 27 sources as a table: prefixes, expressions as the
set of pages they match, the order in which `load` tries them, and what `get_track` refuses. `Load`
asks in the order of registration; `Play` is `resolve_track` as far as the source it asks. Audiomack
compiles its expressions lazily, which is the only state. Most sources build a track's page from its
id; Bandcamp and Shazam take it from the service, which is assumed to name pages of its own site,
and Gaana and Shazam may leave it out (`MayHaveNone`).

### Resolution
`resolve_track` and `best_match.rs`: the own source first, then the ISRC searches and the queries,
throttled providers one at a time. `search` has one entry per provider, and answers come in any
order. Scores are the four classes the configured thresholds make.

### YoutubeClients
The eleven clients as a table of what each can do, and the lists of clients each operation makes of
the three pools (`Pools`: any lists of clients, for a configuration may name one twice); then one
action per kind of request. Answers are arbitrary, their formats any lists (`FormatLists`).

### Collections
One `Way` per load handler of 23 sources: how many requests, page sizes, concurrency, limits and
what follows when a request fails, leads to nothing or is refused. A load goes through its ways and
asks for pages, one after another or as many at once as the code joins, and `Finish` puts the list
together. `Within` says how far the limit, as it is meant, leaves room for an item.

### TokenCaches
The caches as fourteen policies (which lock is held over the request, who looks twice, what margin,
what a refusal does; VK's cache with its cookie and without), and the steps of a caller: `Look`,
`Lock`, `Granted`, `Store`, `Refused`. Only a refusal that the code tells the cache of is a `Refused`:
VK without a cookie, SoundCloud's searches and Amazon's requests to several regions tell it of none.

### LyricsSearch, LyricsSync
The race of the eight providers, each a table of the forms it looks for and the requests these
need; and the subscription, the searches it and a start make, and the monitor's telling of lines
(`SyncReads`, `SyncTells`), with the position and the track moving in between.

## 3. Runs

Deadlock is not checked in any run: connections, requests, tracks and server sessions are finite,
so a behaviour really does stop when they are used up. Progress is stated as liveness instead.

| Run | Instance | Checks | Shows |
|---|---|---|---|
| `registry` | 2 sessions on one shard, 3 connections, 1 request | `SoleOwner` `PausedWhileHeld` `HeldHasTimer` `NoLeakNoRevival` `FindableWhileServed`, `LeaseSpec`, `NothingWaitsForEver` | the registry keeps the lease; the "replaced" and "shares an ID" branches of the close are never taken; waiting sessions end; a close ends though requests hold guards |
| `players` | 1 session and guild, 2 connections, 2 PATCH, 1 DELETE, 2 players, 2 gateway tasks | `ShutdownStopsEverything` `ShutdownCompletes` | an overwritten gateway task is still stopped, through `task_handles` |
| `events` | 1 session, 3 connections, 2 emitters of 2 events, queue limit 2 | `OrderIsKept` `AccountedFor` | under the unlocked read of `paused` each task's events stay in order and unrepeated on each connection, and at most one per task is stranded in the queue |
| `player` | 1 PATCH client, 1 DELETE, 2 tracks, the first of them `Troubled` | `OneVoice` `EndsAreKept` `WatchedIsReachable` | the second look at `stop_signal` is enough, and a monitor clears the player of its own track only: the abort of the replaced track's monitor alone ensures that, its identity test is a second safeguard; of a dropped request only the PATCH that waits for the mixer after its stop loses an end |
| `gateway` | heartbeat: 6 nonces, 2 misses tolerated; connections: 5 close codes, 15 attempts, 3 silent retries, 3 server sessions; DAVE: 2 users, transitions 0 and 7, 1 pending, 3 setups; speak loop: 2 silence frames, 2 looks, saves every 2, numbers modulo 3, 2 announcements | `QuietIsBounded` `GivesUpForCause`, `VoiceIsOwned` `VoiceRuns` `StateIsOfSession` `ShutdownIsTold`, `KeptForItsSession` `ConnectedAreRecognized`, `SpeakingIsTold` `RestBeforeQuiet`, `GatewayMovesOn` | see 1.3. The race of `store(0)` with a tick costs one heartbeat, no more; `StateIsOfSession` excepts what a failed connect leaves behind. A heartbeat task that ends without giving up can send nothing any more, and its connection ends with the socket |
| `streams` | file 5, buffer 3, skip limit 2, chunks and reads of at most 2, 1 retry; 2 workers, chunks of 2, prefetch 3; 5 segments, batches of 2, low water 1, both services | `RightBytesUnlessSkipped`, `DownloadingHasWorker` `ServesBytes`, `SegmentsInOrder`, `CallsReturn` | without reading on, no interleaving of seek and network gives wrong bytes; the segmented source is a `ByteSource`; HLS gives its segments in order; reads, seeks and drops return, a read of an HLS source unless nothing of a batch could be fetched |
| `playback` | 2 frames, channel of 1, command channels of 1, 2 clients, ramp 1, 1 seek, 2 requests; 7 mirror providers, 4 candidates; every source registered, all but one, and some pairs | `PositionNearHeard` `EndIsTrue`, `RightAnswer`, `RoutedRight`, `PlaysToAnEnd` | the position told is not behind the sound, and ahead of it by a bounded number of frames, counted from where the last seek was asked for; a failed track is not reported finished, unless a source other than YouTube could not set its processor up or had no URL; a match depends on the configuration and not on who answers first |
| `parts` | 2 tracks, 1 WebSocket, 1 DELETE; client pools of one and two, one client named twice and the example's; lists of at most 5 items in pages of 2, 1 unreadable; 2 callers, 3 calls, a clock to 2; 2 providers; lines over positions to 1, 2 subscriptions, 1 seek | `ClientsInTurn`, `ListedAsAsked`, `TokensInOrder`, `LyricsFollow`, `PartsMoveOn` | every handler of 23 sources loads the list in order and whole unless a request failed; caches give neither expired tokens nor those they were told are refused; every end is reported though the player is destroyed |
| `stale_timer` | as `registry`, 1 session, timeouts 1 and 2 | `ResumableUntilTimeout` is violated | finding 1 |
| `http_wrong_bytes` | file 6, as `streams` | `RightBytes` is violated | finding 2 |
| `hls_read_waits` | 4 segments, as `streams` | `ReadReturns` is violated | finding 3 |
| `seek_blocks` | as `playback`, 1 client, 4 seeks | `SeekReturns` is violated | finding 4 |

Several properties are conjunctions of named parts: `OrderIsKept` is `DeliveredInOrder` and
`QueueKeepsNewest`; `EndsAreKept` is `EndNotForgotten` and `CutNotFinished`; `GatewayMovesOn` is
`QuietServerIsLeft` and `RetriesAreBounded`; `RoutedRight` is `RightLoad` and `WayBack`;
`ClientsInTurn` is `ConfiguredFirst`, `AskedOnce`, `NobodyIsLeftOut` and `SoundIsChosen`; and
`TokensInOrder` is `OneRequest`, `ToldNotGivenAgain` and `AliveWhenGiven`.

**Why the bounds are enough.** Two sessions on one shard are needed for a request on one to hold up
the other; three connections let two of them compete for a session that a third left. Two players
of one guild let a stale pointer meet its successor, and a second gateway task is what overwrites
the first. A queue limit of 2 has an order to keep and overflows with the third of four events. Two
tracks are needed for one to replace the other, and nothing in the code looks further back than the
previous track. Three server sessions let state survive a session that was itself a replacement;
the attempts are at their real limit, 15. Three setups let a message be kept from one session, its
successor take its place, and a third come; with one place for pending proposals the limit is
reached. RTP numbers modulo 3 wrap within a loop. In the readers the skip limit is below the
buffer, and both below the file, so that each of buffered, skipping and hard seeks happens with the
others before and after; two workers are enough for one to bring what the other has claimed again;
five segments are two batches and one that is not full. A channel of one frame is full and empty in
turn, and a channel of one command blocks. Seven providers cover free and throttled, ISRC and query,
mirrors, and one that nobody handles. Five items in pages of two are three pages, the last not full,
one more than can be joined. A clock to 2 lets a token of life 2 with margin 1 expire before its
end, and three calls of two callers let a refusal come while a request is under way. Symmetry is
used in `events` only, which checks no liveness.

### Configurations to run by hand

`tlc -config <Configuration> <Module>`. `SessionEventsLive.cfg` (`ChannelDelivered`, one emitter)
holds. The others give the trace of a disagreement:

| Configuration | Violates | Because |
|---|---|---|
| `PlayerLifecycleLost.cfg` | `EndTold` | a track that ends by itself and is replaced before its monitor's next tick, up to 500 ms, gets neither `finished` nor `replaced` (`player/manager/start.rs:178`) |
| `PlayerLifecycleSilentStop.cfg` | `EndTold` | the WebSocket's `stop` aborts the monitor and sends no event (`protocol/opcodes.rs:65`) |
| `PlayerLifecyclePaused.cfg` | `PausedIsShown` | a track update writes `player.paused` past `set_paused` (`rest/routes/player/update.rs:72`) |
| `PlayerLifecycleIdentifier.cfg` | `AudibleAnnounced` | a track given as an identifier is mixed without TrackStart and without a monitor (`player/manager/start.rs:129`) |
| `HttpPrefetchEnd.cfg` | `TrueEnd` | at the end of a response `done` is set without a look at the command; with a seek pending the next read takes it for the end |
| `SessionEventsAway.cfg` | `QueuedWhileAway` | `paused` is stored only after the select loop's writer has been waited for, up to 500 ms (`ws/handler.rs:167`, `:249`); events of that time go to a channel that nobody reads |
| `VoiceGatewayQuiet.cfg` | `QuietWhileRecovering` | `on_resumed` does not reset the backoff (`gateway/session/handler.rs:432`), so after three losses, each of them resumed, a retryable code is reported |
| `PartsByHand.cfg` (one at a time) | `TokensCome` | YouTube's OAuth takes two locks in one order to look and in the other to store (`sources/youtube/oauth.rs:206`, `:225`): both may wait for ever |
| | `LinesAreTimed` | YouTube Music's lines carry no times and Musixmatch may give an empty list, and both count as lyrics with lines |
| | `SourceIsSkipped` | `skipTrackSource` compares names of providers with names of sources, and Yandex's and YouTube's differ |
| | `LinesOfTheTrack` | lyrics outlive their track: the next track's monitor tells lines of the one before until its own are found (`player/manager/start.rs:146`) |
| | `LineAfterLyrics` | lyrics are kept before LyricsFound is sent, so a line may be told first |

Further properties are stated in `TrackPlayback`, `SourceRouting` and `Resolution` and can be added
to `Playback.cfg`, each of which the code violates: `PlayingIsHeard` (a tape stop may stay behind a
resumption), `LoadFailedMeansFailed` (a track that another client has played to its end is reported
`loadFailed`), `DissimilarIsDiscarded` (a trusted provider's match may be below `min_similarity`),
`ThrottledComeLast` (with an ISRC, throttled providers come first and together), `QueryStaysHome`
(a query that names a URL goes to a source whose expression matches anywhere) and `SpeechIsPlayed`
(text to speech needs the `http` source enabled).

## 4. Fairness

Weak fairness stands for a scheduler that polls every ready task, a timer that fires, and a client
library whose calls have a deadline. What a client or a server chooses to do gets none.

* `RegFairSpec`: connection steps, timers, time, and the end of a request. A request ends because
  its awaits have deadlines and axum drops the handler of a client that has gone. DashMap does not
  queue writers, so a stream of requests without end could starve one; the model's requests are
  finite, and `NothingWaitsForEver` is to be read so.
* `SessionPlayers!FairSpec`: the same for jobs and for the steps of a shutdown.
* `PartsSpec`: for the player, weak for who holds the lock and for monitors; strong for `MonClear`,
  which waits for the lock: tokio's `RwLock` serves its waiters in turn. Loads, searches and client
  requests are answered, if only by the deadline of the HTTP client. Of token calls, some caller
  that can proceed does. The lyrics' monitor ticks, and searches end. Time, seeks, subscriptions
  and new tracks are nobody's duty.
* `GatewaySpec`: the interval ticks and both tasks of the heartbeat are polled; a connect returns, a
  sleep ends, `discover_ip` gives up in time, a cancelled connection is left. A socket that cannot be
  written any more is read to its end: strongly fair, because what has arrived is handled first.
  Nothing of the server.
  `DaveHandler` and `SpeakLoop` have safety properties only.
* `StreamsSpec`: all threads and each worker run, and the client's read timeout of 8 s
  (`audio/source/client.rs:17`) turns silence into an error. `ReadReturns` of `HttpPrefetch` supposes
  that faults stop at some time.
* `PlaybackSpec`: decoder, YouTube task, mixer, monitor, and a request that waits to send run, and a
  source that can be read is read. A call to a source ends.

## 5. Proofs

Eight modules prove theorems about every value of the constants. Each theorem rests on an inductive
invariant; the proof that a step preserves it has one case per action of the component.

| Theorem | States |
|---|---|
| `SessionRegistryProofs!TypeCorrect` | `RegSpec => []TypeOK` |
| `SessionRegistryProofs!SoleOwnerHolds` | `RegSpec => []SoleOwner` |
| `SessionRegistryProofs!PausedWhileHeldHolds` | `RegSpec => []PausedWhileHeld` |
| `SessionRegistryProofs!HeldHasTimerHolds` | `RegSpec => []HeldHasTimer` |
| `SessionRegistryProofs!NoLeakNoRevivalHolds` | `RegSpec => []NoLeakNoRevival` |
| `SessionRegistryProofs!FindableWhileServedHolds` | `RegSpec => []FindableWhileServed` |
| `SessionRegistryProofs!ImplementsLease` | `RegSpec => LeaseSpec` |
| `SessionPlayersProofs!RunsTheRegistry` | `Spec => RegSpec` |
| `SessionPlayersProofs!PlayersTypeCorrect` | `Spec => []PlayersTypeOK` |
| `SessionPlayersProofs!ShutdownStopsEverythingHolds` | `Spec => []ShutdownStopsEverything` |
| `SessionEventsProofs!EventsRunTheRegistry` | `Spec => RegSpec` |
| `SessionEventsProofs!EventsTypeCorrect` | `Spec => []EventsTypeOK` |
| `SessionEventsProofs!OrderIsKeptHolds` | `Spec => []OrderIsKept` |
| `SessionEventsProofs!AccountedForHolds` | `Spec => []AccountedFor` |
| `PlayerLifecycleProofs!TypeCorrect` | `Spec => []TypeOK` |
| `PlayerLifecycleProofs!OneVoiceHolds` | `Spec => []OneVoice` |
| `PlayerLifecycleProofs!WatchedIsReachableHolds` | `Spec => []WatchedIsReachable` |
| `PlayerLifecycleProofs!EndsAreKeptHolds` | `Spec => []EndsAreKept` |
| `GatewayProofs!HeartbeatTypeCorrect` | `Spec => []TypeOK` |
| `GatewayProofs!QuietIsBoundedHolds` | `Spec => []QuietIsBounded` |
| `GatewayProofs!GivesUpForCauseHolds` | `Spec => []GivesUpForCause` |
| `GatewayProofs!VoiceIsOwnedHolds` | `VoiceSpec => []VoiceIsOwned` |
| `GatewayProofs!VoiceRunsHolds` | `VoiceSpec => []VoiceRuns` |
| `GatewayProofs!ShutdownIsToldHolds` | `VoiceSpec => []ShutdownIsTold` |
| `GatewayProofs!StateIsOfSessionHolds` | `VoiceSpec => []StateIsOfSession` |
| `GatewayProofs!KeptForItsSessionHolds` | `DaveSpec => []KeptForItsSession` |
| `GatewayProofs!ConnectedAreRecognizedHolds` | `DaveSpec => []ConnectedAreRecognized` |
| `GatewayProofs!SpeakingIsToldHolds` | `SpeakSpec => []SpeakingIsTold` |
| `GatewayProofs!RestBeforeQuietHolds` | `SpeakSpec => RestBeforeQuiet`, an action property |
| `StreamsProofs!PrefetchTypeCorrect` | `StreamsSpec => []TypeOK` |
| `StreamsProofs!BufferedIsLengthHolds` | `StreamsSpec => []BufferedIsLength` |
| `StreamsProofs!RightBytesUnlessSkippedHolds` | `StreamsSpec => []RightBytesUnlessSkipped` |
| `StreamsProofs!DownloadingHasWorkerHolds` | `StreamsSpec => []DownloadingHasWorker` |
| `StreamsProofs!SegmentsInOrderHolds` | `StreamsSpec => []SegmentsInOrder` |
| `StreamsProofs!ServesBytesSafely` | the safety part of `ServesBytes`: the segmented source's steps are `ByteSource`'s or stutters |
| `PlaybackProofs!RightAnswerHolds` | `PlaybackSpec => []RightAnswer` |
| `PlaybackProofs!PositionNearHeardHolds` | `PlaybackSpec => []PositionNearHeard` |
| `PlaybackProofs!EndIsTrueHolds` | `PlaybackSpec => EndIsTrue`, an action property |
| `PlaybackProofs!RoutedRightHolds` | `PlaybackSpec => []RoutedRight` |
| `PartsProofs!ClientsInTurnHolds` | `PartsSpec => []ClientsInTurn` |
| `PartsProofs!TokensInOrderHolds` | `PartsSpec => []TokensInOrder` |
| `PartsProofs!LyricsFollowHolds` | `PartsSpec => []LyricsFollow` |

**Session registry.** For any sets of sessions, connections, requests and shards and any timeouts;
assumed are `ShardAssumption` (every session has a shard), `TimeoutAssumption` (timeouts are
naturals) and `NullAssumption` (the null values are none of the others). The properties are not
inductive one by one: that a resumption finds `paused` set needs that only one task can have the
session, and that one task has it needs that `resumable_sessions` and the tasks' hands are
disjoint, which needs that a session that was shut down is in neither. `IInv` is the conjunction
of the properties with what ties a task's program counter to its session, to the maps and to the
flags. `ImplementsLease` maps each step to `Attach`, `Hold`, `End` or a stutter under the mapping
of `SessionRegistry!Lease`, from `IInv`.

**Session players.** For any sets of sessions, connections, requests, guilds and jobs
(`ActorAssumption`: requests, connections, deleters and the sessions' own shutdowns are different
actors). A step of `SessionPlayers` is a step of the registry or leaves it alone
(`RunsTheRegistry`), so `IInv` holds throughout. `Registered` says where a running task can be found
at any moment: in its session's `task_handles`, or in the hands of the request or connection that
has spawned it. Whoever may still add to a session holds a guard on it or is inside its
connection's operation, and either keeps the session in the map, from which a shutdown has taken it
(`NobodyLeft`); a DELETE holds a clone only, and adds nothing.

**Session events.** For any sets of sessions, connections and emitters, any number of events and any
limit of the queue. Again the registry's invariant is used as it is. A connection's channel is fed
only once it has swapped itself in as the sender, when `paused` is reset: `QueueFirst` says that until
the drain the queue is older than the channel and that a task with an event for the queue has none
in the channel, and `Stranded` that after the drain each task can add only the event it was
sending. `Placing` says that an event is in one place from the return of `send_json` on, and in none
before. The proof found an error of the model: `overflowed` was one set for all sessions, and a PATCH
that gives an emitter another session made the record of one's queue false for the other's.

**Voice heartbeat.** For any set of nonces and any number of tolerated misses
(`HeartbeatAssumption`). `missed_acks` and the heartbeats really unanswered are two counts of the
same thing that the code cannot keep equal: `fetch_add` and `store(0)` are single accesses of two
tasks. `Drift` says how far apart they are at each point of the two tasks: not at all, except for
one while a tick and an ack overlap (`raced`). `Unanswered` says that a nonce which is stored and
not sent is on no wire, so that no ack can be taken for its, also when the sending has failed;
`GaveUp`, that a connection which is left has been cancelled, and a cancelled one has no heartbeat
task any more. The converse does not hold: a task whose heartbeat could not be sent is gone and has
cancelled nothing.

**HTTP prefetch.** For a file of any length, any buffer, skip limit, chunk and read size and any
number of retries (`PrefetchAssumption`). `Match` is what makes the bytes right: until a seek is
served by reading on, the buffer holds the bytes from the decoder's position on, a command on its
way names that position and finds the buffer empty, and with no command on its way the thread's
position and the open response continue the buffer. `Flow` keeps what the thread has made sure of
before it lets go of the mutex: there is a response where a chunk is awaited, and room for it.
Lemmas about stretches of the file (`BytesSplit`, `BytesEqual`) carry this through `drain_into` and
through the arrival of a chunk.

**DAVE.** For any users, transitions, limit of pending proposals and number of setups
(`DaveAssumption`). `GroupInv` adds to the property that what is kept was received in the setup
under way and that a session is always of the last setup (`Fresh`): every way to another session
empties what is kept first. `UsersInv` adds that the bot recognizes itself, which a restart of the
handler relies on.

**Speak loop.** For any numbers of silence frames, looks, saves and announcements and any width of
RTP numbers (`SpeakAssumption`). `TellInv`: the last announcement on its way, or what the server was
told when none is, is what the loop does (`ToldAppend`, `ToldTail`). `Owing` is the accounting behind
`RestBeforeQuiet`: the frames without input still to be sent, those already sent and those at hand
are together enough, at each place where a loop can be aborted; `Saved` ties the RTP numbers of
a loop that ended to what the next one starts with.

**Segmented source.** For a file of any length, any sizes and any set of workers
(`SegmentedAssumption`). `ReadyIsWhole` says that every chunk that can be read holds the file's
bytes, which lemmas of division carry to the stretch that a read hands out (`InsideChunk`,
`ReadIsStretch`); with it every step is one of `ByteSource` or a stutter. That reads return, the
fairness of `ByteSource`, stays with the run.

**HLS prefetch.** For a playlist, batches, reads and a low-water mark of any length and for both
readers (`HlsAssumption`). The two buffers, what the thread has fetched, what it is about to fetch
and what is pending are one line of segments, from the start of the decoder's buffer (`Line`).
`Lined` says of it that the segments rise, that none is missing from the one due on but those that
failed, that those before the decoder's place are before the one due and those after it are not; for
SoundCloud, while none failed, it runs on without a gap (`Running`), so that the position told is
the place in it. Swapping the buffers, taking a batch, a segment's arrival and the batch's delivery
only move the borders within the line (`GluedMoves`, `GluedSplit`, `GluedFetch`); a failure takes
one segment out (`LinedLess`), a read or a seek in the buffer moves the decoder's place (`Advance`,
`LinedMove`). A seek breaks this, and `HlsInv` says how far: from its beginning until the thread
obeys it the line is worth nothing, but the decoder's buffer is empty and the command names the
segment due (`Asked`); from then on the line holds again, from the segment sought, and the thread
stands at the fetch for it or waits with nothing to do (`Obeyed`). That the first stretch has no gap
when nothing failed rests on the least place out of order (`LinedRuns`).

**Voice gateway.** For any close codes, attempts and numbers of server sessions, without an
assumption on the constants. `VoiceIsOwned` is inductive as it stands; `RunsInv` adds that a
connection that waits for its Hello holds no loop, and that one which holds a loop has it running or
is cancelled. `SessionInv` adds two things: before the server opens a session, what was kept of the
last is forgotten, unless a connect has failed outright since (`Forgotten`, `dirty`); and an ssrc
that does not come from what has survived is the session's own (`OwnSsrc`).

**Player.** For any PATCH, WebSocket and DELETE requests and any number of tracks; assumed are
`TrackAssumption` (`NoTrack` is no track) and `ActorAssumption`. What the player points to is always
the track started last (`Current`), and no other can be heard (`LastIsHeard`): a replacement silences
all tracks before the next is made audible. With it a monitor that clears the player clears its own
track. `EndsAreKept` needs that a track which is not announced yet has no monitor, no end and no
signal (`Untold`); that a monitor which has reported is done, and that one whose track was cut off has
the signal before its second look (`CutInv`); and that whoever lets go of an announced track has told
its end, has dropped it or leaves a monitor that is about to report (`EndInv`), also when a PATCH is
dropped at one of its waits.

**Resolution.** For any list of patterns in the configuration and any number of candidates
(`PlaybackAssumption`: the providers are a sequence, no source that only names tracks is `None`).
`StageBegun` says for each stage what the stages before it have left: before the free searches
begin, each ISRC search has ended with nothing; before the throttled ones, each free search has
ended and none has found a match that is good enough to be taken at once; and a stage whose searches
follow one another has none begun before those that precede it are over (`InTurn`). With it the
first ISRC match that is handed out is the first of the configuration's order, and the error is
returned when nothing is left.

**Playback.** For a track and a channel of any length, command channels of any capacity, any number
of clients and any number of seeks (`PlaybackAssumption`: none of them is 0). `InRow`: the frames of
the channel follow one another from what was heard last, or from the position that an empty frame
stands for, and the decoder goes on where they end; lemmas say what appending and taking a frame do
to such a row (`FollowPush`, `FollowFlush`, `FollowPop`). `Drift` compares the position with the
newest seek on its way, or with the decoder when there is none: what the channel, the mixer's hands
and the decoder can still add to it stays below the limit, and a step moves an amount from one to
the other. `Counted`: no more seeks are on their way than were asked for, that of the start
included. `ErrorTold`: a decoder or task that failed for good, other than in setting a direct
source's processor up, has told its error before its channel counts as gone, and nobody takes the
error before the monitor. A coarse seek sets `left` to anything, so that positions go up to
`Furthest` (`FurthestIs`) and no bound on what is heard may lean on the end of the stream. Two
statements were wrong, which the bounds of the run had hidden and the attempt at a proof showed.
YouTube's decoder goes on decoding while a seek waits for the task, and every packet of that time is
heard at the new position: `late` counts them, and with a longer track TLC finds the old bound
broken. And a channel that the mixer has dropped holds nothing, so that the second part of
`EndIsTrue` is about a track that is still mixed.

**Routing.** For any sets of sources that the configuration may enable (`RoutingAssumption`: there are
no other sources), any sites in a query's URL and any loads before. What the 27 sources are is a
table, and three lemmas read off it, source by source, what the rest needs: a prefix has one owner
(`PrefixesOwned`); a pattern loads a page as what it is, unless a pattern before it has taken the page
(`PagesLoad`; SoundCloud's and Mixcloud's patterns for tracks are the ones that would otherwise take
pages of lists); and the page of a track that a source has named is one that it takes and plays
(`TracksComeBack`). `SiteFirst`: only http, which comes after all sources of sites, handles a URL of
another's site, so that what else is registered makes no difference; `CompiledInTime`: Audiomack, when
it is the first to handle a page, has compiled that page's pattern, whatever was compiled before.
`RoutingInv` adds to `RightLoad` that the track the client has got is the one named by the source of
the load, and that it is asked of the first source that handles it (`Traced`). That a service which
names the page itself (Bandcamp, Shazam) names one of its own site is part of the model (`Uri`).

**YouTube clients.** For any pools and any lists of formats (`YoutubeAssumption`: the pools are
lists of clients, a format is not `None`). The lists of clients are made by sifting others, joining
them and dropping what comes twice. Sifting is a recursive function, and what it leaves is shown by
the least place at which it would be wrong (`LeastExists`); `Before` says what comes before what in
a list, and the lemmas say what sifting, joining and dropping repeats (`OnlySifts`, `Joined`,
`UniqueFacts`) make of it. `PlanFacts`: every operation's plan asks the configured clients first,
asks a client again only if the configuration names it again or a search for music puts it in front,
and leaves out none that it ought to ask. `ClientsInv`: what was asked is the beginning of the plan,
a failure is reported only at its end, and the format chosen is one of the answer, and Opus where
that has it.

**Tokens.** For any callers, accounts and policies (`TokenCachesAssumption`; `None` is no entry).
`Newest`: where the lock is held over the request, who asks is the writer, and the newest token is the
one about to be stored or the one kept. `Unreported`: a token about to be stored is nobody else's, one
that is kept is kept for one account, and one whose refusal the cache was told of is gone or out of
date. `Living`: what
is kept is over before its stated life is; where two locks are taken one after the other, the two
looks see the same time. The proof made two things explicit: a stored token's policy decides in a
fixed order (rereads, then a forced refresh, then giving it), and `None` is no entry.

**Lyrics.** For any lines and any number of tracks, seeks and subscriptions (`LyricsSyncAssumption`:
lyrics are sequences of times), and for the table of providers with any number of them in a race
(`LyricsSearchAssumption`: `None` is no answer). `FallbackKept`: while the search goes on, no answer
that was taken had lines, and a text that was taken is the fallback, of a provider that gave it.
`TellingFollows`: while the lines stay those that were subscribed to, `last_index` is no further than
what the client has heard, also the copy that a tick has read and not yet used. Which line a tick
finds rests on the least and greatest members of sets of numbers (`LeastExists`).

Only model-checked, and why:

* all liveness, and `ENABLED`: outside the prover's reach. `ServesBytesSafely` leaves `ByteSource`'s
  fairness to the run for this reason.
* `ListedAsAsked`: the loaded list is put together by folds, filters and sorts of the community
  modules (`FlattenSeq`, `SelectSeq`, `SetToSortSeq`), about which the prover has no facts and which
  it cannot expand; to replace them by definitions of its own would only move the statement away
  from what the run checks.

## 6. Findings

1. **A resumed session is shut down early** (`stale_timer`). Every disconnection arms a timer,
   resuming cancels none, and any of them removes the session from `resumable_sessions`. A session
   that is resumed and disconnected again dies when the older timer ends, though the log promises
   the full timeout (`ws/handler.rs:274`). `HeldHasTimer` shows the converse is safe: a session
   never waits without a timer.
2. **Wrong bytes after a forward seek** (`http_wrong_bytes`). A seek of up to 256 KiB forward reads
   on in the open response, counting from `current_pos`
   (`audio/source/http/prefetcher.rs:139`). Three things break the count: a chunk thrown away
   because a seek was pending moves the response and not `current_pos`; the rest of the last
   skipped chunk is buffered though a second seek may be pending; and that rest is not added to
   `current_pos`, so that at the end of the stream the last bytes come twice.
3. **A read of an HLS track waits for ever** (`hls_read_waits`). When nothing of a batch can be
   fetched the thread stores an empty buffer, resets `need_data` and waits for the reader, which has
   signalled once before its wait and is woken with nothing (`sources/youtube/hls/mod.rs:512`): each
   waits for the other.
4. **A seek blocks the player** (`seek_blocks`). `TrackHandle.seek` sends on a bounded channel with
   a send that blocks (`audio/playback/handle.rs:124`). A paused track's decoder does not take
   commands; when the channel is full the next seek keeps the player's write lock, which resuming,
   replacing and reporting the track need.

The configurations of section 3 that are run by hand show further disagreements, each with its
document or its line. Met on the way and recorded as hazards or here: an exhausted gateway ends
without an event (`gateway/session/mod.rs:111`); the first message of a voice server is awaited
without a deadline (`:201`); a server that opens and ends responses at once is retried without limit
(`audio/source/http/prefetcher.rs:127`); a seek after the prefetch thread's fatal error clears the
error that the next read should have seen, and that read waits for ever (`:217`; `ReadReturns`
excepts a thread that is gone); after a connect that fails outright, the state of the old session is
kept (`StateIsOfSession` excepts it through `dirty`); `start_voice` aborts the old loop without
waiting for its end, so that two may speak for a moment (`gateway/session/handler.rs:576`); a
Spotify concurrency of 0 never gets a permit (`Collections` takes it as at least 1); Tidal's OAuth
token is never taken to be expired, and a forced refresh that fails leaves Pandora the token that
was refused (`TokensInOrder` excepts both); a refusal is not told to the cache by VK without a
cookie (`sources/vkmusic/api.rs:39`), by SoundCloud's searches and by Amazon's requests to several
regions, which go on with the same token; a source that is not YouTube and whose processor cannot be
set up drops its channels before it sends its error, and Deezer and Gaana without a URL send none,
so that the failed track may be reported as finished (`sources/http/mod.rs:236`; `EndIsTrue` excepts
both); a heartbeat that cannot be sent ends its task without cancelling the connection
(`gateway/session/heartbeat.rs:82`); a PATCH dropped between stopping its track and telling so
leaves a track whose end nobody tells (`rest/routes/player/update.rs:312`); a speak loop that is
aborted loses up to a hundred RTP numbers, which its successor repeats; SoundCloud puts the tracks
it was only given ids of after the others; the fallback of a YouTube track starts at the last seek,
not at the last position (`sources/youtube/track.rs:194`).

## 7. What is not modelled, and why

* REST information endpoints, serialisation, monitoring, configuration: conversions and read-only
  views without state that a property could relate.
* Filters, resampling, codecs, demuxing: arithmetic on samples. TLC would enumerate no more than a
  unit test does. The sum of several tracks, crossfades and layers go with them.
* `load_search` and its categories: one request and a sorting of its answer by category.
* The parsing of an item in `Collections` (it can be read, or not), the shape of the clients'
  requests in `YoutubeClients`, how a token is scraped from a page and the interactive device flow
  in `TokenCaches`.
* A player's volume, filters and periodic updates: single stores under the player's lock.
* The upgrade's headers and the keep-alive pings: straight-line code around the modelled loop.
* Packet layout, and the cryptography of DAVE, which is `davey`'s: its calls succeed or fail.
* The tracks that pass on the frames of another source's decoder through a second channel (Qobuz,
  Bandcamp, Yandex Music, Reddit, Audius): what the run and the proofs say of a track's position and
  end is of one channel, and they have two.
* Where in the stream a coarse seek lands (`audio/processor.rs:295`): the code throws it away, and
  what is heard is counted from the position asked for.
* Memory orderings: every atomic access is a sequentially consistent step. The code's flags are
  single words whose other data is under locks.
* The moment in which an aborted speak loop has not yet been dropped while its successor starts.

## 8. Plan

Done: the registry with its lease and proofs; players and events composed with it; the player; the
voice gateway, heartbeat, DAVE and speak loop; the three readers; playback of a track; routing and
resolution; YouTube clients, loading, tokens; lyrics. Of the properties that the runs check and that
are not liveness, all but `ListedAsAsked` are proved.

Next, in this order:

1. `TrackPlayback` composed with `PlayerLifecycle`: the lock that a blocked seek holds, against the
   requests and the monitor that want it.
2. Buffer pool and ring buffer at their limits, delay line and timescale at theirs; the route
   planner's rotation under concurrent failures; volume and filters; `load_search`.
